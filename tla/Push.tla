-------------------------------- MODULE Push --------------------------------
(* "Push the column from here" and the running-late claim it works off:       *)
(* packages/db/day/push-column.ts, running-late.ts and lib/day/actions.ts,    *)
(* on one working day. The push plans (previewPush) and writes (pushColumn)   *)
(* in one transaction at READ COMMITTED, with the exclusion constraints        *)
(* deferred to its commit; other desks commit in between.                      *)
EXTENDS Occupancy

LOCAL INSTANCE SequencesExt

CONSTANTS
  Table,       \* the tables a run starts from: committed, so each accepted
  Shift,       \* minutes a push may ask for, in ticks, not zero
  Claims,       \* minutes behind a desk may claim
  MaxPushes, MaxUpsets   \* bounds of the instance

VARIABLES
  appt,        \* the committed table
  late,        \* ProviderRunningLate; no minutes is no row
  push,        \* the push in flight
  dedupe,      \* the keys of the notices sent, each an appointment and a start
  heard,       \* the start each client was last told
  pushes, upsets

vars == <<appt, late, push, dedupe, heard, pushes, upsets>>

OnTime == [minutes |-> 0, pushedOff |-> 0]
NoPush == [stage |-> "idle"]

Init ==
  /\ appt \in {rs \in Table : \A a \in Appt : rs[a] # NoRow => accepted(rs, a, rs[a])}
  /\ late = [p \in Provider |-> OnTime]
  /\ push = NoPush
  /\ dedupe = {}
  /\ heard = [a \in Appt |-> IF appt[a] = NoRow THEN NoTime ELSE appt[a].startAt]
  /\ pushes = 0
  /\ upsets = 0
-----------------------------------------------------------------------------
(* The planner: pure functions of the table it has read. *)

shifted(x, m) == Span(x.start + m, x.end + m)
shiftedRow(r, m) == [r EXCEPT !.startAt = @ + m, !.endAt = @ + m]

\* Whose time the push may move.
moveSet(rs, p, from) ==
  {a \in Live(rs) : rs[a].provider = p /\ rs[a].status \in Pushable /\ rs[a].startAt >= from}

\* Everything else standing where the moved visits are or go, unless it is empty.
occupying(rs, p, from, m) ==
  LET moving == moveSet(rs, p, from)
      starts == {from, from + m} \cup {blockedRange(rs[a]).start + m : a \in moving}
      ends   == {from, from + m} \cup {blockedRange(rs[a]).end + m : a \in moving}
  IN {b \in Live(rs) \ moving :
        /\ moving # {}
        /\ rs[b].provider = p
        /\ \E e \in ends : blockedRange(rs[b]).start < e
        /\ \E s \in starts : blockedRange(rs[b]).end > s
        /\ blockedRange(rs[b]).start < blockedRange(rs[b]).end}

\* Past closing by what it blocks, before opening by when she sits down.
outsideTheDay(r, m) ==
  /\ Windows[r.provider] # {}
  /\ \/ \A w \in Windows[r.provider] : blockedRange(r).end + m > w.end
     \/ \A w \in Windows[r.provider] : r.startAt + m < w.start

\* Mutant: back to back counts as a collision.
Mutcascade(rs, moving, standing, m, problems) ==
  LET rounds[n \in Nat] ==
        IF n = 0 THEN problems
        ELSE LET stays == rounds[n - 1] IN
             stays \cup {a \in moving \ stays : \E s \in stays \cup standing :
               /\ blockedRange(rs[a]).start + m <= blockedRange(rs[s]).end
               /\ blockedRange(rs[s]).start <= blockedRange(rs[a]).end + m}
  IN rounds[Cardinality(moving)]
\* D-26: what would shift onto one that stays cannot move either, and so on.
cascade(rs, moving, standing, m, problems) ==
  LET rounds[n \in Nat] ==
        IF n = 0 THEN problems
        ELSE LET stays == rounds[n - 1] IN
             stays \cup {a \in moving \ stays : \E s \in stays \cup standing :
               overlaps(shifted(blockedRange(rs[a]), m), blockedRange(rs[s]))}
  IN rounds[Cardinality(moving)]

\* planChairs: first fit in column order against everybody who stays, her own
\* chair first. The answer holds the table so seated and whoever found no chair.
planChairs(rs, movers, m) ==
  LET order == SetToSortSeq(movers, LAMBDA a, b : rs[a].startAt < rs[b].startAt)
      seat[i \in 0 .. Len(order)] ==
        IF i = 0
        THEN [table |-> [b \in Appt |-> IF b \in movers THEN NoRow ELSE rs[b]], blocked |-> {}]
        ELSE LET a == order[i]
                 sofar == seat[i - 1]
                 r == shiftedRow(rs[a], m)
                 free == {c \in Chair : \A b \in Live(sofar.table) :
                            sofar.table[b].chair = c => ~seatBlocked(sofar.table[b], r)}
             IN IF sofar.blocked # {} \/ (r.chair # NoChair /\ free = {})
                THEN [sofar EXCEPT !.blocked = IF @ = {} THEN {a} ELSE @]
                ELSE [sofar EXCEPT !.table[a] =
                       [r EXCEPT !.chair = IF r.chair = NoChair \/ r.chair \in free THEN r.chair
                                           ELSE CHOOSE c \in free : \A k \in free : c <= k]]
  IN seat[Len(order)]

\* The cascade and the chairs feed each other until nothing is added.
staying(rs, p, from, m) ==
  LET moving   == moveSet(rs, p, from)
      standing == occupying(rs, p, from, m)
      settle[n \in Nat] ==
        IF n = 0
        THEN cascade(rs, moving, standing, m, {a \in moving : outsideTheDay(rs[a], m)})
        ELSE LET stays == settle[n - 1] IN
             cascade(rs, moving, standing, m, stays \cup planChairs(rs, moving \ stays, m).blocked)
  IN settle[Cardinality(moving)]

deltaAfterPush(current, m, leftBehind) ==
  IF m <= 0 \/ leftBehind # {} THEN current
  ELSE IF m >= current THEN 0 ELSE current - m

\* previewPush: who moves and onto which chair, and the claim as it would be.
previewPush(rs, p, from, m) ==
  LET stays  == staying(rs, p, from, m)
      movers == moveSet(rs, p, from) \ stays
      table  == planChairs(rs, movers, m).table
  IN [to |-> [a \in movers |-> table[a]],
      before |-> late[p].minutes,
      after |-> deltaAfterPush(late[p].minutes, m, stays)]
-----------------------------------------------------------------------------
(* The push *)

\* The preview, inside the push's own transaction. Nobody to move ends it.
Preview(p, from, m) ==
  LET preview == previewPush(appt, p, from, m) IN
  /\ push.stage = "idle"
  /\ pushes < MaxPushes
  /\ DOMAIN preview.to # {}
  /\ push' = [stage |-> "planned", provider |-> p, minutes |-> m, preview |-> preview,
              read |-> <<>>, disturbed |-> FALSE]
  /\ pushes' = pushes + 1
  /\ UNCHANGED <<appt, late, dedupe, heard, upsets>>

\* Each planned visit is read again: its times, and nothing else.
ReadAgain ==
  /\ push.stage = "planned"
  /\ push' = [push EXCEPT !.stage = "read",
       !.read = [a \in DOMAIN push.preview.to |-> [startAt |-> appt[a].startAt, endAt |-> appt[a].endAt]]]
  /\ UNCHANGED <<appt, late, dedupe, heard, pushes, upsets>>

\* Mutant: a visit keeps the chair it has.
Mutpushed(a) ==
  [appt[a] EXCEPT !.startAt = push.read[a].startAt + push.minutes,
                  !.endAt = push.read[a].endAt + push.minutes]
\* The update by id: the times read plus the shift, and the planned chair.
pushed(a) ==
  [appt[a] EXCEPT !.startAt = push.read[a].startAt + push.minutes,
                  !.endAt = push.read[a].endAt + push.minutes,
                  !.chair = IF push.preview.to[a].chair = NoChair THEN @
                            ELSE push.preview.to[a].chair]

afterPush ==
  [a \in Appt |-> IF a \in DOMAIN push.read THEN pushed(a) ELSE appt[a]]

\* The deferred constraints, at the commit.
acceptedAtCommit == \A a \in DOMAIN push.read : accepted(afterPush, a, afterPush[a])

\* A notice is keyed on the start it announces; a key already used is not sent.
notices ==
  {<<a, afterPush[a].startAt>> : a \in {x \in DOMAIN push.read : appt[x].client # NoClient}}

workedOff(claim, preview) ==
  IF preview.after = preview.before THEN claim
  ELSE IF preview.after = 0 THEN OnTime
  ELSE [minutes |-> preview.after,
        pushedOff |-> claim.pushedOff + preview.before - preview.after]

\* The writes, the claim and the notices, in one commit.
PushCommits ==
  /\ push.stage = "read"
  /\ acceptedAtCommit
  /\ appt' = afterPush
  /\ late' = [late EXCEPT ![push.provider] = workedOff(@, push.preview)]
  /\ dedupe' = dedupe \cup notices
  /\ heard' = [a \in Appt |-> IF \E n \in notices \ dedupe : n[1] = a
                              THEN afterPush[a].startAt ELSE heard[a]]
  /\ push' = NoPush
  /\ UNCHANGED <<pushes, upsets>>

\* Somebody committed in between, or a CHECK refused: nothing moves.
PushFails ==
  /\ push.stage = "read" /\ ~acceptedAtCommit
  /\ push' = NoPush
  /\ UNCHANGED <<appt, late, dedupe, heard, pushes, upsets>>
-----------------------------------------------------------------------------
(* The desks around it *)

Disturbing ==
  /\ upsets < MaxUpsets /\ upsets' = upsets + 1
  /\ push.stage # "idle"
  /\ push' = [push EXCEPT !.disturbed = TRUE]

\* Any other writer of the table, as far as a push can tell: a visit moved (and
\* its client told), cancelled, marked missed, released or booked.
OtherDeskWrites(a, r) ==
  /\ Disturbing
  /\ accepted(appt, a, r)
  /\ appt' = [appt EXCEPT ![a] = r]
  /\ heard' = [heard EXCEPT ![a] = IF appt[a] = NoRow \/ r.startAt # appt[a].startAt
                                   THEN r.startAt ELSE @]
  /\ UNCHANGED <<late, dedupe, pushes>>

otherWrites(a) ==
  IF appt[a] = NoRow THEN {}
  ELSE {r \in {shiftedRow(appt[a], 1), [appt[a] EXCEPT !.status = "cancelled"],
               [appt[a] EXCEPT !.status = "no_show", !.releasedAt = appt[a].startAt]} :
          appt[a].status \in NotYetArrived}

\* A desk's claim, or "back on time"; a re-claim leaves what pushes took off.
setRunningLate(p, minutes) ==
  /\ push.stage = "idle"
  /\ minutes # late[p].minutes
  /\ late' = [late EXCEPT ![p] = IF minutes = 0 THEN OnTime ELSE [@ EXCEPT !.minutes = minutes]]
  /\ UNCHANGED <<appt, push, dedupe, heard, pushes, upsets>>

\* The same while a push is in flight.
setRunningLateMeanwhile(p, minutes) ==
  /\ minutes # late[p].minutes
  /\ Disturbing
  /\ late' = [late EXCEPT ![p] = IF minutes = 0 THEN OnTime ELSE [@ EXCEPT !.minutes = minutes]]
  /\ UNCHANGED <<appt, dedupe, heard, pushes>>

Next ==
  \/ \E p \in Provider, m \in Shift, a \in Live(appt) : Preview(p, appt[a].startAt, m)
  \/ ReadAgain \/ PushCommits \/ PushFails
  \/ \E a \in Appt : \E r \in otherWrites(a) : OtherDeskWrites(a, r)
  \/ \E p \in Provider, minutes \in Claims \cup {0} :
       setRunningLate(p, minutes) \/ setRunningLateMeanwhile(p, minutes)

Spec == Init /\ [][Next]_vars
-----------------------------------------------------------------------------
Undisturbed == push.stage # "idle" /\ ~push.disturbed

\* What the preview promised is what the database accepts, with every visit
\* where it was shown, inside the day, and the claim as it was stated; only
\* somebody else's commit can come between (push-column.ts:813).
PreviewIsKept ==
  (Undisturbed /\ push.stage = "read") =>
    /\ acceptedAtCommit
    /\ \A a \in DOMAIN push.read :
         afterPush[a] = push.preview.to[a] /\ ~outsideTheDay(afterPush[a], 0)
    /\ late[push.provider].minutes = push.preview.before

\* Nobody is left behind without cause: in a column without chairs, whoever
\* could move together with others is moved (D-26: move what can move).
clearOf(rs, S, p, from, m) ==
  \A a \in S, b \in (moveSet(rs, p, from) \ S) \cup occupying(rs, p, from, m) :
    ~overlaps(shifted(blockedRange(rs[a]), m), blockedRange(rs[b]))
MovesWhatCanMove ==
  (push.stage = "idle" /\ pushes = 0 /\ \A a \in Live(appt) : appt[a].chair = NoChair) =>
    \A p \in Provider, m \in Shift, x \in Live(appt) :
      LET from == appt[x].startAt
          fit  == {a \in moveSet(appt, p, from) : ~outsideTheDay(appt[a], m)}
      IN moveSet(appt, p, from) \ staying(appt, p, from, m)
           = UNION {S \in SUBSET fit : clearOf(appt, S, p, from, m)}

\* A client whose visit the desk moved was last told the time it is at
\* (push-column.ts:647: a column that moved without anybody being told).
NobodyMovedSilently ==
  push.stage = "idle" =>
    \A a \in Live(appt) : (appt[a].status \in Pushable /\ appt[a].client # NoClient)
                            => heard[a] = appt[a].startAt
=============================================================================
