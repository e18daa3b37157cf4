---------------------------- MODULE RunningLate ----------------------------
(* How late each client of one column is: packages/db/day/running-late.ts,  *)
(* read by the day view and the ring-round. The desk claims that a column   *)
(* is so many minutes behind; projectedDelays spreads that claim over the   *)
(* visits as they arrive, sit down, leave, cancel and are pushed.           *)
EXTENDS Integers, FiniteSets, FiniteSetsExt

CONSTANTS
  Appt,        \* numbers: visits of one start are read in their order
  Morning,     \* the days a run starts from: each a function from Appt to visits
  Claims,      \* minutes behind a desk may claim, in ticks
  Shift,       \* minutes a push may ask for
  MaxHour, MaxActs   \* bounds of the instance

VARIABLES
  hour,
  queue,
  late,       \* ProviderRunningLate; no minutes is no row
  acts

lateVars == <<hour, queue, late, acts>>

NoClaim == [minutes |-> 0, claimedAt |-> 0, pushedOff |-> 0]

isPushable(a) == queue[a].status \in {"booked", "confirmed", "checked_in", "in_progress"}

\* parts are the worked spans of a visit from its start, buffers included.
Blocks(v) == {[start |-> v.startAt + part[1], end |-> v.startAt + part[2]] : part \in v.parts}
occupiesStart(v) == Min({b.start : b \in Blocks(v)})
occupiesEnd(v) == Max({b.end : b \in Blocks(v)})

\* The two cancellations are one here: both are off the column.
Status == {"booked", "confirmed", "checked_in", "in_progress", "completed", "no_show", "cancelled"}
WorkedParts ==
  {parts \in SUBSET (Int \X Int) : IsFiniteSet(parts) /\ \E part \in parts : part[2] > 0}
Visits == [status : Status, startAt : Int, endAt : Int, parts : WorkedParts, endedAt : Int]

RunningLateConstants ==
  /\ IsFiniteSet(Appt) /\ Appt \subseteq Nat
  /\ \A day \in Morning :
       /\ day \in [Appt -> Visits]
       /\ \A a \in Appt : day[a].status = "completed" => day[a].endedAt <= 0
  /\ Claims \subseteq Nat /\ Shift \subseteq Nat

LateInit ==
  /\ hour = 0
  /\ queue \in Morning
  /\ late = NoClaim
  /\ acts = 0
-----------------------------------------------------------------------------
(* projectedDelays *)

inChair(a) ==
  queue[a].status = "in_progress" \/ (queue[a].status = "checked_in" /\ queue[a].startAt <= hour)

\* The day is read by start.
ReadBefore(a, b) ==
  \/ queue[a].startAt < queue[b].startAt
  \/ queue[a].startAt = queue[b].startAt /\ a < b

\* D-64(1): the last checkout since the claim, after which nobody inherits it.
checkout ==
  LET out == {a \in Appt : /\ queue[a].status = "completed"
                           /\ late.claimedAt <= queue[a].endedAt /\ queue[a].endedAt <= hour}
  IN {a \in out : \A b \in out : \/ queue[b].endedAt < queue[a].endedAt
                                 \/ queue[b].endedAt = queue[a].endedAt /\ ~ReadBefore(b, a)}

\* D-63, D-64(2): who carries the whole claim, whatever her booked end.
head ==
  LET seated == {a \in Appt : inChair(a)}
      first  == {a \in seated : queue[a].status = "in_progress"}
      among  == IF first # {} THEN first ELSE seated
  IN IF checkout # {} THEN {}
     ELSE {a \in among : \A b \in among : \/ queue[b].startAt < queue[a].startAt
                                          \/ queue[b].startAt = queue[a].startAt /\ a <= b}

\* Mutant: whoever has run past her booked end is taken to have left.
MutinChain(a) == isPushable(a) /\ occupiesEnd(queue[a]) > hour
\* D-64(3): nobody in the chair leaves the chain until checked out.
inChain(a) ==
  inChair(a) \/ (isPushable(a) /\ occupiesEnd(queue[a]) > hour)

chain == {a \in Appt : inChain(a)}
Before(a, b) ==
  LET s == occupiesStart(queue[a])  t == occupiesStart(queue[b]) IN
  s < t \/ (s = t /\ ReadBefore(a, b))

AfterBuffer(v) == Max({0, occupiesEnd(v) - v.endAt})
freeFrom == {queue[a].endedAt + AfterBuffer(queue[a]) : a \in checkout}

\* Mutant: a client waits for everything chained before her, gaps included.
MutWaitsFor(b, start) == TRUE
\* A-134: only what is booked to begin by her start can hold her up.
WaitsFor(b, start) == b.start <= start

\* When what is chained before a lets her start, each at its own delay.
busyUntil(a, delay) ==
  LET start == occupiesStart(queue[a]) IN
  freeFrom \cup UNION {{x.end + delay[b] : x \in {y \in Blocks(queue[b]) : WaitsFor(y, start)}} :
                         b \in {c \in chain : Before(c, a)}}

\* Minutes late of one client of the chain, from those before her.
delayOf(a, delay) ==
  LET busy  == busyUntil(a, delay)
      waits == Max(busy) - occupiesStart(queue[a])
  IN IF a \in head THEN late.minutes + late.pushedOff
     ELSE IF busy = {} THEN late.minutes
     ELSE Min({late.minutes, Max({0, waits})})

projectedDelays ==
  LET delay[a \in chain] == delayOf(a, delay)
  IN IF late.minutes = 0 THEN <<>> ELSE delay

\* Minutes late of everybody, and when each will be seen.
lateness ==
  LET delays == projectedDelays
  IN [a \in Appt |-> IF a \in DOMAIN delays THEN delays[a] ELSE 0]
seenAt == LET l == lateness IN [a \in Appt |-> queue[a].startAt + l[a]]
-----------------------------------------------------------------------------
(* The desk *)

Act == acts < MaxActs /\ acts' = acts + 1

HourPasses ==
  /\ hour < MaxHour
  /\ hour' = hour + 1
  /\ UNCHANGED <<queue, late, acts>>

\* The taps on a visit, as the transition table allows them.
MovesTo(a, to) ==
  LET from == queue[a].status IN
  \/ to = "checked_in" /\ from = "booked"
  \/ to = "in_progress" /\ from \in {"booked", "checked_in"}
  \/ to = "completed" /\ from \in {"checked_in", "in_progress"}
  \/ to = "no_show" /\ from = "booked" /\ hour >= queue[a].startAt
  \/ to = "cancelled" /\ from \in {"booked", "checked_in"}

MoveOn(a, to) ==
  /\ MovesTo(a, to)
  /\ Act
  /\ queue' = [queue EXCEPT ![a].status = to,
                            ![a].endedAt = IF to = "completed" THEN hour ELSE @]
  /\ UNCHANGED <<hour, late>>

\* A desk claim is stamped; what pushes took off stands until it is cleared.
setRunningLate(minutes) ==
  /\ Act
  /\ late' = IF minutes = 0 THEN NoClaim
             ELSE [late EXCEPT !.minutes = minutes, !.claimedAt = hour]
  /\ UNCHANGED <<hour, queue>>

\* Mutant: the head is taken to have moved with the rest.
MutworkedOff(m) ==
  IF m >= late.minutes THEN NoClaim ELSE [late EXCEPT !.minutes = @ - m]
\* A clean push works the claim off; the chair was not moved (D-43, D-63).
workedOff(m) ==
  IF m >= late.minutes THEN NoClaim
  ELSE [late EXCEPT !.minutes = @ - m, !.pushedOff = @ + m]

pushed(from) ==
  {a \in Appt : isPushable(a) /\ queue[a].startAt >= from}

\* Nobody who stays stands where the pushed visits go (Push has the rest).
CleanPush(from, m) ==
  \A a \in pushed(from), b \in Appt \ pushed(from) :
    queue[b].status # "cancelled" =>
      \/ occupiesEnd(queue[b]) <= occupiesStart(queue[a]) + m
      \/ occupiesEnd(queue[a]) + m <= occupiesStart(queue[b])

pushColumn(from, m) ==
  /\ pushed(from) # {} /\ CleanPush(from, m)
  /\ Act
  /\ queue' = [a \in Appt |-> IF a \in pushed(from)
                 THEN [queue[a] EXCEPT !.startAt = @ + m, !.endAt = @ + m] ELSE queue[a]]
  /\ late' = workedOff(m)
  /\ UNCHANGED hour

LateNext ==
  \/ HourPasses
  \/ \E a \in Appt, to \in {"checked_in", "in_progress", "completed", "no_show", "cancelled"} :
       MoveOn(a, to)
  \/ \E minutes \in Claims \cup {0} : setRunningLate(minutes)
  \/ \E a \in Appt, m \in Shift : pushColumn(queue[a].startAt, m)

LateSpec == LateInit /\ [][LateNext]_lateVars
-----------------------------------------------------------------------------
\* Somebody is being served and the chain begins with her.
Seated ==
  \E a \in head : queue[a].status = "in_progress" /\ \A b \in chain \ {a} : Before(a, b)

\* Time alone makes nobody later: while the client in the chair overruns, her
\* booked end going by does not hand the claim to the next one (D-63: at 13:56
\* the client still in the chair left the chain, and the 15:00 inherited it).
TimeAloneDelaysNobody ==
  [][(hour' # hour /\ Seated) =>
       LET was == lateness  is == lateness' IN
       \A a \in Appt : inChain(a)' => is[a] <= was[a]]_lateVars

\* Whoever is late waits for somebody: she carries the claim from the chair, or
\* comes first to an empty one, or a block of a living visit booked to begin by
\* her own, or the last checkout and its buffer, ends no earlier than she
\* begins. Cancelled and missed time is a hole the delay drains into (D-62), and
\* so is a colour's processing (A-134).
NobodyWaitsForAnEmptyChair ==
  LET delay == lateness IN
  \A a \in Appt : delay[a] > 0 =>
    LET begins == occupiesStart(queue[a]) + delay[a] IN
    \/ a \in head
    \/ checkout = {} /\ \A b \in chain \ {a} : Before(a, b)
    \/ \E b \in Appt \ {a} :
         \/ /\ isPushable(b)
            /\ \E x \in Blocks(queue[b]) :
                 x.start <= occupiesStart(queue[a]) /\ x.end + delay[b] >= begins
         \/ queue[b].status = "completed" /\ queue[b].endedAt + AfterBuffer(queue[b]) >= begins

\* Everybody behind the client in the chair.
Waiting == chain \ head

\* Nobody behind her stands in a gap of hers, or over another who is behind.
EachInTurn ==
  \A b \in chain, a \in Waiting : Before(b, a) =>
    \A x \in Blocks(queue[b]) :
      \/ b \in head /\ x.start <= occupiesStart(queue[a])
      \/ b \in Waiting /\ (WaitsFor(x, occupiesStart(queue[a])) => x.end <= occupiesStart(queue[a]))

\* A clean push of everybody behind the client in the chair, and of nobody
\* else, changes what they were told and not when they will be seen: in their
\* turn as it was, or at the new time when that is later (D-63(2): the chair is
\* behind by what the push took off).  A push that takes a client out of a gap,
\* or from over another, changes what she waits for.
PushMovesNobodysTurn ==
  [][(/\ hour' = hour /\ late' # late /\ Seated /\ EachInTurn /\ Waiting # {}
      /\ {a \in Appt : queue'[a].startAt # queue[a].startAt} = Waiting) =>
       LET was == seenAt  is == seenAt' IN
       \A a \in Waiting :
         is[a] = IF queue'[a].startAt > was[a] THEN queue'[a].startAt ELSE was[a]]_lateVars

\* Only what somebody does moves a turn: an overrun client's booked end going
\* by delays nobody, and a clean push changes what clients were told and not
\* when they are seen (D-63).
OnlyActsMoveATurn == TimeAloneDelaysNobody /\ PushMovesNobodysTurn
=============================================================================
