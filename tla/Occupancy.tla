------------------------------ MODULE Occupancy ------------------------------
(***************************************************************************)
(* What an appointment row occupies, and the four questions the service    *)
(* asks about it: what the triggers write (blocks, chair hold), what the   *)
(* exclusion constraints refuse, what the slot engine offers, and which    *)
(* chair the chooser gives.  Every operator takes the table rs, a function *)
(* from appointment ids to rows.                                           *)
(*                                                                         *)
(* Times are whole ticks.  A row's service stands for its snapshotted      *)
(* lines, buffers and segment pattern, which always travel together.       *)
(***************************************************************************)
EXTENDS Statuses, Sequences, FiniteSets

CONSTANTS
  Appt,          \* appointment ids
  Provider,      \* stylists, numbered
  Client,        \* client records
  NoClient,      \* a walk-in with no record
  NChairs,       \* chairs are 1..NChairs, in the order of their names
  Service,       \* visit compositions
  Duration,      \* service -> length of the body
  BufferBefore, BufferAfter,
  Parts,         \* service -> worked parts <<from, to>> of its pattern, <<>> if plain
  NeedsChair,    \* service -> whether its first line requires a chair
  Windows,       \* provider -> working windows, each a span
  NoTime         \* NULL in releasedAt

ASSUME SalonAssumption ==
  /\ Provider \subseteq Nat
  /\ NChairs \in Nat
  /\ Duration \in [Service -> Nat \ {0}]
  /\ BufferBefore \in [Service -> Nat]
  /\ BufferAfter \in [Service -> Nat]
  /\ Parts \in [Service -> Seq(Nat \X Nat)]
  /\ NeedsChair \in [Service -> BOOLEAN]
  /\ NoTime \notin Int

\* appointment_segment_pattern_sane: an odd number of parts, each of positive
\* length, so that the first worked part begins and the last ends the visit.
ASSUME PatternAssumption ==
  \A s \in Service : \A i \in 1..Len(Parts[s]) :
    /\ Parts[s][i][1] < Parts[s][i][2]
    /\ Parts[s][i][2] <= Duration[s]
    /\ i = Len(Parts[s]) => Parts[s][i][2] = Duration[s]

Chair == 1..NChairs
NoChair == 0

Span(s, e) == [start |-> s, end |-> e]

\* The comparison the TypeScript readers make.
overlaps(x, y) == x.start < y.end /\ y.start < x.end

\* The && of two tstzranges: an empty range meets nothing.
rangesMeet(x, y) == overlaps(x, y) /\ x.start < x.end /\ y.start < y.end

Row == [status : AppointmentStatus, provider : Provider,
        startAt : Int, endAt : Int, service : Service, isOverride : BOOLEAN,
        chair : Chair \cup {NoChair}, client : Client \cup {NoClient},
        releasedAt : Int \cup {NoTime}]

\* An id no row has yet.
NoRow == [status |-> "none"]

Live(rs) == {a \in Appt : rs[a].status \in Active}

-----------------------------------------------------------------------------
(* The triggers.                                                           *)

\* Mutant: a release that outlives the status it belongs to.
MutIsCut(r) == r.releasedAt # NoTime

\* The release of a no-show cuts its range only while it is a no-show.
IsCut(r) == r.status = "no_show" /\ r.releasedAt # NoTime

\* Body plus buffers: what a candidate asks for and an override lies over.
Envelope(r) == Span(r.startAt - BufferBefore[r.service],
                    r.endAt + BufferAfter[r.service])

blockedEnd(r) ==
  IF r.isOverride THEN r.startAt
  ELSE IF IsCut(r) THEN r.releasedAt
  ELSE Envelope(r).end

\* appointment_write_blocked_range: zero-width for an override.
blockedRange(r) ==
  Span(IF r.isOverride THEN r.startAt ELSE Envelope(r).start, blockedEnd(r))

\* One worked part of the pattern: the leading buffer belongs to the first
\* and the trailing buffer to the last.
partBlock(r, i) ==
  LET part == Parts[r.service][i] IN
  Span(r.startAt + part[1] - (IF i = 1 THEN BufferBefore[r.service] ELSE 0),
       r.startAt + part[2]
         + (IF i = Len(Parts[r.service]) THEN BufferAfter[r.service] ELSE 0))

\* Deletes what starts at or after the cut and truncates what straddles it.
truncated(bs, cut) ==
  { Span(b.start, IF b.end > cut THEN cut ELSE b.end) : b \in {x \in bs : x.start < cut} }

\* Mutant: only the first worked part of a pattern is written.
Mutblocks(r) ==
  IF r.isOverride \/ Parts[r.service] = <<>> THEN {blockedRange(r)} ELSE {partBlock(r, 1)}

\* appointment_write_blocks: the spans the provider is hands-on.
blocks(r) ==
  IF r.isOverride \/ Parts[r.service] = <<>> THEN {blockedRange(r)}
  ELSE LET worked == {partBlock(r, i) : i \in 1..Len(Parts[r.service])} IN
       IF IsCut(r) THEN truncated(worked, blockedEnd(r)) ELSE worked

\* appointment_write_resource_hold: how long somebody sits in the chair.
body(r) == Span(r.startAt, IF IsCut(r) THEN r.releasedAt ELSE r.endAt)

\* holderKey: two walk-ins without a record are two people.
sameHolder(c1, c2) == c1 = c2 /\ c1 # NoClient

-----------------------------------------------------------------------------
(* The constraints, over every row whose status does not free its slot.    *)

block_no_overlap(rs, a, r) ==
  \A b \in Live(rs) \ {a} :
    rs[b].provider = r.provider =>
      \A x \in blocks(r), y \in blocks(rs[b]) : ~rangesMeet(x, y)

resource_no_overlap(rs, a, r) ==
  \A b \in Live(rs) \ {a} :
    /\ rs[b].chair = r.chair
    /\ ~sameHolder(rs[b].client, r.client)
    => ~rangesMeet(blockedRange(r), blockedRange(rs[b]))

resource_body_no_overlap(rs, a, r) ==
  \A b \in Live(rs) \ {a} :
    rs[b].chair = r.chair => ~rangesMeet(body(r), body(rs[b]))

released_within_visit(r) ==
  r.releasedAt # NoTime => r.startAt <= r.releasedAt /\ r.releasedAt < r.endAt

\* A pattern of parts adds up to the body; a plain visit has none to add up.
segment_pattern_sums(r) ==
  LET parts == Parts[r.service]
  IN parts # <<>> => r.endAt = r.startAt + parts[Len(parts)][2]

\* Mutant: the hold constraints checked on INSERT and not on UPDATE.
Mutaccepted(rs, a, r) ==
  /\ released_within_visit(r)
  /\ segment_pattern_sums(r)
  /\ r.status \in Active =>
       /\ block_no_overlap(rs, a, r)
       /\ (r.chair # NoChair /\ rs[a] = NoRow) =>
            resource_no_overlap(rs, a, r) /\ resource_body_no_overlap(rs, a, r)

\* What the database lets a transaction commit for the row of a.
accepted(rs, a, r) ==
  /\ released_within_visit(r)
  /\ segment_pattern_sums(r)
  /\ r.status \in Active =>
       /\ block_no_overlap(rs, a, r)
       /\ r.chair # NoChair =>
            resource_no_overlap(rs, a, r) /\ resource_body_no_overlap(rs, a, r)

-----------------------------------------------------------------------------
(* The readers.  self is the appointment being moved, excluded from its    *)
(* own busy set, or NoRow when there is none.                              *)

\* The busy set: an override by the range it lies over, and nothing empty.
busy(r) == IF r.isOverride THEN {Envelope(r)} ELSE {x \in blocks(r) : x.start < x.end}

columnFree(rs, self, r) ==
  \A b \in Live(rs) \ {self} :
    rs[b].provider = r.provider => \A x \in busy(rs[b]) : ~overlaps(Envelope(r), x)

\* Mutant: the room rule without its first arm, buffers that anyone may share.
MutseatBlocked(h, r) == overlaps(body(h), Span(r.startAt, r.endAt))

\* Does the hold of h block a visit shaped like r?
seatBlocked(h, r) ==
  \/ overlaps(blockedRange(h), Envelope(r)) /\ ~sameHolder(h.client, r.client)
  \/ overlaps(body(h), Span(r.startAt, r.endAt))

freeChairs(rs, self, r) ==
  {c \in Chair : \A b \in Live(rs) \ {self} : rs[b].chair = c => ~seatBlocked(rs[b], r)}

canSeat(rs, self, r) == freeChairs(rs, self, r) # {}

\* computeSlotsIn: the engine's answer for one candidate start.
offered(rs, self, r) ==
  /\ \E w \in Windows[r.provider] :
       w.start <= r.startAt /\ r.startAt < w.end /\ r.endAt <= w.end
  /\ columnFree(rs, self, r)
  /\ NeedsChair[r.service] => canSeat(rs, self, r)

\* The chairs her own other visits hold over touching buffers.
chairsAlreadyHeldBy(rs, self, r) ==
  LET hers == {b \in Live(rs) \ {self} :
                 /\ rs[b].chair # NoChair
                 /\ sameHolder(rs[b].client, r.client)
                 /\ overlaps(blockedRange(rs[b]), Envelope(r))
                 /\ ~overlaps(body(rs[b]), Span(r.startAt, r.endAt))}
  IN {rs[b].chair : b \in {x \in hers :
        \A y \in hers : blockedRange(rs[x]).start <= blockedRange(rs[y]).start}}

\* findFreeResource: the preferred chair when it is free (the chair the visit
\* has, or else one she already holds), otherwise the first free one.  More
\* than one answer where the order by blockedStart leaves a tie.
findFreeResource(rs, self, r, prefer) ==
  LET free   == freeChairs(rs, self, r)
      wanted == IF prefer # NoChair THEN {prefer} ELSE chairsAlreadyHeldBy(rs, self, r)
      first  == {c \in free : \A k \in free : c <= k}
  IN IF wanted = {} THEN first
     ELSE UNION {IF c \in free THEN {c} ELSE first : c \in wanted}
=============================================================================
