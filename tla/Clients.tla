------------------------------ MODULE Clients ------------------------------
(***************************************************************************)
(* The client records of a salon (packages/db/clients): the pinned note    *)
(* and its versions, duplicates merged into one another, and the rows of   *)
(* the book that point at a record.  Desks save notes from pages they      *)
(* opened earlier, merge, attach and book; clients book for themselves.    *)
(* Each step is one statement at READ COMMITTED.                           *)
(*                                                                         *)
(* A note is the set of facts it states, so that joining two notes is      *)
(* their union.  A person stands for a canonical number with a folded      *)
(* name (bookable_phone, bookable_fold).                                   *)
(***************************************************************************)
EXTENDS Integers, Sequences, FiniteSets

CONSTANTS
  ClientId,       \* ids of client records
  Person,         \* canonical number and folded name
  Fact,           \* what a note may state
  ClientRow,      \* appointments, waitlist entries and series
  Reception, Visitor,   \* requests of the salon and of its clients
  Nobody,         \* NULL: in no other set
  Threshold,      \* Business.noShowBlockThreshold
  MaxVersions,    \* bound on the versions of a note
  MaxRequests     \* bound on the requests made

VARIABLES
  client,     \* the Client table: whose, the pinned note, the survivor of a merge
  version,    \* ClientNoteVersion: the versions of each note, oldest first
  row,        \* the rows that carry a clientId
  desk, visitor,
  requests,   \* how many were made
  overtaken   \* history: a request committed on records it had read before
              \* another one, of the same records, committed a merge

recordVars == <<client, version, row, desk, visitor, requests, overtaken>>

Id == ClientId \cup {Nobody}
ClientsConstants == Nobody \notin ClientId \cup Person

Merge == -1   \* the base of a version a merge wrote

LiveClient(c) == client[c].who # Nobody /\ client[c].merged = Nobody

\* One hop by construction, says the comment; one hop is what is followed.
resolveTombstones(c) == IF client[c].merged = Nobody THEN c ELSE client[c].merged

matches(p) == {c \in ClientId : client[c].who = p}

\* The website's reuse match: a live record of hers, or where a merged one went.
findReturningClient(p) ==
  IF matches(p) = {} THEN {Nobody}
  ELSE IF \E c \in matches(p) : LiveClient(c) THEN {c \in matches(p) : LiveClient(c)}
  ELSE {client[c].merged : c \in matches(p)}

noShows(c) == Cardinality({r \in ClientRow : row[r] = [client |-> c, status |-> "no_show"]})
selfServeBlocked(c) == Threshold > 0 /\ noShows(c) >= Threshold

latest(c) == Len(version[c])
-----------------------------------------------------------------------------
(* What a request holds: row locks are kept to the end of its transaction. *)

idle == [at |-> "idle", on |-> Nobody, from |-> Nobody, base |-> 0, shown |-> {}, text |-> {},
         rows |-> {}, tombs |-> {}]

Held(d) ==
  CASE desk[d].at \in {"saving", "writing"} -> {desk[d].on}
    [] desk[d].at = "moved" -> desk[d].tombs
    [] desk[d].at = "kept" -> desk[d].tombs \cup {desk[d].on}
    [] OTHER -> {}
LocksFree(d, cs) == \A e \in Reception \ {d} : Held(e) \cap cs = {}
RowsFree(d, rs) == \A e \in Reception \ {d} : desk[e].at \in {"moved", "kept"} => desk[e].rows \cap rs = {}

Merging(d) == desk[d].at \in {"merging", "moved", "kept"}
UnderWay(d) == desk[d].at \notin {"idle", "opening", "page"}
Read(d) == {desk[d].on, desk[d].from}

\* This request commits on cs while another one that has read them is under
\* way, and one of the two is a merge.
Overtakes(d, cs, merges) ==
  \/ \E e \in Reception \ {d} :
       UnderWay(e) /\ (Read(e) \cap cs) \ {Nobody} # {} /\ (merges \/ Merging(e))
  \/ merges /\ \E v \in Visitor : visitor[v].client \in cs

unchangedButDesk == UNCHANGED <<client, version, row, visitor, overtaken>>

Begins == requests < MaxRequests /\ requests' = requests + 1
-----------------------------------------------------------------------------
(* The client's page and its note form.                                    *)

\* The page reads the record first ...
OpenPage(d, c) ==
  /\ Begins
  /\ desk[d].at = "idle" /\ client[c].who # Nobody
  /\ LET r == resolveTombstones(c)
     IN desk' = [desk EXCEPT ![d] = [idle EXCEPT !.at = "opening", !.on = r, !.shown = client[r].note]]
  /\ unchangedButDesk

\* ... and then which version of the note is the newest.
LoadVersion(d) ==
  /\ desk[d].at = "opening"
  /\ desk' = [desk EXCEPT ![d].at = "page", ![d].base = latest(desk[d].on)]
  /\ unchangedButDesk /\ UNCHANGED requests

\* Mutant: the save takes no lock on the client's row.
MutSubmit(d, text) ==
  /\ desk[d].at = "page" /\ text # desk[d].shown
  /\ desk' = [desk EXCEPT ![d].at = "saving", ![d].text = text]
  /\ unchangedButDesk /\ UNCHANGED requests

\* SELECT ... FOR UPDATE.
Submit(d, text) ==
  /\ desk[d].at = "page" /\ text # desk[d].shown
  /\ LocksFree(d, {desk[d].on})
  /\ desk' = [desk EXCEPT ![d].at = "saving", ![d].text = text]
  /\ unchangedButDesk /\ UNCHANGED requests

\* The stale check.  A refusal hands back the newest version and its text.
CheckBase(d) ==
  /\ desk[d].at = "saving"
  /\ LET c == desk[d].on IN
     desk' = [desk EXCEPT ![d] =
       IF latest(c) = @.base THEN [@ EXCEPT !.at = "writing"]
       ELSE [@ EXCEPT !.at = "page", !.base = latest(c), !.text = {},
                      !.shown = IF latest(c) = 0 THEN {} ELSE version[c][latest(c)].text]]
  /\ unchangedButDesk /\ UNCHANGED requests

\* The version and the note commit together.  The form keeps the base it was
\* rendered with.
SaveNote(d) ==
  LET c == desk[d].on IN
  /\ desk[d].at = "writing" /\ latest(c) < MaxVersions
  /\ version' = [version EXCEPT ![c] = Append(@, [text |-> desk[d].text, base |-> desk[d].base])]
  /\ client' = [client EXCEPT ![c].note = desk[d].text]
  /\ desk' = [desk EXCEPT ![d].at = "page", ![d].shown = desk[d].text, ![d].text = {}]
  /\ overtaken' = (overtaken \/ Overtakes(d, {c}, FALSE))
  /\ UNCHANGED <<row, visitor, requests>>
-----------------------------------------------------------------------------
(* mergeClients: l into s.                                                 *)

ReadBoth(d, s, l) ==
  /\ Begins
  /\ desk[d].at = "idle" /\ s # l /\ LiveClient(s) /\ LiveClient(l)
  /\ desk' = [desk EXCEPT ![d] = [idle EXCEPT !.at = "merging", !.on = s, !.from = l,
                                    !.shown = client[s].note, !.text = client[l].note]]
  /\ unchangedButDesk

\* The appointments, waitlist entries, series and tombstones of the loser.
rowsOf(l) == {r \in ClientRow : row[r].client = l}
tombsOf(l) == {c \in ClientId : client[c].merged = l}

MoveRows(d) ==
  LET rows == rowsOf(desk[d].from)  tombs == tombsOf(desk[d].from) IN
  /\ desk[d].at = "merging" /\ RowsFree(d, rows) /\ LocksFree(d, tombs)
  /\ desk' = [desk EXCEPT ![d].at = "moved", ![d].rows = rows, ![d].tombs = tombs]
  /\ unchangedButDesk /\ UNCHANGED requests

\* The survivor's note, from what was read of both.
KeepSurvivor(d) ==
  /\ desk[d].at = "moved" /\ LocksFree(d, {desk[d].on})
  /\ desk' = [desk EXCEPT ![d].at = "kept"]
  /\ unchangedButDesk /\ UNCHANGED requests

\* The rows a merge moves, once it commits.
moved(d) == [r \in ClientRow |-> IF r \in desk[d].rows THEN [row[r] EXCEPT !.client = desk[d].on] ELSE row[r]]

\* Both notes in full, as they were read.
mergeNotes(d) == desk[d].shown \cup desk[d].text

\* Mutant: what pointed at the loser keeps pointing at it.
MutBuried(d) ==
  [c \in ClientId |->
     [client[c] EXCEPT !.note = IF c = desk[d].on THEN mergeNotes(d) ELSE @,
                       !.merged = IF c = desk[d].from THEN desk[d].on ELSE @]]

\* The tombstones are pointed at the survivor, the survivor's note is written,
\* the loser becomes a tombstone.
buried(d) ==
  [c \in ClientId |->
     [client[c] EXCEPT !.note = IF c = desk[d].on THEN mergeNotes(d) ELSE @,
                       !.merged = IF c \in desk[d].tombs \cup {desk[d].from} THEN desk[d].on ELSE @]]

BuryLoser(d) ==
  LET s == desk[d].on  l == desk[d].from IN
  /\ desk[d].at = "kept" /\ LocksFree(d, {l}) /\ latest(s) < MaxVersions
  /\ client' = buried(d) /\ row' = moved(d)
  /\ version' = IF desk[d].text = {} THEN version
                ELSE [version EXCEPT ![s] = Append(@, [text |-> mergeNotes(d), base |-> Merge])]
  /\ overtaken' = (overtaken \/ Overtakes(d, {s, l}, TRUE))
  /\ desk' = [desk EXCEPT ![d] = idle]
  /\ UNCHANGED <<visitor, requests>>

\* A closed tab, a lost connection, or PostgreSQL ending a deadlock.
Leave(d) ==
  /\ desk[d].at # "idle"
  /\ desk' = [desk EXCEPT ![d] = idle]
  /\ unchangedButDesk /\ UNCHANGED requests
-----------------------------------------------------------------------------
(* Rows are given a client: setAppointmentClient, the desk's booking       *)
(* panel, and a client booking for herself.                                *)

unused == {r \in ClientRow : row[r].status = "none"}

\* Nobody as the new client detaches; a merged record is refused, not followed.
LoadAttachable(d, r, c) ==
  /\ Begins
  /\ desk[d].at = "idle" /\ r \notin unused /\ row[r].client # c
  /\ c # Nobody => LiveClient(c)
  /\ desk' = [desk EXCEPT ![d] = [idle EXCEPT !.at = "attaching", !.on = c, !.from = row[r].client,
                                               !.rows = {r}]]
  /\ unchangedButDesk

\* Conditional on the client it was decided against.
Attach(d) ==
  /\ desk[d].at = "attaching" /\ RowsFree(d, desk[d].rows)
  /\ row' = [r \in ClientRow |-> IF r \in desk[d].rows /\ row[r].client = desk[d].from
                                 THEN [row[r] EXCEPT !.client = desk[d].on] ELSE row[r]]
  /\ overtaken' = (overtaken \/ Overtakes(d, {desk[d].on, desk[d].from}, FALSE))
  /\ desk' = [desk EXCEPT ![d] = idle]
  /\ UNCHANGED <<client, version, visitor, requests>>

\* The panel keeps the client the search found; a walk-in has none.
PickClient(d, c) ==
  /\ Begins
  /\ desk[d].at = "idle"
  /\ \/ c = Nobody /\ desk' = [desk EXCEPT ![d] = [idle EXCEPT !.at = "booking"]]
     \/ /\ c # Nobody /\ client[c].who # Nobody
        /\ desk' = [desk EXCEPT ![d] = [idle EXCEPT !.at = "booking", !.on = resolveTombstones(c)]]
  /\ unchangedButDesk

BookFor(d, r) ==
  /\ desk[d].at = "booking" /\ r \in unused
  /\ row' = [row EXCEPT ![r] = [client |-> desk[d].on, status |-> "booked"]]
  /\ overtaken' = (overtaken \/ Overtakes(d, {desk[d].on}, FALSE))
  /\ desk' = [desk EXCEPT ![d] = idle]
  /\ UNCHANGED <<client, version, visitor, requests>>

away == [who |-> Nobody, client |-> Nobody]

\* confirmAppointment looks her up ...
LookUp(v, p) ==
  /\ Begins
  /\ visitor[v] = away
  /\ \E c \in findReturningClient(p) : visitor' = [visitor EXCEPT ![v] = [who |-> p, client |-> c]]
  /\ UNCHANGED <<client, version, row, desk, overtaken>>

\* ... writes a record if there was none ...
CreateClient(v, c) ==
  /\ visitor[v].who # Nobody /\ visitor[v].client = Nobody
  /\ client[c].who = Nobody
  /\ client' = [client EXCEPT ![c].who = visitor[v].who]
  /\ visitor' = [visitor EXCEPT ![v].client = c]
  /\ UNCHANGED <<version, row, desk, overtaken, requests>>

\* ... and books, unless her missed visits say she has to ring.
BookHerself(v, r) ==
  /\ visitor[v].client # Nobody /\ r \in unused
  /\ ~selfServeBlocked(visitor[v].client)
  /\ row' = [row EXCEPT ![r] = [client |-> visitor[v].client, status |-> "booked"]]
  /\ overtaken' = (overtaken \/ \E e \in Reception : Merging(e) /\ visitor[v].client \in Read(e))
  /\ visitor' = [visitor EXCEPT ![v] = away]
  /\ UNCHANGED <<client, version, desk, requests>>

TurnedAway(v) ==
  /\ visitor[v] # away
  /\ visitor' = [visitor EXCEPT ![v] = away]
  /\ UNCHANGED <<client, version, row, desk, overtaken, requests>>

MarkNoShow(r) ==
  /\ row[r].status = "booked" /\ RowsFree(Nobody, {r})
  /\ row' = [row EXCEPT ![r].status = "no_show"]
  /\ UNCHANGED <<client, version, desk, visitor, overtaken, requests>>
-----------------------------------------------------------------------------
RecordsInit ==
  /\ client \in [ClientId -> [who : Person \cup {Nobody}, note : {{}}, merged : {Nobody}]]
  /\ version = [c \in ClientId |-> <<>>]
  /\ row = [r \in ClientRow |-> [client |-> Nobody, status |-> "none"]]
  /\ desk = [d \in Reception |-> idle]
  /\ visitor = [v \in Visitor |-> away]
  /\ requests = 0 /\ overtaken = FALSE

DeskStep(d) ==
  \/ \E c \in ClientId : OpenPage(d, c)
  \/ LoadVersion(d) \/ CheckBase(d) \/ SaveNote(d)
  \/ \E text \in SUBSET Fact : Submit(d, text)
  \/ \E s, l \in ClientId : ReadBoth(d, s, l)
  \/ MoveRows(d) \/ KeepSurvivor(d) \/ BuryLoser(d)
  \/ \E r \in ClientRow, c \in Id : LoadAttachable(d, r, c)
  \/ \E c \in Id : PickClient(d, c)
  \/ Attach(d)
  \/ \E r \in ClientRow : BookFor(d, r)
  \/ Leave(d)

VisitorStep(v) ==
  \/ \E p \in Person : LookUp(v, p)
  \/ \E c \in ClientId : CreateClient(v, c)
  \/ \E r \in ClientRow : BookHerself(v, r)
  \/ TurnedAway(v)

RecordsNext ==
  \/ \E d \in Reception : DeskStep(d)
  \/ \E v \in Visitor : VisitorStep(v)
  \/ \E r \in ClientRow : MarkNoShow(r)

RecordsSpec == RecordsInit /\ [][RecordsNext]_recordVars
-----------------------------------------------------------------------------
RecordsTypeOK ==
  /\ client \in [ClientId -> [who : Person \cup {Nobody}, note : SUBSET Fact, merged : Id]]
  /\ version \in [ClientId -> Seq([text : SUBSET Fact, base : Nat \cup {Merge}])]
  /\ row \in [ClientRow -> [client : Id, status : {"none", "booked", "no_show"}]]
  /\ desk \in [Reception -> [at : {"idle", "opening", "page", "saving", "writing", "merging", "moved",
                              "kept", "attaching", "booking"},
                        on : Id, from : Id, base : Nat, shown : SUBSET Fact, text : SUBSET Fact,
                        rows : SUBSET ClientRow, tombs : SUBSET ClientId]]
  /\ visitor \in [Visitor -> [who : Person \cup {Nobody}, client : Id]]
  /\ requests \in Nat /\ overtaken \in BOOLEAN

\* A save lands on the version its form was rendered from: of two saves made
\* from one version, in whatever order their statements run, the second is
\* refused (clients.ts:210, A-158).
SavesFollowTheirBase ==
  \A c \in ClientId : \A i \in 1 .. latest(c) : version[c][i].base \in {i - 1, Merge}

\* As long as no merge ran beside another request on the same records: the
\* survivor of a merge is live, so one hop finds her; every row is on a live
\* record, so her history, her place in the queue and her missed visits follow
\* the merge; and a note is the text of its newest version, so that a save
\* from before the merge is refused (clients.ts:400-448, schema.prisma:816).
MergesCarryEverything ==
  ~overtaken =>
    /\ \A c \in ClientId : client[c].merged # Nobody => LiveClient(client[c].merged)
    /\ \A r \in ClientRow : row[r].client # Nobody => LiveClient(row[r].client)
    /\ \A c \in ClientId : client[c].note = IF latest(c) = 0 THEN {} ELSE version[c][latest(c)].text

RecordsLoseNothing == SavesFollowTheirBase /\ MergesCarryEverything
=============================================================================
