-------------------------------- MODULE Links --------------------------------
(***************************************************************************)
(* One visit and the links its client manages it with: issued with the     *)
(* confirmation and again with a reminder (manage-token.ts), re-pointed    *)
(* when the visit's end moves, and opened in pages from which she          *)
(* confirms, cancels or moves it (lib/manage/actions.ts), while desks tap, *)
(* move and re-service the visit and a message may never arrive.           *)
(*                                                                         *)
(* A transition, a move and a change of services are one step each here:   *)
(* Lifecycle and Book take them apart.  A cancellation is two, as it is    *)
(* in the code.                                                            *)
(***************************************************************************)
EXTENDS Statuses, Sequences

CONSTANTS
  Menu,        \* what may be booked: [minutes, cutoff], the worst of its lines
  Hours24,     \* how long after the end a link works, and how long before the
               \* start a reminder is due
  StartTimes,  \* when a visit may start
  Tab,         \* pages she may have open
  MaxLinks, MaxChanges, LastTick     \* bounds

ASSUME LinksAssumption ==
  /\ Menu \subseteq [minutes : Nat, cutoff : Nat]
  /\ Hours24 \in Nat \ {0}
  /\ StartTimes \subseteq Nat

VARIABLES
  visit,       \* [status, startAt, minutes, cutoff, version]
  links,       \* in the order they were issued: [expiresAt, revoked]
  sending,     \* links on their way to her
  held,        \* links that reached her
  sweep,       \* the reminder sweep's row, or Swept
  reminded,    \* starts there is a reminder for (its dedupe key)
  tab,         \* what each of her pages shows
  clock

linksVars == <<visit, links, sending, held, sweep, reminded, tab, clock>>

Swept == [startAt |-> -1]
Blank == [pc |-> "blank"]
Told(word) == [pc |-> "told", word |-> word]

endAt(v) == v.startAt + v.minutes
manageTokenExpiry(end) == end + Hours24

context(actor) ==
  [actor |-> actor, now |-> clock, startAt |-> visit.startAt, endAt |-> endAt(visit),
   cutoff |-> visit.cutoff, reason |-> TRUE]
Her == context("customer_token")

\* Every write of the row stamps it anew (updatedAt).
Written(v) == visit' = [v EXCEPT !.version = @ + 1]

Changes == visit.version < MaxChanges
-----------------------------------------------------------------------------
(* The links.                                                              *)

verifyManageToken(l) == ~links[l].revoked /\ clock < links[l].expiresAt

\* Mutant: only links that still work are re-pointed.
MutrepointManageTokens(ls, end) ==
  [l \in DOMAIN ls |->
     IF ls[l].revoked \/ ls[l].expiresAt <= clock THEN ls[l]
     ELSE [ls[l] EXCEPT !.expiresAt = manageTokenExpiry(end)]]

repointManageTokens(ls, end) ==
  [l \in DOMAIN ls |->
     IF ls[l].revoked THEN ls[l] ELSE [ls[l] EXCEPT !.expiresAt = manageTokenExpiry(end)]]

\* Mutant: the reminder's link revokes the one she has, as before A-054.
MutissueManageToken(ls, end) ==
  Append([l \in DOMAIN ls |-> [ls[l] EXCEPT !.revoked = TRUE]],
         [expiresAt |-> manageTokenExpiry(end), revoked |-> FALSE])

\* Only the reminder issues a second link, and it keeps the previous one.
issueManageToken(ls, end) ==
  Append(ls, [expiresAt |-> manageTokenExpiry(end), revoked |-> FALSE])

\* A move of the end, and of every link with it.
Rearranged(v) == Written(v) /\ links' = repointManageTokens(links, endAt(v))

LinksInit ==
  /\ \E s \in StartTimes, m \in Menu :
       visit = [status |-> "booked", startAt |-> s, minutes |-> m.minutes,
                cutoff |-> m.cutoff, version |-> 0]
  /\ links = issueManageToken(<<>>, endAt(visit))
  /\ sending = {1}
  /\ held = {}
  /\ sweep = Swept
  /\ reminded = {}
  /\ tab = [t \in Tab |-> Blank]
  /\ clock = 0

Deliver(l) ==
  /\ l \in sending
  /\ sending' = sending \ {l}
  /\ held' = held \cup {l}
  /\ UNCHANGED <<visit, links, sweep, reminded, tab, clock>>

\* A message that fails for good.
Lose(l) ==
  /\ l \in sending
  /\ sending' = sending \ {l}
  /\ UNCHANGED <<visit, links, held, sweep, reminded, tab, clock>>

\* The sweep reads the visit in one statement and reminds her in another.
SweepVisit ==
  /\ sweep = Swept
  /\ visit.status \in ReminderEligible
  /\ visit.startAt - Hours24 = clock
  /\ visit.startAt \notin reminded /\ Len(links) < MaxLinks
  /\ sweep' = visit
  /\ UNCHANGED <<visit, links, sending, held, reminded, tab, clock>>

Remind ==
  /\ sweep # Swept
  /\ IF sweep.startAt \in reminded
     THEN UNCHANGED <<links, sending, reminded>>
     ELSE /\ links' = issueManageToken(links, endAt(sweep))
          /\ sending' = sending \cup {Len(links) + 1}
          /\ reminded' = reminded \cup {sweep.startAt}
  /\ sweep' = Swept
  /\ UNCHANGED <<visit, held, tab, clock>>
-----------------------------------------------------------------------------
(* The desks.                                                              *)

\* A tap, a correction or a reinstatement.
Tap(to) ==
  /\ Changes
  /\ canTransition(visit.status, to, context("staff"))
  /\ Written([visit EXCEPT !.status = to])
  /\ UNCHANGED <<links, sending, held, sweep, reminded, tab, clock>>

\* A desk moves what has not begun.
Move(s) ==
  /\ Changes
  /\ canReschedule(visit.status, context("staff"))
  /\ s # visit.startAt
  /\ Rearranged([visit EXCEPT !.startAt = s])
  /\ UNCHANGED <<sending, held, sweep, reminded, tab, clock>>

\* A push takes whoever is still to be finished, and later.
PushColumn(s) ==
  /\ Changes
  /\ visit.status \in Pushable
  /\ s > visit.startAt
  /\ Rearranged([visit EXCEPT !.startAt = s])
  /\ UNCHANGED <<sending, held, sweep, reminded, tab, clock>>

ChangeServices(m) ==
  /\ Changes
  /\ canChangeServices(visit.status)
  /\ Rearranged([visit EXCEPT !.minutes = m.minutes, !.cutoff = m.cutoff])
  /\ UNCHANGED <<sending, held, sweep, reminded, tab, clock>>
-----------------------------------------------------------------------------
(* Her pages.                                                              *)

Draws(t, v) == tab' = [tab EXCEPT ![t] = v]

\* What a page offers is drawn from the row: to confirm while it is booked, to
\* cancel while it can be, to move it outside the cutoff.
ManagePage(t, l) ==
  /\ l \in held
  /\ Draws(t, IF verifyManageToken(l)
              THEN [pc |-> "drawn", link |-> l, seen |-> visit,
                    movable |-> canReschedule(visit.status, Her)]
              ELSE Told("gone"))
  /\ UNCHANGED <<visit, links, sending, held, sweep, reminded, clock>>

\* The gate, again, for every button.
openManageLink(t) == tab[t].pc = "drawn" /\ verifyManageToken(tab[t].link)

NoLink(t) ==
  /\ tab[t].pc = "drawn" /\ ~verifyManageToken(tab[t].link)
  /\ Draws(t, Told("gone"))
  /\ UNCHANGED <<visit, links, sending, held, sweep, reminded, clock>>

Becomes(t, to) == Written([visit EXCEPT !.status = to]) /\ Draws(t, Told("done"))
Refused(t) == Draws(t, Told("cannot")) /\ UNCHANGED visit

confirmAppointment(t) ==
  /\ Changes /\ openManageLink(t)
  /\ tab[t].seen.status = "booked"
  /\ IF canTransition(visit.status, "confirmed", Her) THEN Becomes(t, "confirmed") ELSE Refused(t)
  /\ UNCHANGED <<links, sending, held, sweep, reminded, clock>>

\* Mutant: a passed cutoff is a refusal.
MutinsideCutoff == FALSE

\* The plain cancellation's refusal, where its clause was hers but for the cutoff.
insideCutoff ==
  /\ visit.status \in NotYetArrived
  /\ isInsideCancellationCutoff(Her)

\* Inside the cutoff a cancellation is asked for a second time, as a late one.
cancelAppointment(t) ==
  /\ Changes /\ openManageLink(t)
  /\ tab[t].seen.status \in NotYetArrived
  /\ CASE canTransition(visit.status, "cancelled", Her) -> Becomes(t, "cancelled")
       [] insideCutoff -> Draws(t, [pc |-> "late", seen |-> tab[t].seen]) /\ UNCHANGED visit
       [] OTHER -> Refused(t)
  /\ UNCHANGED <<links, sending, held, sweep, reminded, clock>>

cancelWithLateSplit(t) ==
  /\ Changes
  /\ tab[t].pc = "late"
  /\ IF canTransition(visit.status, "cancelled_late", Her)
     THEN Becomes(t, "cancelled_late") ELSE Refused(t)
  /\ UNCHANGED <<links, sending, held, sweep, reminded, clock>>

\* Where the time she chose is gone the answer is another (Book).
rescheduleToTime(t, s) ==
  /\ Changes /\ openManageLink(t)
  /\ tab[t].movable
  /\ s > clock /\ s # visit.startAt
  /\ CASE canReschedule(visit.status, Her) ->
            Rearranged([visit EXCEPT !.startAt = s]) /\ Draws(t, Told("done"))
       [] insideCutoff -> Draws(t, Told("too close")) /\ UNCHANGED <<visit, links>>
       [] OTHER -> Refused(t) /\ UNCHANGED links
  /\ UNCHANGED <<sending, held, sweep, reminded, clock>>

Tick ==
  /\ clock < LastTick
  /\ clock' = clock + 1
  /\ UNCHANGED <<visit, links, sending, held, sweep, reminded, tab>>

LinksNext ==
  \/ \E l \in sending : Deliver(l) \/ Lose(l)
  \/ SweepVisit \/ Remind \/ Tick
  \/ \E to \in AppointmentStatus : Tap(to)
  \/ \E s \in StartTimes : Move(s) \/ PushColumn(s)
  \/ \E m \in Menu : ChangeServices(m)
  \/ \E t \in Tab :
       \/ \E l \in held : ManagePage(t, l)
       \/ NoLink(t)
       \/ confirmAppointment(t) \/ cancelAppointment(t) \/ cancelWithLateSplit(t)
       \/ \E s \in StartTimes : rescheduleToTime(t, s)

LinksSpec == LinksInit /\ [][LinksNext]_linksVars
-----------------------------------------------------------------------------
\* "This link stays open until a day after your appointment": once her
\* confirmation has reached her she can open what she was sent, wherever the
\* visit has been moved since and whether or not a reminder arrived (D-28, D-38).
LinkLivesADayAfter ==
  (1 \in held /\ clock < manageTokenExpiry(endAt(visit))) => \E l \in held : verifyManageToken(l)

\* "Not something we can change online" is said only to a page the visit has
\* been written under: the cutoff that passed while she looked at it turns a
\* cancellation into a late one and never into a refusal (APPT-05).
RefusedOnlyIfChanged ==
  [][ \A t \in Tab :
        (tab[t].pc \in {"drawn", "late"} /\ tab'[t] = Told("cannot"))
          => tab[t].seen.version # visit.version ]_linksVars

\* "Two live links to one appointment are harmless - same scope, same expiry"
\* (manage-token.ts:54).  No run checks it, and it is not kept: a visit moved
\* between the sweep's read and its reminder gives that link the old expiry.
EveryLinkSameExpiry ==
  \A l \in DOMAIN links : links[l].expiresAt = manageTokenExpiry(endAt(visit))
=============================================================================
