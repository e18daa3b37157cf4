------------------------------- MODULE Waiting -------------------------------
(* The waitlist at the desk: entries with their windows, the queue and the   *)
(* matcher's list over one stretch of time that frees, sells and frees       *)
(* again, the pages two desks read them on, and the booking that closes the  *)
(* entry it came from (packages/db/waitlist/waitlist.ts,                     *)
(* apps/web/app/staff/waitlist, book.ts).  Whether a visit fits the stretch  *)
(* is the engine's answer, which Opened has; here Fits says it.              *)
EXTENDS Integers, FiniteSets

CONSTANTS
  Entry, Waiter, NoEntry, Desk,
  Fits,                \* the clients whose visit the stretch can take
  SpanDay,             \* the day the stretch is on
  LastDate, MaxRounds, MaxPresses

WaitlistEntry == [client : Waiter, from : 0 .. LastDate, to : 0 .. LastDate,
                  status : {"active", "fulfilled", "cancelled"}]

ASSUME WaitingAssumption ==
  /\ NoEntry \notin Entry \cup WaitlistEntry
  /\ SpanDay \in Nat /\ LastDate \in Nat

VARIABLES
  today,
  entry,       \* Entry -> [client, from, to, status], or NoEntry
  free,        \* whether the stretch is free
  round,       \* how often it has been freed: its row key
  booked,      \* the visits put into it: [client, round, entry]
  screen,      \* Desk -> the waitlist page as it was drawn
  form,        \* Desk -> the booking panel opened from one of its rows
  pressed,     \* the entries closed by a button: history
  presses

waitingVars == <<today, entry, free, round, booked, screen, form, pressed, presses>>

Closed == [at |-> "closed"]
OnFile == {e \in Entry : entry[e] # NoEntry}

WaitingInit ==
  /\ today = 0 /\ entry = [e \in Entry |-> NoEntry] /\ free = FALSE /\ round = 0
  /\ booked = {} /\ screen = [d \in Desk |-> Closed] /\ form = [d \in Desk |-> Closed]
  /\ pressed = {} /\ presses = 0
-----------------------------------------------------------------------------
\* The lists.

\* Mutant: an entry goes on the morning of its last day.
MutnotExpiredOn(e, day) == entry[e].to > day

notExpiredOn(e, day) == entry[e].to >= day

listWaitlistEntries == {e \in OnFile : entry[e].status = "active" /\ notExpiredOn(e, today)}

\* Who wants the stretch, while it is there to be sold.
matchFreedSlot ==
  {e \in OnFile : /\ free /\ today <= SpanDay
                  /\ entry[e].status = "active" /\ entry[e].client \in Fits
                  /\ entry[e].from <= SpanDay /\ entry[e].to >= SpanDay}
-----------------------------------------------------------------------------
Presses == presses < MaxPresses /\ presses' = presses + 1

createWaitlistEntry(e, c, from, to) ==
  /\ Presses /\ entry[e] = NoEntry /\ from <= to
  /\ entry' = [entry EXCEPT ![e] = [client |-> c, from |-> from, to |-> to, status |-> "active"]]
  /\ UNCHANGED <<today, free, round, booked, screen, form, pressed>>

\* The page, with the queue and, reached from a freed row, its matches.
Draw(d) ==
  /\ Presses /\ screen' = [screen EXCEPT ![d] = [at |-> "open", queue |-> listWaitlistEntries, matches |-> matchFreedSlot]]
  /\ form' = [form EXCEPT ![d] = Closed]
  /\ UNCHANGED <<today, entry, free, round, booked, pressed>>

\* A Fulfilled or Remove button of a page that may be old.
setWaitlistEntryStatus(d, e, status) ==
  /\ Presses /\ screen[d].at = "open"
  /\ e \in screen[d].queue \/ (status = "fulfilled" /\ e \in screen[d].matches)
  /\ entry' = [entry EXCEPT ![e].status = status] /\ pressed' = pressed \cup {e}
  /\ UNCHANGED <<today, free, round, booked, screen, form>>

\* The Book link of a matched row: her visit and her entry on the panel,
\* where the desk may still put somebody else's name.
BookLink(d, e) ==
  /\ screen[d].at = "open" /\ e \in screen[d].matches
  /\ form' = [form EXCEPT ![d] = [at |-> "open", entry |-> e, client |-> entry[e].client]]
  /\ UNCHANGED <<today, entry, free, round, booked, screen, pressed, presses>>

Rename(d, c) ==
  /\ Presses /\ form[d].at = "open" /\ form[d].client # c
  /\ form' = [form EXCEPT ![d].client = c]
  /\ UNCHANGED <<today, entry, free, round, booked, screen, pressed>>

\* Mutant: every entry of the client is closed.
MutclosedBy(e, c) == {f \in OnFile : entry[f].client = c /\ entry[f].status = "active"}

\* A-125: the entry it came from, if it is hers and still open.
closedBy(e, c) == {f \in OnFile \cap {e} : entry[f].client = c /\ entry[f].status = "active"}

\* Mutant: the entry is closed though the write is refused.
MutbookTheEntry(d) ==
  /\ form[d].at = "open" /\ form' = [form EXCEPT ![d] = Closed]
  /\ entry' = [f \in Entry |-> IF f \in closedBy(form[d].entry, form[d].client)
                               THEN [entry[f] EXCEPT !.status = "fulfilled"] ELSE entry[f]]
  /\ IF free /\ today <= SpanDay
     THEN free' = FALSE /\ booked' = booked \cup {[client |-> form[d].client, round |-> round, entry |-> form[d].entry]}
     ELSE UNCHANGED <<free, booked>>
  /\ UNCHANGED <<today, round, screen, pressed, presses>>

\* One transaction: the row and the entry, or neither.
bookTheEntry(d) ==
  /\ form[d].at = "open" /\ form' = [form EXCEPT ![d] = Closed]
  /\ IF free /\ today <= SpanDay
     THEN /\ free' = FALSE
          /\ booked' = booked \cup {[client |-> form[d].client, round |-> round, entry |-> form[d].entry]}
          /\ entry' = [f \in Entry |-> IF f \in closedBy(form[d].entry, form[d].client)
                                       THEN [entry[f] EXCEPT !.status = "fulfilled"] ELSE entry[f]]
     ELSE UNCHANGED <<free, booked, entry>>
  /\ UNCHANGED <<today, round, screen, pressed, presses>>

\* The stretch opens up (again), or is sold through another door.
Frees ==
  /\ ~free /\ round < MaxRounds /\ free' = TRUE /\ round' = round + 1
  /\ UNCHANGED <<today, entry, booked, screen, form, pressed, presses>>

SoldElsewhere(c) ==
  /\ Presses /\ free /\ free' = FALSE
  /\ booked' = booked \cup {[client |-> c, round |-> round, entry |-> NoEntry]}
  /\ UNCHANGED <<today, entry, round, screen, form, pressed>>

NextDay ==
  /\ today < LastDate /\ today' = today + 1
  /\ UNCHANGED <<entry, free, round, booked, screen, form, pressed, presses>>

WaitingNext ==
  \/ \E e \in Entry, c \in Waiter, from, to \in 0 .. LastDate : createWaitlistEntry(e, c, from, to)
  \/ \E d \in Desk :
       \/ Draw(d) \/ bookTheEntry(d) \/ \E c \in Waiter : Rename(d, c)
       \/ \E e \in OnFile : BookLink(d, e) \/ \E s \in {"fulfilled", "cancelled"} : setWaitlistEntryStatus(d, e, s)
  \/ Frees \/ (\E c \in Waiter : SoldElsewhere(c)) \/ NextDay

WaitingSpec == WaitingInit /\ [][WaitingNext]_waitingVars
-----------------------------------------------------------------------------
\* Whoever the matcher would have the desk ring is on the queue the desk reads
\* (A-110: "two halves of one feature answering one question two ways").
WhoIsMatchedIsWaiting == matchFreedSlot \subseteq listWaitlistEntries

\* A client waits until her window has passed, she is booked from her own entry,
\* or somebody presses its button: neither a booking that was refused, nor one
\* put in another's name, nor her other entry's, takes her off the list.
NobodyFallsOffTheList ==
  \A e \in OnFile :
    entry[e].status = "fulfilled" =>
      e \in pressed \/ \E b \in booked : b.entry = e /\ b.client = entry[e].client

\* Whoever is booked from her entry is not rung about it again (A-125).
ABookedEntryIsClosed ==
  \A b \in booked :
    b.entry \in OnFile /\ entry[b.entry].client = b.client => entry[b.entry].status # "active"

NobodyWaitsInVain == WhoIsMatchedIsWaiting /\ NobodyFallsOffTheList /\ ABookedEntryIsClosed
=============================================================================
