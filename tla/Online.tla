------------------------------- MODULE Online --------------------------------
(***************************************************************************)
(* Booking on the website: the flow of five screens (booking-flow.tsx) and *)
(* the action it posts to (confirmAppointment), which runs on after its    *)
(* page was reloaded.  One visitor books, reloads, cancels and books again *)
(* while the desk writes to the same book.                                 *)
(*                                                                         *)
(* A screen's controls are disabled while its answer is out, so a question *)
(* and its answer are one step.  The read limit, the catalogue's desk-only *)
(* services and CLIENT-04's block are left out.                            *)
(***************************************************************************)
EXTENDS Offers

CONSTANTS
  Anyone,                  \* the sentinel of "no preference"
  Post,                 \* the requests the visitor may make
  BookLimit, PublicBookings,   \* the hour's and the day's allowance
  MaxUpsets             \* bound: writes of the desk, and cancellations

VARIABLES
  step, chosen, provider, day, openDays, times, time,   \* the flow's state
  sent, result,    \* the request whose answer the page waits for; its answer
  post,            \* the requests on the server
  clients,         \* how many records the visitor's number and name have
  counted,         \* the caller's RateLimitCounter
  book, upsets

onlineVars == <<step, chosen, provider, day, openDays, times, time, sent, result, post,
                clients, counted, book, upsets>>
flowVars == <<step, chosen, provider, day, openDays, times, time>>
serverVars == <<post, clients, counted, book, upsets>>

\* sent is 0 while no answer is waited for.
OnlineConstants == OffersConstants /\ Post \subseteq Nat \ {0}

NothingPicked == [at |-> -1, provider |-> 0]
Unsent == [stage |-> "unsent"]
Gone == [stage |-> "gone"]
Fresh == /\ step' = "service" /\ chosen' = <<>> /\ provider' = 0 /\ day' = 0
         /\ openDays' = {} /\ times' = {} /\ time' = NothingPicked

OnlineInit ==
  /\ step = "service" /\ chosen = <<>> /\ provider = 0 /\ day = 0
  /\ openDays = {} /\ times = {} /\ time = NothingPicked
  /\ sent = 0 /\ result = "none" /\ post = [i \in Post |-> Unsent]
  /\ clients = 0 /\ counted = 0 /\ book = <<>> /\ upsets = 0

Pending == sent # 0
On(s) == ~Pending /\ step = s /\ UNCHANGED <<sent, serverVars>>

-----------------------------------------------------------------------------
\* The screens.

toggle(s) ==
  /\ On("service")
  /\ chosen' = toggled(chosen, s)
  /\ provider' = 0 /\ day' = 0 /\ time' = NothingPicked /\ result' = "none"
  /\ UNCHANGED <<step, openDays, times>>

continue ==
  /\ On("service") /\ chosen # <<>> /\ step' = "who"
  /\ UNCHANGED <<chosen, provider, day, openDays, times, time, result>>

\* A stylist qualified for the whole visit, or nobody in particular, which a
\* named stylist's empty day offers too.
choose(p) ==
  /\ \/ On("who") /\ p \in providersForVisit(chosen) \cup {Anyone}
     \/ On("day") /\ provider # Anyone /\ openDays = {} /\ p = Anyone
  /\ provider' = p /\ day' = 0 /\ step' = "day"
  /\ openDays' = IF p = Anyone THEN anyProviderDays(book, chosen, 0, NoClient)
                 ELSE daysWithAvailability(book, p, chosen, 0, NoClient)
  /\ UNCHANGED <<chosen, times, time, result>>

\* The visitor has not said who she is: the times are a stranger's (A-105).
timesOn(v, p, d, holder) ==
  IF p = Anyone THEN anyProviderTimes(book, v, d, holder)
  ELSE Offered(computeDaySlots(book, p, v, d, holder))

chooseDay(d) ==
  /\ On("day") /\ d \in openDays
  /\ day' = d /\ result' = "none" /\ step' = "time"
  /\ times' = timesOn(chosen, provider, d, NoClient)
  /\ UNCHANGED <<chosen, provider, openDays, time>>

pickTime(row) ==
  /\ On("time") /\ row \in times
  /\ time' = [at |-> row.at, provider |-> row.provider] /\ result' = "none" /\ step' = "details"
  /\ UNCHANGED <<chosen, provider, day, openDays, times>>

\* What is kept behind a Back is only how a button is drawn until it is chosen
\* again, so it is let go of here.
Before == [who |-> "service", day |-> "who", time |-> "day", details |-> "time"]
back ==
  /\ \E s \in DOMAIN Before : On(s) /\ step' = Before[s]
  /\ result' = IF step = "details" THEN "none" ELSE result
  /\ provider' = IF step = "day" THEN 0 ELSE provider
  /\ openDays' = IF step = "day" THEN {} ELSE openDays
  /\ day' = IF step = "time" THEN 0 ELSE day
  /\ times' = IF step = "time" THEN {} ELSE times
  /\ time' = NothingPicked
  /\ UNCHANGED chosen

\* Closing the page, or losing its connection, leaves the request running.
reload ==
  /\ Pending \/ step = "done"
  /\ Fresh /\ sent' = 0 /\ result' = "none"
  /\ post' = [i \in Post |-> IF post[i].stage = "answered" THEN Gone ELSE post[i]]
  /\ UNCHANGED <<clients, counted, book, upsets>>

submit(i) ==
  /\ ~Pending /\ step = "details" /\ post[i] = Unsent
  /\ \A j \in Post : j < i => post[j] # Unsent
  /\ sent' = i
  /\ post' = [post EXCEPT ![i] =
       [stage |-> "limit", visit |-> chosen, row |-> time, day |-> day, any |-> provider = Anyone, client |-> 0]]
  /\ UNCHANGED <<flowVars, result, clients, counted, book, upsets>>

\* The answer reaches the page that waits for it.
landed ==
  /\ Pending /\ post[sent].stage = "answered" /\ sent' = 0
  /\ LET answer == post[sent].answer IN
     /\ result' = answer.kind
     /\ step' = CASE answer.kind = "confirmed" -> "done"
                  [] answer.kind = "taken" -> "time" [] OTHER -> step
     /\ time' = CASE answer.kind = "instead" -> answer.row
                  [] answer.kind = "taken" -> NothingPicked [] OTHER -> time
     /\ times' = IF answer.kind = "taken" THEN answer.rows ELSE times
  /\ post' = [post EXCEPT ![sent] = Gone]
  /\ UNCHANGED <<chosen, provider, day, openDays, clients, counted, book, upsets>>

-----------------------------------------------------------------------------
\* confirmAppointment, a statement at a time.

AtStage(i, stage) == post[i].stage = stage /\ UNCHANGED <<flowVars, sent, result, upsets>>
Goes(i, stage) == post' = [post EXCEPT ![i].stage = stage]
\* An answer no page waits for is lost.
Answers(i, answer) ==
  post' = [post EXCEPT ![i] = IF sent = i THEN [stage |-> "answered", answer |-> answer] ELSE Gone]

idempotencyKey(i, c) ==
  [provider |-> post[i].row.provider, visit |-> post[i].visit, at |-> post[i].row.at, client |-> c]

Keyed(key) == {k \in DOMAIN book : book[k].key = key}
PublicRows == {k \in DOMAIN book : book[k].key # <<>>}
\* The oldest record of the visitor's number and name (D-55).
findReturningClient == IF clients = 0 THEN 0 ELSE 1

\* Past either allowance only a request that already succeeded hears so.
limit(i) ==
  /\ AtStage(i, "limit") /\ counted' = counted + 1
  /\ IF counted < BookLimit /\ Cardinality(PublicRows) < PublicBookings THEN Goes(i, "find")
     ELSE IF findReturningClient # 0 /\ Keyed(idempotencyKey(i, findReturningClient)) # {}
     THEN Answers(i, [kind |-> "confirmed"]) ELSE Answers(i, [kind |-> "refused"])
  /\ UNCHANGED <<clients, book>>

find(i) ==
  /\ AtStage(i, "find")
  /\ post' = [post EXCEPT ![i].client = findReturningClient,
                          ![i].stage = IF findReturningClient = 0 THEN "create" ELSE "key"]
  /\ UNCHANGED <<clients, counted, book>>

create(i) ==
  /\ AtStage(i, "create") /\ clients' = clients + 1
  /\ post' = [post EXCEPT ![i].client = clients + 1, ![i].stage = "key"]
  /\ UNCHANGED <<counted, book>>

\* A retry takes no lock and asks no engine: the row of its key is its answer.
lookup(i) ==
  /\ AtStage(i, "key")
  /\ IF Keyed(idempotencyKey(i, post[i].client)) # {}
     THEN Answers(i, [kind |-> "confirmed"]) ELSE Goes(i, "write")
  /\ UNCHANGED <<clients, counted, book>>

\* Mutant: whatever constraint refuses the write is read as a retry's key.
MutbookAppointment(i) ==
  LET r == post[i]
      key == idempotencyKey(i, r.client)
      why == whyRefused(book, r.row.provider, r.visit, r.row.at, r.client) IN
  /\ AtStage(i, "write") /\ UNCHANGED <<clients, counted>>
  /\ \/ /\ why = "none" /\ Keyed(key) = {}
        /\ book' = written(book, r.row.provider, r.visit, r.row.at, r.client, FALSE, key)
        /\ Answers(i, [kind |-> "confirmed"])
     \/ /\ why = "none" /\ Keyed(key) # {} /\ UNCHANGED book      \* the key's unique index
        /\ Answers(i, [kind |-> "error"])
     \/ /\ why # "none" /\ UNCHANGED book
        /\ Answers(i, [kind |-> "confirmed"])

bookAppointment(i) ==
  LET r == post[i]
      key == idempotencyKey(i, r.client)
      why == whyRefused(book, r.row.provider, r.visit, r.row.at, r.client) IN
  /\ AtStage(i, "write") /\ UNCHANGED <<clients, counted>>
  /\ \/ /\ why = "none" /\ Keyed(key) = {}
        /\ book' = written(book, r.row.provider, r.visit, r.row.at, r.client, FALSE, key)
        /\ Answers(i, [kind |-> "confirmed"])
     \/ /\ why = "none" /\ Keyed(key) # {} /\ UNCHANGED book      \* the key's unique index
        /\ Answers(i, [kind |-> "error"])
     \/ /\ why # "none" /\ UNCHANGED book
        /\ Goes(i, IF r.any THEN "rescue" ELSE "others")

\* Mutant: the stylists are asked in their order, as far as the one just refused.
MutsomebodyElse(i) ==
  {row \in anyProviderAt(book, post[i].visit, post[i].row.at, post[i].client) :
     row.provider <= post[i].row.provider}

\* The same time with another stylist, asked about her as the write was
\* (A-105); the best of those free may be the one just refused.
somebodyElse(i) == anyProviderAt(book, post[i].visit, post[i].row.at, post[i].client)

sameTimeWithSomebodyElse(i) ==
  LET others == {row \in somebodyElse(i) : row.provider # post[i].row.provider} IN
  /\ AtStage(i, "rescue")
  /\ IF others = {} THEN Goes(i, "others")
     ELSE \E row \in others :
            Answers(i, [kind |-> "instead", row |-> [at |-> row.at, provider |-> row.provider]])
  /\ UNCHANGED <<clients, counted, book>>

\* The other times: anyone's if she said anyone (A-097), and hers.
alternatives(i) ==
  /\ AtStage(i, "others")
  /\ Answers(i, [kind |-> "taken",
       rows |-> timesOn(post[i].visit, IF post[i].any THEN Anyone ELSE post[i].row.provider,
                        post[i].day, post[i].client)])
  /\ UNCHANGED <<clients, counted, book>>

-----------------------------------------------------------------------------
\* She cancels by her link, or the desk books a stranger or takes one off.
cancel ==
  /\ \E k \in DOMAIN book : book[k].status = "booked" /\ book' = [book EXCEPT ![k].status = "cancelled"]
  /\ upsets < MaxUpsets /\ upsets' = upsets + 1
  /\ UNCHANGED <<flowVars, sent, result, post, clients, counted>>

deskBooks ==
  /\ \E p \in Provider, s \in Service, d \in Day :
       \E row \in Offered(computeDaySlots(book, p, <<s>>, d, NoClient)) :
         book' = written(book, p, <<s>>, row.at, NoClient, FALSE, <<>>)
  /\ upsets < MaxUpsets /\ upsets' = upsets + 1
  /\ UNCHANGED <<flowVars, sent, result, post, clients, counted>>

OnlineNext ==
  \/ \E s \in Service : toggle(s)
  \/ continue
  \/ \E p \in Provider \cup {Anyone} : choose(p)
  \/ \E d \in Day : chooseDay(d)
  \/ \E row \in times : pickTime(row)
  \/ back \/ reload \/ landed
  \/ \E i \in Post :
       \/ submit(i) \/ limit(i) \/ find(i) \/ create(i) \/ lookup(i) \/ bookAppointment(i)
       \/ sameTimeWithSomebodyElse(i) \/ alternatives(i)
  \/ cancel \/ deskBooks

OnlineSpec == OnlineInit /\ [][OnlineNext]_onlineVars
-----------------------------------------------------------------------------
\* The done screen names a stylist, services and a time: there is a row booked
\* online of that stylist, those services and that time, whatever was reloaded,
\* repeated, limited or refused before it (A-054, SEC-03).
ConfirmedIsWhatSheSaw ==
  result = "confirmed" =>
    \E k \in PublicRows :
      book[k].provider = time.provider /\ book[k].visit = chosen /\ book[k].at = time.at

\* Somebody who said "anyone" and lost the stylist she was shown is sent to
\* other times only if nobody else could have taken her at that one (A-071).
RescueMissesNobody ==
  [][ \A i \in Post :
        post[i].stage = "rescue" /\ post'[i].stage = "others" =>
          NobodyElse(book, post[i].visit, post[i].row, post[i].client) ]_onlineVars

\* "Without them a retry that changed the visit would silently return the first
\* appointment and report success on a booking that was never made"
\* (public-actions.ts:448): success is reported of a booking that stands.
ConfirmedMeansBooked ==
  [][ \A i \in Post :
        /\ post[i].stage \in {"limit", "key", "write"}
        /\ post'[i].stage = "answered" /\ post'[i].answer.kind = "confirmed"
        => \E v \in Live(book') :
             /\ v.key # <<>> /\ v.provider = post[i].row.provider
             /\ v.visit = post[i].visit /\ v.at = post[i].row.at ]_onlineVars
=============================================================================
