----------------------------- MODULE ListsProofs -----------------------------
(* The lists a desk works from while the book moves under them: the          *)
(* waitlist, for any entries, clients, desks and days; the printed sheet's   *)
(* count of what changed, for any writers, printers and columns; the weeks   *)
(* of a standing appointment (Series), for any desks and weeks; and the list *)
(* of visits the hours no longer hold (Availability), for any desks, forms,  *)
(* stylists and visits.                                                      *)
EXTENDS Waiting, Sheet, Series, Availability, FiniteSetTheorems, WellFoundedInduction, TLAPS

-----------------------------------------------------------------------------
\* The waitlist.

Page == [at : {"open"}, queue : SUBSET Entry, matches : SUBSET Entry]
PanelOpen == [at : {"open"}, entry : Entry, client : Waiter]
Booking == [client : Waiter, round : Nat, entry : Entry \cup {NoEntry}]

WaitingTypes ==
  /\ today \in Nat /\ round \in Nat
  /\ entry \in [Entry -> WaitlistEntry \cup {NoEntry}]
  /\ booked \subseteq Booking
  /\ screen \in [Desk -> {Closed} \cup Page]
  /\ form \in [Desk -> {Closed} \cup PanelOpen]

\* Pages, forms and visits name entries that are on file, and stay there.
NamesAreOnFile ==
  /\ \A d \in Desk : screen[d].at = "open" => screen[d].queue \cup screen[d].matches \subseteq OnFile
  /\ \A d \in Desk : form[d].at = "open" => form[d].entry \in OnFile
  /\ \A b \in booked : b.entry \in OnFile \cup {NoEntry}

WInv == WaitingTypes /\ NamesAreOnFile /\ NobodyFallsOffTheList /\ ABookedEntryIsClosed

\* An entry is written once and only closed after that.
OnlyCloses ==
  /\ entry' \in [Entry -> WaitlistEntry \cup {NoEntry}]
  /\ \A e \in OnFile :
       /\ entry'[e] # NoEntry /\ entry'[e].client = entry[e].client
       /\ entry'[e].status = entry[e].status \/ entry'[e].status # "active"

LEMMA FileGrows == OnlyCloses => OnFile \subseteq OnFile'
BY DEF OnlyCloses, OnFile

\* What every step keeps that closes entries for a reason.
LEMMA ReasonedStep ==
  ASSUME WInv, OnlyCloses, booked \subseteq booked', pressed \subseteq pressed',
         \A e \in OnFile' \ OnFile : entry'[e].status = "active",
         \A e \in OnFile : entry'[e].status = "fulfilled" /\ entry[e].status # "fulfilled" =>
           e \in pressed' \/ \E b \in booked' : b.entry = e /\ b.client = entry'[e].client,
         \A b \in booked' \ booked :
           b.entry \in OnFile' /\ entry'[b.entry].client = b.client => entry'[b.entry].status # "active"
  PROVE  NobodyFallsOffTheList' /\ ABookedEntryIsClosed'
<1>1. OnFile \subseteq OnFile'
  BY FileGrows
<1>2. NobodyFallsOffTheList'
  <2> SUFFICES ASSUME NEW e \in OnFile', entry'[e].status = "fulfilled"
               PROVE  e \in pressed' \/ \E b \in booked' : b.entry = e /\ b.client = entry'[e].client
    BY DEF NobodyFallsOffTheList
  <2>1. e \in OnFile
    OBVIOUS
  <2>2. CASE entry[e].status # "fulfilled"
    BY <2>1, <2>2
  <2>3. CASE entry[e].status = "fulfilled"
    BY <2>1, <2>3 DEF WInv, NobodyFallsOffTheList, OnlyCloses
  <2> QED BY <2>2, <2>3
<1>3. ABookedEntryIsClosed'
  <2> SUFFICES ASSUME NEW b \in booked', b.entry \in OnFile', entry'[b.entry].client = b.client
               PROVE  entry'[b.entry].status # "active"
    BY DEF ABookedEntryIsClosed
  <2>1. CASE b \in booked
    <3>1. b.entry \in OnFile
      BY <2>1, WaitingAssumption DEF WInv, NamesAreOnFile, OnFile
    <3> QED BY <2>1, <3>1 DEF WInv, ABookedEntryIsClosed, OnlyCloses
  <2> QED BY <2>1
<1> QED BY <1>2, <1>3

LEMMA SameEntries ==
  ASSUME WInv, UNCHANGED <<entry, booked, pressed>>
  PROVE  OnFile' = OnFile /\ NobodyFallsOffTheList' /\ ABookedEntryIsClosed'
BY DEF WInv, OnFile, NobodyFallsOffTheList, ABookedEntryIsClosed

LEMMA CreateEntry ==
  \A e \in Entry, c \in Waiter, from, to \in 0 .. LastDate :
    WInv /\ createWaitlistEntry(e, c, from, to) => WInv'
<1> SUFFICES ASSUME NEW e \in Entry, NEW c \in Waiter, NEW from \in 0 .. LastDate, NEW to \in 0 .. LastDate,
                    WInv, createWaitlistEntry(e, c, from, to)
             PROVE  WInv'
  OBVIOUS
<1> DEFINE new == [client |-> c, from |-> from, to |-> to, status |-> "active"]
<1>1. /\ entry[e] = NoEntry /\ entry' = [entry EXCEPT ![e] = new]
      /\ UNCHANGED <<today, round, booked, screen, form, pressed>>
  BY DEF createWaitlistEntry
<1>2. new \in WaitlistEntry /\ new # NoEntry /\ new.status = "active"
  BY WaitingAssumption DEF WaitlistEntry
<1> HIDE DEF new
<1>3. entry \in [Entry -> WaitlistEntry \cup {NoEntry}]
  BY DEF WInv, WaitingTypes
<1>4. OnlyCloses /\ OnFile' = OnFile \cup {e} /\ entry'[e].status = "active"
  BY <1>1, <1>2, <1>3 DEF OnlyCloses, OnFile
<1>5. NobodyFallsOffTheList' /\ ABookedEntryIsClosed'
  BY <1>1, <1>4, ReasonedStep DEF OnlyCloses, OnFile
<1>6. WaitingTypes' /\ NamesAreOnFile'
  BY <1>1, <1>4 DEF WInv, WaitingTypes, NamesAreOnFile, OnlyCloses
<1> QED BY <1>5, <1>6 DEF WInv

LEMMA DrawPage == \A d \in Desk : WInv /\ Draw(d) => WInv'
<1> SUFFICES ASSUME NEW d \in Desk, WInv, Draw(d) PROVE WInv'
  OBVIOUS
<1> DEFINE page == [at |-> "open", queue |-> listWaitlistEntries, matches |-> matchFreedSlot]
<1>1. /\ screen' = [screen EXCEPT ![d] = page] /\ form' = [form EXCEPT ![d] = Closed]
      /\ UNCHANGED <<today, entry, round, booked, pressed>>
  BY DEF Draw
<1>2. page \in Page /\ page.queue \cup page.matches \subseteq OnFile
  BY DEF Page, listWaitlistEntries, matchFreedSlot, OnFile
<1> HIDE DEF page
<1>3. WaitingTypes'
  BY <1>1, <1>2 DEF WInv, WaitingTypes
<1>4. NamesAreOnFile'
  <2>1. /\ screen \in [Desk -> {Closed} \cup Page] /\ form \in [Desk -> {Closed} \cup PanelOpen]
    BY DEF WInv, WaitingTypes
  <2>2. OnFile' = OnFile /\ Closed.at # "open"
    BY <1>1 DEF OnFile, Closed
  <2> QED BY <1>1, <1>2, <2>1, <2>2 DEF WInv, NamesAreOnFile
<1> QED BY <1>1, <1>3, <1>4, SameEntries DEF WInv

LEMMA PressButton ==
  \A d \in Desk, e \in OnFile, status \in {"fulfilled", "cancelled"} :
    WInv /\ setWaitlistEntryStatus(d, e, status) => WInv'
<1> SUFFICES ASSUME NEW d \in Desk, NEW e \in OnFile, NEW status \in {"fulfilled", "cancelled"},
                    WInv, setWaitlistEntryStatus(d, e, status)
             PROVE  WInv'
  OBVIOUS
<1> DEFINE new == [entry[e] EXCEPT !.status = status]
<1>1. /\ entry' = [entry EXCEPT ![e] = new] /\ pressed' = pressed \cup {e}
      /\ UNCHANGED <<today, round, booked, screen, form>>
  BY DEF setWaitlistEntryStatus
<1>2. entry \in [Entry -> WaitlistEntry \cup {NoEntry}] /\ e \in Entry /\ entry[e] \in WaitlistEntry
  BY DEF WInv, WaitingTypes, OnFile
<1>3. new \in WaitlistEntry /\ new # NoEntry /\ new.client = entry[e].client /\ new.status # "active"
  BY <1>2, WaitingAssumption DEF WaitlistEntry
<1> HIDE DEF new
<1>4. OnlyCloses /\ OnFile' = OnFile /\ \A f \in OnFile : f # e => entry'[f] = entry[f]
  BY <1>1, <1>2, <1>3 DEF OnlyCloses, OnFile
<1>5. NobodyFallsOffTheList' /\ ABookedEntryIsClosed'
  BY <1>1, <1>4, ReasonedStep
<1>6. WaitingTypes' /\ NamesAreOnFile'
  BY <1>1, <1>4 DEF WInv, WaitingTypes, NamesAreOnFile, OnlyCloses
<1> QED BY <1>5, <1>6 DEF WInv

LEMMA FollowLink == \A d \in Desk, e \in OnFile : WInv /\ BookLink(d, e) => WInv'
<1> SUFFICES ASSUME NEW d \in Desk, NEW e \in OnFile, WInv, BookLink(d, e) PROVE WInv'
  OBVIOUS
<1> DEFINE new == [at |-> "open", entry |-> e, client |-> entry[e].client]
<1>1. form' = [form EXCEPT ![d] = new] /\ UNCHANGED <<today, entry, round, booked, screen, pressed>>
  BY DEF BookLink
<1>2. new \in PanelOpen /\ new.entry = e
  BY DEF WInv, WaitingTypes, OnFile, PanelOpen, WaitlistEntry
<1> HIDE DEF new
<1>3. WaitingTypes'
  BY <1>1, <1>2 DEF WInv, WaitingTypes
<1>4. NamesAreOnFile'
  <2>1. OnFile' = OnFile /\ form \in [Desk -> {Closed} \cup PanelOpen]
    BY <1>1 DEF OnFile, WInv, WaitingTypes
  <2> QED BY <1>1, <1>2, <2>1 DEF WInv, NamesAreOnFile
<1> QED BY <1>1, <1>3, <1>4, SameEntries DEF WInv

LEMMA OtherName == \A d \in Desk, c \in Waiter : WInv /\ Rename(d, c) => WInv'
<1> SUFFICES ASSUME NEW d \in Desk, NEW c \in Waiter, WInv, Rename(d, c) PROVE WInv'
  OBVIOUS
<1> DEFINE new == [form[d] EXCEPT !.client = c]
<1>1. form[d].at = "open" /\ form' = [form EXCEPT ![d] = new]
      /\ UNCHANGED <<today, entry, round, booked, screen, pressed>>
  BY DEF Rename
<1>2. form \in [Desk -> {Closed} \cup PanelOpen] /\ form[d] \in PanelOpen
  BY <1>1 DEF WInv, WaitingTypes, Closed
<1>3. new \in PanelOpen /\ new.entry = form[d].entry
  BY <1>2 DEF PanelOpen
<1> HIDE DEF new
<1>4. WaitingTypes'
  BY <1>1, <1>2, <1>3 DEF WInv, WaitingTypes
<1>5. NamesAreOnFile'
  BY <1>1, <1>2, <1>3 DEF WInv, NamesAreOnFile, OnFile
<1> QED BY <1>1, <1>4, <1>5, SameEntries DEF WInv

LEMMA BookFromEntry == \A d \in Desk : WInv /\ bookTheEntry(d) => WInv'
<1> SUFFICES ASSUME NEW d \in Desk, WInv, bookTheEntry(d) PROVE WInv'
  OBVIOUS
<1> DEFINE e == form[d].entry
           c == form[d].client
           b == [client |-> c, round |-> round, entry |-> e]
<1>1. /\ form[d].at = "open" /\ form' = [form EXCEPT ![d] = Closed]
      /\ UNCHANGED <<today, round, screen, pressed>>
  BY DEF bookTheEntry
<1>2. /\ form \in [Desk -> {Closed} \cup PanelOpen] /\ form[d] \in PanelOpen
      /\ entry \in [Entry -> WaitlistEntry \cup {NoEntry}]
  BY <1>1 DEF WInv, WaitingTypes, Closed
<1>3. e \in OnFile /\ e \in Entry /\ entry[e] \in WaitlistEntry /\ c \in Waiter
  BY <1>1, <1>2 DEF WInv, NamesAreOnFile, OnFile, PanelOpen
<1>4. form' \in [Desk -> {Closed} \cup PanelOpen]
      /\ \A k \in Desk : form'[k].at = "open" => form'[k] = form[k]
  BY <1>1, <1>2 DEF Closed
<1>5. CASE UNCHANGED <<free, booked, entry>>
  <2>1. WaitingTypes' /\ NamesAreOnFile'
    BY <1>1, <1>4, <1>5 DEF WInv, WaitingTypes, NamesAreOnFile, OnFile
  <2> QED BY <1>1, <1>5, <2>1, SameEntries DEF WInv
<1>6. CASE /\ booked' = booked \cup {b}
           /\ entry' = [f \in Entry |-> IF f \in closedBy(e, c)
                                        THEN [entry[f] EXCEPT !.status = "fulfilled"] ELSE entry[f]]
  <2>1. b \in Booking /\ b.entry = e /\ b.client = c
    BY <1>3 DEF WInv, WaitingTypes, Booking
  <2> HIDE DEF e, c, b
  <2>2. ASSUME NEW f \in Entry
        PROVE  /\ entry'[f] \in WaitlistEntry \cup {NoEntry}
               /\ f \in OnFile => entry'[f] \in WaitlistEntry /\ entry'[f].client = entry[f].client
               /\ f \notin closedBy(e, c) => entry'[f] = entry[f]
               /\ f \in closedBy(e, c) => entry'[f].status = "fulfilled"
    <3>1. CASE f \in closedBy(e, c)
      <4> DEFINE new == [entry[f] EXCEPT !.status = "fulfilled"]
      <4>1. f \in OnFile /\ entry[f] \in WaitlistEntry
        BY <1>2, <3>1 DEF closedBy, OnFile
      <4>2. new \in WaitlistEntry /\ new.client = entry[f].client /\ new.status = "fulfilled"
        BY <4>1 DEF WaitlistEntry
      <4>3. entry'[f] = new
        BY <1>6, <3>1
      <4> HIDE DEF new
      <4> QED BY <3>1, <4>2, <4>3
    <3>2. CASE f \notin closedBy(e, c)
      BY <1>2, <1>6, <3>2 DEF OnFile
    <3> QED BY <3>1, <3>2
  <2>3. closedBy(e, c) \subseteq {e} /\ \A f \in closedBy(e, c) : entry[f].client = c
    BY DEF closedBy
  <2>4. entry' \in [Entry -> WaitlistEntry \cup {NoEntry}]
    <3>1. DOMAIN entry' = Entry /\ entry' = [f \in Entry |-> entry'[f]]
      BY <1>6
    <3> QED BY <2>2, <3>1
  <2>5. OnlyCloses
    BY <2>2, <2>4, WaitingAssumption DEF OnlyCloses, OnFile
  <2>6. OnFile' = OnFile
    BY <2>2, <2>3, <2>5, <1>3, FileGrows DEF OnFile
  <2>7. \A f \in OnFile : entry'[f].status = "fulfilled" /\ entry[f].status # "fulfilled" =>
          f \in pressed' \/ \E x \in booked' : x.entry = f /\ x.client = entry'[f].client
    BY <1>6, <2>1, <2>2, <2>3 DEF OnFile
  <2>8. entry'[e].client = c => entry'[e].status # "active"
    BY <1>3, <2>2 DEF closedBy
  <2>9. NobodyFallsOffTheList' /\ ABookedEntryIsClosed'
    BY <1>1, <1>6, <2>1, <2>5, <2>6, <2>7, <2>8, ReasonedStep
  <2>10. WaitingTypes' /\ NamesAreOnFile'
    BY <1>1, <1>3, <1>4, <1>6, <2>1, <2>4, <2>6 DEF WInv, WaitingTypes, NamesAreOnFile
  <2> QED BY <2>9, <2>10 DEF WInv
<1> QED BY <1>5, <1>6 DEF bookTheEntry

LEMMA SellElsewhere == \A c \in Waiter : WInv /\ SoldElsewhere(c) => WInv'
<1> SUFFICES ASSUME NEW c \in Waiter, WInv, SoldElsewhere(c) PROVE WInv'
  OBVIOUS
<1> DEFINE b == [client |-> c, round |-> round, entry |-> NoEntry]
<1>1. booked' = booked \cup {b} /\ UNCHANGED <<today, entry, round, screen, form, pressed>>
  BY DEF SoldElsewhere
<1>2. b \in Booking /\ b.entry = NoEntry
  BY DEF WInv, WaitingTypes, Booking
<1> HIDE DEF b
<1>3. OnFile' = OnFile /\ NoEntry \notin OnFile
  BY <1>1, WaitingAssumption DEF OnFile
<1>4. WaitingTypes' /\ NamesAreOnFile'
  BY <1>1, <1>2, <1>3 DEF WInv, WaitingTypes, NamesAreOnFile
<1>5. NobodyFallsOffTheList' /\ ABookedEntryIsClosed'
  BY <1>1, <1>2, <1>3 DEF WInv, NobodyFallsOffTheList, ABookedEntryIsClosed
<1> QED BY <1>4, <1>5 DEF WInv

LEMMA WInvInit == WaitingInit => WInv
<1> SUFFICES ASSUME WaitingInit PROVE WInv
  OBVIOUS
<1>1. OnFile = {}
  BY DEF WaitingInit, OnFile
<1> QED BY <1>1, WaitingAssumption
        DEF WaitingInit, WInv, WaitingTypes, NamesAreOnFile, NobodyFallsOffTheList, ABookedEntryIsClosed, Closed

LEMMA WInvNext == WInv /\ [WaitingNext]_waitingVars => WInv'
<1> SUFFICES ASSUME WInv, [WaitingNext]_waitingVars PROVE WInv'
  OBVIOUS
<1>1. ASSUME UNCHANGED <<entry, booked, screen, form, pressed>>, today' \in Nat, round' \in Nat
      PROVE  WInv'
  BY <1>1, SameEntries DEF WInv, WaitingTypes, NamesAreOnFile
<1>2. CASE Frees
  BY <1>1, <1>2 DEF Frees, WInv, WaitingTypes
<1>3. CASE NextDay
  BY <1>1, <1>3 DEF NextDay, WInv, WaitingTypes
<1>4. CASE UNCHANGED waitingVars
  BY <1>1, <1>4 DEF waitingVars, WInv, WaitingTypes
<1> QED
  BY <1>2, <1>3, <1>4, CreateEntry, DrawPage, PressButton, FollowLink, OtherName, BookFromEntry, SellElsewhere
     DEF WaitingNext

\* The inductive invariant of Waiting.
THEOREM WInvIsInvariant == WaitingSpec => []WInv
BY WInvInit, WInvNext, PTL DEF WaitingSpec
-----------------------------------------------------------------------------
\* The printed sheet.

SheetRow == [provider : Column, startAt : SheetStarts, occupies : BOOLEAN]
Stored == SheetRow \cup {NoLine}
WriteUnderWay == [visit : Line, type : CHANGE_TYPES, from : Stored, to : SheetRow, at : Nat]
SheetEvent == [visit : Line, type : CHANGE_TYPES \cup {"status_changed"}, via : BOOLEAN, at : Nat]
Whose == Column \cup {Everybody}
Press == [whose : Whose, at : Nat]
PressUnderWay == [whose : Whose, at : Nat, busy : SUBSET Line]
Paper == [at : Nat, rows : [Line -> Stored], left : [Line -> Stored], busy : SUBSET Line]

SheetTypes ==
  /\ moment \in Nat /\ row \in [Line -> Stored]
  /\ events \subseteq SheetEvent /\ prints \subseteq Press
  /\ open \in [Writer -> SUBSET WriteUnderWay]
  /\ printing \in [Printer -> SUBSET PressUnderWay]
  /\ paper \in [Column -> SUBSET Paper]

\* Every stamp was taken at a moment that has passed.
StampsHavePassed ==
  /\ \A w \in Writer : \A x \in open[w] : x.at < moment
  /\ \A d \in Printer : \A s \in printing[d] : s.at < moment
  /\ \A p \in Column : \A s \in paper[p] : s.at < moment

\* A sheet, and a press on its way to one, is on record.
SheetsAreOnRecord ==
  /\ \A d \in Printer : \A s \in printing[d] : [whose |-> s.whose, at |-> s.at] \in prints
  /\ \A p \in Column : \A s \in paper[p] : \E r \in prints : r.whose \in {p, Everybody} /\ r.at = s.at

\* A write under way that the press did not see is stamped after it.
LaterThan(s) ==
  \A w \in Writer : \A x \in open[w] : x.visit \notin s.busy => s.at < x.at

\* What makes a change of v after instant t count.
News(v, t) == \E e \in toDayChanges(events) : e.visit = v /\ t < e.at

\* A sheet shows where a visit is, or left it off there, or there is news of it.
TrueOrNews(s) ==
  \A v \in Line \ s.busy :
    row[v] # NoLine => Shows(s.rows, v) \/ Shows(s.left, v) \/ News(v, s.at)

\* What a sheet left off occupies its time again only after a status tap.
OnlyTapsRevive(s) ==
  \A v \in Line :
    s.left[v] # NoLine => row[v] # NoLine /\ (row[v].occupies => Tapped(v, s.at))

SheetIsTrue(s) == LaterThan(s) /\ TrueOrNews(s) /\ OnlyTapsRevive(s)

SheetsAreTrue ==
  /\ \A d \in Printer : \A s \in printing[d] : LaterThan(s)
  /\ \A p \in Column : \A s \in paper[p] : SheetIsTrue(s)

SInv == SheetTypes /\ StampsHavePassed /\ SheetsAreOnRecord /\ SheetsAreTrue

LEMMA WriteStarts ==
  \A w \in Writer, v \in Line, p \in Column, t \in SheetStarts : SInv /\ WriteBegins(w, v, p, t) => SInv'
<1> SUFFICES ASSUME NEW w \in Writer, NEW v \in Line, NEW p \in Column, NEW t \in SheetStarts,
                    SInv, WriteBegins(w, v, p, t)
             PROVE  SInv'
  OBVIOUS
<1> DEFINE to == [provider |-> p, startAt |-> t, occupies |-> TRUE]
<1>1. /\ moment' = moment + 1 /\ open[w] = {}
      /\ UNCHANGED <<row, events, prints, printing, paper>>
  BY DEF WriteBegins, Passes
<1>2. PICK type \in Kinds(row[v], to) :
        open' = [open EXCEPT ![w] = {[visit |-> v, type |-> type, from |-> row[v], to |-> to, at |-> moment]}]
  BY DEF WriteBegins
<1>3. type \in CHANGE_TYPES
  BY DEF Kinds, CHANGE_TYPES
<1> DEFINE new == [visit |-> v, type |-> type, from |-> row[v], to |-> to, at |-> moment]
<1>4. new \in WriteUnderWay /\ new.at = moment
  <2>1. to \in SheetRow
    BY DEF SheetRow
  <2> HIDE DEF to
  <2> QED BY <1>3, <2>1 DEF SInv, SheetTypes, WriteUnderWay
<1>5. /\ moment \in Nat /\ open \in [Writer -> SUBSET WriteUnderWay] /\ open' = [open EXCEPT ![w] = {new}]
  BY <1>2 DEF SInv, SheetTypes
<1> HIDE DEF new, to
<1>6. SheetTypes'
  BY <1>1, <1>4, <1>5 DEF SInv, SheetTypes
<1>7. \A k \in Writer : \A x \in open'[k] : x \in open[k] \/ x = new
  BY <1>5
<1>8. StampsHavePassed'
  <2>1. \A n \in Nat : n < moment => n < moment + 1
    BY <1>5
  <2> QED BY <1>1, <1>4, <1>5, <1>7, <2>1
          DEF SInv, SheetTypes, StampsHavePassed, WriteUnderWay, PressUnderWay, Paper
<1>9. SheetsAreOnRecord'
  BY <1>1 DEF SInv, SheetsAreOnRecord
<1>10. SheetsAreTrue'
  <2>1. \A s : s.at < moment /\ LaterThan(s) => LaterThan(s)'
    BY <1>4, <1>7 DEF LaterThan
  <2>2. ASSUME NEW s, s.at < moment, SheetIsTrue(s) PROVE SheetIsTrue(s)'
    BY <1>1, <2>1, <2>2
       DEF SheetIsTrue, TrueOrNews, News, toDayChanges, OnlyTapsRevive, Tapped, Shows
  <2>3. \A k \in Printer : \A s \in printing'[k] : LaterThan(s)'
    BY <1>1, <2>1 DEF SInv, StampsHavePassed, SheetsAreTrue
  <2>4. \A k \in Column : \A s \in paper'[k] : SheetIsTrue(s)'
    BY <1>1, <2>2 DEF SInv, StampsHavePassed, SheetsAreTrue
  <2> QED BY <2>3, <2>4 DEF SheetsAreTrue
<1> QED BY <1>6, <1>8, <1>9, <1>10 DEF SInv

\* What a write leaves is a row again, and occupies its time if it did before.
LEMMA RowsRemain ==
  ASSUME NEW x \in WriteUnderWay, row \in [Line -> Stored], Meets(x), NEW r \in Leaves(x)
  PROVE  r \in SheetRow /\ (row[x.visit] # NoLine => r.occupies = row[x.visit].occupies)
<1> DEFINE was == row[x.visit]
<1>1. /\ x.to \in SheetRow /\ x.from \in Stored /\ x.visit \in Line
      /\ x.type \in {"booked", "rescheduled", "column_pushed", "provider_changed"}
      /\ was \in Stored /\ (x.from = NoLine <=> was = NoLine)
  BY DEF WriteUnderWay, CHANGE_TYPES, Meets
<1>2. CASE was = NoLine
  BY <1>1, <1>2 DEF Leaves
<1>3. CASE was # NoLine
  <2>1. was \in SheetRow
    BY <1>1, <1>3 DEF Stored
  <2>2. x.to.provider \in Column /\ x.to.startAt \in SheetStarts
    BY <1>1 DEF SheetRow
  <2>3. \/ r = [was EXCEPT !.provider = x.to.provider]
        \/ r = [was EXCEPT !.provider = x.to.provider, !.startAt = x.to.startAt]
        \/ \E t \in SheetStarts : r = [was EXCEPT !.startAt = t]
    BY <1>1, <1>3, <2>2 DEF Leaves
  <2> HIDE DEF was
  <2>4. r \in SheetRow /\ r.occupies = was.occupies
    BY <2>1, <2>2, <2>3 DEF SheetRow
  <2> QED BY <2>4 DEF was
<1> QED BY <1>2, <1>3

\* A write that lands is news to every sheet that did not see it under way.
LEMMA WriteLands == \A w \in Writer : SInv /\ WriteCommits(w) => SInv'
<1> SUFFICES ASSUME NEW w \in Writer, SInv, WriteCommits(w) PROVE SInv'
  OBVIOUS
<1>0. PICK x \in open[w] : \E left \in Leaves(x) :
        /\ Meets(x) /\ row' = [row EXCEPT ![x.visit] = left]
        /\ events' = events \cup Log(x) /\ open' = [open EXCEPT ![w] = {}]
        /\ UNCHANGED <<moment, prints, printing, paper>>
  BY DEF WriteCommits
<1>1. PICK left \in Leaves(x) :
        /\ Meets(x) /\ row' = [row EXCEPT ![x.visit] = left]
        /\ events' = events \cup Log(x) /\ open' = [open EXCEPT ![w] = {}]
        /\ UNCHANGED <<moment, prints, printing, paper>>
  BY <1>0
<1>2. /\ x \in WriteUnderWay /\ moment \in Nat /\ row \in [Line -> Stored]
      /\ open \in [Writer -> SUBSET WriteUnderWay]
  BY DEF SInv, SheetTypes
<1>3. /\ x.visit \in Line /\ x.type \in CHANGE_TYPES /\ x.at \in Nat
      /\ left \in SheetRow /\ (row[x.visit] # NoLine => left.occupies = row[x.visit].occupies)
  BY <1>1, <1>2, RowsRemain DEF WriteUnderWay
<1>4. Log(x) \subseteq SheetEvent
  <2>1. \A e \in Log(x) :
          \/ e = [visit |-> x.visit, type |-> x.type, via |-> FALSE, at |-> x.at]
          \/ e = [visit |-> x.visit, type |-> "provider_changed", via |-> TRUE, at |-> x.at]
    BY DEF Log
  <2>2. "provider_changed" \in CHANGE_TYPES
    BY DEF CHANGE_TYPES
  <2>3. [visit |-> x.visit, type |-> x.type, via |-> FALSE, at |-> x.at] \in SheetEvent
    BY <1>3 DEF SheetEvent
  <2>4. [visit |-> x.visit, type |-> "provider_changed", via |-> TRUE, at |-> x.at] \in SheetEvent
    BY <1>3, <2>2 DEF SheetEvent
  <2> QED BY <2>1, <2>3, <2>4
<1>5. [visit |-> x.visit, type |-> x.type, via |-> FALSE, at |-> x.at] \in Log(x)
  BY DEF Log
<1>6. \A k \in Writer : open'[k] \subseteq open[k] /\ open'[k] \in SUBSET WriteUnderWay
  BY <1>1, <1>2
<1>7. open' \in [Writer -> SUBSET WriteUnderWay] /\ row' \in [Line -> Stored] /\ events \subseteq events'
      /\ events' \subseteq SheetEvent
  BY <1>1, <1>2, <1>3, <1>4 DEF Stored, SInv, SheetTypes
<1>8. SheetTypes'
  BY <1>1, <1>7 DEF SInv, SheetTypes
<1>9. StampsHavePassed' /\ SheetsAreOnRecord'
  BY <1>1, <1>6 DEF SInv, StampsHavePassed, SheetsAreOnRecord
<1>10. \A s : LaterThan(s) => LaterThan(s)'
  BY <1>6 DEF LaterThan
<1>11. ASSUME NEW p \in Column, NEW s \in paper[p]
       PROVE  TrueOrNews(s)'
  <2>1. TrueOrNews(s) /\ LaterThan(s)
    BY DEF SInv, SheetsAreTrue, SheetIsTrue
  <2> SUFFICES ASSUME NEW v \in Line \ s.busy, row'[v] # NoLine
               PROVE  Shows(s.rows, v)' \/ Shows(s.left, v)' \/ News(v, s.at)'
    BY DEF TrueOrNews
  <2>2. News(v, s.at) => News(v, s.at)'
    BY <1>7 DEF News, toDayChanges
  <2>3. CASE row'[v] = row[v]
    BY <2>1, <2>2, <2>3 DEF TrueOrNews, Shows, At
  <2>4. CASE row'[v] # row[v]
    <3>1. v = x.visit /\ events' = events \cup Log(x)
      BY <1>1, <1>2, <1>3, <2>4
    <3>2. s.at < x.at
      BY <2>1, <3>1 DEF LaterThan
    <3> DEFINE e == [visit |-> x.visit, type |-> x.type, via |-> FALSE, at |-> x.at]
    <3>3. e \in events' /\ e.visit = v /\ e.at = x.at /\ e.type \in CHANGE_TYPES /\ ~e.via
      BY <1>3, <1>5, <3>1
    <3> HIDE DEF e
    <3>4. News(v, s.at)'
      BY <3>2, <3>3 DEF News, toDayChanges
    <3> QED BY <3>4
  <2> QED BY <2>3, <2>4
<1>12. ASSUME NEW p \in Column, NEW s \in paper[p]
       PROVE  OnlyTapsRevive(s)'
  <2>1. OnlyTapsRevive(s)
    BY DEF SInv, SheetsAreTrue, SheetIsTrue
  <2> SUFFICES ASSUME NEW v \in Line, s.left[v] # NoLine
               PROVE  row'[v] # NoLine /\ (row'[v].occupies => Tapped(v, s.at)')
    BY DEF OnlyTapsRevive
  <2>2. row[v] # NoLine /\ (row[v].occupies => Tapped(v, s.at))
    BY <2>1 DEF OnlyTapsRevive
  <2>3. Tapped(v, s.at) => Tapped(v, s.at)'
    BY <1>7 DEF Tapped
  <2>4. CASE row'[v] = row[v]
    BY <2>2, <2>3, <2>4
  <2>5. CASE row'[v] # row[v]
    <3>1. v = x.visit /\ row'[v] = left
      BY <1>1, <1>2, <1>3, <2>5
    <3>2. row'[v] # NoLine
      BY <1>3, <3>1, SheetAssumption DEF SheetRow
    <3> QED BY <1>3, <2>2, <2>3, <3>1, <3>2
  <2> QED BY <2>4, <2>5
<1>13. SheetsAreTrue'
  BY <1>1, <1>10, <1>11, <1>12 DEF SInv, SheetsAreTrue, SheetIsTrue
<1> QED BY <1>8, <1>9, <1>13 DEF SInv

\* A write that fails is one less under way.
LEMMA WriteIsLost == \A w \in Writer : SInv /\ WriteFails(w) => SInv'
<1> SUFFICES ASSUME NEW w \in Writer, SInv, WriteFails(w) PROVE SInv'
  OBVIOUS
<1>1. /\ open' = [open EXCEPT ![w] = {}]
      /\ UNCHANGED <<moment, row, events, prints, printing, paper>>
  BY DEF WriteFails
<1>2. open \in [Writer -> SUBSET WriteUnderWay]
  BY DEF SInv, SheetTypes
<1>3. /\ \A k \in Writer : open'[k] \subseteq open[k]
      /\ open' \in [Writer -> SUBSET WriteUnderWay]
  BY <1>1, <1>2
<1>4. SheetTypes' /\ StampsHavePassed' /\ SheetsAreOnRecord'
  BY <1>1, <1>3 DEF SInv, SheetTypes, StampsHavePassed, SheetsAreOnRecord
<1>5. \A s : LaterThan(s) => LaterThan(s)'
  BY <1>3 DEF LaterThan
<1>6. \A s : SheetIsTrue(s) => SheetIsTrue(s)'
  BY <1>1, <1>5 DEF SheetIsTrue, TrueOrNews, OnlyTapsRevive, News, toDayChanges, Tapped, Shows
<1>7. SheetsAreTrue'
  BY <1>1, <1>5, <1>6 DEF SInv, SheetsAreTrue
<1> QED BY <1>4, <1>7 DEF SInv

LEMMA StatusIsTapped == \A v \in Line : SInv /\ StatusTap(v) => SInv'
<1> SUFFICES ASSUME NEW v \in Line, SInv, StatusTap(v) PROVE SInv'
  OBVIOUS
<1> DEFINE new == [row[v] EXCEPT !.occupies = ~@]
           e == [visit |-> v, type |-> "status_changed", via |-> FALSE, at |-> moment]
<1>1. /\ moment' = moment + 1 /\ row[v] # NoLine /\ row' = [row EXCEPT ![v] = new]
      /\ events' = events \cup {e} /\ UNCHANGED <<open, prints, printing, paper>>
  BY DEF StatusTap, Passes
<1>2. moment \in Nat /\ row \in [Line -> Stored] /\ row[v] \in SheetRow
  BY <1>1 DEF SInv, SheetTypes, Stored
<1>3. new \in SheetRow /\ At(new) = At(row[v])
  BY <1>2 DEF SheetRow, At
<1>4. e \in SheetEvent
  BY <1>2 DEF SheetEvent
<1> HIDE DEF new, e
<1>5. SheetTypes'
  BY <1>1, <1>2, <1>3, <1>4 DEF SInv, SheetTypes, Stored
<1>6. StampsHavePassed'
  <2>1. \A n \in Nat : n < moment => n < moment + 1
    BY <1>2
  <2> QED BY <1>1, <2>1 DEF SInv, SheetTypes, StampsHavePassed, WriteUnderWay, PressUnderWay, Paper
<1>7. SheetsAreOnRecord'
  BY <1>1 DEF SInv, SheetsAreOnRecord
<1>8. \A s : LaterThan(s) => LaterThan(s)'
  BY <1>1 DEF LaterThan
<1>9. \A s : TrueOrNews(s) => TrueOrNews(s)'
  <2> SUFFICES ASSUME NEW s, TrueOrNews(s), NEW u \in Line \ s.busy, row'[u] # NoLine
               PROVE  Shows(s.rows, u)' \/ Shows(s.left, u)' \/ News(u, s.at)'
    BY DEF TrueOrNews
  <2>1. At(row'[u]) = At(row[u]) /\ row[u] # NoLine
    BY <1>1, <1>2, <1>3
  <2>2. News(u, s.at) => News(u, s.at)'
    BY <1>1 DEF News, toDayChanges
  <2> QED BY <2>1, <2>2 DEF TrueOrNews, Shows
<1>10. ASSUME NEW s, s.at < moment, OnlyTapsRevive(s)
       PROVE  OnlyTapsRevive(s)'
  <2> SUFFICES ASSUME NEW u \in Line, s.left[u] # NoLine
               PROVE  row'[u] # NoLine /\ (row'[u].occupies => Tapped(u, s.at)')
    BY DEF OnlyTapsRevive
  <2>1. row[u] # NoLine /\ (row[u].occupies => Tapped(u, s.at))
    BY <1>10 DEF OnlyTapsRevive
  <2>2. Tapped(u, s.at) => Tapped(u, s.at)'
    BY <1>1 DEF Tapped
  <2>3. CASE u = v
    <3>1. Tapped(v, s.at)'
      <4>1. e \in events' /\ e.visit = v /\ e.type = "status_changed" /\ e.at = moment
        BY <1>1 DEF e
      <4> QED BY <1>10, <4>1 DEF Tapped
    <3>2. row'[v] # NoLine
      BY <1>1, <1>2, <1>3, SheetAssumption DEF SheetRow
    <3> QED BY <2>3, <3>1, <3>2
  <2>4. CASE u # v
    BY <1>1, <1>2, <2>1, <2>2, <2>4
  <2> QED BY <2>3, <2>4
<1>11. SheetsAreTrue'
  BY <1>1, <1>8, <1>9, <1>10 DEF SInv, StampsHavePassed, SheetsAreTrue, SheetIsTrue
<1> QED BY <1>5, <1>6, <1>7, <1>11 DEF SInv

LEMMA PressIsRecorded ==
  \A d \in Printer, whose \in Whose : SInv /\ recordSheetPrint(d, whose) => SInv'
<1> SUFFICES ASSUME NEW d \in Printer, NEW whose \in Whose, SInv, recordSheetPrint(d, whose) PROVE SInv'
  OBVIOUS
<1> PICK new, r : /\ new = [whose |-> whose, at |-> moment, busy |-> InFlight]
                  /\ r = [whose |-> whose, at |-> moment]
  OBVIOUS
<1>1. /\ moment' = moment + 1 /\ prints' = prints \cup {r} /\ printing' = [printing EXCEPT ![d] = {new}]
      /\ UNCHANGED <<row, events, open, paper>>
  BY DEF recordSheetPrint, Passes
<1>2. /\ moment \in Nat /\ printing \in [Printer -> SUBSET PressUnderWay]
      /\ open \in [Writer -> SUBSET WriteUnderWay]
  BY DEF SInv, SheetTypes
<1>3. InFlight \subseteq Line /\ \A w \in Writer : \A x \in open[w] : x.visit \in InFlight
  BY <1>2 DEF InFlight, WriteUnderWay
<1>4. /\ new \in PressUnderWay /\ r \in Press /\ new.at = moment /\ new.busy = InFlight
      /\ [whose |-> new.whose, at |-> new.at] = r
  BY <1>2, <1>3 DEF PressUnderWay, Press
<1>5. SheetTypes'
  BY <1>1, <1>2, <1>4 DEF SInv, SheetTypes
<1>6. \A k \in Printer : \A s \in printing'[k] : s \in printing[k] \/ s = new
  BY <1>1, <1>2
<1>7. StampsHavePassed'
  <2>1. \A n \in Nat : n < moment => n < moment + 1
    BY <1>2
  <2>2. moment < moment + 1
    BY <1>2
  <2> QED BY <1>1, <1>4, <1>6, <2>1, <2>2
          DEF SInv, SheetTypes, StampsHavePassed, WriteUnderWay, PressUnderWay, Paper
<1>8. SheetsAreOnRecord'
  BY <1>1, <1>4, <1>6 DEF SInv, SheetsAreOnRecord
<1>9. SheetsAreTrue'
  <2>1. \A s : LaterThan(s) => LaterThan(s)'
    BY <1>1 DEF LaterThan
  <2>2. ASSUME NEW s, s.at < moment, SheetIsTrue(s) PROVE SheetIsTrue(s)'
    BY <1>1, <2>1, <2>2
       DEF SheetIsTrue, TrueOrNews, News, toDayChanges, OnlyTapsRevive, Tapped, Shows
  <2>3. LaterThan(new)'
    BY <1>1, <1>3, <1>4 DEF LaterThan
  <2>4. \A k \in Printer : \A s \in printing'[k] : LaterThan(s)'
    BY <1>6, <2>1, <2>3 DEF SInv, SheetsAreTrue
  <2>5. \A p \in Column : \A s \in paper'[p] : SheetIsTrue(s)'
    BY <1>1, <2>2 DEF SInv, StampsHavePassed, SheetsAreTrue
  <2> QED BY <2>4, <2>5 DEF SheetsAreTrue
<1> QED BY <1>5, <1>7, <1>8, <1>9 DEF SInv

LEMMA PressEnds ==
  ASSUME SInv, NEW d \in Printer, printing' = [printing EXCEPT ![d] = {}],
         UNCHANGED <<moment, row, events, open, prints>>,
         NEW s \in printing[d],
         \A p \in Column : paper'[p] = paper[p]
                           \/ (s.whose \in {p, Everybody} /\ paper'[p] = paper[p] \cup {Sheets(s)}),
         paper' \in [Column -> SUBSET Paper]
  PROVE  SInv'
<1>1. /\ printing \in [Printer -> SUBSET PressUnderWay] /\ s \in PressUnderWay
  BY DEF SInv, SheetTypes
<1>2. \A k \in Printer : printing'[k] \subseteq printing[k] /\ printing'[k] \subseteq PressUnderWay
  BY <1>1
<1>3. \A p \in Column : \A t \in paper'[p] :
        t \in paper[p] \/ (t = Sheets(s) /\ s.whose \in {p, Everybody})
  OBVIOUS
<1>4. /\ Sheets(s).at = s.at /\ Sheets(s).busy = s.busy
      /\ Sheets(s).rows = sheetItems /\ Sheets(s).left = Left
  BY DEF Sheets
<1>5. SheetTypes'
  BY <1>1 DEF SInv, SheetTypes
<1>6. StampsHavePassed'
  BY <1>2, <1>3, <1>4 DEF SInv, StampsHavePassed
<1>7. SheetsAreOnRecord'
  <2>1. [whose |-> s.whose, at |-> s.at] \in prints
    BY DEF SInv, SheetsAreOnRecord
  <2> QED BY <1>2, <1>3, <1>4, <2>1 DEF SInv, SheetsAreOnRecord
<1>8. SheetsAreTrue'
  <2>1. \A t : LaterThan(t) => LaterThan(t)'
    BY DEF LaterThan
  <2>2. ASSUME NEW t, SheetIsTrue(t) PROVE SheetIsTrue(t)'
    BY <2>1, <2>2 DEF SheetIsTrue, TrueOrNews, News, toDayChanges, OnlyTapsRevive, Tapped, Shows
  <2>3. \A v \in Line :
          /\ sheetItems[v] = IF Occupies(v) THEN row[v] ELSE NoLine
          /\ Left[v] = IF Occupies(v) THEN NoLine ELSE row[v]
    BY DEF sheetItems, Left
  <2>4. LaterThan(Sheets(s))
    BY <1>4 DEF SInv, SheetsAreTrue, LaterThan
  <2>5. TrueOrNews(Sheets(s))
    BY <1>4, <2>3 DEF TrueOrNews, Shows
  <2>6. OnlyTapsRevive(Sheets(s))
    BY <1>4, <2>3 DEF OnlyTapsRevive, Occupies
  <2>7. \A k \in Printer : \A t \in printing'[k] : LaterThan(t)'
    BY <1>2, <2>1 DEF SInv, SheetsAreTrue
  <2>8. ASSUME NEW t, t = Sheets(s) PROVE SheetIsTrue(t)'
    <3>1. SheetIsTrue(t)
      BY <2>4, <2>5, <2>6, <2>8 DEF SheetIsTrue
    <3> QED BY <2>2, <3>1
  <2>9. \A p \in Column : \A t \in paper'[p] : SheetIsTrue(t)'
    <3> SUFFICES ASSUME NEW p \in Column, NEW t \in paper'[p] PROVE SheetIsTrue(t)'
      OBVIOUS
    <3>1. CASE t \in paper[p]
      BY <2>2, <3>1 DEF SInv, SheetsAreTrue
    <3>2. CASE t = Sheets(s)
      BY <2>8, <3>2
    <3> QED BY <1>3, <3>1, <3>2
  <2> QED BY <2>7, <2>8, <2>9 DEF SheetsAreTrue
<1> QED BY <1>5, <1>6, <1>7, <1>8 DEF SInv

LEMMA PageIsPrinted == \A d \in Printer : SInv /\ SheetPrint(d) => SInv'
<1> SUFFICES ASSUME NEW d \in Printer, SInv, SheetPrint(d) PROVE SInv'
  OBVIOUS
<1>1. PICK s \in printing[d] :
        /\ printing' = [printing EXCEPT ![d] = {}]
        /\ paper' = [p \in Column |-> IF p \in On(s) THEN paper[p] \cup {Sheets(s)} ELSE paper[p]]
        /\ UNCHANGED <<moment, row, events, open, prints>>
  BY DEF SheetPrint
<1>2. s \in PressUnderWay /\ row \in [Line -> Stored] /\ paper \in [Column -> SUBSET Paper]
  BY DEF SInv, SheetTypes
<1>3. Sheets(s) \in Paper
  <2>1. sheetItems \in [Line -> Stored] /\ Left \in [Line -> Stored]
    BY <1>2 DEF sheetItems, Left, Stored
  <2> QED BY <1>2, <2>1 DEF Sheets, Paper, PressUnderWay
<1>4. \A p \in Column : p \in On(s) => s.whose \in {p, Everybody}
  BY DEF On
<1>5. paper' \in [Column -> SUBSET Paper]
  BY <1>1, <1>2, <1>3
<1>6. \A p \in Column : paper'[p] = paper[p]
                        \/ (s.whose \in {p, Everybody} /\ paper'[p] = paper[p] \cup {Sheets(s)})
  BY <1>1, <1>4
<1> QED BY <1>1, <1>5, <1>6, PressEnds

LEMMA PressIsAbandoned == \A d \in Printer : SInv /\ Abandon(d) => SInv'
<1> SUFFICES ASSUME NEW d \in Printer, SInv, Abandon(d) PROVE SInv'
  OBVIOUS
<1>1. /\ printing[d] # {} /\ printing' = [printing EXCEPT ![d] = {}]
      /\ UNCHANGED <<moment, row, events, open, prints, paper>>
  BY DEF Abandon
<1>2. PICK s \in printing[d] : TRUE
  BY <1>1
<1>3. paper' \in [Column -> SUBSET Paper] /\ \A p \in Column : paper'[p] = paper[p]
  BY <1>1 DEF SInv, SheetTypes
<1> QED BY <1>1, <1>2, <1>3, PressEnds

LEMMA TimePasses == SInv /\ Night => SInv'
<1> SUFFICES ASSUME SInv, Night PROVE SInv'
  OBVIOUS
<1>1. moment' = moment + 1 /\ UNCHANGED <<row, events, open, prints, printing, paper>>
  BY DEF Night, Passes
<1>2. moment \in Nat /\ \A n \in Nat : n < moment => n < moment + 1
  BY DEF SInv, SheetTypes
<1>3. SheetTypes' /\ SheetsAreOnRecord'
  BY <1>1, <1>2 DEF SInv, SheetTypes, SheetsAreOnRecord
<1>4. StampsHavePassed'
  BY <1>1, <1>2 DEF SInv, SheetTypes, StampsHavePassed, WriteUnderWay, PressUnderWay, Paper
<1>5. SheetsAreTrue'
  BY <1>1 DEF SInv, SheetsAreTrue, SheetIsTrue, LaterThan, TrueOrNews, OnlyTapsRevive,
              Tapped, Shows, News, toDayChanges
<1> QED BY <1>3, <1>4, <1>5 DEF SInv

LEMMA SInvInit == SheetInit => SInv
<1> SUFFICES ASSUME SheetInit PROVE SInv
  OBVIOUS
<1>1. SheetTypes
  BY DEF SheetInit, SheetTypes, Stored
<1> QED BY <1>1
        DEF SheetInit, SInv, StampsHavePassed, SheetsAreOnRecord, SheetsAreTrue

LEMMA SInvNext == SInv /\ [SheetNext]_sheetVars => SInv'
<1> SUFFICES ASSUME SInv, [SheetNext]_sheetVars PROVE SInv'
  OBVIOUS
<1>1. CASE UNCHANGED sheetVars
  BY <1>1 DEF sheetVars, SInv, SheetTypes, StampsHavePassed, SheetsAreOnRecord, SheetsAreTrue,
              SheetIsTrue, LaterThan, TrueOrNews, OnlyTapsRevive, Tapped, Shows,
              News, toDayChanges
<1>2. CASE SheetNext
  BY <1>2, WriteStarts, WriteLands, WriteIsLost, StatusIsTapped, PressIsRecorded, PageIsPrinted,
     PressIsAbandoned, TimePasses
     DEF SheetNext, Whose
<1> QED BY <1>1, <1>2

\* The inductive invariant of Sheet.
THEOREM SInvIsInvariant == SheetSpec => []SInv
BY SInvInit, SInvNext, PTL DEF SheetSpec
-----------------------------------------------------------------------------
\* What the invariants are for.

\* The greatest element of a set of numbers is its Max.
LEMMA MaxIsGreatest ==
  ASSUME NEW S \in SUBSET Int, NEW m \in S, \A x \in S : x <= m
  PROVE  Max(S) = m
<1>1. \E x \in S : \A y \in S : x >= y
  BY SMT
<1>2. Max(S) \in S /\ \A y \in S : Max(S) >= y
  BY <1>1 DEF Max
<1>3. Max(S) \in Int /\ m \in Int /\ Max(S) >= m /\ Max(S) <= m
  BY <1>2
<1> QED BY <1>3

\* A sheet that is the last made of its column is the one the count starts at.
LEMMA PinnedIsLast ==
  ASSUME SInv, NEW p \in Column, NEW s \in Pinned(p)
  PROVE  /\ s \in paper[p] /\ s.at \in Nat /\ lastPrinted(p) = s.at
         /\ changesSince(p) <= s.at /\ changesSince(p) \in Int
<1>1. s \in paper[p] /\ s.at \in Nat /\ \A r \in prints : r.whose \in {p, Everybody} => r.at <= s.at
  BY DEF Pinned, SInv, SheetTypes, Paper
<1>2. PICK r \in prints : r.whose \in {p, Everybody} /\ r.at = s.at
  BY <1>1 DEF SInv, SheetsAreOnRecord
<1> DEFINE S == {-1} \cup {k.at : k \in {k \in prints : k.whose \in {p, Everybody}}}
<1>3. S \in SUBSET Int /\ s.at \in S /\ \A x \in S : x <= s.at
  BY <1>1, <1>2 DEF SInv, SheetTypes, Press
<1>4. lastPrinted(p) = Max(S)
  BY DEF lastPrinted
<1> HIDE DEF S
<1>5. lastPrinted(p) = s.at
  BY <1>3, <1>4, MaxIsGreatest
<1>6. todayStart \in Nat
  <2>1. moment \in Nat /\ MomentsADay \in Nat \ {0}
    BY SheetAssumption DEF SInv, SheetTypes
  <2>2. moment \div MomentsADay \in Nat
    BY <2>1
  <2> QED BY <2>1, <2>2 DEF todayStart
<1>7. changesSince(p) <= s.at /\ changesSince(p) \in Int
  BY <1>1, <1>5, <1>6 DEF changesSince
<1> QED BY <1>1, <1>5, <1>7

\* For any writers, printers and columns: whatever differs from the sheet at a
\* station is counted, unless its write was under way at the press or it was
\* left off as cancelled there and a status tap revived it, and what is counted
\* is news to that sheet (A-150).
THEOREM TheCountIsTrue == SheetSpec => []DriftIsTheTruth
<1>1. SInv => DriftIsCounted
  <2> SUFFICES ASSUME SInv, NEW p \in Column, NEW s \in Pinned(p), NEW v \in Known, row[v].provider = p,
                      ~Shows(s.rows, v), v \notin s.busy, ~Revived(s, v)
               PROVE  v \in changedSincePrint(p)
    BY DEF DriftIsCounted
  <2>1. s \in paper[p] /\ s.at \in Nat /\ lastPrinted(p) = s.at /\ changesSince(p) <= s.at
        /\ changesSince(p) \in Int
    BY PinnedIsLast
  <2>2. News(v, s.at)
    BY <2>1 DEF Known, SInv, SheetsAreTrue, SheetIsTrue, TrueOrNews, OnlyTapsRevive, Revived,
                   Shows
  <2>3. PICK e \in toDayChanges(events) : e.visit = v /\ s.at < e.at
    BY <2>2 DEF News
  <2>4. e.at \in Nat
    BY <2>3 DEF SInv, SheetTypes, SheetEvent, toDayChanges
  <2>5. e \in Changes(v, p)
    BY <2>1, <2>3, <2>4 DEF Changes, toDayChanges
  <2> QED BY <2>1, <2>3, <2>4, <2>5 DEF changedSincePrint
<1>2. SInv => OnlyNewsIsCounted
  <2> SUFFICES ASSUME SInv, NEW p \in Column, NEW s \in Pinned(p), NEW v \in changedSincePrint(p)
               PROVE  \E e \in events : e.visit = v /\ e.at > s.at /\ e.type # "status_changed"
    BY DEF OnlyNewsIsCounted
  <2>1. lastPrinted(p) = s.at
    BY PinnedIsLast
  <2>2. PICK e \in Changes(v, p) : e.at > lastPrinted(p)
    BY DEF changedSincePrint
  <2>3. e \in events /\ e.visit = v /\ e.type \in CHANGE_TYPES
    BY <2>2 DEF Changes, toDayChanges
  <2> QED BY <2>1, <2>2, <2>3 DEF CHANGE_TYPES
<1> QED BY <1>1, <1>2, SInvIsInvariant, PTL DEF DriftIsTheTruth

\* For any entries, clients, desks and days: whoever would be rung is on the
\* queue, nobody leaves the list but through her own booking or a button, and
\* whoever was booked from her entry is not rung about it again (A-110, A-125).
THEOREM NobodyIsForgotten == WaitingSpec => []NobodyWaitsInVain
<1>1. WInv => WhoIsMatchedIsWaiting
  <2> SUFFICES ASSUME WInv, NEW e \in matchFreedSlot PROVE e \in listWaitlistEntries
    BY DEF WhoIsMatchedIsWaiting
  <2>1. /\ e \in OnFile /\ entry[e] \in WaitlistEntry /\ today \in Nat /\ today <= SpanDay
        /\ entry[e].status = "active" /\ entry[e].to >= SpanDay
    BY DEF matchFreedSlot, OnFile, WInv, WaitingTypes
  <2>2. entry[e].to \in Int
    BY <2>1, WaitingAssumption DEF WaitlistEntry
  <2> QED BY <2>1, <2>2, WaitingAssumption DEF listWaitlistEntries, notExpiredOn
<1> QED BY <1>1, WInvIsInvariant, PTL DEF WInv, NobodyWaitsInVain
-----------------------------------------------------------------------------
\* The standing appointment.

Stage == {"idle", "list", "claim", "booking", "ending", "cancelling"}
AtHand ==
  [at : Stage, shown : Nat, plan : SUBSET Week, here : Nat, stays : SUBSET Week, ended : Nat,
   onUs : BOOLEAN, from : AppointmentStatus \cup {"none"}, back : SUBSET Week]

SeriesTypes ==
  /\ requested \in 0 .. Ceiling
  /\ asked \in [Week -> Nat]
  /\ visit \in [Week -> AppointmentStatus \cup {"none"}]
  /\ desk \in [Reception -> AtHand]

\* A list shows a number n the rule has had; the weeks planned from it begin
\* where the rule ended at some moment since.
ListIsOfThePast(r, n) ==
  /\ r.at \in {"list", "claim"} => r.shown <= n
  /\ r.at = "claim" =>
       r.here # 0 /\ \E x \in r.shown .. n : r.plan = planOccurrences(x, r.here) \cap Week

PlanIsWork(r) == r.at \in {"booking", "cancelling"} => r.plan # {}

\* An end under way knows every week of the book it has to answer for.
EndAnswers(r, there) ==
  r.at \in {"ending", "cancelling"} =>
    \A w \in there : w >= r.here => w \in r.plan \cup r.stays \cup r.back

InOrder(r, n, there) == ListIsOfThePast(r, n) /\ PlanIsWork(r) /\ EndAnswers(r, there)

SeriesInv ==
  SeriesTypes /\ EveryWeekAskedOnce /\ \A d \in Reception : InOrder(desk[d], requested, active)

\* What a session keeps while others work and weeks come into the book.
CarriesOn(q, r, came) ==
  /\ q.at = r.at /\ q.shown = r.shown /\ q.plan = r.plan /\ q.here = r.here /\ q.stays = r.stays
  /\ r.at \in {"ending", "cancelling"} => r.back \cup came \subseteq q.back

LEMMA OthersInOrder ==
  ASSUME NEW r \in AtHand, NEW q \in AtHand, NEW m \in Nat, NEW n \in Nat, m <= n,
         NEW was, NEW there, NEW came, there \subseteq was \cup came,
         InOrder(r, m, was), CarriesOn(q, r, came)
  PROVE  InOrder(q, n, there)
<1>1. ListIsOfThePast(q, n)
  <2>1. r.shown \in Nat
    BY DEF AtHand
  <2>2. \A x \in r.shown .. m : x \in r.shown .. n
    BY <2>1
  <2> QED BY <2>1, <2>2 DEF InOrder, CarriesOn, ListIsOfThePast
<1>2. PlanIsWork(q)
  BY DEF InOrder, CarriesOn, PlanIsWork
<1>3. EndAnswers(q, there)
  BY DEF InOrder, CarriesOn, EndAnswers
<1> QED BY <1>1, <1>2, <1>3 DEF InOrder

\* A step of the sessions in D, by which the weeks in came came into the book.
LEMMA SessionsStep ==
  ASSUME SeriesInv, SeriesConstants, NEW D \in SUBSET Reception, NEW came,
         requested' \in requested .. Ceiling, asked' \in [Week -> Nat],
         visit' \in [Week -> AppointmentStatus \cup {"none"}],
         desk' \in [Reception -> AtHand],
         active' \subseteq active \cup came,
         \A e \in Reception \ D : CarriesOn(desk'[e], desk[e], came),
         \A e \in D : InOrder(desk'[e], requested', active'),
         EveryWeekAskedOnce'
  PROVE  SeriesInv'
<1>1. requested \in Nat /\ requested' \in Nat /\ requested <= requested' /\ requested' \in 0 .. Ceiling
  BY DEF SeriesInv, SeriesTypes, SeriesConstants
<1>2. SeriesTypes'
  BY <1>1 DEF SeriesTypes, Week, AtHand
<1>3. ASSUME NEW e \in Reception PROVE InOrder(desk'[e], requested', active')
  <2>1. CASE e \in D
    BY <2>1
  <2>2. CASE e \notin D
    <3>1. desk[e] \in AtHand /\ desk'[e] \in AtHand
      BY DEF SeriesInv, SeriesTypes
    <3>2. InOrder(desk[e], requested, active) /\ CarriesOn(desk'[e], desk[e], came)
      BY <2>2 DEF SeriesInv
    <3> QED BY <1>1, <3>1, <3>2, OthersInOrder
  <2> QED BY <2>1, <2>2
<1> QED BY <1>2, <1>3 DEF SeriesInv, InOrder, ListIsOfThePast, PlanIsWork, EndAnswers

\* A step of one session that adds no week to the book or to the rule.
LEMMA OneSession ==
  ASSUME SeriesInv, SeriesConstants, NEW d \in Reception, NEW r \in AtHand,
         desk' = [desk EXCEPT ![d] = r],
         visit' \in [Week -> AppointmentStatus \cup {"none"}], active' \subseteq active,
         UNCHANGED <<requested, asked>>,
         InOrder(r, requested, active')
  PROVE  SeriesInv'
<1>1. desk \in [Reception -> AtHand] /\ requested \in 0 .. Ceiling /\ asked \in [Week -> Nat]
  BY DEF SeriesInv, SeriesTypes
<1>2. desk' \in [Reception -> AtHand] /\ desk'[d] = r /\ \A e \in Reception \ {d} : desk'[e] = desk[e]
  BY <1>1
<1>3. \A e \in Reception \ {d} : CarriesOn(desk'[e], desk[e], {})
  BY <1>2 DEF CarriesOn
<1>4. requested' \in requested .. Ceiling
  BY <1>1 DEF SeriesConstants
<1>5. EveryWeekAskedOnce'
  BY DEF SeriesInv, EveryWeekAskedOnce, Week
<1>6. \A e \in {d} : InOrder(desk'[e], requested', active')
  BY <1>2
<1>7. {d} \in SUBSET Reception /\ active' \subseteq active \cup {} /\ asked' \in [Week -> Nat]
  BY <1>1 DEF Week
<1>8. desk' \in [Reception -> AtHand]
  BY <1>2
<1> HIDE DEF InOrder, CarriesOn
<1> QED BY ONLY SeriesInv, SeriesConstants, visit' \in [Week -> AppointmentStatus \cup {"none"}],
     <1>3, <1>4, <1>5, <1>6, <1>7, <1>8, SessionsStep

LEMMA IdleIsInOrder ==
  ASSUME NEW n, NEW there
  PROVE  idle \in AtHand /\ InOrder(idle, n, there)
BY DEF idle, AtHand, Stage, InOrder, ListIsOfThePast, PlanIsWork, EndAnswers
\* Sets of weeks have a first one.
LEMMA FirstWeek ==
  ASSUME NEW T \in SUBSET Nat, T # {}
  PROVE  first(T) \in T /\ \A x \in T : first(T) <= x
<1> DEFINE S == FiniteSubsetsOf(Nat)
           R == StrictSubsetOrdering(Nat)
           U == {1 .. x : x \in T}
<1>1. IsWellFoundedOn(R, S)
  BY FS_StrictSubsetOrderingWellFounded
<1>2. U \subseteq S /\ U # {}
  <2>1. ASSUME NEW x \in T PROVE 1 .. x \in S
    <3>1. IsFiniteSet(1 .. x) /\ 1 .. x \in SUBSET Nat
      BY FS_Interval
    <3> QED BY <3>1 DEF FiniteSubsetsOf
  <2> HIDE DEF S
  <2> QED BY <2>1
<1>3. ASSUME NEW x \in T, NEW y \in T, y < x PROVE <<1 .. y, 1 .. x>> \in R
  <2>1. 1 .. y \subseteq 1 .. x /\ x \in 1 .. x /\ x \notin 1 .. y
    BY <1>3
  <2> QED BY <2>1 DEF StrictSubsetOrdering
<1>4. \E u \in U : \A y \in U : <<y, u>> \notin R
  <2> HIDE DEF R, S, U
  <2> QED BY <1>1, <1>2, WFMin
<1>5. PICK x \in T : \A y \in T : <<1 .. y, 1 .. x>> \notin R
  BY <1>4
<1> HIDE DEF R, S, U
<1>6. ASSUME NEW y \in T PROVE x <= y
  <2>1. ~(y < x)
    BY <1>3, <1>5
  <2> QED BY <2>1
<1> QED BY <1>6 DEF first

LEMMA ToDo ==
  ASSUME SeriesInv, SeriesConstants, NEW d \in Reception, desk[d].plan # {}
  PROVE  first(desk[d].plan) \in desk[d].plan /\ first(desk[d].plan) \in Week
<1>1. desk[d].plan \in SUBSET Week
  BY DEF SeriesInv, SeriesTypes, AtHand
<1>2. desk[d].plan \in SUBSET Nat
  BY <1>1 DEF Week
<1> QED BY <1>1, <1>2, FirstWeek

LEMMA TableIsOfStatuses ==
  ASSUME NEW from, NEW to, NEW ctx, canTransition(from, to, ctx)
  PROVE  from \in AppointmentStatus /\ to \in AppointmentStatus
BY DEF canTransition, TRANSITIONS, Clause, NotYetArrived, SlotFreeing, AppointmentStatus

LEMMA CancelFrees ==
  ASSUME NEW from, NEW ctx
  PROVE  staffCancellationStatus(from, ctx) \in SlotFreeing
BY DEF staffCancellationStatus, SlotFreeing

\* Creating and extending.

LEMMA Creates ==
  ASSUME SeriesInv, SeriesConstants, NEW d \in Reception, NEW n \in Count, CreateSeries(d, n)
  PROVE  SeriesInv'
<1> DEFINE r == [idle EXCEPT !.at = "booking", !.plan = planOccurrences(0, n)]
<1>1. n \in Nat /\ n # 0 /\ n <= Ceiling /\ requested = 0 /\ requested' = n
  BY DEF SeriesConstants, CreateSeries
<1>2. planOccurrences(0, n) = 0 .. n - 1 /\ planOccurrences(0, n) \in SUBSET Week
  BY <1>1 DEF planOccurrences, Week, SeriesConstants
<1>3. r \in AtHand /\ r.at = "booking" /\ r.plan = planOccurrences(0, n)
  BY <1>2 DEF idle, AtHand, Stage
<1>4. 0 \in planOccurrences(0, n)
  BY <1>1, <1>2
<1>5. InOrder(r, requested', active')
  BY <1>3, <1>4 DEF InOrder, ListIsOfThePast, PlanIsWork, EndAnswers
<1>6. desk' = [desk EXCEPT ![d] = r] /\ UNCHANGED visit
  BY DEF CreateSeries
<1> HIDE DEF r
<1>7. desk \in [Reception -> AtHand] /\ visit \in [Week -> AppointmentStatus \cup {"none"}]
  BY DEF SeriesInv, SeriesTypes
<1>8. desk' \in [Reception -> AtHand] /\ desk'[d] = r /\ \A e \in Reception \ {d} : desk'[e] = desk[e]
  BY <1>3, <1>6, <1>7
<1>9. asked' \in [Week -> Nat] /\ EveryWeekAskedOnce'
  <2>1. asked \in [Week -> Nat] /\ \A w \in Week : asked[w] = 0
    BY <1>1 DEF SeriesInv, SeriesTypes, EveryWeekAskedOnce, Week
  <2>2. asked' = [w \in Week |-> IF w \in planOccurrences(0, n) THEN asked[w] + 1 ELSE asked[w]]
    BY DEF CreateSeries, Ask
  <2>3. \A w \in Week : w \in planOccurrences(0, n) <=> w < n
    BY <1>1, <1>2 DEF Week
  <2> QED BY <1>1, <2>1, <2>2, <2>3 DEF EveryWeekAskedOnce, Week
<1>10. \A e \in Reception \ {d} : CarriesOn(desk'[e], desk[e], {})
  BY <1>8 DEF CarriesOn
<1>11. /\ requested' \in requested .. Ceiling /\ {d} \in SUBSET Reception
       /\ visit' \in [Week -> AppointmentStatus \cup {"none"}] /\ active' \subseteq active \cup {}
  BY <1>1, <1>6, <1>7 DEF active, SeriesConstants
<1>12. desk' \in [Reception -> AtHand] /\ \A e \in {d} : InOrder(desk'[e], requested', active')
  BY <1>5, <1>8
<1> QED BY ONLY SeriesInv, SeriesConstants, <1>9, <1>10, <1>11, <1>12, SessionsStep

LEMMA ListsEnding ==
  ASSUME SeriesInv, SeriesConstants, NEW d \in Reception, listSeriesEnding(d)
  PROVE  SeriesInv'
<1> DEFINE r == [idle EXCEPT !.at = "list", !.shown = requested]
<1>1. requested \in Nat
  BY DEF SeriesInv, SeriesTypes, SeriesConstants
<1>2. r \in AtHand /\ r.at = "list" /\ r.shown = requested
  BY <1>1 DEF idle, AtHand, Stage
<1>3. InOrder(r, requested, active')
  BY <1>1, <1>2 DEF InOrder, ListIsOfThePast, PlanIsWork, EndAnswers
<1>4. desk' = [desk EXCEPT ![d] = r] /\ UNCHANGED <<visit, requested, asked>>
  BY DEF listSeriesEnding
<1>5. visit' \in [Week -> AppointmentStatus \cup {"none"}] /\ active' \subseteq active
  BY <1>4 DEF SeriesInv, SeriesTypes, active
<1> QED BY <1>2, <1>3, <1>4, <1>5, OneSession

LEMMA LoadsSeries ==
  ASSUME SeriesInv, SeriesConstants, NEW d \in Reception, NEW n \in Count, LoadSeries(d, n)
  PROVE  SeriesInv'
<1> DEFINE old == desk[d]
           planned == [old EXCEPT !.at = "claim", !.plan = planOccurrences(requested, n) \cap Week,
                                  !.here = n]
           r == IF endedAt # StillRuns \/ active = {} THEN idle ELSE planned
<1>1. requested \in Nat /\ n \in Nat /\ n # 0 /\ old \in AtHand /\ old.at = "list"
  BY DEF SeriesInv, SeriesTypes, SeriesConstants, LoadSeries
<1>2. desk' = [desk EXCEPT ![d] = r] /\ UNCHANGED <<visit, requested, asked>>
  BY DEF LoadSeries
<1>3. old.shown \in Nat /\ old.shown <= requested
  BY <1>1 DEF SeriesInv, InOrder, ListIsOfThePast, AtHand
<1>4. planned \in AtHand /\ InOrder(planned, requested, active')
  <2>1. /\ planned \in AtHand /\ planned.at = "claim" /\ planned.shown = old.shown /\ planned.here = n
        /\ planned.plan = planOccurrences(requested, n) \cap Week
    BY <1>1 DEF AtHand, Stage
  <2> HIDE DEF planned, old
  <2>2. requested \in planned.shown .. requested
    BY <1>1, <1>3, <2>1
  <2>3. ListIsOfThePast(planned, requested)
    BY <1>1, <1>3, <2>1, <2>2 DEF ListIsOfThePast
  <2> QED BY <2>1, <2>3 DEF InOrder, PlanIsWork, EndAnswers
<1>5. r \in AtHand /\ InOrder(r, requested, active')
  <2> HIDE DEF planned, InOrder
  <2> QED BY <1>4, IdleIsInOrder
<1>6. visit' \in [Week -> AppointmentStatus \cup {"none"}] /\ active' \subseteq active
  BY <1>2 DEF SeriesInv, SeriesTypes, active
<1> HIDE DEF r
<1> QED BY <1>2, <1>5, <1>6, OneSession

\* The weeks claimed against the number shown are the ones planned from the
\* number read: the rule only grows, so between the two it did not.
LEMMA Claims ==
  ASSUME SeriesInv, SeriesConstants, NEW d \in Reception, Claim(d)
  PROVE  SeriesInv'
<1> DEFINE old == desk[d]
<1>1. old \in AtHand /\ old.at = "claim" /\ requested \in 0 .. Ceiling /\ UNCHANGED visit
  BY DEF SeriesInv, SeriesTypes, Claim
<1>2. visit' \in [Week -> AppointmentStatus \cup {"none"}] /\ active' = active
  BY <1>1 DEF SeriesInv, SeriesTypes, active
<1>3. CASE ~(claimable(d) /\ old.shown + old.here <= Ceiling)
  <2>1. desk' = [desk EXCEPT ![d] = idle] /\ UNCHANGED <<requested, asked>>
    BY <1>3 DEF Claim
  <2> QED BY <1>2, <2>1, IdleIsInOrder, OneSession
<1>4. CASE claimable(d) /\ old.shown + old.here <= Ceiling
  <2> DEFINE r == [old EXCEPT !.at = "booking"]
  <2>1. /\ requested = old.shown /\ requested' = old.shown + old.here
        /\ desk' = [desk EXCEPT ![d] = r] /\ Ask(old.plan)
    BY <1>4 DEF Claim, claimable
  <2>2. old.shown \in Nat /\ old.here \in Nat /\ old.here # 0
    BY <1>1 DEF AtHand, SeriesInv, InOrder, ListIsOfThePast
  <2>3. PICK x \in old.shown .. requested : old.plan = planOccurrences(x, old.here) \cap Week
    BY <1>1 DEF SeriesInv, InOrder, ListIsOfThePast
  <2>4. x = old.shown
    BY <1>1, <2>1, <2>2, <2>3
  <2>5. old.plan = old.shown .. old.shown + old.here - 1
    BY <1>4, <2>2, <2>3, <2>4 DEF planOccurrences, Week, SeriesConstants
  <2>6. old.shown \in old.plan
    BY <2>2, <2>5
  <2>7. r \in AtHand /\ r.at = "booking" /\ r.plan = old.plan
    BY <1>1 DEF AtHand, Stage
  <2>8. InOrder(r, requested', active')
    BY <2>6, <2>7 DEF InOrder, ListIsOfThePast, PlanIsWork, EndAnswers
  <2> HIDE DEF r, old
  <2>9. desk \in [Reception -> AtHand] /\ asked \in [Week -> Nat]
    BY DEF SeriesInv, SeriesTypes
  <2>10. desk' \in [Reception -> AtHand] /\ desk'[d] = r /\ \A e \in Reception \ {d} : desk'[e] = desk[e]
    BY <2>1, <2>7, <2>9
  <2>11. asked' \in [Week -> Nat] /\ EveryWeekAskedOnce'
    <3>1. \A w \in Week : w \in old.plan <=> w >= requested /\ w < requested'
      BY <2>1, <2>2, <2>5 DEF Week
    <3>2. asked' = [w \in Week |-> IF w \in old.plan THEN asked[w] + 1 ELSE asked[w]]
      BY <2>1 DEF Ask
    <3>3. \A w \in Week : asked[w] = IF w < requested THEN 1 ELSE 0
      BY DEF SeriesInv, EveryWeekAskedOnce
    <3>4. requested \in Nat /\ requested' \in Nat /\ requested <= requested'
      BY <2>1, <2>2
    <3> QED BY <2>9, <3>1, <3>2, <3>3, <3>4 DEF EveryWeekAskedOnce, Week
  <2>12. \A e \in Reception \ {d} : CarriesOn(desk'[e], desk[e], {})
    BY <2>10 DEF CarriesOn
  <2>13. requested' \in requested .. Ceiling
    BY <1>4, <2>1, <2>2 DEF SeriesConstants
  <2>14. /\ {d} \in SUBSET Reception /\ active' \subseteq active \cup {}
         /\ desk' \in [Reception -> AtHand] /\ \A e \in {d} : InOrder(desk'[e], requested', active')
    BY <1>2, <2>8, <2>10
  <2> QED BY ONLY SeriesInv, SeriesConstants, <1>2, <2>11, <2>12, <2>13, <2>14, SessionsStep
<1> QED BY <1>3, <1>4
\* What is left of a booking when a week of its plan is through.
LEMMA WeekThrough ==
  ASSUME NEW r \in AtHand, r.at = "booking", r.plan # {}, NEW w, NEW n, NEW there
  PROVE  without(r, w) \in AtHand /\ InOrder(without(r, w), n, there)
<1>1. CASE r.plan = {w}
  BY <1>1, IdleIsInOrder DEF without
<1>2. CASE r.plan # {w}
  <2> DEFINE q == [r EXCEPT !.plan = @ \ {w}]
  <2>1. without(r, w) = q
    BY <1>2 DEF without
  <2>2. q \in AtHand /\ q.at = "booking" /\ q.plan # {}
    BY <1>2 DEF AtHand
  <2> QED BY <2>1, <2>2 DEF InOrder, ListIsOfThePast, PlanIsWork, EndAnswers
<1> QED BY <1>1, <1>2

\* What others are told of a week that comes into the book.
LEMMA ArrivalIsTold ==
  ASSUME SeriesTypes, NEW w \in Week
  PROVE  /\ arrives(w) \in [Reception -> AtHand]
         /\ \A e \in Reception : CarriesOn(arrives(w)[e], desk[e], {w})
         /\ \A e \in Reception : desk[e].at = "booking" => arrives(w)[e] = desk[e]
<1>1. ASSUME NEW e \in Reception
      PROVE  /\ arrives(w)[e] \in AtHand /\ CarriesOn(arrives(w)[e], desk[e], {w})
             /\ desk[e].at = "booking" => arrives(w)[e] = desk[e]
  <2>1. desk[e] \in AtHand
    BY DEF SeriesTypes
  <2>2. arrives(w)[e] = IF desk[e].at \in {"ending", "cancelling"}
                        THEN [desk[e] EXCEPT !.back = @ \cup {w}] ELSE desk[e]
    BY DEF arrives
  <2> QED BY <2>1, <2>2 DEF CarriesOn, AtHand
<1>2. arrives(w) = [e \in Reception |-> arrives(w)[e]]
  BY DEF arrives
<1> QED BY <1>1, <1>2

LEMMA Books ==
  ASSUME SeriesInv, SeriesConstants, NEW d \in Reception, BookOne(d)
  PROVE  SeriesInv'
<1> DEFINE w == first(desk[d].plan)
           r == without(desk[d], w)
<1>1. desk[d] \in AtHand /\ desk[d].at = "booking" /\ desk[d].plan # {}
  BY DEF SeriesInv, SeriesTypes, InOrder, PlanIsWork, BookOne
<1>2. w \in Week
  BY <1>1, ToDo
<1>3. r \in AtHand /\ InOrder(r, requested, active')
  BY <1>1, WeekThrough
<1>4. UNCHANGED <<requested, asked>>
  BY DEF BookOne
<1>5. visit \in [Week -> AppointmentStatus \cup {"none"}]
  BY DEF SeriesInv, SeriesTypes
<1>6. CASE visit[w] = "none"
  <2>1. visit' = [visit EXCEPT ![w] = "booked"] /\ desk' = [arrives(w) EXCEPT ![d] = without(@, w)]
    BY <1>6 DEF BookOne
  <2>2. /\ arrives(w) \in [Reception -> AtHand]
        /\ \A e \in Reception : CarriesOn(arrives(w)[e], desk[e], {w})
        /\ arrives(w)[d] = desk[d]
    BY <1>1, <1>2, ArrivalIsTold DEF SeriesInv
  <2> HIDE DEF w, r
  <2>3. /\ visit' \in [Week -> AppointmentStatus \cup {"none"}]
        /\ \A v \in Week \ {w} : visit'[v] = visit[v]
    BY <1>2, <1>5, <2>1 DEF AppointmentStatus
  <2>4. active' \subseteq active \cup {w}
    BY <2>3 DEF active
  <2>5. /\ desk' \in [Reception -> AtHand] /\ desk'[d] = r
        /\ \A e \in Reception \ {d} : desk'[e] = arrives(w)[e]
    BY <1>3, <2>1, <2>2 DEF r
  <2>6. requested' \in requested .. Ceiling /\ asked' \in [Week -> Nat] /\ EveryWeekAskedOnce'
    BY <1>4 DEF SeriesInv, SeriesTypes, SeriesConstants, EveryWeekAskedOnce, Week
  <2>7. /\ {d} \in SUBSET Reception /\ \A e \in Reception \ {d} : CarriesOn(desk'[e], desk[e], {w})
        /\ \A e \in {d} : InOrder(desk'[e], requested', active')
    BY <1>3, <1>4, <2>2, <2>5
  <2>8. desk' \in [Reception -> AtHand]
    BY <2>5
  <2> QED BY ONLY SeriesInv, SeriesConstants, <2>3, <2>4, <2>6, <2>7, <2>8, SessionsStep
<1>7. CASE visit[w] # "none"
  <2>1. UNCHANGED visit /\ desk' = [desk EXCEPT ![d] = r]
    BY <1>7 DEF BookOne
  <2>2. visit' \in [Week -> AppointmentStatus \cup {"none"}] /\ active' \subseteq active
    BY <1>5, <2>1 DEF active
  <2> HIDE DEF r
  <2> QED BY <1>3, <1>4, <2>1, <2>2, OneSession
<1> QED BY <1>6, <1>7

LEMMA Skips ==
  ASSUME SeriesInv, SeriesConstants, NEW d \in Reception, SkipOne(d)
  PROVE  SeriesInv'
<1> DEFINE r == without(desk[d], first(desk[d].plan))
<1>1. desk[d] \in AtHand /\ desk[d].at = "booking" /\ desk[d].plan # {}
  BY DEF SeriesInv, SeriesTypes, InOrder, PlanIsWork, SkipOne
<1>2. r \in AtHand /\ InOrder(r, requested, active')
  BY <1>1, WeekThrough
<1>3. desk' = [desk EXCEPT ![d] = r] /\ UNCHANGED <<visit, requested, asked>>
  BY DEF SkipOne
<1>4. visit' \in [Week -> AppointmentStatus \cup {"none"}] /\ active' \subseteq active
  BY <1>3 DEF SeriesInv, SeriesTypes, active
<1> HIDE DEF r
<1> QED BY <1>2, <1>3, <1>4, OneSession

\* Ending it.

LEMMA Ends ==
  ASSUME SeriesInv, SeriesConstants, NEW d \in Reception, NEW here \in Week, NEW onUs \in BOOLEAN,
         EndSeries(d, here, onUs)
  PROVE  SeriesInv'
<1> DEFINE listed == previewEndSeries(here)
           plain == {w \in listed : canEndSeriesAt(visit[w])}
           r == [idle EXCEPT !.at = "ending", !.here = here, !.onUs = onUs,
                             !.plan = plain, !.stays = listed \ plain]
<1>1. listed \subseteq Week /\ \A w \in active : w >= here => w \in plain \cup (listed \ plain)
  BY DEF previewEndSeries, active
<1>2. /\ desk' = [desk EXCEPT ![d] = r] /\ UNCHANGED <<visit, requested, asked>>
  BY DEF EndSeries
<1> HIDE DEF listed
<1>3. plain \subseteq Week
  BY <1>1
<1> HIDE DEF plain
<1>4. /\ r \in AtHand /\ r.at = "ending" /\ r.here = here /\ r.plan = plain
      /\ r.stays = listed \ plain
  <2>1. here \in Nat /\ listed \ plain \in SUBSET Week /\ plain \in SUBSET Week
    BY <1>1, <1>3 DEF Week
  <2> DEFINE q == [idle EXCEPT !.at = "ending", !.here = here]
             p == [q EXCEPT !.plan = plain, !.stays = listed \ plain]
  <2>2. q \in AtHand /\ q.at = "ending" /\ q.here = here
    BY <2>1 DEF idle, AtHand, Stage
  <2>3. r = [p EXCEPT !.onUs = onUs]
    BY DEF idle
  <2> HIDE DEF q, r
  <2>4. p \in AtHand /\ p.at = "ending" /\ p.here = here /\ p.plan = plain /\ p.stays = listed \ plain
    BY <2>1, <2>2 DEF AtHand
  <2> HIDE DEF p
  <2> QED BY <2>3, <2>4 DEF AtHand
<1>5. visit' \in [Week -> AppointmentStatus \cup {"none"}] /\ active' = active
  BY <1>2 DEF SeriesInv, SeriesTypes, active
<1> HIDE DEF r
<1>6. EndAnswers(r, active')
  BY <1>1, <1>4, <1>5 DEF EndAnswers
<1>7. InOrder(r, requested, active')
  BY <1>4, <1>6 DEF InOrder, ListIsOfThePast, PlanIsWork
<1>8. active' \subseteq active
  BY <1>5
<1> QED BY <1>2, <1>4, <1>5, <1>7, <1>8, OneSession

LEMMA LoadsVisit ==
  ASSUME SeriesInv, SeriesConstants, NEW d \in Reception, LoadVisit(d)
  PROVE  SeriesInv'
<1> DEFINE w == first(desk[d].plan)
           r == [desk[d] EXCEPT !.at = "cancelling", !.from = visit[w]]
<1>1. /\ desk[d] \in AtHand /\ desk[d].at = "ending" /\ desk[d].plan # {}
      /\ UNCHANGED <<visit, requested, asked>> /\ desk' = [desk EXCEPT ![d] = r]
  BY DEF SeriesInv, SeriesTypes, LoadVisit
<1>2. visit[w] \in AppointmentStatus \cup {"none"}
  BY <1>1, ToDo DEF SeriesInv, SeriesTypes
<1> HIDE DEF w
<1>3. /\ r \in AtHand /\ r.at = "cancelling" /\ r.plan = desk[d].plan /\ r.here = desk[d].here
      /\ r.stays = desk[d].stays /\ r.back = desk[d].back
  BY <1>1, <1>2 DEF AtHand, Stage
<1> HIDE DEF r
<1>4. visit' \in [Week -> AppointmentStatus \cup {"none"}] /\ active' = active
  BY <1>1 DEF SeriesInv, SeriesTypes, active
<1>5. EndAnswers(r, active')
  BY <1>1, <1>3, <1>4 DEF SeriesInv, InOrder, EndAnswers
<1>6. InOrder(r, requested, active')
  BY <1>1, <1>3, <1>5 DEF InOrder, ListIsOfThePast, PlanIsWork
<1>7. active' \subseteq active
  BY <1>4
<1> QED BY <1>1, <1>3, <1>4, <1>6, <1>7, OneSession

LEMMA CancelsVisit ==
  ASSUME SeriesInv, SeriesConstants, NEW d \in Reception, CancelVisit(d)
  PROVE  SeriesInv'
<1> DEFINE old == desk[d]
           w == first(old.plan)
           to == IF old.onUs THEN "cancelled" ELSE staffCancellationStatus(old.from, context(w))
           gone == [old EXCEPT !.at = "ending", !.plan = @ \ {w}, !.from = "none"]
           done == [gone EXCEPT !.ended = @ + 1]
           kept == [gone EXCEPT !.stays = @ \cup {w}]
<1>1. /\ old \in AtHand /\ old.at = "cancelling" /\ old.plan # {} /\ UNCHANGED <<requested, asked>>
      /\ visit \in [Week -> AppointmentStatus \cup {"none"}]
  BY DEF SeriesInv, SeriesTypes, InOrder, PlanIsWork, CancelVisit
<1>2. w \in Week
  BY <1>1, ToDo
<1>3. \/ visit' = [visit EXCEPT ![w] = to] /\ desk' = [desk EXCEPT ![d] = done]
      \/ UNCHANGED visit /\ desk' = [desk EXCEPT ![d] = kept]
  BY DEF CancelVisit
<1>4. to \in SlotFreeing
  BY CancelFrees DEF SlotFreeing
<1>5. \A v \in active : v >= old.here => v \in old.plan \cup old.stays \cup old.back
  BY <1>1 DEF SeriesInv, InOrder, EndAnswers
<1> HIDE DEF to, w
<1>6. /\ done \in AtHand /\ done.at = "ending" /\ done.here = old.here
      /\ done.plan = old.plan \ {w} /\ done.stays = old.stays /\ done.back = old.back
  <2>1. /\ gone \in AtHand /\ gone.at = "ending" /\ gone.here = old.here
        /\ gone.plan = old.plan \ {w} /\ gone.stays = old.stays /\ gone.back = old.back
    BY <1>1, <1>2 DEF AtHand, Stage
  <2> HIDE DEF gone
  <2> QED BY <2>1 DEF AtHand
<1>7. /\ kept \in AtHand /\ kept.at = "ending" /\ kept.here = old.here
      /\ kept.plan = old.plan \ {w} /\ kept.stays = old.stays \cup {w} /\ kept.back = old.back
  BY <1>1, <1>2 DEF AtHand, Stage
<1> HIDE DEF done, kept, old
<1>8. CASE visit' = [visit EXCEPT ![w] = to] /\ desk' = [desk EXCEPT ![d] = done]
  <2>1. visit'[w] = to /\ \A v \in Week \ {w} : visit'[v] = visit[v]
    BY <1>1, <1>2, <1>8
  <2>2. visit' \in [Week -> AppointmentStatus \cup {"none"}] /\ active' \subseteq active /\ w \notin active'
    BY <1>1, <1>2, <1>4, <1>8, <2>1 DEF active, Active, SlotFreeing, AppointmentStatus
  <2>3. InOrder(done, requested, active')
    BY <1>5, <1>6, <2>2 DEF InOrder, ListIsOfThePast, PlanIsWork, EndAnswers
  <2> QED BY <1>1, <1>6, <1>8, <2>2, <2>3, OneSession
<1>9. CASE UNCHANGED visit /\ desk' = [desk EXCEPT ![d] = kept]
  <2>1. visit' \in [Week -> AppointmentStatus \cup {"none"}] /\ active' = active
    BY <1>1, <1>9 DEF active
  <2>2. InOrder(kept, requested, active')
    BY <1>5, <1>7, <2>1 DEF InOrder, ListIsOfThePast, PlanIsWork, EndAnswers
  <2>3. active' \subseteq active
    BY <2>1
  <2> QED BY <1>1, <1>7, <1>9, <2>1, <2>2, <2>3, OneSession
<1> QED BY <1>3, <1>8, <1>9

LEMMA LeavesOrEnds ==
  ASSUME SeriesInv, SeriesConstants, NEW d \in Reception, EndIt(d) \/ Leave(d)
  PROVE  SeriesInv'
<1>1. desk' = [desk EXCEPT ![d] = idle] /\ UNCHANGED <<visit, requested, asked>>
  BY DEF EndIt, Leave
<1>2. visit' \in [Week -> AppointmentStatus \cup {"none"}] /\ active' \subseteq active
  BY <1>1 DEF SeriesInv, SeriesTypes, active
<1> QED BY <1>1, <1>2, IdleIsInOrder, OneSession

LEMMA NobodysStep ==
  ASSUME SeriesInv, SeriesConstants, NEW came, UNCHANGED <<requested, asked>>,
         visit' \in [Week -> AppointmentStatus \cup {"none"}], desk' \in [Reception -> AtHand],
         active' \subseteq active \cup came,
         \A e \in Reception : CarriesOn(desk'[e], desk[e], came)
  PROVE  SeriesInv'
<1>1. requested' \in requested .. Ceiling /\ asked' \in [Week -> Nat] /\ EveryWeekAskedOnce'
  BY DEF SeriesInv, SeriesTypes, SeriesConstants, EveryWeekAskedOnce, Week
<1>2. /\ {} \in SUBSET Reception /\ \A e \in Reception \ {} : CarriesOn(desk'[e], desk[e], came)
      /\ \A e \in {} : InOrder(desk'[e], requested', active')
  OBVIOUS
<1> QED BY <1>1, <1>2, SessionsStep

LEMMA Taps ==
  ASSUME SeriesInv, SeriesConstants, NEW w \in Week, NEW to \in AppointmentStatus, TapVisit(w, to)
  PROVE  SeriesInv'
<1>1. /\ visit' = [visit EXCEPT ![w] = to] /\ UNCHANGED <<requested, asked>>
      /\ desk' = IF visit[w] \in SlotFreeing THEN arrives(w) ELSE desk
      /\ visit[w] \in AppointmentStatus
  BY TableIsOfStatuses DEF TapVisit
<1>2. visit \in [Week -> AppointmentStatus \cup {"none"}] /\ desk \in [Reception -> AtHand]
  BY DEF SeriesInv, SeriesTypes
<1>3. /\ visit' \in [Week -> AppointmentStatus \cup {"none"}]
      /\ \A v \in Week \ {w} : visit'[v] = visit[v]
  BY <1>1, <1>2
<1>4. CASE visit[w] \in SlotFreeing
  <2>1. active' \subseteq active \cup {w}
    BY <1>3 DEF active
  <2>2. /\ desk' \in [Reception -> AtHand]
        /\ \A e \in Reception : CarriesOn(desk'[e], desk[e], {w})
    BY <1>1, <1>4, ArrivalIsTold DEF SeriesInv
  <2> QED BY <1>1, <1>3, <2>1, <2>2, NobodysStep
<1>5. CASE visit[w] \notin SlotFreeing
  <2>1. w \in active
    BY <1>1, <1>5 DEF active, Active
  <2>2. active' \subseteq active \cup {}
    BY <1>3, <2>1 DEF active
  <2>3. desk' \in [Reception -> AtHand] /\ \A e \in Reception : CarriesOn(desk'[e], desk[e], {})
    BY <1>1, <1>2, <1>5 DEF CarriesOn
  <2> QED BY <1>1, <1>3, <2>2, <2>3, NobodysStep
<1> QED BY <1>4, <1>5

LEMMA SeriesQuiet ==
  ASSUME SeriesInv, SeriesConstants, UNCHANGED <<requested, asked, visit, desk>>
  PROVE  SeriesInv'
<1>1. visit' \in [Week -> AppointmentStatus \cup {"none"}] /\ desk' \in [Reception -> AtHand]
  BY DEF SeriesInv, SeriesTypes
<1>2. active' \subseteq active \cup {} /\ \A e \in Reception : CarriesOn(desk'[e], desk[e], {})
  BY DEF active, CarriesOn
<1> QED BY <1>1, <1>2, NobodysStep

LEMMA SeriesStep ==
  ASSUME SeriesInv, SeriesConstants, [SeriesNext]_seriesVars
  PROVE  SeriesInv'
<1>1. ASSUME NEW d \in Reception, DeskStep(d) PROVE SeriesInv'
  BY <1>1, Creates, ListsEnding, LoadsSeries, Claims, Books, Skips, Ends, LoadsVisit, CancelsVisit,
     LeavesOrEnds DEF DeskStep
<1>2. ASSUME WeekPasses \/ UNCHANGED seriesVars PROVE SeriesInv'
  BY <1>2, SeriesQuiet DEF WeekPasses, seriesVars
<1> QED BY <1>1, <1>2, Taps DEF SeriesNext

\* A standing appointment for any number of desks, weeks and taps: every week
\* of the rule is asked for by one call, from whatever stale list it was
\* extended, and an end names every week it leaves in the book, whatever was
\* tapped between its reading and its writes (series.ts:268-319,
\* end-series.ts:22-24).
THEOREM StandingLosesNoWeek ==
  ASSUME SeriesConstants
  PROVE  SeriesSpec => []SeriesLosesNoWeek
<1>1. SeriesInit => SeriesInv
  <2> SUFFICES ASSUME SeriesInit PROVE SeriesInv
    OBVIOUS
  <2>1. \A d \in Reception : desk[d] = idle
    BY DEF SeriesInit
  <2>2. idle \in AtHand /\ \A d \in Reception : InOrder(desk[d], requested, active)
    BY <2>1, IdleIsInOrder
  <2>3. SeriesTypes
    BY <2>2 DEF SeriesInit, SeriesTypes, SeriesConstants
  <2>4. EveryWeekAskedOnce
    BY DEF SeriesInit, EveryWeekAskedOnce, Week
  <2> QED BY <2>2, <2>3, <2>4 DEF SeriesInv
<1>2. SeriesInv /\ [SeriesNext]_seriesVars => SeriesInv'
  BY SeriesStep
<1>3. SeriesInv => SeriesLosesNoWeek
  <2> SUFFICES ASSUME SeriesInv, NEW d \in Reception, desk[d].at = "ending", desk[d].plan = {},
                      NEW w \in active, w >= desk[d].here
               PROVE  w \in desk[d].stays \cup desk[d].back
    BY DEF SeriesInv, SeriesLosesNoWeek, WhatStaysIsNamed
  <2> QED BY DEF SeriesInv, InOrder, EndAnswers
<1> QED
  BY <1>1, <1>2, <1>3, PTL DEF SeriesSpec
-----------------------------------------------------------------------------
\* The hours.  Whom a desk in the middle of an edit is still to look at: who
\* may be concerned by the hours it changed, or was read as stranded.

LooksAt(d, v) ==
  LET e == editing[d]  p == appointment[v].provider IN
  \/ e.at = "impact" /\ p \in scopeOf(e.owner)
  \/ e.at = "record" /\ v \in e.stranded
  \/ e.at = "update" /\ override[e.id] # Removed /\ p \in scopeOf(e.row.owner)

\* A row somebody is replacing is her own, or was deleted meanwhile.
RowsAreTheirs ==
  \A d \in Editor : editing[d].at \in {"replace", "update"} =>
    override[editing[d].id] = Removed \/ override[editing[d].id].owner = editing[d].row.owner

SilenceEnds ==
  \A v \in Appointment : Outside(v, weekly, override) =>
    v \in known \cup placed \/ \E d \in Editor : LooksAt(d, v)

WillLift(d, v) ==
  /\ editing[d].at = "freshen"
  /\ appointment[v].provider = editing[d].form.provider
  /\ Wall!overlaps(appointment[v].body, editing[d].form.span)

FlagsAreFresh ==
  \A v \in Appointment : appointment[v].ack =>
    appointment[v].saw \in {Struck(v), Elsewhere} \/ \E d \in Editor : WillLift(d, v)

HInv == HoursTypeOK /\ RowsAreTheirs /\ SilenceEnds /\ FlagsAreFresh

-----------------------------------------------------------------------------
\* Hours read the same when neither the salon's nor hers were touched.
SameFor(o, hours, rows, hours2, rows2) ==
  /\ hours2[o] = hours[o]
  /\ \A i \in OverrideId : rows[i].owner = o \/ rows2[i].owner = o => rows2[i] = rows[i]

LEMMA PatternsStay ==
  ASSUME NEW o, NEW hours, NEW rows, NEW hours2, NEW rows2, SameFor(o, hours, rows, hours2,
         rows2)
  PROVE  patterns(o, hours2, rows2) = patterns(o, hours, rows)
<1>1. rowsOf(o, rows2) = rowsOf(o, rows)
  BY DEF rowsOf, SameFor
<1>2. \A i \in rowsOf(o, rows) : rows2[i] = rows[i]
  BY DEF rowsOf, SameFor
<1>3. hours2[o] = hours[o]
  BY DEF SameFor
<1> QED BY <1>1, <1>2, <1>3 DEF patterns

LEMMA OutsideStays ==
  ASSUME NEW v \in Appointment, NEW hours, NEW rows, NEW hours2, NEW rows2,
         SameFor(Salon, hours, rows, hours2, rows2),
         SameFor(appointment[v].provider, hours, rows, hours2, rows2),
         Outside(v, hours2, rows2)
  PROVE  Outside(v, hours, rows)
<1>1. patterns(Salon, hours2, rows2) = patterns(Salon, hours, rows)
  BY PatternsStay
<1>2. patterns(appointment[v].provider, hours2, rows2)
        = patterns(appointment[v].provider, hours, rows)
  BY PatternsStay
<1> QED BY <1>1, <1>2 DEF Outside, OutsideOf

\* What a visit is to the hours: her stylist, her time, whether she comes.
SameToTheHours(v) ==
  /\ appointment'[v].provider = appointment[v].provider
  /\ appointment'[v].body = appointment[v].body
  /\ appointment'[v].active => appointment[v].active

LEMMA OutsideBefore ==
  ASSUME NEW v \in Appointment, SameToTheHours(v), Outside(v, weekly, override)'
  PROVE  Outside(v, weekly', override')
BY DEF Outside, OutsideOf, SameToTheHours, patterns, rowsOf, OverrideId

\* An edit of o's hours that leaves its desk looking at all they concern.
LEMMA EditIsWatched ==
  ASSUME SilenceEnds, NEW d \in Editor, NEW o \in Owner,
         appointment' = appointment,
         \A p \in Owner \ {o} : SameFor(p, weekly, override, weekly', override'),
         \A v \in Appointment : appointment[v].provider \in Stylist,
         HoursAre(weekly', override'),
         \A v \in Appointment : appointment[v].provider \in scopeOf(o) => LooksAt(d, v)',
         \A v \in Appointment : LooksAt(d, v) => appointment[v].provider \in scopeOf(o),
         \A e \in Editor \ {d}, v \in Appointment :
           LooksAt(e, v) => LooksAt(e, v)' \/ appointment[v].provider \in scopeOf(o)
  PROVE  SilenceEnds'
<1> SUFFICES ASSUME NEW v \in Appointment, Outside(v, weekly, override)',
                    ~\E e \in Editor : LooksAt(e, v)'
             PROVE  v \in known' \cup placed'
  BY DEF SilenceEnds
<1>1. appointment[v].provider \notin scopeOf(o)
  OBVIOUS
<1>2. Outside(v, weekly', override')
  BY OutsideBefore DEF SameToTheHours
<1>3. Salon # o /\ appointment[v].provider # o
  BY <1>1 DEF scopeOf, Owner
<1>4. Outside(v, weekly, override)
  BY <1>2, <1>3, OutsideStays DEF Owner
<1>5. v \in known \cup placed
  BY <1>1, <1>4 DEF SilenceEnds
<1> QED BY <1>2, <1>5 DEF HoursAre

\* The desk at work, and the others, who stay where they are.
LEMMA OneDesk ==
  ASSUME HoursTypeOK, NEW d \in Editor, NEW q \in EditForm, Continues(d, q)
  PROVE  /\ editing' \in [Editor -> EditForm] /\ editing'[d] = q
         /\ \A e \in Editor \ {d} : editing'[e] = editing[e]
BY DEF HoursTypeOK, Continues

\* What a desk holds, by where it is.
LEMMA FormsHold ==
  ASSUME NEW q \in EditForm
  PROVE  /\ q.at = "create" => q = [at |-> "create", id |-> q.id, row |-> q.row]
         /\ q.at \in {"create", "replace", "update"} => q.row \in OverrideRow
         /\ q.at \in {"replace", "update"} => q.id \in OverrideId
         /\ q.at \in {"replace", "update"} => q = [at |-> q.at, id |-> q.id, row |-> q.row]
         /\ q.at = "impact" => q.owner \in Owner
         /\ q.at = "record" => q.stranded \subseteq Appointment
         /\ q.at = "freshen" => q.form \in AbsenceForm
         /\ q.at = "reassign" => q.v \in Appointment /\ q.to \in Stylist
         /\ q.at = "page" => q.shown \subseteq Appointment
         /\ q.at = "move" => q.v \in Appointment /\ q.to \in Stylist /\ q.body \in AnyBody
         /\ q.at = "push" => q.moved \subseteq Appointment /\ q.by \in Int
BY DEF EditForm, NoEdit

LEMMA NewForms ==
  /\ NoEdit \in EditForm
  /\ \A o \in Owner : [at |-> "impact", owner |-> o] \in EditForm
  /\ \A s \in SUBSET Appointment : [at |-> "record", stranded |-> s] \in EditForm
  /\ \A f \in AbsenceForm : [at |-> "freshen", form |-> f] \in EditForm
  /\ \A v \in Appointment, to \in Stylist : [at |-> "reassign", v |-> v, to |-> to] \in EditForm
  /\ \A s \in SUBSET Appointment : [at |-> "page", shown |-> s] \in EditForm
  /\ \A v \in Appointment, to \in Stylist, body \in AnyBody, was \in Stylist, from \in Int :
       [at |-> "move", v |-> v, to |-> to, body |-> body, was |-> was, from |-> from] \in EditForm
  /\ \A s \in SUBSET Appointment, by \in Int : [at |-> "push", moved |-> s, by |-> by] \in EditForm
  /\ \A r \in OverrideRow : [at |-> "create", id |-> 0, row |-> r] \in EditForm
  /\ \A i \in OverrideId, r \in OverrideRow :
       /\ [at |-> "replace", id |-> i, row |-> r] \in EditForm
       /\ [at |-> "update", id |-> i, row |-> r] \in EditForm
BY DEF EditForm

\* A step that touches neither absences nor visits, by a desk that is not about
\* to lift a flag.
LEMMA FlagsStay ==
  ASSUME FlagsAreFresh, UNCHANGED <<absence, appointment>>,
         \A e \in Editor, v \in Appointment : WillLift(e, v) => WillLift(e, v)'
  PROVE  FlagsAreFresh'
BY DEF FlagsAreFresh, Struck, StrikesAt, AbsenceId

LEMMA FlagsStayFor ==
  ASSUME HoursTypeOK, FlagsAreFresh, NEW d \in Editor, NEW q \in EditForm, Continues(d, q),
         editing[d].at # "freshen", UNCHANGED <<absence, appointment>>
  PROVE  FlagsAreFresh'
BY OneDesk, FlagsStay DEF WillLift

\* A visit that is not put anywhere, and nobody forgets.
NotForgotten(v) ==
  /\ SameToTheHours(v)
  /\ v \in known \cup placed => v \in known' \cup placed'
  /\ \A e \in Editor : LooksAt(e, v) => LooksAt(e, v)' \/ v \in known'

\* A step that leaves the hours alone.
LEMMA SilenceStays ==
  ASSUME SilenceEnds, UNCHANGED <<weekly, override>>,
         \A v \in Appointment :
           NotForgotten(v) \/ (Outside(v, weekly, override)' => v \in placed')
  PROVE  SilenceEnds'
<1> SUFFICES ASSUME NEW v \in Appointment, Outside(v, weekly, override)', v \notin known' \cup placed'
             PROVE  \E e \in Editor : LooksAt(e, v)'
  BY DEF SilenceEnds
<1>1. NotForgotten(v)
  OBVIOUS
<1>2. Outside(v, weekly, override)
  BY <1>1, OutsideBefore DEF NotForgotten
<1> QED BY <1>1, <1>2 DEF SilenceEnds, NotForgotten

LEMMA RowsStay ==
  ASSUME AvailabilityConstants, RowsAreTheirs, HoursTypeOK, NEW d \in Editor,
         NEW q \in EditForm, Continues(d, q),
         q.at \notin {"replace", "update"},
         \A i \in OverrideId : \/ override'[i] = Removed
                               \/ override[i] # Removed /\ override'[i].owner = override[i].owner
                               \/ override[i] = NoRow
  PROVE  RowsAreTheirs'
<1> SUFFICES ASSUME NEW e \in Editor, editing'[e].at \in {"replace", "update"}
             PROVE  \/ override'[editing'[e].id] = Removed
                    \/ override'[editing'[e].id].owner = editing'[e].row.owner
  BY DEF RowsAreTheirs
<1>1. e # d /\ editing'[e] = editing[e]
  BY OneDesk
<1>2. editing[e].id \in OverrideId /\ editing[e].row \in OverrideRow
  BY <1>1, FormsHold DEF HoursTypeOK
<1>3. override[editing[e].id] = Removed \/ override[editing[e].id].owner = editing[e].row.owner
  BY <1>1 DEF RowsAreTheirs
<1>4. editing[e].row.owner # Nobody
  BY <1>2 DEF OverrideRow, AvailabilityConstants
<1>5. NoRow # Removed /\ NoRow.owner = Nobody
  BY DEF NoRow, Removed
<1> QED BY <1>1, <1>2, <1>3, <1>4, <1>5

-----------------------------------------------------------------------------
\* Edits of the hours.

LEMMA WeeklyEdit ==
  ASSUME AvailabilityConstants, HInv, NEW d \in Editor, NEW o \in Owner,
         NEW hours \in SUBSET Windows,
         BeginsEdit(d), HoursAre([weekly EXCEPT ![o] = hours], override),
         Continues(d, [at |-> "impact", owner |-> o]), UNCHANGED <<absence, appointment, working>>
  PROVE  HInv'
<1> DEFINE q == [at |-> "impact", owner |-> o]
<1>1. q \in EditForm /\ HoursTypeOK
  BY NewForms DEF HInv
<1>2. /\ editing' \in [Editor -> EditForm] /\ editing'[d] = q
      /\ \A e \in Editor \ {d} : editing'[e] = editing[e]
  BY <1>1, OneDesk
<1>3. editing[d].at = "idle"
  BY DEF BeginsEdit, NoEdit
<1>4. HoursTypeOK'
  BY <1>1, <1>2 DEF HoursTypeOK, HoursAre, BeginsEdit
<1>5. SilenceEnds'
  <2>1. \A p \in Owner \ {o} : SameFor(p, weekly, override, weekly', override')
    BY <1>1 DEF SameFor, HoursAre, HoursTypeOK
  <2>2. \A v \in Appointment : appointment[v].provider \in Stylist
    BY <1>1 DEF HoursTypeOK, Appointments
  <2>3. \A v \in Appointment : appointment[v].provider \in scopeOf(o) => LooksAt(d, v)'
    BY <1>2 DEF LooksAt, scopeOf
  <2>4. \A v \in Appointment : ~LooksAt(d, v)
    BY <1>3 DEF LooksAt
  <2>5. \A e \in Editor \ {d}, v \in Appointment : LooksAt(e, v) => LooksAt(e, v)'
    BY <1>2 DEF LooksAt, HoursAre, scopeOf
  <2>6. HoursAre(weekly', override')
    BY DEF HoursAre
  <2> QED BY <2>1, <2>2, <2>3, <2>4, <2>5, <2>6, EditIsWatched DEF HInv
<1>6. RowsAreTheirs'
  BY <1>1, <1>2, RowsStay DEF HInv, HoursAre
<1>7. FlagsAreFresh'
  BY <1>1, <1>3, FlagsStayFor DEF HInv
<1> QED BY <1>4, <1>5, <1>6, <1>7 DEF HInv

\* One row of the overrides is written, of o's day, by a desk that looks at
\* o's visits next, or is still to write the row again.
LEMMA OverrideEdit ==
  ASSUME AvailabilityConstants, HInv, NEW d \in Editor, NEW o \in Owner, NEW i \in OverrideId,
         NEW r \in {x \in OverrideRow : x.owner = o} \cup {Removed}, NEW q \in EditForm,
         editing[d].at \notin {"impact", "record", "freshen"},
         editing[d].at = "update" => editing[d].row.owner = o,
         override[i] # Removed, override[i].owner \in {o, Nobody},
         \/ q.at = "impact" /\ q.owner = o
         \/ q.at = "update" /\ q.id = i /\ q.row.owner = o /\ r # Removed,
         HoursAre(weekly, [override EXCEPT ![i] = r]), Continues(d, q), edits' \in Nat,
         UNCHANGED <<absence, appointment, working>>
  PROVE  HInv'
<1>1. HoursTypeOK
  BY DEF HInv
<1>2. /\ editing' \in [Editor -> EditForm] /\ editing'[d] = q
      /\ \A e \in Editor \ {d} : editing'[e] = editing[e]
  BY <1>1, OneDesk
<1>3. override'[i] = r /\ \A j \in OverrideId \ {i} : override'[j] = override[j]
  BY <1>1 DEF HoursAre, HoursTypeOK
<1>4. HoursTypeOK'
  BY <1>1, <1>2 DEF HoursTypeOK, HoursAre
<1>5. \A e \in Editor \ {d} : editing[e].at \in {"replace", "update"} =>
        /\ editing[e].id \in OverrideId /\ editing[e].row.owner \in Owner
        /\ editing[e].id = i => editing[e].row.owner = o
  <2> SUFFICES ASSUME NEW e \in Editor \ {d}, editing[e].at \in {"replace", "update"}
               PROVE  /\ editing[e].id \in OverrideId /\ editing[e].row.owner \in Owner
                      /\ editing[e].id = i => editing[e].row.owner = o
    OBVIOUS
  <2>1. editing[e].id \in OverrideId /\ editing[e].row \in OverrideRow
    BY <1>1, FormsHold DEF HoursTypeOK
  <2>2. editing[e].row.owner \in Owner
    BY <2>1 DEF OverrideRow
  <2>3. override[editing[e].id] = Removed \/ override[editing[e].id].owner = editing[e].row.owner
    BY DEF HInv, RowsAreTheirs
  <2> QED BY <2>1, <2>2, <2>3 DEF AvailabilityConstants
<1>6. SilenceEnds'
  <2>1. \A p \in Owner \ {o} : SameFor(p, weekly, override, weekly', override')
    <3> SUFFICES ASSUME NEW p \in Owner \ {o}, NEW j \in OverrideId,
                        override[j].owner = p \/ override'[j].owner = p
                 PROVE  override'[j] = override[j]
      BY DEF SameFor, HoursAre
    <3>1. r.owner \in {o, Nobody}
      BY DEF Removed
    <3> QED BY <1>3, <3>1 DEF AvailabilityConstants
  <2>2. \A v \in Appointment : appointment[v].provider \in Stylist
    BY <1>1 DEF HoursTypeOK, Appointments
  <2>3. \A v \in Appointment : appointment[v].provider \in scopeOf(o) => LooksAt(d, v)'
    BY <1>2, <1>3 DEF LooksAt, scopeOf
  <2>4. \A v \in Appointment : LooksAt(d, v) => appointment[v].provider \in scopeOf(o)
    BY DEF LooksAt
  <2>5. ASSUME NEW e \in Editor \ {d}, NEW v \in Appointment, LooksAt(e, v)
        PROVE  LooksAt(e, v)' \/ appointment[v].provider \in scopeOf(o)
    <3>1. CASE editing[e].at = "update" /\ editing[e].id = i
      BY <1>5, <2>5, <3>1 DEF LooksAt
    <3>2. CASE editing[e].at = "update" /\ editing[e].id # i
      BY <1>2, <1>3, <1>5, <2>5, <3>2 DEF LooksAt, scopeOf
    <3>3. CASE editing[e].at # "update"
      BY <1>2, <2>5, <3>3 DEF LooksAt, scopeOf
    <3> QED BY <3>1, <3>2, <3>3
  <2>6. HoursAre(weekly', override')
    BY DEF HoursAre
  <2> QED BY <2>1, <2>2, <2>3, <2>4, <2>5, <2>6, EditIsWatched DEF HInv
<1>7. RowsAreTheirs'
  <2> SUFFICES ASSUME NEW e \in Editor, editing'[e].at \in {"replace", "update"}
               PROVE  \/ override'[editing'[e].id] = Removed
                      \/ override'[editing'[e].id].owner = editing'[e].row.owner
    BY DEF RowsAreTheirs
  <2>1. CASE e = d
    BY <1>2, <1>3, <2>1
  <2>2. CASE e # d /\ editing[e].id = i
    BY <1>2, <1>3, <1>5, <2>2
  <2>3. CASE e # d /\ editing[e].id # i
    BY <1>2, <1>3, <1>5, <2>3 DEF HInv, RowsAreTheirs
  <2> QED BY <2>1, <2>2, <2>3
<1>8. FlagsAreFresh'
  BY <1>1, FlagsStayFor DEF HInv
<1> QED BY <1>4, <1>6, <1>7, <1>8 DEF HInv

\* A desk that writes nothing but its own next step, and looks at nobody less.
LEMMA OnlyItself ==
  ASSUME AvailabilityConstants, HInv, NEW d \in Editor, NEW q \in EditForm, Continues(d, q),
         editing[d].at # "freshen", edits' \in Nat,
         q.at \in {"replace", "update"} =>
           override[q.id] = Removed \/ override[q.id].owner = q.row.owner,
         UNCHANGED <<weekly, override, absence, appointment, working>>,
         known' \subseteq Appointment, placed' \subseteq Appointment,
         \A v \in known \cup placed : Outside(v, weekly, override) => v \in known' \cup placed',
         \A v \in Appointment : Outside(v, weekly, override) /\ LooksAt(d, v) =>
           LooksAt(d, v)' \/ v \in known'
  PROVE  HInv'
<1>1. HoursTypeOK
  BY DEF HInv
<1>2. /\ editing' \in [Editor -> EditForm] /\ editing'[d] = q
      /\ \A e \in Editor \ {d} : editing'[e] = editing[e]
  BY <1>1, OneDesk
<1>3. HoursTypeOK'
  BY <1>1, <1>2 DEF HoursTypeOK
<1>4. SilenceEnds'
  <2> SUFFICES ASSUME NEW v \in Appointment, Outside(v, weekly, override)', v \notin known' \cup placed'
               PROVE  \E e \in Editor : LooksAt(e, v)'
    BY DEF SilenceEnds
  <2>1. Outside(v, weekly, override)
    BY OutsideBefore DEF SameToTheHours
  <2>2. PICK e \in Editor : LooksAt(e, v)
    BY <2>1 DEF HInv, SilenceEnds
  <2>3. CASE e # d
    BY <1>2, <2>2, <2>3 DEF LooksAt, scopeOf
  <2> QED BY <2>1, <2>2, <2>3
<1>5. RowsAreTheirs'
  BY <1>2 DEF HInv, RowsAreTheirs
<1>6. FlagsAreFresh'
  BY <1>1, FlagsStayFor DEF HInv
<1> QED BY <1>3, <1>4, <1>5, <1>6 DEF HInv

LEMMA AddsWindow ==
  ASSUME AvailabilityConstants, HInv, NEW d \in Editor, NEW owner \in Owner,
         NEW w \in WindowForm,
         addWeeklyWindow(d, owner, w)
  PROVE  HInv'
<1>1. weekly[owner] \subseteq Windows
  BY DEF HInv, HoursTypeOK
<1>2. w \in Windows
  BY DEF Windows
<1>3. weekly[owner] \cup {w} \in SUBSET Windows
  BY <1>1, <1>2
<1> QED BY <1>3, WeeklyEdit DEF addWeeklyWindow

LEMMA RemovesWindow ==
  ASSUME AvailabilityConstants, HInv, NEW d \in Editor, NEW owner \in Owner, NEW w,
         removeWeeklyWindow(d, owner, w)
  PROVE  HInv'
<1>1. weekly[owner] \ {w} \in SUBSET Windows
  BY DEF HInv, HoursTypeOK
<1> QED BY <1>1, WeeklyEdit DEF removeWeeklyWindow, impactAfterRemoval

LEMMA FindsOverride ==
  ASSUME AvailabilityConstants, HInv, NEW d \in Editor, NEW owner \in Owner,
         NEW isClosed \in BOOLEAN,
         NEW windows \in SUBSET WindowForm, findOverride(d, owner, isClosed, windows)
  PROVE  HInv'
<1> DEFINE line == [owner |-> owner, isClosed |-> isClosed, windows |-> windows]
<1>1. PICK i \in IF rowsOf(owner, override) = {} THEN {0} ELSE rowsOf(owner, override) :
        Continues(d, [at |-> IF i = 0 THEN "create" ELSE "replace", id |-> i, row |-> line])
  BY DEF findOverride
<1> DEFINE q == [at |-> IF i = 0 THEN "create" ELSE "replace", id |-> i, row |-> line]
<1>2. line \in OverrideRow
  BY DEF OverrideRow
<1>3. i # 0 => i \in OverrideId /\ override[i].owner = owner
  BY DEF rowsOf
<1>4. q \in EditForm
  BY <1>2, <1>3, NewForms
<1>5. q.at \in {"replace", "update"} => override[q.id].owner = q.row.owner
  BY <1>3
<1>6. /\ editing[d].at = "idle" /\ edits' \in Nat /\ known' = known /\ placed' = placed
      /\ known \subseteq Appointment /\ placed \subseteq Appointment
  BY DEF findOverride, BeginsEdit, NoEdit, HInv, HoursTypeOK
<1>7. \A v \in Appointment : ~LooksAt(d, v)
  BY <1>6 DEF LooksAt
<1> HIDE DEF q
<1> QED BY <1>1, <1>4, <1>5, <1>6, <1>7, OnlyItself DEF findOverride, q

\* A row somebody found is there still, or was deleted.
LEMMA RowIsHers ==
  ASSUME AvailabilityConstants, HInv, NEW d \in Editor, editing[d].at \in {"replace", "update"}
  PROVE  /\ editing[d].id \in OverrideId /\ editing[d].row \in OverrideRow
         /\ override[editing[d].id] # Removed =>
              override[editing[d].id] \in {x \in OverrideRow : x.owner = editing[d].row.owner}
<1>1. editing[d].id \in OverrideId /\ editing[d].row \in OverrideRow
  BY FormsHold DEF HInv, HoursTypeOK
<1>2. editing[d].row.owner \in Owner /\ NoRow.owner = Nobody
  BY <1>1 DEF OverrideRow, NoRow
<1>3. override[editing[d].id] \in OverrideRow \cup {NoRow, Removed}
  BY <1>1 DEF HInv, HoursTypeOK
<1>4. override[editing[d].id] = Removed \/ override[editing[d].id].owner = editing[d].row.owner
  BY DEF HInv, RowsAreTheirs
<1> QED BY <1>1, <1>2, <1>3, <1>4 DEF AvailabilityConstants

LEMMA DeletesChildren ==
  ASSUME AvailabilityConstants, HInv, NEW d \in Editor, deleteChildren(d)
  PROVE  HInv'
<1> DEFINE i == editing[d].id  o == editing[d].row.owner  q == [editing[d] EXCEPT !.at = "update"]
<1>1. i \in OverrideId /\ editing[d].row \in OverrideRow /\ o \in Owner
  BY RowIsHers DEF deleteChildren, OverrideRow
<1>2. q = [at |-> "update", id |-> i, row |-> editing[d].row]
  BY FormsHold DEF deleteChildren, HInv, HoursTypeOK
<1>3. q \in EditForm
  BY <1>1, <1>2, NewForms
<1>4. /\ edits' \in Nat /\ Continues(d, q) /\ editing[d].at = "replace"
      /\ known' \subseteq Appointment /\ placed' \subseteq Appointment
  BY DEF deleteChildren, HInv, HoursTypeOK, HoursAre
<1>5. CASE override[i] = Removed
  <2>1. \A v \in Appointment : ~LooksAt(d, v)
    BY <1>4 DEF LooksAt
  <2>2. \A v \in known \cup placed : Outside(v, weekly, override) => v \in known' \cup placed'
    BY <1>5 DEF deleteChildren, HoursAre
  <2>3. UNCHANGED <<weekly, override, absence, appointment, working>>
    BY <1>5 DEF deleteChildren, HoursAre
  <2> QED BY <1>2, <1>3, <1>4, <1>5, <2>1, <2>2, <2>3, OnlyItself
<1>6. CASE override[i] # Removed
  <2> DEFINE r == [override[i] EXCEPT !.windows = {}]
  <2>1. override[i] \in OverrideRow /\ override[i].owner = o
    BY <1>4, <1>6, RowIsHers
  <2>2. r \in {x \in OverrideRow : x.owner = o} /\ r # Removed
    BY <1>1, <2>1 DEF OverrideRow, Removed, AvailabilityConstants
  <2>3. HoursAre(weekly, [override EXCEPT ![i] = r])
    BY <1>6 DEF deleteChildren
  <2>4. q.at = "update" /\ q.id = i /\ q.row.owner = o
    BY <1>2
  <2> HIDE DEF r, q, i, o
  <2> QED BY <1>1, <1>3, <1>4, <1>6, <2>1, <2>2, <2>3, <2>4, OverrideEdit DEF deleteChildren
<1> QED BY <1>5, <1>6

LEMMA UpdatesOverride ==
  ASSUME AvailabilityConstants, HInv, NEW d \in Editor, updateOverride(d)
  PROVE  HInv'
<1> DEFINE i == editing[d].id  o == editing[d].row.owner
<1>1. i \in OverrideId /\ editing[d].row \in OverrideRow /\ o \in Owner
  BY RowIsHers DEF updateOverride, OverrideRow
<1>2. /\ edits' \in Nat /\ editing[d].at = "update"
      /\ known \subseteq Appointment /\ placed \subseteq Appointment
  BY DEF updateOverride, HInv, HoursTypeOK
<1>3. CASE override[i] = Removed
  <2>1. \A v \in Appointment : ~LooksAt(d, v)
    BY <1>2, <1>3 DEF LooksAt
  <2>2. Continues(d, NoEdit) /\ NoEdit \in EditForm /\ NoEdit.at = "idle" /\ known' = known /\ placed' = placed
    BY <1>3, NewForms DEF updateOverride, NoEdit
  <2>3. UNCHANGED <<weekly, override, absence, appointment, working>>
    BY <1>3 DEF updateOverride
  <2> QED BY <1>2, <2>1, <2>2, <2>3, OnlyItself
<1>4. CASE override[i] # Removed
  <2> DEFINE r == [override[i] EXCEPT !.isClosed = editing[d].row.isClosed,
                                      !.windows = @ \cup editing[d].row.windows]
             q == [at |-> "impact", owner |-> o]
  <2>1. override[i] \in OverrideRow /\ override[i].owner = o
    BY <1>2, <1>4, RowIsHers
  <2>2. r \in {x \in OverrideRow : x.owner = o}
    BY <1>1, <2>1 DEF OverrideRow
  <2>3. HoursAre(weekly, [override EXCEPT ![i] = r]) /\ Continues(d, q)
    BY <1>4 DEF updateOverride
  <2>4. q \in EditForm
    BY <1>1, NewForms
  <2>5. q.at = "impact" /\ q.owner = o
    OBVIOUS
  <2>6. editing[d].row.owner = o /\ UNCHANGED <<absence, appointment, working>>
    BY DEF updateOverride
  <2> HIDE DEF r, q, i, o
  <2> QED BY <1>1, <1>2, <1>4, <2>1, <2>2, <2>3, <2>4, <2>5, <2>6, OverrideEdit
<1> QED BY <1>3, <1>4

LEMMA CreatesOverride ==
  ASSUME AvailabilityConstants, HInv, NEW d \in Editor, createOverride(d)
  PROVE  HInv'
<1> DEFINE line == editing[d].row  q == [at |-> "impact", owner |-> line.owner]
<1>1. line \in OverrideRow /\ line.owner \in Owner
  BY FormsHold DEF createOverride, OverrideRow, HInv, HoursTypeOK
<1>2. /\ edits' \in Nat /\ editing[d].at = "create"
      /\ known \subseteq Appointment /\ placed \subseteq Appointment
  BY DEF createOverride, HInv, HoursTypeOK
<1>3. UNCHANGED <<absence, appointment, working>>
  BY DEF createOverride
<1>4. CASE uniqueRefuses(line.owner)
  <2>1. \A v \in Appointment : ~LooksAt(d, v)
    BY <1>2 DEF LooksAt
  <2>2. Continues(d, NoEdit) /\ NoEdit \in EditForm /\ NoEdit.at = "idle" /\ known' = known /\ placed' = placed
    BY <1>4, NewForms DEF createOverride, NoEdit
  <2>3. UNCHANGED <<weekly, override, absence, appointment, working>>
    BY <1>4 DEF createOverride
  <2> QED BY <1>2, <2>1, <2>2, <2>3, OnlyItself
<1>5. CASE ~uniqueRefuses(line.owner)
  <2>1. PICK i \in OverrideId : /\ override[i] = NoRow
                                /\ HoursAre(weekly, [override EXCEPT ![i] = line]) /\ Continues(d, q)
    BY <1>5 DEF createOverride
  <2>2. override[i] # Removed /\ override[i].owner = Nobody
    BY <2>1 DEF NoRow, Removed
  <2>3. q \in EditForm /\ q.at = "impact" /\ q.owner = line.owner
    BY <1>1, NewForms
  <2> HIDE DEF line, q
  <2> QED BY <1>1, <1>2, <1>3, <2>1, <2>2, <2>3, OverrideEdit
<1> QED BY <1>4, <1>5

LEMMA RemovesOverride ==
  ASSUME AvailabilityConstants, HInv, NEW d \in Editor, NEW i \in OverrideId,
         removeDateOverride(d, i)
  PROVE  HInv'
<1> DEFINE o == override[i].owner  q == [at |-> "impact", owner |-> o]
<1>1. override[i] \in OverrideRow /\ o \in Owner /\ override[i] # Removed
  BY DEF removeDateOverride, HInv, HoursTypeOK, OverrideRow
<1>2. q \in EditForm /\ q.at = "impact" /\ q.owner = o
  BY <1>1, NewForms
<1>3. editing[d].at = "idle" /\ edits' \in Nat
  BY DEF removeDateOverride, BeginsEdit, NoEdit, HInv, HoursTypeOK
<1>4. Continues(d, q) /\ HoursAre(weekly, [override EXCEPT ![i] = Removed])
  BY DEF removeDateOverride, impactAfterRemoval
<1>5. UNCHANGED <<absence, appointment, working>>
  BY DEF removeDateOverride
<1> HIDE DEF q
<1> QED BY <1>1, <1>2, <1>3, <1>4, <1>5, OverrideEdit

LEMMA ReadsStranded ==
  ASSUME AvailabilityConstants, HInv, NEW d \in Editor, strandedByHoursChange(d)
  PROVE  HInv'
<1>1. PICK stranded \in strandedReadings(scopeOf(editing[d].owner)) :
        Continues(d, [at |-> "record", stranded |-> stranded])
  BY DEF strandedByHoursChange
<1> DEFINE q == [at |-> "record", stranded |-> stranded]
<1>2. stranded \subseteq Appointment
  BY DEF strandedReadings
<1>3. q \in EditForm /\ q.at = "record" /\ q.stranded = stranded
  BY <1>2, NewForms
<1>4. /\ editing[d].at = "impact" /\ edits' \in Nat /\ known' = known /\ placed' = placed
      /\ known \subseteq Appointment /\ placed \subseteq Appointment
  BY DEF strandedByHoursChange, HInv, HoursTypeOK
<1>5. UNCHANGED <<weekly, override, absence, appointment, working>>
  BY DEF strandedByHoursChange
<1>6. ASSUME NEW v \in Appointment, Outside(v, weekly, override), LooksAt(d, v)
      PROVE  v \in stranded
  <2>1. appointment[v].provider \in Stylist
    BY DEF HInv, HoursTypeOK, Appointments
  <2>2. appointment[v].provider \in scopeOf(editing[d].owner)
    BY <1>4, <1>6 DEF LooksAt
  <2>3. PICK h \in patterns(Salon, weekly, override),
             reading \in [Stylist -> UNION {patterns(s, weekly, override) : s \in Stylist}] :
          /\ \A s \in Stylist : reading[s] \in patterns(s, weekly, override)
          /\ stranded = {x \in Appointment :
               /\ appointment[x].active
               /\ appointment[x].provider \in scopeOf(editing[d].owner)
               /\ ~FitsIn(appointment[x].body, spansOf(h, reading[appointment[x].provider]))}
    BY DEF strandedReadings
  <2> QED BY <1>6, <2>1, <2>2, <2>3 DEF Outside, OutsideOf
<1>7. editing'[d] = q
  BY <1>1, <1>3, OneDesk DEF HInv
<1>8. \A v \in Appointment : Outside(v, weekly, override) /\ LooksAt(d, v) => LooksAt(d, v)'
  BY <1>3, <1>6, <1>7 DEF LooksAt
<1> HIDE DEF q
<1> QED BY <1>1, <1>3, <1>4, <1>5, <1>8, OnlyItself DEF q

LEMMA RecordsStranded ==
  ASSUME AvailabilityConstants, HInv, NEW d \in Editor, recordHoursStranding(d)
  PROVE  HInv'
<1>1. editing[d].stranded \subseteq Appointment /\ editing[d].at = "record"
  BY FormsHold DEF recordHoursStranding, HInv, HoursTypeOK
<1>2. /\ edits' \in Nat /\ known' = known \cup editing[d].stranded /\ known' \subseteq Appointment
      /\ placed' = placed /\ placed \subseteq Appointment
  BY <1>1 DEF recordHoursStranding, HInv, HoursTypeOK
<1>3. \A v \in Appointment : LooksAt(d, v) => v \in known'
  BY <1>1, <1>2 DEF LooksAt
<1>4. Continues(d, NoEdit) /\ NoEdit \in EditForm /\ NoEdit.at = "idle"
  BY NewForms DEF recordHoursStranding, NoEdit
<1>5. UNCHANGED <<weekly, override, absence, appointment, working>>
  BY DEF recordHoursStranding
<1> QED BY <1>1, <1>2, <1>3, <1>4, <1>5, OnlyItself

-----------------------------------------------------------------------------
\* Absences and flags.

\* An absence comes or goes, and its desk lifts the flags it lay over next.
LEMMA AbsenceEdit ==
  ASSUME AvailabilityConstants, HInv, NEW d \in Editor, NEW i \in AbsenceId,
         NEW typed \in AbsenceForm,
         NEW line \in AbsenceForm \cup {NoAbsence, Lifted},
         \/ absence[i] = typed /\ line.provider = Nobody
         \/ absence[i].provider = Nobody /\ line = typed,
         BeginsEdit(d), absence' = [absence EXCEPT ![i] = line],
         Continues(d, [at |-> "freshen", form |-> typed]),
         UNCHANGED <<weekly, override, appointment, working, known, placed>>
  PROVE  HInv'
<1> DEFINE q == [at |-> "freshen", form |-> typed]
<1>1. HoursTypeOK /\ q \in EditForm
  BY NewForms DEF HInv
<1>2. /\ editing' \in [Editor -> EditForm] /\ editing'[d] = q
      /\ \A e \in Editor \ {d} : editing'[e] = editing[e]
  BY <1>1, OneDesk
<1>3. editing[d].at = "idle" /\ edits' \in Nat
  BY DEF BeginsEdit, NoEdit, HInv, HoursTypeOK
<1>4. HoursTypeOK'
  BY <1>1, <1>2, <1>3 DEF HoursTypeOK
<1>5. SilenceEnds'
  <2>1. \A v \in Appointment : SameToTheHours(v)
    BY DEF SameToTheHours
  <2>2. \A e \in Editor, v \in Appointment : LooksAt(e, v) => LooksAt(e, v)'
    BY <1>2, <1>3 DEF LooksAt, scopeOf
  <2> QED BY <2>1, <2>2, SilenceStays DEF HInv, NotForgotten
<1>6. RowsAreTheirs'
  BY <1>2 DEF HInv, RowsAreTheirs
<1>7. FlagsAreFresh'
  <2> SUFFICES ASSUME NEW v \in Appointment, appointment[v].ack, ~\E e \in Editor : WillLift(e, v)'
               PROVE  appointment[v].saw \in {Struck(v)', Elsewhere}
    BY DEF FlagsAreFresh
  <2>1. ~(appointment[v].provider = typed.provider /\ Wall!overlaps(appointment[v].body, typed.span))
    BY <1>2 DEF WillLift
  <2>2. \A e \in Editor : ~WillLift(e, v)
    BY <1>2, <1>3 DEF WillLift
  <2>3. appointment[v].saw \in {Struck(v), Elsewhere}
    BY <2>2 DEF HInv, FlagsAreFresh
  <2>4. absence'[i] = line /\ \A j \in AbsenceId \ {i} : absence'[j] = absence[j]
    BY <1>1 DEF HoursTypeOK
  <2>5. appointment[v].provider # Nobody
    BY <1>1 DEF HoursTypeOK, Appointments, AvailabilityConstants, Owner
  <2>6. ~(/\ absence[i].provider = appointment[v].provider
          /\ Wall!overlaps(absence[i].span, appointment[v].body))
    BY <2>1, <2>5 DEF Wall!overlaps
  <2>7. ~(line.provider = appointment[v].provider /\ Wall!overlaps(line.span, appointment[v].body))
    BY <2>1, <2>5 DEF Wall!overlaps
  <2>8. Struck(v)' = Struck(v)
    <3>1. \A j \in AbsenceId :
            (/\ absence'[j].provider = appointment[v].provider
             /\ Wall!overlaps(absence'[j].span, appointment[v].body))
            <=> (/\ absence[j].provider = appointment[v].provider
                 /\ Wall!overlaps(absence[j].span, appointment[v].body))
      BY <2>4, <2>6, <2>7
    <3> QED BY <3>1 DEF Struck, StrikesAt, AbsenceId
  <2> QED BY <2>3, <2>8
<1> QED BY <1>4, <1>5, <1>6, <1>7 DEF HInv

LEMMA AddsAbsence ==
  ASSUME AvailabilityConstants, HInv, NEW d \in Editor, NEW typed \in AbsenceForm,
         addAbsence(d, typed)
  PROVE  HInv'
<1>1. PICK i \in AbsenceId : absence[i] = NoAbsence /\ absence' = [absence EXCEPT ![i] = typed]
  BY DEF addAbsence
<1>2. absence[i].provider = Nobody
  BY <1>1 DEF NoAbsence
<1> QED BY <1>1, <1>2, AbsenceEdit DEF addAbsence

LEMMA RemovesAbsence ==
  ASSUME AvailabilityConstants, HInv, NEW d \in Editor, NEW i \in AbsenceId, removeAbsence(d, i)
  PROVE  HInv'
<1>1. absence[i] \in AbsenceForm /\ Lifted.provider = Nobody
  BY DEF removeAbsence, HInv, HoursTypeOK, Lifted
<1> QED BY <1>1, AbsenceEdit DEF removeAbsence, afterRemoval

\* A desk that stays where it is, or owes the hours nothing before and after.
StaysOrRests(e) ==
  \/ editing'[e] = editing[e]
  \/ /\ editing[e].at \notin {"impact", "record", "update"}
     /\ editing'[e].at \notin {"replace", "update"}

\* A visit that stays where it was, told or not, or is put somewhere and told.
StaysOrIsPut(v) ==
  \/ SameToTheHours(v) /\ (v \in known \cup placed => v \in known' \cup placed')
  \/ Outside(v, weekly, override)' => v \in placed'

\* A step that changes visits and nothing else.
LEMMA VisitStep ==
  ASSUME AvailabilityConstants, HInv,
         editing' \in [Editor -> EditForm], \A e \in Editor : StaysOrRests(e),
         appointment' \in [Appointment -> Appointments], edits' \in Nat,
         UNCHANGED <<weekly, override, absence, working>>,
         known' \subseteq Appointment, placed' \subseteq Appointment,
         \A v \in Appointment : StaysOrIsPut(v),
         FlagsAreFresh'
  PROVE  HInv'
<1>1. HoursTypeOK'
  BY DEF HInv, HoursTypeOK
<1>2. SilenceEnds'
  <2>1. \A e \in Editor, v \in Appointment : LooksAt(e, v) => editing'[e] = editing[e]
    BY DEF LooksAt, StaysOrRests
  <2>2. \A e \in Editor, v \in Appointment :
          LooksAt(e, v) /\ SameToTheHours(v) => LooksAt(e, v)'
    BY <2>1 DEF LooksAt, scopeOf, SameToTheHours
  <2> QED BY <2>2, SilenceStays DEF HInv, NotForgotten, StaysOrIsPut
<1>3. RowsAreTheirs'
  BY DEF HInv, RowsAreTheirs, StaysOrRests
<1> QED BY <1>1, <1>2, <1>3 DEF HInv

LEMMA FreshensFlags ==
  ASSUME AvailabilityConstants, HInv, NEW d \in Editor, freshenAcknowledgments(d)
  PROVE  HInv'
<1> DEFINE f == editing[d].form
           under(v) == appointment[v].provider = f.provider /\ Wall!overlaps(appointment[v].body, f.span)
<1>1. HoursTypeOK
  BY DEF HInv
<1>2. /\ \A v \in Appointment :
           appointment'[v] = IF under(v) THEN Unflagged(appointment[v]) ELSE appointment[v]
      /\ appointment' = [v \in Appointment |-> appointment'[v]]
  BY DEF freshenAcknowledgments
<1>3. \A v \in Appointment : Unflagged(appointment[v]) \in Appointments
  BY <1>1 DEF HoursTypeOK, Appointments, Unflagged
<1>4. appointment' \in [Appointment -> Appointments]
  BY <1>1, <1>2, <1>3 DEF HoursTypeOK
<1>5. \A v \in Appointment : SameToTheHours(v)
  BY <1>1, <1>2 DEF SameToTheHours, Unflagged, HoursTypeOK, Appointments
<1>6. \A v \in Appointment : under(v) => ~appointment'[v].ack
  BY <1>1, <1>2 DEF Unflagged, HoursTypeOK, Appointments
<1>7. /\ editing[d].at = "freshen" /\ edits' \in Nat
      /\ Continues(d, NoEdit) /\ NoEdit \in EditForm /\ NoEdit.at = "idle"
      /\ UNCHANGED <<weekly, override, absence, working, known, placed>>
      /\ known \subseteq Appointment /\ placed \subseteq Appointment
  BY <1>1, NewForms DEF freshenAcknowledgments, NoEdit, HoursTypeOK
<1>8. FlagsAreFresh'
  <2> SUFFICES ASSUME NEW v \in Appointment, appointment'[v].ack
               PROVE  \/ appointment'[v].saw \in {Struck(v)', Elsewhere}
                      \/ \E e \in Editor : WillLift(e, v)'
    BY DEF FlagsAreFresh
  <2>1. ~under(v) /\ appointment'[v] = appointment[v]
    BY <1>2, <1>6
  <2>2. Struck(v)' = Struck(v)
    BY <1>7, <2>1 DEF Struck, StrikesAt, AbsenceId
  <2>3. CASE appointment[v].saw \in {Struck(v), Elsewhere}
    BY <2>1, <2>2, <2>3
  <2>4. CASE appointment[v].saw \notin {Struck(v), Elsewhere}
    <3>1. PICK e \in Editor : WillLift(e, v)
      BY <2>1, <2>4 DEF HInv, FlagsAreFresh
    <3>2. e # d
      BY <2>1, <3>1 DEF WillLift
    <3>3. editing'[e] = editing[e]
      BY <1>1, <1>7, <3>2, OneDesk
    <3> QED BY <2>1, <3>1, <3>3 DEF WillLift
  <2> QED BY <2>3, <2>4
<1>9. editing' \in [Editor -> EditForm] /\ \A e \in Editor : StaysOrRests(e)
  BY <1>1, <1>7, OneDesk DEF StaysOrRests
<1>10. \A v \in Appointment : StaysOrIsPut(v)
  BY <1>5, <1>7 DEF StaysOrIsPut
<1>11. known' = known /\ placed' = placed /\ UNCHANGED <<weekly, override, absence, working>>
  BY <1>7
<1> HIDE DEF f, under
<1> QED BY <1>4, <1>7, <1>8, <1>9, <1>10, <1>11, VisitStep

\* How a visit's flag may be written: off, for elsewhere, about what lies over
\* it, or as it was; the last two only where the visit stands.
FlagFollows(v, r) ==
  \/ ~r.ack
  \/ r.saw = Elsewhere
  \/ /\ r.provider = appointment[v].provider /\ r.body = appointment[v].body
     /\ r.saw = Struck(v) \/ (r.ack = appointment[v].ack /\ r.saw = appointment[v].saw)

LEMMA FlagsFollow ==
  ASSUME HInv, absence' = absence,
         \A e \in Editor : editing[e].at = "freshen" => editing'[e] = editing[e],
         \A v \in Appointment : FlagFollows(v, appointment'[v])
  PROVE  FlagsAreFresh'
<1> SUFFICES ASSUME NEW x \in Appointment, appointment'[x].ack, appointment'[x].saw # Elsewhere
             PROVE  appointment'[x].saw = Struck(x)' \/ \E e \in Editor : WillLift(e, x)'
  BY DEF FlagsAreFresh
<1>1. /\ appointment'[x].provider = appointment[x].provider /\ appointment'[x].body = appointment[x].body
      /\ \/ appointment'[x].saw = Struck(x)
         \/ appointment[x].ack /\ appointment'[x].saw = appointment[x].saw
  BY DEF FlagFollows
<1>2. Struck(x)' = Struck(x)
  BY <1>1 DEF Struck, StrikesAt, AbsenceId
<1>3. \A e \in Editor : WillLift(e, x) => WillLift(e, x)'
  BY <1>1 DEF WillLift
<1> QED BY <1>1, <1>2, <1>3 DEF HInv, FlagsAreFresh

LEMMA Acknowledges ==
  ASSUME AvailabilityConstants, HInv, NEW d \in Editor, NEW v \in Appointment,
         acknowledgeConflict(d, v)
  PROVE  HInv'
<1> DEFINE r == [appointment[v] EXCEPT !.ack = TRUE, !.saw = Struck(v)]
<1>1. HoursTypeOK
  BY DEF HInv
<1>2. appointment' = [appointment EXCEPT ![v] = r] /\ absence' = absence
  BY DEF acknowledgeConflict
<1>3. Struck(v) \subseteq AbsenceId \cup Elsewhere
  BY DEF Struck, StrikesAt
<1>4. r \in Appointments
  BY <1>1, <1>3 DEF HoursTypeOK, Appointments
<1>5. r.saw = Struck(v) /\ r.provider = appointment[v].provider /\ r.body = appointment[v].body
      /\ r.active = appointment[v].active
  BY <1>1 DEF HoursTypeOK, Appointments
<1>6. appointment'[v] = r /\ \A x \in Appointment \ {v} : appointment'[x] = appointment[x]
  BY <1>1, <1>2 DEF HoursTypeOK
<1>7. /\ editing[d].at = "page" /\ Continues(d, NoEdit) /\ NoEdit \in EditForm /\ NoEdit.at = "idle"
      /\ edits' \in Nat /\ known \subseteq Appointment /\ placed \subseteq Appointment
      /\ UNCHANGED <<weekly, override, absence, working, known, placed>>
  BY <1>1, NewForms DEF acknowledgeConflict, NoEdit, HoursTypeOK
<1>8. editing' \in [Editor -> EditForm] /\ \A e \in Editor : StaysOrRests(e)
  BY <1>1, <1>7, OneDesk DEF StaysOrRests
<1>9. \A x \in Appointment : FlagFollows(x, appointment'[x])
  BY <1>5, <1>6 DEF FlagFollows
<1>10. \A e \in Editor : editing[e].at = "freshen" => editing'[e] = editing[e]
  BY <1>1, <1>7, OneDesk
<1>11. FlagsAreFresh'
  BY <1>2, <1>9, <1>10, FlagsFollow
<1>12. appointment' \in [Appointment -> Appointments]
  BY <1>1, <1>2, <1>4 DEF HoursTypeOK
<1>13. \A x \in Appointment : StaysOrIsPut(x)
  BY <1>5, <1>6, <1>7 DEF StaysOrIsPut, SameToTheHours
<1> QED BY <1>7, <1>8, <1>11, <1>12, <1>13, VisitStep

\* Reads that only lead a desk from idle into the middle of something.
LEMMA OnlyReads ==
  ASSUME AvailabilityConstants, HInv, NEW d \in Editor, NEW q \in EditForm, Continues(d, q),
         BeginsEdit(d), q.at \notin {"replace", "update"},
         UNCHANGED <<weekly, override, absence, appointment, working, known, placed>>
  PROVE  HInv'
<1>1. /\ editing[d].at = "idle" /\ edits' \in Nat
      /\ known \subseteq Appointment /\ placed \subseteq Appointment
  BY DEF BeginsEdit, NoEdit, HInv, HoursTypeOK
<1>2. \A x \in Appointment : ~LooksAt(d, x)
  BY <1>1 DEF LooksAt
<1> QED BY <1>1, <1>2, OnlyItself

LEMMA ReadsPage ==
  ASSUME AvailabilityConstants, HInv, NEW d \in Editor, readConflicts(d)
  PROVE  HInv'
<1> DEFINE q == [at |-> "page", shown |-> Conflicts]
<1>1. Conflicts \in SUBSET Appointment
  BY DEF Conflicts
<1>2. q \in EditForm /\ q.at = "page"
  BY <1>1, NewForms
<1>3. Continues(d, q)
  BY DEF readConflicts
<1> HIDE DEF q
<1> QED BY <1>2, <1>3, OnlyReads DEF readConflicts

LEMMA ReadsForReassign ==
  ASSUME AvailabilityConstants, HInv, NEW d \in Editor, NEW v \in Appointment,
         NEW to \in Stylist,
         readForReassign(d, v, to)
  PROVE  HInv'
<1> DEFINE q == [at |-> "reassign", v |-> v, to |-> to]
<1>1. q \in EditForm /\ Continues(d, q) /\ q.at = "reassign"
  BY NewForms DEF readForReassign
<1> HIDE DEF q
<1> QED BY <1>1, OnlyReads DEF readForReassign

LEMMA ReadsForMove ==
  ASSUME AvailabilityConstants, HInv, NEW d \in Editor, NEW v \in Appointment,
         NEW to \in Stylist, NEW t \in MoveTo,
         readForMove(d, v, to, t)
  PROVE  HInv'
<1> DEFINE was == appointment[v]
           body == Shifted(was.body, t - was.body.start)
           q == [at |-> "move", v |-> v, to |-> to, body |-> body, was |-> was.provider,
                 from |-> was.body.start]
<1>1. /\ was.provider \in Stylist /\ was.body.start \in Int /\ was.body.end \in Int /\ t \in Int
  BY DEF HInv, HoursTypeOK, Appointments, AnyBody, AvailabilityConstants
<1>2. body \in AnyBody
  BY <1>1 DEF Shifted, AnyBody
<1>3. q \in EditForm /\ q.at = "move"
  BY <1>1, <1>2, NewForms
<1>4. Continues(d, q)
  BY DEF readForMove
<1> HIDE DEF q
<1> QED BY <1>3, <1>4, OnlyReads DEF readForMove

LEMMA PreviewsPush ==
  ASSUME AvailabilityConstants, HInv, NEW d \in Editor, NEW s \in Stylist,
         NEW moved \in SUBSET Appointment, NEW by \in PushBy,
         previewPush(d, s, moved, by)
  PROVE  HInv'
<1> DEFINE q == [at |-> "push", moved |-> moved, by |-> by]
<1>1. by \in Int
  BY DEF AvailabilityConstants
<1>2. q \in EditForm /\ Continues(d, q) /\ q.at = "push"
  BY <1>1, NewForms DEF previewPush
<1> HIDE DEF q
<1> QED BY <1>2, OnlyReads DEF previewPush

\* Visits are put somewhere by a desk that owes the hours nothing, or refused.
LEMMA PutsKeeps ==
  ASSUME AvailabilityConstants, HInv, NEW moved \in SUBSET Appointment,
         NEW rows \in [Appointment -> Appointments],
         \A v \in Appointment \ moved : rows[v] = appointment[v],
         \A v \in moved : FlagFollows(v, rows[v]),
         Puts(moved, rows),
         editing' \in [Editor -> EditForm], \A e \in Editor : StaysOrRests(e),
         \A e \in Editor : editing[e].at = "freshen" => editing'[e] = editing[e],
         edits' \in Nat, UNCHANGED <<weekly, override, absence, working>>
  PROVE  HInv'
<1>1. HoursTypeOK
  BY DEF HInv
<1>2. /\ appointment' \in [Appointment -> Appointments]
      /\ known' \subseteq Appointment /\ placed' \subseteq Appointment
  BY <1>1 DEF Puts, HoursTypeOK
<1>3. \A v \in Appointment : FlagFollows(v, appointment[v])
  BY DEF FlagFollows
<1>4. \A v \in Appointment : FlagFollows(v, appointment'[v])
  BY <1>3 DEF Puts
<1>5. FlagsAreFresh'
  BY <1>4, FlagsFollow
<1>6. \A v \in Appointment : StaysOrIsPut(v)
  <2>1. CASE UNCHANGED <<appointment, known, placed>>
    BY <2>1 DEF StaysOrIsPut, SameToTheHours
  <2>2. CASE ~UNCHANGED <<appointment, known, placed>>
    <3> SUFFICES ASSUME NEW v \in Appointment PROVE StaysOrIsPut(v)
      OBVIOUS
    <3>1. /\ appointment' = rows /\ known' = known \ moved
          /\ placed' = (placed \ moved) \cup {x \in moved : OutsideOf(rows[x], weekly, override)}
      BY <2>2 DEF Puts
    <3>2. CASE v \notin moved
      BY <3>1, <3>2 DEF StaysOrIsPut, SameToTheHours
    <3>3. CASE v \in moved
      <4>1. Outside(v, weekly, override)' => OutsideOf(rows[v], weekly, override)
        BY <3>1 DEF Outside, OutsideOf, patterns, rowsOf, OverrideId
      <4> QED BY <3>1, <3>3, <4>1 DEF StaysOrIsPut
    <3> QED BY <3>2, <3>3
  <2> QED BY <2>1, <2>2
<1> QED BY <1>2, <1>5, <1>6, VisitStep

\* The second half of a desk's move, push or reassignment.
LEMMA DeskPuts ==
  ASSUME AvailabilityConstants, HInv, NEW d \in Editor, NEW moved \in SUBSET Appointment,
         NEW rows \in [Appointment -> Appointments],
         editing[d].at \in {"reassign", "move", "push"},
         \A v \in Appointment \ moved : rows[v] = appointment[v],
         \A v \in moved : FlagFollows(v, rows[v]),
         Puts(moved, rows) \/ UNCHANGED <<appointment, known, placed>>,
         Continues(d, NoEdit),
         UNCHANGED <<weekly, override, absence, working, edits>>
  PROVE  HInv'
<1>1. HoursTypeOK /\ edits' \in Nat /\ NoEdit \in EditForm /\ NoEdit.at = "idle"
      /\ known \subseteq Appointment /\ placed \subseteq Appointment
  BY NewForms DEF HInv, HoursTypeOK, NoEdit
<1>2. CASE UNCHANGED <<appointment, known, placed>>
  <2>1. \A x \in Appointment : ~LooksAt(d, x)
    BY DEF LooksAt
  <2> QED BY <1>1, <1>2, <2>1, OnlyItself
<1>3. CASE Puts(moved, rows)
  <2>1. editing' \in [Editor -> EditForm] /\ \A e \in Editor : StaysOrRests(e)
    BY <1>1, OneDesk DEF StaysOrRests
  <2>2. \A e \in Editor : editing[e].at = "freshen" => editing'[e] = editing[e]
    BY <1>1, OneDesk
  <2> QED BY <1>1, <1>3, <2>1, <2>2, PutsKeeps
<1> QED BY <1>2, <1>3

\* What becomes of a row that is handed over, or moved away.
LEMMA HandedRow ==
  ASSUME NEW r \in Appointments, NEW to \in Stylist
  PROVE  HandedOver(r, to) \in Appointments /\ ~HandedOver(r, to).ack
BY DEF HandedOver, Unflagged, Appointments

LEMMA MovedRow ==
  ASSUME NEW r \in Appointments, NEW body \in AnyBody
  PROVE  /\ MovedAway(r, body) \in Appointments
         /\ MovedAway(r, body).ack => MovedAway(r, body).saw = Elsewhere
BY DEF MovedAway, Appointments, Elsewhere

LEMMA Reassigns ==
  ASSUME AvailabilityConstants, HInv, NEW d \in Editor, reassignAppointment(d)
  PROVE  HInv'
<1> DEFINE v == editing[d].v  to == editing[d].to  r == HandedOver(appointment[v], to)
           rows == [appointment EXCEPT ![v] = r]
<1>1. HoursTypeOK /\ v \in Appointment /\ to \in Stylist /\ editing[d].at = "reassign"
  BY FormsHold DEF reassignAppointment, HInv, HoursTypeOK
<1>2. r \in Appointments /\ ~r.ack
  BY <1>1, HandedRow DEF HoursTypeOK
<1>3. rows \in [Appointment -> Appointments] /\ rows[v] = r
      /\ \A x \in Appointment \ {v} : rows[x] = appointment[x]
  BY <1>1, <1>2 DEF HoursTypeOK
<1>4. \A x \in {v} : FlagFollows(x, rows[x])
  BY <1>2, <1>3 DEF FlagFollows
<1>5. Puts({v}, rows)
  BY DEF reassignAppointment
<1>6. {v} \in SUBSET Appointment
  BY <1>1
<1> HIDE DEF v, rows, r, to
<1> QED BY <1>1, <1>3, <1>4, <1>5, <1>6, DeskPuts DEF reassignAppointment

LEMMA Moves ==
  ASSUME AvailabilityConstants, HInv, NEW d \in Editor, moveAppointment(d)
  PROVE  HInv'
<1> DEFINE e == editing[d]  v == e.v  moved == MovedAway(appointment[v], e.body)
           r == IF e.to = e.was THEN [moved EXCEPT !.provider = e.to] ELSE HandedOver(moved, e.to)
           rows == [appointment EXCEPT ![v] = r]
<1>1. /\ HoursTypeOK /\ v \in Appointment /\ e.to \in Stylist /\ e.body \in AnyBody
      /\ editing[d].at = "move"
  BY FormsHold DEF moveAppointment, HInv, HoursTypeOK
<1>2. moved \in Appointments /\ (moved.ack => moved.saw = Elsewhere)
  BY <1>1, MovedRow DEF HoursTypeOK
<1>3. r \in Appointments /\ (r.ack => r.saw = Elsewhere)
  <2>1. CASE e.to = e.was
    <3> HIDE DEF moved
    <3> QED BY <1>1, <1>2, <2>1 DEF Appointments
  <2>2. CASE e.to # e.was
    <3> HIDE DEF moved
    <3> QED BY <1>1, <1>2, <2>2, HandedRow
  <2> QED BY <2>1, <2>2
<1>4. rows \in [Appointment -> Appointments] /\ rows[v] = r
      /\ \A x \in Appointment \ {v} : rows[x] = appointment[x]
  BY <1>1, <1>3 DEF HoursTypeOK
<1>5. \A x \in {v} : FlagFollows(x, rows[x])
  BY <1>3, <1>4 DEF FlagFollows
<1>6. Puts({v}, rows) \/ UNCHANGED <<appointment, known, placed>>
  BY DEF moveAppointment
<1>7. {v} \in SUBSET Appointment
  BY <1>1
<1> HIDE DEF v, rows, r, moved
<1> QED BY <1>1, <1>4, <1>5, <1>6, <1>7, DeskPuts DEF moveAppointment

LEMMA Pushes ==
  ASSUME AvailabilityConstants, HInv, NEW d \in Editor, pushColumn(d)
  PROVE  HInv'
<1> DEFINE moved == editing[d].moved  by == editing[d].by
           to(v) == MovedAway(appointment[v], Shifted(appointment[v].body, by))
           rows == [v \in Appointment |-> IF v \in moved THEN to(v) ELSE appointment[v]]
<1>1. /\ HoursTypeOK /\ moved \in SUBSET Appointment /\ by \in Int /\ editing[d].at = "push"
  BY FormsHold DEF pushColumn, HInv, HoursTypeOK
<1>2. ASSUME NEW v \in Appointment
      PROVE  to(v) \in Appointments /\ (to(v).ack => to(v).saw = Elsewhere)
  <2>1. appointment[v] \in Appointments
    BY <1>1 DEF HoursTypeOK
  <2>2. Shifted(appointment[v].body, by) \in AnyBody
    BY <1>1, <2>1 DEF Shifted, AnyBody, Appointments
  <2> QED BY <2>1, <2>2, MovedRow
<1>3. rows \in [Appointment -> Appointments]
      /\ \A x \in Appointment \ moved : rows[x] = appointment[x]
  BY <1>1, <1>2 DEF HoursTypeOK
<1>4. \A x \in moved : FlagFollows(x, rows[x])
  <2> SUFFICES ASSUME NEW x \in moved PROVE FlagFollows(x, rows[x])
    OBVIOUS
  <2>1. x \in Appointment /\ rows[x] = to(x)
    BY <1>1
  <2> QED BY <1>2, <2>1 DEF FlagFollows
<1>5. Puts(moved, rows)
  BY DEF pushColumn
<1>6. Continues(d, NoEdit) /\ UNCHANGED <<weekly, override, absence, working, edits>>
  BY DEF pushColumn
<1> HIDE DEF moved, by, rows, to
<1> QED BY <1>1, <1>3, <1>4, <1>5, <1>6, DeskPuts

LEMMA DeskTapped ==
  ASSUME AvailabilityConstants, HInv, NEW v \in Appointment, tapped(v)
  PROVE  HInv'
<1> DEFINE r == [appointment[v] EXCEPT !.active = ~@]
           rows == [appointment EXCEPT ![v] = r]
<1>1. HoursTypeOK /\ edits' \in Nat /\ appointment[v] \in Appointments
  BY DEF tapped, HInv, HoursTypeOK
<1>2. r \in Appointments /\ r.provider = appointment[v].provider /\ r.body = appointment[v].body
      /\ r.saw = appointment[v].saw
  BY <1>1 DEF Appointments
<1>3. r.ack = appointment[v].ack
  BY <1>1 DEF Appointments
<1>4. rows \in [Appointment -> Appointments] /\ rows[v] = r
      /\ \A x \in Appointment \ {v} : rows[x] = appointment[x]
  BY <1>1, <1>2 DEF HoursTypeOK
<1>5. \A x \in {v} : FlagFollows(x, rows[x])
  BY <1>2, <1>3, <1>4 DEF FlagFollows
<1>6. Puts({v}, rows) /\ UNCHANGED <<weekly, override, absence, working, editing>>
  BY DEF tapped
<1>7. editing' \in [Editor -> EditForm] /\ \A e \in Editor : StaysOrRests(e)
  BY <1>1, <1>6 DEF HoursTypeOK, StaysOrRests
<1>8. {v} \in SUBSET Appointment
  OBVIOUS
<1>9. \A e \in Editor : editing[e].at = "freshen" => editing'[e] = editing[e]
  BY <1>6
<1> HIDE DEF rows, r
<1> QED BY <1>1, <1>4, <1>5, <1>6, <1>7, <1>8, <1>9, PutsKeeps

\* The roster is nothing the hours depend on.
LEMMA HoursQuiet ==
  ASSUME HInv, UNCHANGED <<weekly, override, absence, appointment, known, placed, editing>>,
         working' \subseteq Stylist, edits' \in Nat
  PROVE  HInv'
<1>1. HoursTypeOK'
  BY DEF HInv, HoursTypeOK
<1>2. \A v \in Appointment : SameToTheHours(v)
  BY DEF SameToTheHours
<1>3. \A e \in Editor, v \in Appointment : LooksAt(e, v) => LooksAt(e, v)'
  BY DEF LooksAt, scopeOf
<1>4. SilenceEnds'
  BY <1>2, <1>3, SilenceStays DEF HInv, NotForgotten
<1>5. \A e \in Editor, v \in Appointment : WillLift(e, v) => WillLift(e, v)'
  BY DEF WillLift
<1>6. FlagsAreFresh'
  BY <1>5, FlagsStay DEF HInv
<1>7. RowsAreTheirs'
  BY DEF HInv, RowsAreTheirs
<1> QED BY <1>1, <1>4, <1>6, <1>7 DEF HInv

LEMMA HInvInit == ASSUME AvailabilityConstants, HoursInit PROVE HInv
<1>1. HoursTypeOK
  <2>1. weekly \in [Owner -> SUBSET Windows]
    BY DEF HoursInit, AvailabilityConstants, Windows
  <2>2. appointment \in [Appointment -> Appointments]
    BY DEF HoursInit, AvailabilityConstants, Appointments
  <2> QED BY <2>1, <2>2 DEF HoursInit, HoursTypeOK, EditForm
<1>2. \A d \in Editor : editing[d].at = "idle"
  BY DEF HoursInit, NoEdit
<1>3. RowsAreTheirs
  BY <1>2 DEF RowsAreTheirs
<1>4. FlagsAreFresh
  BY DEF HoursInit, FlagsAreFresh
<1>5. SilenceEnds
  BY DEF HoursInit, SilenceEnds
<1> QED BY <1>1, <1>3, <1>4, <1>5 DEF HInv

LEMMA HInvNext ==
  ASSUME AvailabilityConstants, HInv, [HoursNext]_hoursVars
  PROVE  HInv'
<1>1. ASSUME NEW d \in Editor, NEW owner \in Owner, NEW w \in WindowForm,
             addWeeklyWindow(d, owner, w) \/ removeWeeklyWindow(d, owner, w)
      PROVE  HInv'
  BY <1>1, AddsWindow, RemovesWindow
<1>2. ASSUME NEW d \in Editor, NEW owner \in Owner, NEW isClosed \in BOOLEAN,
             NEW windows \in {{}} \cup {{w} : w \in WindowForm}, findOverride(d, owner, isClosed, windows)
      PROVE  HInv'
  BY <1>2, FindsOverride
<1>3. ASSUME NEW d \in Editor,
             \/ deleteChildren(d) \/ updateOverride(d) \/ createOverride(d)
             \/ strandedByHoursChange(d) \/ recordHoursStranding(d)
             \/ freshenAcknowledgments(d) \/ readConflicts(d)
             \/ reassignAppointment(d) \/ moveAppointment(d) \/ pushColumn(d)
      PROVE  HInv'
  BY <1>3, DeletesChildren, UpdatesOverride, CreatesOverride, ReadsStranded, RecordsStranded,
     FreshensFlags, ReadsPage, Reassigns, Moves, Pushes
<1>4. ASSUME NEW s \in Stylist, setActive(s) PROVE HInv'
  <2>1. working' \subseteq Stylist /\ edits' \in Nat
    BY <1>4 DEF setActive, HInv, HoursTypeOK
  <2> QED BY <1>4, <2>1, HoursQuiet DEF setActive
<1>5. CASE UNCHANGED hoursVars
  <2>1. working' \subseteq Stylist /\ edits' \in Nat
    BY <1>5 DEF hoursVars, HInv, HoursTypeOK
  <2> QED BY <1>5, <2>1, HoursQuiet DEF hoursVars
<1>6. ASSUME NEW d \in Editor, NEW i \in OverrideId, removeDateOverride(d, i) PROVE HInv'
  BY <1>6, RemovesOverride
<1>7. ASSUME NEW d \in Editor, NEW typed \in AbsenceForm, addAbsence(d, typed) PROVE HInv'
  BY <1>7, AddsAbsence
<1>8. ASSUME NEW d \in Editor, NEW i \in AbsenceId, removeAbsence(d, i) PROVE HInv'
  BY <1>8, RemovesAbsence
<1>9. ASSUME NEW d \in Editor, NEW v \in Appointment, acknowledgeConflict(d, v) PROVE HInv'
  BY <1>9, Acknowledges
<1>10. ASSUME NEW d \in Editor, NEW v \in Appointment, NEW to \in Stylist, readForReassign(d, v, to)
       PROVE  HInv'
  BY <1>10, ReadsForReassign
<1>11. ASSUME NEW d \in Editor, NEW v \in Appointment, NEW to \in Stylist, NEW t \in MoveTo,
              readForMove(d, v, to, t)
       PROVE  HInv'
  BY <1>11, ReadsForMove
<1>12. ASSUME NEW d \in Editor, NEW s \in Stylist, NEW moved \in SUBSET Appointment,
              NEW by \in PushBy, previewPush(d, s, moved, by)
       PROVE  HInv'
  BY <1>12, PreviewsPush
<1>13. ASSUME NEW v \in Appointment, tapped(v) PROVE HInv'
  BY <1>13, DeskTapped
<1> QED
  BY <1>1, <1>2, <1>3, <1>4, <1>5, <1>6, <1>7, <1>8, <1>9, <1>10, <1>11, <1>12, <1>13 DEF HoursNext

\* For any number of desks, stylists, visits, forms and ids: however the
\* statements of several edits fall between each other, a visit that no longer
\* fits the hours carries an event that says so once the desks are done, or the
\* event of the desk that put it there, and a flag on a visit that stands where
\* it stood is about exactly the absences that lie over it
\* (availability.ts:215-275, impact.ts:226-299, 333-357, 465-490).
THEOREM TheStrandedAreTold ==
  ASSUME AvailabilityConstants
  PROVE  HoursSpec => []TheStrandedAreKnown
<1>1. HoursInit => HInv
  BY HInvInit
<1>2. HInv /\ [HoursNext]_hoursVars => HInv'
  BY HInvNext
<1>3. HInv => TheStrandedAreKnown
  <2> SUFFICES ASSUME HInv PROVE TheStrandedAreKnown
    OBVIOUS
  <2>1. NobodyIsStrandedInSilence
    <3>1. \A d \in Editor, v \in Appointment : LooksAt(d, v) => editing[d].at \in Changing
      BY DEF LooksAt, Changing
    <3> QED BY <3>1 DEF NobodyIsStrandedInSilence, HInv, SilenceEnds
  <2>2. FlagIsAboutTheseAbsences
    BY DEF FlagIsAboutTheseAbsences, HInv, FlagsAreFresh, WillLift
  <2> QED BY <2>1, <2>2 DEF TheStrandedAreKnown, HInv
<1> QED
  BY <1>1, <1>2, <1>3, PTL DEF HoursSpec
=============================================================================
