-------------------------------- MODULE Sheet --------------------------------
(* The printed day sheet and the count of what changed since it was printed  *)
(* (packages/db/day/changes.ts, day-view.ts, apps/web/app/staff/day): the    *)
(* writes that move, push, reassign or book, each stamped before it commits, *)
(* the Print button's two steps, and the column's count.  What a write is    *)
(* allowed to do is Book's and Push's; here it only has a kind.              *)
(*                                                                           *)
(* Every stamp takes a moment of its own; a day is MomentsADay moments.      *)
EXTENDS Integers, FiniteSets, FiniteSetsExt

CONSTANTS
  Line, Column, NoLine,
  Writer, Printer,     \* the requests that may be under way at once
  SheetStarts,         \* the instants on the sheet's day
  MomentsADay, LastMoment, MaxPrints

ASSUME SheetAssumption ==
  /\ NoLine \notin [provider : Column, startAt : SheetStarts, occupies : BOOLEAN]
  /\ "everybody" \notin Column
  /\ MomentsADay \in Nat \ {0} /\ LastMoment \in Nat

VARIABLES
  moment,
  row,         \* Line -> [provider, startAt, occupies], or NoLine
  events,      \* AppointmentEvent: [visit, type, via, at]
  open,        \* Writer -> its transaction: {} or {[visit, type, from, to, at]}
  prints,      \* DaySheetPrint: [whose, at]
  printing,    \* Printer -> a press whose page is not drawn yet: {} or {[whose, at, busy]}
  paper        \* Column -> the sheets made of her column: [at, rows, left, busy]

sheetVars == <<moment, row, events, open, prints, printing, paper>>

Everybody == "everybody"
At(r) == <<r.provider, r.startAt>>
Known == {v \in Line : row[v] # NoLine}
Passes == moment < LastMoment /\ moment' = moment + 1

SheetInit ==
  /\ moment = 0 /\ row = [v \in Line |-> NoLine] /\ events = {}
  /\ open = [w \in Writer |-> {}] /\ prints = {}
  /\ printing = [d \in Printer |-> {}] /\ paper = [p \in Column |-> {}]
-----------------------------------------------------------------------------
\* The column's reading of the events.

\* Mutant: the push was a later writer, and nobody added it here.
MutCHANGE_TYPES == {"booked", "rescheduled", "provider_changed"}

\* booked stands for override_booked too.
CHANGE_TYPES == {"booked", "rescheduled", "column_pushed", "provider_changed"}

\* Of the two rows of a move to another stylist the second says it all.
toDayChanges(read) == {e \in read : e.type \in CHANGE_TYPES /\ ~e.via}

\* Mutant: a stylist who printed her own sheet is on that one.
MutlastPrinted(p) ==
  LET own == {r.at : r \in {r \in prints : r.whose = p}}
  IN  Max(IF own # {} THEN own ELSE {-1} \cup {r.at : r \in prints})

\* When the column's paper was last made: hers, or the salon's; -1 is never.
lastPrinted(p) == Max({-1} \cup {r.at : r \in {r \in prints : r.whose \in {p, Everybody}}})

todayStart == (moment \div MomentsADay) * MomentsADay

\* Mutant: a column only ever asks about today.
MutchangesSince(p) == todayStart

\* The sheet may have been printed the evening before.
changesSince(p) == IF lastPrinted(p) \in 0 .. todayStart THEN lastPrinted(p) ELSE todayStart

Changes(v, p) == toDayChanges({e \in events : e.visit = v /\ e.at >= changesSince(p)})

changedSincePrint(p) ==
  {v \in Known : row[v].provider = p /\ lastPrinted(p) >= 0 /\ \E e \in Changes(v, p) : e.at > lastPrinted(p)}
-----------------------------------------------------------------------------
\* The writes.

Kinds(from, to) ==
  IF from = NoLine THEN {"booked"}
  ELSE IF from.startAt = to.startAt THEN {"provider_changed"}
  ELSE IF from.provider = to.provider THEN {"rescheduled", "column_pushed"} ELSE {"rescheduled"}

WriteBegins(w, v, p, t) ==
  LET to == [provider |-> p, startAt |-> t, occupies |-> TRUE]
  IN  /\ Passes /\ open[w] = {}
      /\ row[v] # NoLine => row[v].occupies /\ At(row[v]) # <<p, t>>
      /\ \E type \in Kinds(row[v], to) :
           open' = [open EXCEPT ![w] = {[visit |-> v, type |-> type, from |-> row[v], to |-> to, at |-> moment]}]
      /\ UNCHANGED <<row, events, prints, printing, paper>>

\* The events of a write, under its own stamp.
Log(x) ==
  {[visit |-> x.visit, type |-> x.type, via |-> FALSE, at |-> x.at]}
  \cup {[visit |-> x.visit, type |-> "provider_changed", via |-> TRUE, at |-> x.at] :
          k \in {k \in {x.type} : k = "rescheduled" /\ x.from.provider # x.to.provider}}

\* A booking is a row of its own, a move asks for the start it read, a push and a
\* reassignment only name the row.
Meets(x) ==
  /\ x.from = NoLine <=> row[x.visit] = NoLine
  /\ x.type = "rescheduled" => row[x.visit].startAt = x.from.startAt

\* And each sets its own columns; a push adds its minutes to wherever the visit is.
Leaves(x) ==
  LET r == row[x.visit] IN
  IF x.from = NoLine THEN {x.to}
  ELSE IF x.type = "provider_changed" THEN {[r EXCEPT !.provider = x.to.provider]}
  ELSE IF x.type = "rescheduled" THEN {[r EXCEPT !.provider = x.to.provider, !.startAt = x.to.startAt]}
  ELSE {[r EXCEPT !.startAt = t] : t \in IF r.startAt = x.from.startAt THEN {x.to.startAt} ELSE SheetStarts}

WriteCommits(w) ==
  \E x \in open[w] :
    /\ Meets(x) /\ \E r \in Leaves(x) : row' = [row EXCEPT ![x.visit] = r]
    /\ events' = events \cup Log(x) /\ open' = [open EXCEPT ![w] = {}]
    /\ UNCHANGED <<moment, prints, printing, paper>>

\* Its row is not as it asked, or the time is taken, or the connection breaks.
WriteFails(w) ==
  /\ open[w] # {} /\ open' = [open EXCEPT ![w] = {}]
  /\ UNCHANGED <<moment, row, events, prints, printing, paper>>

\* A status tap: its event is no change of the column's.
StatusTap(v) ==
  /\ Passes /\ row[v] # NoLine /\ row' = [row EXCEPT ![v].occupies = ~@]
  /\ events' = events \cup {[visit |-> v, type |-> "status_changed", via |-> FALSE, at |-> moment]}
  /\ UNCHANGED <<open, prints, printing, paper>>
-----------------------------------------------------------------------------
\* The Print button: the stamp is recorded, the page is read again and drawn
\* with it, and only then printed.

InFlight == UNION {{x.visit : x \in open[w]} : w \in Writer}

recordSheetPrint(d, whose) ==
  /\ Passes /\ printing[d] = {} /\ Cardinality(prints) < MaxPrints
  /\ prints' = prints \cup {[whose |-> whose, at |-> moment]}
  /\ printing' = [printing EXCEPT ![d] = {[whose |-> whose, at |-> moment, busy |-> InFlight]}]
  /\ UNCHANGED <<row, events, open, paper>>

On(s) == IF s.whose = Everybody THEN Column ELSE {s.whose}

\* Only what occupies its time goes on the paper; left is what stays off it.
Occupies(v) == row[v] # NoLine /\ row[v].occupies
sheetItems == [v \in Line |-> IF Occupies(v) THEN row[v] ELSE NoLine]
Left == [v \in Line |-> IF Occupies(v) THEN NoLine ELSE row[v]]

Sheets(s) == [at |-> s.at, rows |-> sheetItems, left |-> Left, busy |-> s.busy]

SheetPrint(d) ==
  \E s \in printing[d] :
    /\ printing' = [printing EXCEPT ![d] = {}]
    /\ paper' = [p \in Column |-> IF p \in On(s) THEN paper[p] \cup {Sheets(s)} ELSE paper[p]]
    /\ UNCHANGED <<moment, row, events, open, prints>>

\* The tab is closed, or the print dialogue cancelled.
Abandon(d) ==
  /\ printing[d] # {} /\ printing' = [printing EXCEPT ![d] = {}]
  /\ UNCHANGED <<moment, row, events, open, prints, paper>>

Night == Passes /\ UNCHANGED <<row, events, open, prints, printing, paper>>

SheetNext ==
  \/ \E w \in Writer : \/ WriteCommits(w) \/ WriteFails(w)
                        \/ \E v \in Line, p \in Column, t \in SheetStarts : WriteBegins(w, v, p, t)
  \/ \E v \in Line : StatusTap(v)
  \/ \E d \in Printer : SheetPrint(d) \/ Abandon(d) \/ \E whose \in Column \cup {Everybody} : recordSheetPrint(d, whose)
  \/ Night

SheetSpec == SheetInit /\ [][SheetNext]_sheetVars
-----------------------------------------------------------------------------
\* The sheets that are the last made of their column.
Pinned(p) == {s \in paper[p] : \A r \in prints : r.whose \in {p, Everybody} => r.at <= s.at}

\* The rows have v where the book has it now.
Shows(rows, v) == rows[v] # NoLine /\ At(rows[v]) = At(row[v])

Tapped(v, t) == \E e \in events : e.visit = v /\ e.type = "status_changed" /\ t < e.at

\* "Never a status tap": a visit that was cancelled, there, when the page was
\* drawn is not on it, and nothing counts it when it is reinstated.
Revived(s, v) == Shows(s.left, v) /\ (row[v].occupies => Tapped(v, s.at))

\* Every visit on the column that the sheet at her station lacks, or has at
\* another time or with another stylist, is in the count, unless the write that
\* put it there was under way while the button was pressed, or only a status
\* tap has touched it since the page left it off (A-150).
DriftIsCounted ==
  \A p \in Column : \A s \in Pinned(p) : \A v \in Known :
    row[v].provider = p /\ ~Shows(s.rows, v)
      => v \in changedSincePrint(p) \cup s.busy \/ Revived(s, v)

\* What is counted was changed after that sheet was made.
OnlyNewsIsCounted ==
  \A p \in Column : \A s \in Pinned(p) : \A v \in changedSincePrint(p) :
    \E e \in events : e.visit = v /\ e.at > s.at /\ e.type # "status_changed"

DriftIsTheTruth == DriftIsCounted /\ OnlyNewsIsCounted
=============================================================================
