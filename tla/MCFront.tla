------------------------------- MODULE MCFront -------------------------------
(* What is read and booked from a screen, side by side: the booking panel    *)
(* (Panel), the waitlist (Waiting), the printed sheet (Sheet), the changes   *)
(* an assistant or another system makes (Proposals), the column push (Push), *)
(* the running-late projection (RunningLate), and the slot engine and the    *)
(* grid (SlotEngine).  part names the one a behaviour is of, and Component   *)
(* the ones a run is about.  Push has its own claim, rows and bounds.         *)
EXTENDS Panel, Proposals, Waiting, Sheet, RunningLate

CONSTANTS Component, ada, bea, Nobody, v1, v2, d1, c1, c2, NoTime

VARIABLES
  part,
  appt, running, push, dedupe, heard, pushes, others,   \* Push
  asked, answer                                         \* SlotEngine

Absent == [status |-> "none"]
FirstRow == [status |-> "booked", provider |-> 1, startAt |-> 1, version |-> 1]

\* Two stylists who both cut, the first of whom colours too.
Skills == {<<1, "cut">>, <<2, "cut">>, <<1, "colour">>}
HerMinutes == [link \in Skills |-> IF link[2] = "colour" THEN 2 ELSE 1]

ASSUME PanelConstants
-----------------------------------------------------------------------------
(* Push: three rows, two columns, two chairs.  A cut with a buffer, a      *)
(* colour with a gap, an override, a visit in the chair, a no-show and a   *)
(* released one stand ahead of, in and behind the pushed column.           *)

Treatment == {"cut", "trim", "colour"}
Duration == [cut |-> 1, trim |-> 1, colour |-> 3]

Sat(status, p, s, t, isOverride, chair, c, releasedAt) ==
  [status |-> status, provider |-> p, startAt |-> t, endAt |-> t + Duration[s], service |-> s,
   isOverride |-> isOverride, chair |-> chair, client |-> c, releasedAt |-> releasedAt]

Empty == [status |-> "none"]

First ==
  { Sat("booked", 1, "cut", t, FALSE, chair, c1, NoTime) : t \in {0, 1}, chair \in {0, 1} }
  \cup { Sat("in_progress", 1, "trim", 0, FALSE, chair, c1, NoTime) : chair \in {0, 1} }
  \cup { Sat("booked", 1, "trim", 1, FALSE, 1, c1, NoTime),
         Sat("booked", 1, "colour", 0, FALSE, 1, c1, NoTime),
         Sat("booked", 1, "cut", 2, TRUE, 0, c1, NoTime),
         Sat("no_show", 1, "colour", 0, FALSE, 1, c1, 1),
         Sat("no_show", 1, "cut", 1, FALSE, 1, c1, NoTime) }
Second ==
  { Sat("booked", 1, "cut", t, FALSE, chair, c1, NoTime) : t \in 1 .. 4, chair \in {0, 1} }
  \cup { Sat("booked", 1, "trim", t, FALSE, 1, c1, NoTime) : t \in {2, 3} }
  \cup { Sat("booked", 1, "cut", 3, TRUE, 0, c1, NoTime) }
Third ==
  { Sat("booked", 2, "cut", t, FALSE, chair, c2, NoTime) : t \in {1, 3}, chair \in {1, 2} }
  \cup { Sat("booked", 1, "cut", t, FALSE, 1, c2, NoTime) : t \in {3, 4} }

BufferBefore == [s \in Treatment |-> 0]
BufferAfter == [cut |-> 0, trim |-> 1, colour |-> 0]
Parts == [cut |-> <<>>, trim |-> <<>>, colour |-> <<<<0, 1>>, <<2, 3>>>>]
NeedsChair == [s \in Treatment |-> TRUE]
Windows == [p \in Provider |-> {[start |-> 0, end |-> 5]}]
Table == {<<x, y, z>> : x \in First, y \in Second \cup {Empty}, z \in Third \cup {Empty}}

Pushing == INSTANCE Push WITH
  late <- running, upsets <- others, Shift <- {1, -1}, Service <- Treatment, Client <- {c1, c2}, NChairs <- 2,
  CorrectionWindow <- 1, UndoWindow <- 1, Grace <- 1,
  Claims <- {1}, MaxPushes <- 1, MaxUpsets <- 1

pushVars == <<appt, running, push, dedupe, heard, pushes, others>>

-----------------------------------------------------------------------------
(* RunningLate: three clients of one column back to back, behind a colour  *)
(* with a gap, behind a long visit, and with an override over a buffered   *)
(* visit that occupies the column from one mark.                           *)

Queued(start, length, parts) ==
  [status |-> "booked", startAt |-> start, endAt |-> start + length, parts |-> parts, endedAt |-> -1]
Cut(start) == Queued(start, 1, {<<0, 1>>})
Long(start) == Queued(start, 2, {<<0, 2>>})
Padded(start) == Queued(start, 1, {<<-1, 2>>})
Colour(start) == Queued(start, 4, {<<0, 1>>, <<3, 4>>})

Mornings == {<<Cut(0), Cut(1), Cut(2)>>, <<Colour(0), Cut(1), Cut(4)>>, <<Long(0), Cut(2), Cut(4)>>,
             <<Padded(1), Long(0), Cut(3)>>}

ASSUME RunningLateConstants

-----------------------------------------------------------------------------
(* SlotEngine: a day of six marks whose clock stands still, skips two or   *)
(* repeats two; every window and break the form lets a stylist type.       *)

Reading == 0 .. 5
Opening(start, end, endsNextDay, breaks) ==
  [open |-> start, close |-> end, endsNextDay |-> endsNextDay, breaks |-> breaks]
Break(start, end) == [open |-> start, close |-> end]
Weekly(windows) == [weekly |-> windows, overrides |-> {}]
Overridden(windows, isClosed, by) ==
  [weekly |-> windows, overrides |-> {[isClosed |-> isClosed, windows |-> by]}]

House ==
  { Weekly({Opening(0, 5, FALSE, {})}), Weekly({Opening(3, 2, TRUE, {Break(4, 5)})}),
    Overridden({Opening(1, 4, FALSE, {})}, TRUE, {}),
    Overridden({Opening(0, 1, FALSE, {})}, FALSE, {Opening(1, 0, TRUE, {})}) }
Typed ==
  { Opening(o, c, n, b) : o \in Reading, c \in Reading, n \in BOOLEAN,
                         b \in {{}} \cup {{Break(from, to)} : from \in Reading, to \in Reading} }
Hers ==
  { Weekly({w}) : w \in Typed }
  \cup { Weekly({w, x}) : w \in {y \in Typed : y.breaks = {}},
                          x \in {Opening(2, 4, FALSE, {Break(2, 3)}), Opening(4, 0, TRUE, {Break(5, 0)})} }
Policy ==
  { [pastClose |-> TRUE, overBreak |-> TRUE, earlierOnly |-> FALSE],
    [pastClose |-> FALSE, overBreak |-> FALSE, earlierOnly |-> TRUE] }
Busy(start, end) == [start |-> start, end |-> end]

Zone ==
  { [at |-> 0, before |-> 0, after |-> 0], [at |-> 2, before |-> 0, after |-> 2],
    [at |-> 3, before |-> 0, after |-> -2] }
Sold == {{}, {Busy(2, 3), Busy(5, 7)}}
Lengths == {[duration |-> 1, before |-> 0, after |-> 1], [duration |-> 2, before |-> 1, after |-> 0]}

Engine == INSTANCE SlotEngine WITH
  Taken <- Sold, DayLength <- 6, Visit <- Lengths, Step <- 1, Now <- {0}, Lead <- 1

engineVars == <<asked, answer>>

-----------------------------------------------------------------------------
NoPush == appt = <<>> /\ running = <<>> /\ push = <<>> /\ dedupe = {} /\ heard = <<>>
          /\ pushes = 0 /\ others = 0
NoQueue == hour = 0 /\ queue = (CHOOSE m \in Morning : TRUE) /\ late = NoClaim /\ acts = 0
NoQuestion == asked = <<>> /\ answer = <<>>

\* The panel's many first screens are told apart only where they are looked at.
FrontInit ==
  /\ part \in Component
  /\ PanelInit
  /\ part # "panel" => mode = "walkin" /\ client = Nobody
  /\ WaitingInit /\ SheetInit /\ ProposalsInit
  /\ IF part = "push" THEN Pushing!Init ELSE NoPush
  /\ IF part = "late" THEN LateInit ELSE NoQueue
  /\ IF part = "slots" THEN Engine!Init ELSE NoQuestion

PanelStep ==
  part = "panel" /\ PanelNext
  /\ UNCHANGED <<part, waitingVars, sheetVars, proposalVars, pushVars, lateVars, engineVars>>
WaitingStep ==
  part = "waiting" /\ WaitingNext
  /\ UNCHANGED <<part, panelVars, sheetVars, proposalVars, pushVars, lateVars, engineVars>>
SheetStep ==
  part = "sheet" /\ SheetNext
  /\ UNCHANGED <<part, panelVars, waitingVars, proposalVars, pushVars, lateVars, engineVars>>
ProposalStep ==
  part = "proposals" /\ ProposalsNext
  /\ UNCHANGED <<part, panelVars, waitingVars, sheetVars, pushVars, lateVars, engineVars>>
PushStep ==
  part = "push" /\ Pushing!Next
  /\ UNCHANGED <<part, panelVars, waitingVars, sheetVars, proposalVars, lateVars, engineVars>>
LateStep ==
  part = "late" /\ LateNext
  /\ UNCHANGED <<part, panelVars, waitingVars, sheetVars, proposalVars, pushVars, engineVars>>
SlotsStep ==
  part = "slots" /\ Engine!Next
  /\ UNCHANGED <<part, panelVars, waitingVars, sheetVars, proposalVars, pushVars, lateVars>>

FrontSpec ==
  FrontInit
  /\ [][PanelStep \/ WaitingStep \/ SheetStep \/ ProposalStep \/ PushStep \/ LateStep \/ SlotsStep]_
       <<part, panelVars, waitingVars, sheetVars, proposalVars, pushVars, lateVars, engineVars>>
-----------------------------------------------------------------------------
\* The preview of a push is what its write does, unless another desk commits
\* in between (push-column.ts:813), and it leaves nobody behind who could have
\* moved with the rest (D-26).
PushKeepsItsPreview ==
  part = "push" => Pushing!PreviewIsKept /\ Pushing!MovesWhatCanMove

\* The windows read are those in which salon and stylist are both open, less
\* both their breaks (AVAIL-01 to AVAIL-04).  On a day whose hour is skipped or
\* doubled a window runs from the first instant the clock shows a time inside
\* it to the last, and no break in it is sold (DST-7, FB-1).  The grid draws
\* exactly what is left of that day, once and whole; what the engine sells the
\* grid draws as free, and what the grid draws is for sale, each label once
\* where the policy says so (FB-7).
SoldIsOpenAndFree ==
  part = "slots" =>
    /\ Engine!OpenWhenBothAre
    /\ Engine!WindowsAreTheWidestReading
    /\ Engine!BreaksAreKept
    /\ Engine!RunsAreWhatIsLeft
    /\ Engine!OffersLieInOneRun
    /\ Engine!WhatFitsIsOffered
    /\ Engine!OneLabelOneStart
=============================================================================
