------------------------------- MODULE MCDesk -------------------------------
(* What the salon's desks do to one visit (Lifecycle), to the time they give *)
(* back (Opened), to a standing appointment (Series) and to the menu         *)
(* (Settings), side by side: part names the one a behaviour is of, and       *)
(* Component the ones a run is about.                                        *)
EXTENDS MCLifecycle, Series

CONSTANTS Component, Owner, Notices, ada, bea, Nobody, Never, None, a1, a2

VARIABLES
  part, clock,
  column, stamps, events, gave,                                  \* Opened
  policy, menu, parts, links, roster, visits, saving, call, edits  \* Settings

openedVars == <<clock, column, stamps, events, gave>>
menuVars == <<policy, menu, parts, links, roster, visits, saving, call, edits>>
-----------------------------------------------------------------------------
\* A cut, a trim prepared beforehand and a long colour with a gap; one column
\* without a break and one with a lunch.
Takes == [cut |-> 2, trim |-> 1, colour |-> 6]
Before == [cut |-> 0, trim |-> 1, colour |-> 0]
After == [cut |-> 0, trim |-> 0, colour |-> 1]
InParts == [cut |-> <<>>, trim |-> <<>>, colour |-> <<<<0, 1>>, <<5, 6>>>>]
PriceList == DOMAIN Takes
From(s, e) == [start |-> s, end |-> e]
LunchDay == <<{From(0, 9)}, {From(0, 8), From(9, 11)}>>

Planned(p, s, t, isOverride, c) ==
  [status |-> "booked", provider |-> p, startAt |-> t, endAt |-> t + Takes[s], service |-> s,
   isOverride |-> isOverride, chair |-> 0, client |-> c, releasedAt |-> Never]
MCBookings ==
  { Planned(1, "colour", 0, FALSE, ada), Planned(1, "trim", 3, FALSE, bea),
    Planned(1, "cut", 4, TRUE, bea), Planned(2, "cut", 3, TRUE, bea) }

Office == INSTANCE Opened WITH
  appt <- column, updatedAt <- stamps, log <- events, now <- clock,
  Appt <- {a1, a2}, Client <- {ada, bea}, NoClient <- Nobody, NoTime <- Never, Provider <- {1, 2},
  NChairs <- 0, Service <- PriceList, Duration <- Takes, BufferBefore <- Before,
  BufferAfter <- After, Parts <- InParts, NeedsChair <- [s \in PriceList |-> FALSE],
  Windows <- LunchDay, CorrectionWindow <- 1, UndoWindow <- 1, Grace <- 1,
  Bookings <- MCBookings, Moves <- {<<1, 3>>, <<2, 9>>}, Edits <- {"trim"},
  Waiting <- {[client |-> bea, service |-> s] : s \in PriceList}, Lookback <- 1,
  MaxNow <- 2, MaxLog <- 2

\* Three weeks, the second of them at a time the clocks skip.
Weeks == [w \in 0 .. 2 |-> IF w = 1 THEN "gap" ELSE "unique"]
Taps == {<<"booked", "cancelled">>, <<"cancelled", "booked">>, <<"booked", "in_progress">>}

ASSUME SeriesConstants

\* A colour in three parts or in five, whose work a duration of six neither is
\* the sum of nor divides evenly.
Work(n) == [minutes |-> n, isGap |-> FALSE]
Gap(n) == [minutes |-> n, isGap |-> TRUE]
SavedParts ==
  {<<>>, <<Work(1), Gap(2), Work(1)>>, <<Work(2), Gap(1), Work(1), Gap(1), Work(2)>>}

Menu == INSTANCE Settings WITH
  desk <- saving, Desk <- Owner, Service <- {"cut", "colour"}, Provider <- {1}, Parts <- SavedParts,
  Minutes <- {6}, Notice <- Notices, Basket <- {<<"cut">>, <<"colour">>, <<"colour", "cut">>},
  MaxEdits <- 3, MaxVisits <- 1
-----------------------------------------------------------------------------
\* The many policies and services the menu begins with are told apart only
\* where they are looked at.
DeskInit ==
  /\ part \in Component /\ Init /\ Office!Init /\ SeriesInit /\ Menu!SettingsInit
  /\ part # "settings" => policy = [lead |-> 0, cutoff |-> 0] /\ menu["cut"].cutoff = 0

LifecycleStep ==
  part = "lifecycle" /\ Next /\ UNCHANGED <<part, openedVars, seriesVars, menuVars>>
OpenedStep == part = "opened" /\ Office!Next /\ UNCHANGED <<part, vars, seriesVars, menuVars>>
SeriesStep == part = "series" /\ SeriesNext /\ UNCHANGED <<part, vars, openedVars, menuVars>>
SettingsStep ==
  part = "settings" /\ Menu!SettingsNext /\ UNCHANGED <<part, vars, openedVars, seriesVars>>

DeskSpec ==
  DeskInit
  /\ [][LifecycleStep \/ OpenedStep \/ SeriesStep \/ SettingsStep]_
       <<part, vars, openedVars, seriesVars, menuVars>>
-----------------------------------------------------------------------------
\* Time given back is listed while it can be sold, a release names what the
\* list will show, and a waiting client whom the engine would give the time is
\* matched (A-119, A-124, A-128, A-131).
WhatWasGivenBackIsOffered ==
  part = "opened" =>
    /\ Office!WhatWasGivenBackIsListed /\ Office!ReleaseNamesWhatIsListed
    /\ Office!MatcherMissesNobody

\* Every visit is cut to fit the parts it was booked with, whatever is saved
\* meanwhile (SEG-01, SEG-02, D-29).
EveryVisitFits == Menu!EveryVisitFits

\* No active service asks for more notice than the website gives
\* (policy.ts:11).
LeadCoversCutoffs == Menu!LeadCoversCutoffs
=============================================================================
