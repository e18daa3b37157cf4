-------------------------------- MODULE MCDay --------------------------------
(***************************************************************************)
(* The components a salon's working day rests on besides the book itself:  *)
(* the hours and absences (Availability), the idempotent requests of the   *)
(* API (Idempotency), the website (Online) and the lists the salon         *)
(* telephones from (Rounds).  part names the component a behaviour is of,  *)
(* and Component the ones a run is about; the others stand still.          *)
(***************************************************************************)
EXTENDS Idempotency, Online, Rounds, Availability, TLC

CONSTANTS Component, c1, v1, v2

VARIABLE part

-----------------------------------------------------------------------------
(* Availability: two desks, two stylists with a visit each, an override    *)
(* for each desk, two absences.                                            *)

Opening(start, end) == [open |-> start, close |-> end, endsNextDay |-> FALSE, breaks |-> {}]
Busy(start, end) == [start |-> start, end |-> end]

DiaryPage ==
  [v1 |-> [provider |-> "dana", body |-> Busy(1, 3)],
   v2 |-> [provider |-> "priya", body |-> Busy(3, 4)]]
UsualHours ==
  [dana |-> {Opening(1, 4)}, priya |-> {Opening(0, 4)},
   salon |-> {Opening(0, 4)}]
Forms == {Opening(0, 2), Opening(2, 4), Opening(1, 4)}
PushSteps == {-1, 1}
Absences == {[provider |-> "dana", span |-> Busy(2, 4)], [provider |-> "priya", span |-> Busy(0, 3)]}

-----------------------------------------------------------------------------
(* Online and Rounds: two stylists who both cut, the first of whom colours *)
(* too.                                                                    *)

Skills == {<<1, "cut">>, <<2, "cut">>, <<1, "colour">>}
HerMinutes == [link \in Skills |-> IF link[2] = "colour" THEN 2 ELSE 1]
Absent == [status |-> "none"]

ASSUME OnlineConstants /\ RoundsConstants /\ AvailabilityConstants

-----------------------------------------------------------------------------
DayInit ==
  part \in Component /\ HoursInit /\ Init /\ OnlineInit /\ RoundsInit

HoursStep ==
  part = "hours" /\ HoursNext
  /\ UNCHANGED <<part, vars, onlineVars, roundsVars>>
ApiStep ==
  part = "api" /\ Next
  /\ UNCHANGED <<part, hoursVars, onlineVars, roundsVars>>
OnlineStep ==
  part = "online" /\ OnlineNext
  /\ UNCHANGED <<part, hoursVars, vars, roundsVars>>
RoundsStep ==
  part = "rounds" /\ RoundsNext
  /\ UNCHANGED <<part, hoursVars, vars, onlineVars>>

DaySpec ==
  DayInit
  /\ [][HoursStep \/ ApiStep \/ OnlineStep \/ RoundsStep]_
       <<part, hoursVars, vars, onlineVars, roundsVars>>

=============================================================================
