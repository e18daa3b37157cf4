-------------------------------- MODULE Lanes --------------------------------
(***************************************************************************)
(* How chips that are on the screen at once share its width (lanes.ts).    *)
(* assignLanes walks the spans in the order of the day: a span takes the   *)
(* first lane that is free again or opens a new one, and when nothing in   *)
(* flight reaches the next span the cluster closes and its members share   *)
(* the width among themselves.  One action per branch of the loop.         *)
(*                                                                         *)
(* Lanes are numbered from 1.                                              *)
(***************************************************************************)
EXTENDS Integers, Sequences

VARIABLES
  spans,       \* what is drawn: item -> [top, minutes]
  cluster,     \* item of the open cluster -> its lane
  laneEnds,    \* lane -> where its last occupant ends
  out          \* item of a closed cluster -> [lane, lanes]

lanesVars == <<spans, cluster, laneEnds, out>>

top(x) == spans[x].top
end(x) == spans[x].top + spans[x].minutes

\* Half-open: 10:00-11:00 and 11:00-12:00 are consecutive.
overlapsSpan(x, y) == top(x) < end(y) /\ top(y) < end(x)

Waiting == {x \in DOMAIN spans : x \notin DOMAIN cluster /\ x \notin DOMAIN out}

InOrder(x, y) == top(x) < top(y) \/ (top(x) = top(y) /\ spans[x].minutes <= spans[y].minutes)

\* The sort leaves ties as they came.
IsNext(x) == x \in Waiting /\ \A y \in Waiting : InOrder(x, y)

\* Mutant: the cluster closes when the lane opened last is free.
MutNothingReaches(x) == laneEnds # <<>> /\ laneEnds[Len(laneEnds)] <= top(x)

\* Nothing in flight reaches x.
NothingReaches(x) == laneEnds # <<>> /\ \A l \in DOMAIN laneEnds : laneEnds[l] <= top(x)

\* Mutant: a lane is free when its occupant has begun.
MutFree(x) == {l \in DOMAIN laneEnds : laneEnds[l] <= end(x)}

Free(x) == {l \in DOMAIN laneEnds : laneEnds[l] <= top(x)}

\* An extent in minutes from the top of the grid for every item.
Drawable == spans \in [DOMAIN spans -> [top : Int, minutes : Nat]]

LanesInit ==
  /\ cluster = <<>>
  /\ laneEnds = <<>>
  /\ out = <<>>

InLane(x, l) == cluster' = [y \in DOMAIN cluster \cup {x} |-> IF y = x THEN l ELSE cluster[y]]

\* The first lane whose last occupant has ended.
TakeLane(x) ==
  /\ IsNext(x) /\ ~NothingReaches(x)
  /\ \E l \in Free(x) :
       /\ \A m \in Free(x) : l <= m
       /\ InLane(x, l)
       /\ laneEnds' = [laneEnds EXCEPT ![l] = end(x)]
  /\ UNCHANGED <<spans, out>>

OpenLane(x) ==
  /\ IsNext(x) /\ ~NothingReaches(x)
  /\ Free(x) = {}
  /\ InLane(x, Len(laneEnds) + 1)
  /\ laneEnds' = Append(laneEnds, end(x))
  /\ UNCHANGED <<spans, out>>

closeCluster ==
  /\ laneEnds # <<>>
  /\ Waiting = {} \/ \E x \in Waiting : IsNext(x) /\ NothingReaches(x)
  /\ out' = [x \in DOMAIN out \cup DOMAIN cluster |->
               IF x \in DOMAIN cluster THEN [lane |-> cluster[x], lanes |-> Len(laneEnds)]
               ELSE out[x]]
  /\ cluster' = <<>>
  /\ laneEnds' = <<>>
  /\ UNCHANGED spans

LanesNext ==
  \/ \E x \in DOMAIN spans : TakeLane(x) \/ OpenLane(x)
  \/ closeCluster

LanesSpec ==
  /\ Drawable /\ LanesInit
  /\ [][LanesNext]_lanesVars
-----------------------------------------------------------------------------
\* No chip is drawn over another: two that are on the screen at once split the
\* same width and take different shares of it (A-099: "The client already in
\* the book was the one who disappeared").
NobodyIsPaintedOver ==
  \A x, y \in DOMAIN out :
    (x # y /\ overlapsSpan(x, y)) => /\ out[x].lanes = out[y].lanes
                                     /\ out[x].lane # out[y].lane

\* Nor is any narrower than it has to be: a width split in n is one that, at
\* some moment, n chips are on at once ("one double-booked hour must not halve
\* the whole day").  A chip of no minutes is on at its own moment.
On(x, t) == top(x) <= t /\ (t < end(x) \/ t = top(x))
NobodyIsSqueezed ==
  \A x \in DOMAIN out :
    /\ out[x].lane \in 1 .. out[x].lanes
    /\ \E y \in DOMAIN out : \A l \in 1 .. out[x].lanes :
         \E z \in DOMAIN out : /\ out[z] = [lane |-> l, lanes |-> out[x].lanes]
                               /\ On(z, top(y))

ChipsShareTheWidth == NobodyIsPaintedOver /\ NobodyIsSqueezed
=============================================================================
