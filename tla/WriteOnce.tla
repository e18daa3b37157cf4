----------------------------- MODULE WriteOnce -----------------------------
(* What an idempotency key promises (API PRD 6.6): one outcome for each     *)
(* key, at most one domain write with it, and the outcome stands until the  *)
(* replay window is over.                                                   *)
EXTENDS Integers

CONSTANTS
  Key,
  Outcome,
  Instant   \* the moments a window may end

VARIABLES
  clock,
  answer,   \* for each key, the outcome on record and until when it stands
  writes    \* for each key, the domain writes committed under it

NoAnswer == [outcome |-> "none", until |-> 0]

Init ==
  /\ clock = 0
  /\ answer = [k \in Key |-> NoAnswer]
  /\ writes = [k \in Key |-> 0]

\* The first outcome: a write happens with it or not at all.
Decide(k, o, until) ==
  /\ answer[k] = NoAnswer
  /\ answer' = [answer EXCEPT ![k] = [outcome |-> o, until |-> until]]
  /\ writes' = [writes EXCEPT ![k] = @ + (IF o = "written" THEN 1 ELSE 0)]
  /\ UNCHANGED clock

\* After its window a key may be used for another write.
Forget(k) ==
  /\ answer[k] # NoAnswer
  /\ answer[k].until <= clock
  /\ answer' = [answer EXCEPT ![k] = NoAnswer]
  /\ UNCHANGED <<clock, writes>>

\* The hourly job forgets every key whose window is over.
Sweep(K) ==
  /\ \A k \in K : answer[k] # NoAnswer /\ answer[k].until <= clock
  /\ answer' = [k \in Key |-> IF k \in K THEN NoAnswer ELSE answer[k]]
  /\ UNCHANGED <<clock, writes>>

Tick == clock' = clock + 1 /\ UNCHANGED <<answer, writes>>

Next ==
  \/ \E k \in Key, o \in Outcome, until \in Instant : Decide(k, o, until)
  \/ \E k \in Key : Forget(k)
  \/ \E K \in SUBSET Key : Sweep(K)
  \/ Tick

vars == <<clock, answer, writes>>
Spec == Init /\ [][Next]_vars
=============================================================================
