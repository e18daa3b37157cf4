---------------------------- MODULE MCLifecycle -----------------------------
(* One appointment and two sessions on a coarse clock: every window opens  *)
(* and closes within MaxTime ticks.                                        *)
EXTENDS Lifecycle, TLC

CONSTANTS s1, s2

MCSession == {s1, s2}
MCNoTime == -1
Sym == Permutations(MCSession)
=============================================================================
