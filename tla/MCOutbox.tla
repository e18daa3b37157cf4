------------------------------ MODULE MCOutbox ------------------------------
(* Small instances of Outbox: what each run asks for is in its cfg.        *)
EXTENDS Outbox, TLC

CONSTANTS v1, n1, n2, j1, j2

MCAddressed == Key
MCBackoff == [attempts \in {1} |-> 1]
Sym == Permutations({j1, j2})
=============================================================================
