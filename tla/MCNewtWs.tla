------------------------------- MODULE MCNewtWs -------------------------------
(* Instance of NewtWs for TLC: two task identities and three heap blocks    *)
(* with a queue of two, so that the queue fills, the sentinel is lost, and a *)
(* worker that outlived a stop can meet the next one.                       *)
EXTENDS NewtWs, TLC

CONSTANTS w1, w2, b1, b2, b3

MCWorkers == {w1, w2}
MCBufs == {b1, b2, b3}
Symmetry == Permutations(MCWorkers) \cup Permutations(MCBufs)
=============================================================================
