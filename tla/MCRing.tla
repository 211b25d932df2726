------------------------------- MODULE MCRing -------------------------------
(* Small instances of Ring for TLC. *)
EXTENDS Ring, TLC

CONSTANTS p1, p2, c1, c2

TwoProducers == {p1, p2}
TwoConsumers == {c1, c2}
OneConsumer == {c1}

(* Threads of a kind are interchangeable; used in safety runs only. *)
Threads == Permutations(TwoProducers) \cup Permutations(TwoConsumers)
=============================================================================
