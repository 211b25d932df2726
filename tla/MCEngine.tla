------------------------------ MODULE MCEngine ------------------------------
(* Small instances of Engine for TLC. *)
EXTENDS Engine, TLC

CONSTANTS p1, p2, d1, k1, k2, r1, o1

OneProducer == {p1}
TwoProducers == {p1, p2}
NoCaller == {}
OneDrainer == {d1}
OneCloser == {k1}
OneReader == {r1}
OneObserver == {o1}
TwoClosers == {k1, k2}

(* Callers of one kind are interchangeable. *)
Callers == Permutations(Producers) \cup Permutations(Drainers) \cup Permutations(Closers)
=============================================================================
