----------------------------- MODULE MCKeyIndex -----------------------------
(* Small instances of KeyIndex for TLC. *)
EXTENDS KeyIndex

CONSTANTS p1, p2, r1

OneProducer == {p1}
TwoProducers == {p1, p2}
OneReader == {r1}
NoReader == {}

OneKey == {1}
TwoKeys == {1, 2}
ThreeKeys == {1, 2, 3}

(* Every key hashes to bucket 0: the chains of all keys collide. *)
AllAtZero == [k \in Keys |-> 0]

(* Producers share every key, each key has a single writer, or key 1 is    *)
(* shared and the others have one writer each.                             *)
AllKeys == [p \in Producers |-> Keys]
OwnKeys == [p \in Producers |-> IF p = p1 THEN {1} ELSE Keys \ {1}]
MixedKeys == [p \in Producers |-> IF p = p1 THEN {1, 2} ELSE {1, 3}]
=============================================================================
