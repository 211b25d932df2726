--------------------------- MODULE MCBackpressure ---------------------------
(* Small instances of Backpressure for TLC. *)
EXTENDS Backpressure, TLC

CONSTANTS p1, p2, d1, d2

TwoProducers == {p1, p2}
TwoDrainers == {d1, d2}
NoThread == {}

(* Every shard has its worker. *)
EveryShard == Shards

(* Producers are interchangeable; used in safety runs only. *)
Interchangeable == Permutations(Producers)
=============================================================================
