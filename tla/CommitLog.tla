------------------------------ MODULE CommitLog ------------------------------
(***************************************************************************)
(* What one shard's ring promises its users: a bounded log of positions.   *)
(* Positions are claimed in order, published in any order, committed as a  *)
(* contiguous prefix, taken in order by consumers and freed in any order.  *)
(* Ring.tla implements this specification with three cursors and one       *)
(* sequence word per cell (Vautlage/ring.go).                              *)
(***************************************************************************)
EXTENDS Integers

CONSTANT Capacity

VARIABLES
    claimed,    \* number of positions handed out to producers
    published,  \* positions whose record is completely written
    committed,  \* length of the contiguous published prefix made visible
    taken,      \* number of positions handed out to consumers
    freed       \* positions whose cell was given back to the producers

logVars == <<claimed, published, committed, taken, freed>>

LogInit ==
    /\ claimed = 0
    /\ published = {}
    /\ committed = 0
    /\ taken = 0
    /\ freed = {}

(* A position may be claimed only when its predecessor in the same cell    *)
(* was freed: the log never holds two live records in one cell.            *)
Claim ==
    /\ claimed < Capacity \/ claimed - Capacity \in freed
    /\ claimed' = claimed + 1
    /\ UNCHANGED <<published, committed, taken, freed>>

Publish(p) ==
    /\ p \in (0 .. claimed - 1) \ published
    /\ published' = published \cup {p}
    /\ UNCHANGED <<claimed, committed, taken, freed>>

Commit ==
    /\ committed \in published
    /\ committed' = committed + 1
    /\ UNCHANGED <<claimed, published, taken, freed>>

Take ==
    /\ taken < committed
    /\ taken' = taken + 1
    /\ UNCHANGED <<claimed, published, committed, freed>>

Free(p) ==
    /\ p \in (0 .. taken - 1) \ freed
    /\ freed' = freed \cup {p}
    /\ UNCHANGED <<claimed, published, committed, taken>>

LogNext ==
    \/ Claim
    \/ \E p \in 0 .. claimed - 1 : Publish(p)
    \/ Commit
    \/ Take
    \/ \E p \in 0 .. taken - 1 : Free(p)

LogSafety == LogInit /\ [][LogNext]_logVars

(* A published position at the commit point is always committed in the     *)
(* end, and a committed one is always taken: nobody may leave it behind.   *)
LogSpec == LogSafety /\ WF_logVars(Commit) /\ WF_logVars(Take)
==============================================================================
