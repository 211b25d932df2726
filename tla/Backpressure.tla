---------------------------- MODULE Backpressure ----------------------------
(***************************************************************************)
(* The saturation latch of each shard, the engine-wide counter of hot      *)
(* shards and the gate (Vautlage/gate.go; publish, markSaturated,          *)
(* markDrained, worker and Drain in Vautlage/fabric.go).                   *)
(*                                                                         *)
(* Each atomic access to hot, saturated, the gate and the two cursors that *)
(* pending reads is one action.  Records carry no data here: a shard's     *)
(* ring is its cursors plus the positions producers and consumers hold,    *)
(* as CommitLog describes it and RingProofs justifies it.  running and     *)
(* Close are not part of this module: the engine is up.  The gate's        *)
(* counters of closes, opens and rejects are statistics only.              *)
(***************************************************************************)
EXTENDS Integers, FiniteSets, FiniteSetsExt

CONSTANTS
    ShardCount,    \* shards 0 .. ShardCount - 1
    Producers,     \* goroutines calling Publish
    Workers,       \* shards that have a worker goroutine
    Drainers,      \* goroutines calling Drain(DrainMax, h)
    Capacity,      \* cells per shard
    HighWaterPct, LowWaterPct,
    DrainBatch,    \* records a worker consumes between two sweeps
    DrainMax,      \* records one Drain delivers at most; 0 for all
    MaxRecords     \* bound: positions claimed per shard

Shards == 0 .. ShardCount - 1
Consumers == Workers \cup Drainers

(* normalize and initGate: the marks satisfy 0 < low < high <= 100. *)
ASSUME BackpressureAssumption ==
    /\ ShardCount \in Nat \ {0}
    /\ IsFiniteSet(Producers) /\ IsFiniteSet(Drainers)
    /\ Workers \subseteq Shards
    /\ Workers \cap Drainers = {}
    /\ Capacity \in Nat \ {0}
    /\ HighWaterPct \in 2 .. 100
    /\ LowWaterPct \in 1 .. HighWaterPct - 1
    /\ DrainBatch \in Nat \ {0}
    /\ DrainMax \in Nat
    /\ MaxRecords \in Nat

VARIABLES
    tail, head,   \* cursors of every shard's ring
    hot,          \* latch of every shard
    saturated,    \* shards counted as hot; -1 stands for 2^64 - 1
    gate,         \* valve.state
    ppc, pshard, ppos, phead,   \* producer: step, shard, position, head read by pending
    cpc, cshard, cpos, chead,   \* consumer: step, shard, position, head read by pending
    cn            \* worker: n, records of this batch; Drain with a limit: total

ringVars == <<tail, head>>
valveVars == <<hot, saturated, gate>>
prodVars == <<ppc, pshard, ppos, phead>>
consVars == <<cpc, cshard, cpos, chead, cn>>
vars == <<ringVars, valveVars, prodVars, consVars>>

PGoto(p, pc) == ppc' = [ppc EXCEPT ![p] = pc]
(* publish returns: its locals are forgotten. *)
PReturn(p) == PGoto(p, "idle") /\ pshard' = [pshard EXCEPT ![p] = 0]
CGoto(c, pc) == cpc' = [cpc EXCEPT ![c] = pc]

Init ==
    /\ tail = [s \in Shards |-> 0]
    /\ head = [s \in Shards |-> 0]
    /\ hot = [s \in Shards |-> 0]
    /\ saturated = 0
    /\ gate = "open"
    /\ ppc = [p \in Producers |-> "idle"]
    /\ pshard = [p \in Producers |-> 0]
    /\ ppos = [p \in Producers |-> 0]
    /\ phead = [p \in Producers |-> 0]
    /\ cpc = [c \in Consumers |-> IF c \in Workers THEN "dequeue" ELSE "idle"]
    /\ cshard = [c \in Consumers |-> IF c \in Workers THEN c ELSE 0]
    /\ cpos = [c \in Consumers |-> 0]
    /\ chead = [c \in Consumers |-> 0]
    /\ cn = [c \in Consumers |-> 0]

(* The commit index: the prefix below the oldest unpublished position. *)
Committed(s) ==
    Min({tail[s]} \cup {ppos[p] : p \in {q \in Producers : ppc[q] = "publish" /\ pshard[q] = s}})

(* The cell for the next position is not free (Ring, RingFull). *)
ShardFull(s) ==
    \/ tail[s] - Capacity >= head[s]
    \/ \E c \in Consumers :
          cpc[c] = "handle" /\ cshard[c] = s /\ cpos[c] = tail[s] - Capacity

(* occupancyPct, of the two cursors as they were loaded. *)
Pct(h, t) == ((IF t < h THEN 0 ELSE t - h) * 100) \div Capacity

(* What follows markDrained: the worker's next batch, Drain's next shard. *)
Swept(c) ==
    LET last == c \in Workers \/ cshard[c] + 1 = ShardCount IN
    /\ cn' = [cn EXCEPT ![c] = IF last THEN 0 ELSE @]
    /\ cshard' = [cshard EXCEPT ![c] = IF c \in Workers THEN @
                                       ELSE (@ + 1) % ShardCount]
    /\ CGoto(c, IF c \in Drainers /\ last THEN "idle" ELSE "dequeue")

Go(c, pc) == CGoto(c, pc) /\ UNCHANGED <<cn, cshard>>

-----------------------------------------------------------------------------
(* Plausible mistakes in the operations below.  No specification uses      *)
(* them; each shows that a property would notice the mistake.              *)

(* publish tests committed() instead of pending(). *)
BadPendingTail(p) ==
    /\ ppc[p] = "pendingTail"
    /\ IF Pct(phead[p], Committed(pshard[p])) >= HighWaterPct
       THEN PGoto(p, "mark") /\ UNCHANGED pshard
       ELSE PReturn(p)
    /\ phead' = [phead EXCEPT ![p] = 0]
    /\ UNCHANGED <<ringVars, valveVars, ppos, consVars>>

(* markSaturated adds to the latch, or stores to it, instead of the CAS. *)
BadLatchAdd(p) ==
    /\ ppc[p] = "mark"
    /\ hot' = [hot EXCEPT ![pshard[p]] = @ + 1]
    /\ PGoto(p, "count")
    /\ UNCHANGED <<ringVars, saturated, gate, pshard, ppos, phead, consVars>>
BadLatchStore(p) ==
    /\ ppc[p] = "mark"
    /\ hot' = [hot EXCEPT ![pshard[p]] = 1]
    /\ PGoto(p, "count")
    /\ UNCHANGED <<ringVars, saturated, gate, pshard, ppos, phead, consVars>>

(* markDrained clears the latch with a store instead of the CAS. *)
BadClearStore(c) ==
    /\ cpc[c] = "clear"
    /\ hot' = [hot EXCEPT ![cshard[c]] = 0]
    /\ Go(c, "uncount")
    /\ UNCHANGED <<ringVars, saturated, gate, prodVars, cpos, chead>>

(* markDrained has the arguments of its CAS swapped. *)
BadClearSwapped(c) ==
    LET s == cshard[c] IN
    /\ cpc[c] = "clear"
    /\ \/ hot[s] = 0 /\ hot' = [hot EXCEPT ![s] = 1] /\ Go(c, "uncount")
       \/ hot[s] # 0 /\ hot' = hot /\ Swept(c)
    /\ UNCHANGED <<ringVars, saturated, gate, prodVars, cpos, chead>>

(* markDrained does not test saturated again after opening the gate. *)
BadNoRecheck(c) ==
    /\ cpc[c] = "recheck"
    /\ Swept(c)
    /\ UNCHANGED <<ringVars, valveVars, prodVars, cpos, chead>>

-----------------------------------------------------------------------------
(* publish                                                                 *)

(* isClosed: a closed gate refuses the record. *)
GateCheck(p, s) ==
    /\ ppc[p] = "idle"
    /\ gate = "open"
    /\ tail[s] < MaxRecords
    /\ pshard' = [pshard EXCEPT ![p] = s]
    /\ PGoto(p, "claim")
    /\ UNCHANGED <<ringVars, valveVars, ppos, phead, consVars>>

(* ring.claim: a full shard is marked at once and the record dropped. *)
Claim(p) ==
    LET s == pshard[p] IN
    /\ ppc[p] = "claim"
    /\ \/ /\ ShardFull(s)
          /\ PGoto(p, "mark")
          /\ UNCHANGED <<tail, ppos>>
       \/ /\ ~ShardFull(s)
          /\ ppos' = [ppos EXCEPT ![p] = tail[s]]
          /\ tail' = [tail EXCEPT ![s] = @ + 1]
          /\ PGoto(p, "publish")
    /\ UNCHANGED <<head, valveVars, pshard, phead, consVars>>

(* ring.publish: the position may now be committed. *)
Publish(p) ==
    /\ ppc[p] = "publish"
    /\ ppos' = [ppos EXCEPT ![p] = 0]
    /\ PGoto(p, "pendingHead")
    /\ UNCHANGED <<ringVars, valveVars, pshard, phead, consVars>>

(* occupancyPct: pending loads head, then tail. *)
PendingHead(p) ==
    /\ ppc[p] = "pendingHead"
    /\ phead' = [phead EXCEPT ![p] = head[pshard[p]]]
    /\ PGoto(p, "pendingTail")
    /\ UNCHANGED <<ringVars, valveVars, pshard, ppos, consVars>>

PendingTail(p) ==
    /\ ppc[p] = "pendingTail"
    /\ IF Pct(phead[p], tail[pshard[p]]) >= HighWaterPct
       THEN PGoto(p, "mark") /\ UNCHANGED pshard
       ELSE PReturn(p)
    /\ phead' = [phead EXCEPT ![p] = 0]
    /\ UNCHANGED <<ringVars, valveVars, ppos, consVars>>

(* markSaturated: hot.cas(0, 1), saturated.add(1), valve.shut. *)
LatchHot(p) ==
    LET s == pshard[p] IN
    /\ ppc[p] = "mark"
    /\ \/ hot[s] = 0 /\ hot' = [hot EXCEPT ![s] = 1] /\ PGoto(p, "count") /\ UNCHANGED pshard
       \/ hot[s] # 0 /\ hot' = hot /\ PReturn(p)
    /\ UNCHANGED <<ringVars, saturated, gate, ppos, phead, consVars>>

CountHot(p) ==
    /\ ppc[p] = "count"
    /\ saturated' = saturated + 1
    /\ PGoto(p, "shut")
    /\ UNCHANGED <<ringVars, hot, gate, pshard, ppos, phead, consVars>>

Shut(p) ==
    /\ ppc[p] = "shut"
    /\ gate' = "closed"
    /\ PReturn(p)
    /\ UNCHANGED <<ringVars, hot, saturated, ppos, phead, consVars>>

-----------------------------------------------------------------------------
(* worker and Drain                                                        *)

(* A caller enters Drain; shards are visited in order. *)
DrainCall(c) ==
    /\ cpc[c] = "idle"
    /\ CGoto(c, "dequeue")
    /\ UNCHANGED <<ringVars, valveVars, prodVars, cshard, cpos, chead, cn>>

(* Drain delivered as many records as it was asked for. *)
Sated(c) == c \in Drainers /\ DrainMax > 0 /\ cn[c] >= DrainMax

(* ring.dequeue.  Sated or finding nothing, Drain sweeps the shard; a      *)
(* worker does so only after a batch that was not empty, else polls on.    *)
Dequeue(c) ==
    LET s == cshard[c] IN
    /\ cpc[c] = "dequeue"
    /\ \/ /\ ~Sated(c) /\ head[s] < Committed(s)
          /\ cpos' = [cpos EXCEPT ![c] = head[s]]
          /\ head' = [head EXCEPT ![s] = @ + 1]
          /\ CGoto(c, "handle")
       \/ /\ Sated(c) \/ head[s] >= Committed(s)
          /\ CGoto(c, IF c \in Drainers \/ cn[c] > 0 THEN "drained" ELSE "dequeue")
          /\ UNCHANGED <<cpos, head>>
    /\ UNCHANGED <<tail, valveVars, prodVars, cshard, chead, cn>>

(* The handler returned: release.  A full batch ends the worker's loop. *)
Release(c) ==
    LET n == IF c \in Workers \/ DrainMax > 0 THEN cn[c] + 1 ELSE 0 IN
    /\ cpc[c] = "handle"
    /\ cn' = [cn EXCEPT ![c] = n]
    /\ cpos' = [cpos EXCEPT ![c] = 0]
    /\ CGoto(c, IF c \in Workers /\ n = DrainBatch THEN "drained" ELSE "dequeue")
    /\ UNCHANGED <<ringVars, valveVars, prodVars, cshard, chead>>

(* markDrained: hot.load, then occupancyPct against the low-water mark. *)
DrainedHot(c) ==
    /\ cpc[c] = "drained"
    /\ IF hot[cshard[c]] = 0 THEN Swept(c) ELSE Go(c, "pendingHead")
    /\ UNCHANGED <<ringVars, valveVars, prodVars, cpos, chead>>

DrainedHead(c) ==
    /\ cpc[c] = "pendingHead"
    /\ chead' = [chead EXCEPT ![c] = head[cshard[c]]]
    /\ Go(c, "pendingTail")
    /\ UNCHANGED <<ringVars, valveVars, prodVars, cpos>>

DrainedTail(c) ==
    /\ cpc[c] = "pendingTail"
    /\ IF Pct(chead[c], tail[cshard[c]]) > LowWaterPct THEN Swept(c) ELSE Go(c, "clear")
    /\ chead' = [chead EXCEPT ![c] = 0]
    /\ UNCHANGED <<ringVars, valveVars, prodVars, cpos>>

(* hot.cas(1, 0): one consumer clears the latch. *)
ClearHot(c) ==
    LET s == cshard[c] IN
    /\ cpc[c] = "clear"
    /\ \/ hot[s] = 1 /\ hot' = [hot EXCEPT ![s] = 0] /\ Go(c, "uncount")
       \/ hot[s] # 1 /\ hot' = hot /\ Swept(c)
    /\ UNCHANGED <<ringVars, saturated, gate, prodVars, cpos, chead>>

UncountHot(c) ==
    /\ cpc[c] = "uncount"
    /\ saturated' = saturated - 1
    /\ IF saturated' = 0 THEN Go(c, "open") ELSE Swept(c)
    /\ UNCHANGED <<ringVars, hot, gate, prodVars, cpos, chead>>

OpenGate(c) ==
    /\ cpc[c] = "open"
    /\ gate' = "open"
    /\ Go(c, "recheck")
    /\ UNCHANGED <<ringVars, hot, saturated, prodVars, cpos, chead>>

Recheck(c) ==
    /\ cpc[c] = "recheck"
    /\ IF saturated # 0 THEN Go(c, "shut") ELSE Swept(c)
    /\ UNCHANGED <<ringVars, valveVars, prodVars, cpos, chead>>

Reshut(c) ==
    /\ cpc[c] = "shut"
    /\ gate' = "closed"
    /\ Swept(c)
    /\ UNCHANGED <<ringVars, hot, saturated, prodVars, cpos, chead>>

-----------------------------------------------------------------------------
PublishStep(p) ==
    \/ Claim(p) \/ Publish(p) \/ PendingHead(p) \/ PendingTail(p)
    \/ LatchHot(p) \/ CountHot(p) \/ Shut(p)

ConsumeStep(c) ==
    \/ Dequeue(c) \/ Release(c) \/ DrainedHot(c) \/ DrainedHead(c) \/ DrainedTail(c)
    \/ ClearHot(c) \/ UncountHot(c) \/ OpenGate(c) \/ Recheck(c) \/ Reshut(c)

Next ==
    \/ \E p \in Producers : PublishStep(p) \/ \E s \in Shards : GateCheck(p, s)
    \/ \E c \in Consumers : ConsumeStep(c)
    \/ \E c \in Drainers : DrainCall(c)

Spec == Init /\ [][Next]_vars

(* Calls under way are scheduled, workers run forever, and where there are *)
(* none Drain is called again and again.  Nobody has to publish.           *)
Fairness ==
    /\ \A p \in Producers : WF_vars(PublishStep(p))
    /\ \A c \in Consumers : WF_vars(ConsumeStep(c))
    /\ \A c \in Drainers : WF_vars(DrainCall(c))

FairSpec == Spec /\ Fairness
-----------------------------------------------------------------------------
(* Properties                                                              *)

ProducerPc == {"idle", "claim", "publish", "pendingHead", "pendingTail",
               "mark", "count", "shut"}
ConsumerPc == {"idle", "dequeue", "handle", "drained", "pendingHead", "pendingTail",
               "clear", "uncount", "open", "recheck", "shut"}

(* Type invariant; the counter of hot shards may fall below zero.          *)
TypeOK ==
    /\ tail \in [Shards -> Nat] /\ head \in [Shards -> Nat]
    /\ hot \in [Shards -> {0, 1}]
    /\ saturated \in Int
    /\ gate \in {"open", "closed"}
    /\ ppc \in [Producers -> ProducerPc]
    /\ pshard \in [Producers -> Shards]
    /\ ppos \in [Producers -> Nat] /\ phead \in [Producers -> Nat]
    /\ cpc \in [Consumers -> ConsumerPc]
    /\ cshard \in [Consumers -> Shards]
    /\ cpos \in [Consumers -> Nat] /\ chead \in [Consumers -> Nat]
    /\ cn \in [Consumers -> Nat]

HotShards == {s \in Shards : hot[s] = 1}
Counting == {p \in Producers : ppc[p] = "count"}
Uncounting == {c \in Consumers : cpc[c] = "uncount"}

(* fabric.go:164, "saturated counts shards currently above the high-water  *)
(* mark": up to threads between their CAS on a latch and their add to the  *)
(* counter, it counts the latches that are set.                            *)
CountIsExact ==
    saturated = Cardinality(HotShards) - Cardinality(Counting) + Cardinality(Uncounting)

(* No thread is between its CAS on a latch and its last access to the gate. *)
ValveQuiet ==
    /\ \A p \in Producers : ppc[p] \notin {"count", "shut"}
    /\ \A c \in Consumers : cpc[c] \notin {"uncount", "open", "recheck", "shut"}

(* fabric.go:517-518, "so the gate cannot be left open over a hot shard",  *)
(* for every overlap of markSaturated and markDrained of all shards.       *)
NotLeftOpen == ValveQuiet /\ HotShards # {} => gate = "closed"

(* fabric.go:497-498: markDrained "reopens the gate when no shard remains  *)
(* saturated".                                                             *)
NotLeftClosed == ValveQuiet /\ HotShards = {} => gate = "open"

(* ring.go:304-306: pending "can trip backpressure a hair early, never     *)
(* late": a producer that leaves publish without marking its shard did so  *)
(* while the shard really was below the high-water mark.                   *)
NeverLate ==
    [][\A p \in Producers :
          ppc[p] = "pendingTail" /\ ppc'[p] = "idle" =>
             Pct(head[pshard[p]], tail[pshard[p]]) < HighWaterPct]_vars

(* errors.go:11-14: ingestion is refused "until the consumers drain the    *)
(* matrix below the low-water mark": a latched shard is cleared in the end *)
(* when the consumers keep running, whatever producers were in flight when *)
(* the gate closed.                                                        *)
HotIsCleared == \A s \in Shards : (hot[s] = 1) ~> (hot[s] = 0)

(* errors.go:11-14, once more, at the gate itself: a gate that shut opens  *)
(* again, the consumers having nothing else to do.                         *)
GateReopens == (gate = "closed") ~> (gate = "open")
=============================================================================
