------------------------- MODULE BackpressureProofs -------------------------
(***************************************************************************)
(* Proofs about the latches, the counter of hot shards and the gate, for   *)
(* every number of shards, producers, workers and callers of Drain, every  *)
(* capacity and every pair of water marks that initGate accepts.           *)
(***************************************************************************)
EXTENDS Backpressure, FiniteSetTheorems, TLAPS

(* What a producer inside occupancyPct read of head is not ahead of head.  *)
HeadSeen ==
    \A p \in Producers : ppc[p] = "pendingTail" => phead[p] <= head[pshard[p]]

(* The gate may be open while the counter is positive only as long as some *)
(* thread is on its way to shut it, or to look at the counter again.       *)
ShutPending ==
    gate = "open" /\ saturated > 0 =>
        \/ \E p \in Producers : ppc[p] = "shut"
        \/ \E c \in Consumers : cpc[c] \in {"recheck", "shut"}

(* The inductive invariant behind NotLeftOpen.                             *)
GateInv == TypeOK /\ CountIsExact /\ ShutPending
-----------------------------------------------------------------------------
(* Drain's step to the next shard stays among the shards.                  *)
LEMMA NextShard == \A s \in Shards : (s + 1) % ShardCount \in Shards
  BY BackpressureAssumption DEF Shards

(* There is a first shard.                                                 *)
LEMMA FirstShard == 0 \in Shards
  BY BackpressureAssumption DEF Shards

(* The engine is built with cold latches and an open gate.                 *)
LEMMA TypeInit == Init => TypeOK
  <1> SUFFICES ASSUME Init PROVE TypeOK
    OBVIOUS
  <1>1. \A c \in Consumers : c \in Workers => c \in Shards
    BY BackpressureAssumption
  <1>2. cshard \in [Consumers -> Shards] /\ cpc \in [Consumers -> ConsumerPc]
    BY <1>1, FirstShard DEF Init, ConsumerPc
  <1> QED BY <1>2, FirstShard DEF Init, TypeOK, ProducerPc

(* Every step of publish keeps the types.                                  *)
LEMMA TypeProducer ==
  ASSUME TypeOK, NEW p \in Producers,
         PublishStep(p) \/ \E s \in Shards : GateCheck(p, s)
  PROVE  TypeOK'
  <1> USE FirstShard
      DEF TypeOK, ProducerPc, PGoto, PReturn, ringVars, valveVars, consVars
  <1>1. ASSUME NEW s \in Shards, GateCheck(p, s) PROVE TypeOK'
    BY <1>1 DEF GateCheck
  <1>2. CASE Claim(p)
    BY <1>2 DEF Claim
  <1>3. CASE Publish(p)
    BY <1>3 DEF Publish
  <1>4. CASE PendingHead(p)
    BY <1>4 DEF PendingHead
  <1>5. CASE PendingTail(p)
    BY <1>5 DEF PendingTail
  <1>6. CASE LatchHot(p)
    BY <1>6 DEF LatchHot
  <1>7. CASE CountHot(p)
    BY <1>7 DEF CountHot
  <1>8. CASE Shut(p)
    BY <1>8 DEF Shut
  <1> QED
    BY <1>1, <1>2, <1>3, <1>4, <1>5, <1>6, <1>7, <1>8 DEF PublishStep

(* What the two ends of a sweep do to a consumer's locals.                 *)
LEMMA SweptType ==
  ASSUME TypeOK, NEW c \in Consumers, Swept(c) \/ \E pc \in ConsumerPc : Go(c, pc)
  PROVE  /\ cpc' \in [Consumers -> ConsumerPc]
         /\ cshard' \in [Consumers -> Shards]
         /\ cn' \in [Consumers -> Nat]
  <1>1. CASE Swept(c)
    BY <1>1, NextShard DEF TypeOK, Swept, CGoto, ConsumerPc
  <1>2. ASSUME NEW pc \in ConsumerPc, Go(c, pc) PROVE cpc' \in [Consumers -> ConsumerPc]
    BY <1>2 DEF TypeOK, Go, CGoto
  <1> QED
    BY <1>1, <1>2 DEF Go, TypeOK

(* Every step of worker and Drain keeps the types.                         *)
LEMMA TypeConsumer ==
  ASSUME TypeOK, NEW c \in Consumers, ConsumeStep(c) \/ DrainCall(c)
  PROVE  TypeOK'
  <1> USE SweptType DEF ringVars, valveVars, prodVars
  <1>1. CASE Dequeue(c)
    BY <1>1 DEF Dequeue, TypeOK, ConsumerPc, CGoto
  <1>2. CASE Release(c)
    BY <1>2 DEF Release, TypeOK, ConsumerPc, CGoto
  <1>3. CASE DrainedHot(c)
    BY <1>3 DEF DrainedHot, TypeOK, ConsumerPc
  <1>4. CASE DrainedHead(c)
    BY <1>4 DEF DrainedHead, TypeOK, ConsumerPc
  <1>5. CASE DrainedTail(c)
    BY <1>5 DEF DrainedTail, TypeOK, ConsumerPc
  <1>6. CASE ClearHot(c)
    BY <1>6 DEF ClearHot, TypeOK, ConsumerPc
  <1>7. CASE UncountHot(c)
    BY <1>7 DEF UncountHot, TypeOK, ConsumerPc
  <1>8. CASE OpenGate(c)
    BY <1>8 DEF OpenGate, TypeOK, ConsumerPc
  <1>9. CASE Recheck(c)
    BY <1>9 DEF Recheck, TypeOK, ConsumerPc
  <1>10. CASE Reshut(c)
    BY <1>10 DEF Reshut, TypeOK, ConsumerPc
  <1>11. CASE DrainCall(c)
    BY <1>11 DEF DrainCall, TypeOK, ConsumerPc, CGoto
  <1> QED
    BY <1>1, <1>2, <1>3, <1>4, <1>5, <1>6, <1>7, <1>8, <1>9, <1>10, <1>11 DEF ConsumeStep

(* Types are kept by every step.                                           *)
LEMMA TypeStep ==
  ASSUME TypeOK, [Next]_vars
  PROVE  TypeOK'
  <1>1. CASE UNCHANGED vars
    BY <1>1 DEF vars, ringVars, valveVars, prodVars, consVars, TypeOK
  <1>2. CASE Next
    BY <1>2, TypeProducer, TypeConsumer DEF Next, Consumers
  <1> QED BY <1>1, <1>2

(* Backpressure is type correct: publish, worker and Drain keep cursors,   *)
(* latches, counter, gate and locals in their types.                       *)
THEOREM TypeCorrect == Spec => []TypeOK
  BY TypeInit, TypeStep, PTL DEF Spec
-----------------------------------------------------------------------------
(* The sets that CountIsExact counts are finite.                           *)
LEMMA CountedFinite ==
  /\ IsFiniteSet(HotShards)
  /\ IsFiniteSet(Counting)
  /\ IsFiniteSet(Uncounting)
  <1>1. IsFiniteSet(Shards)
    BY FS_Interval, BackpressureAssumption DEF Shards
  <1>2. IsFiniteSet(Workers)
    BY <1>1, FS_Subset, BackpressureAssumption
  <1>3. IsFiniteSet(Consumers)
    BY <1>2, FS_Union, BackpressureAssumption DEF Consumers
  <1> QED
    BY <1>1, <1>3, FS_Subset, BackpressureAssumption DEF HotShards, Counting, Uncounting

(* One element more, one element less.                                     *)
LEMMA CardinalityOneMore ==
  ASSUME NEW S, IsFiniteSet(S), NEW x, x \notin S
  PROVE  Cardinality(S) \in Nat /\ Cardinality(S \cup {x}) = Cardinality(S) + 1
  BY FS_AddElement, FS_CardinalityType

(* See CardinalityOneMore.                                                 *)
LEMMA CardinalityOneLess ==
  ASSUME NEW S, IsFiniteSet(S), NEW x \in S
  PROVE  Cardinality(S) \in Nat /\ Cardinality(S \ {x}) = Cardinality(S) - 1
  BY FS_RemoveElement, FS_CardinalityType

(* The steps of publish that touch neither latch nor counter change none   *)
(* of the sets that CountIsExact counts.                                   *)
LEMMA CountProducerQuiet ==
  ASSUME TypeOK, NEW p \in Producers,
         \/ \E s \in Shards : GateCheck(p, s)
         \/ Claim(p) \/ Publish(p) \/ PendingHead(p) \/ PendingTail(p) \/ Shut(p)
  PROVE  UNCHANGED <<HotShards, Counting, Uncounting, saturated>>
  <1> USE DEF HotShards, Counting, Uncounting, TypeOK, PGoto, PReturn, valveVars, consVars
  <1>1. ASSUME NEW s \in Shards, GateCheck(p, s)
        PROVE  UNCHANGED <<HotShards, Counting, Uncounting, saturated>>
    BY <1>1 DEF GateCheck
  <1>2. CASE Claim(p)
    BY <1>2 DEF Claim
  <1>3. CASE Publish(p)
    BY <1>3 DEF Publish
  <1>4. CASE PendingHead(p)
    BY <1>4 DEF PendingHead
  <1>5. CASE PendingTail(p)
    BY <1>5 DEF PendingTail
  <1>6. CASE Shut(p)
    BY <1>6 DEF Shut
  <1> QED BY <1>1, <1>2, <1>3, <1>4, <1>5, <1>6

(* Nor do the steps of worker and Drain outside markDrained's CAS and add. *)
LEMMA CountConsumerQuiet ==
  ASSUME TypeOK, NEW c \in Consumers,
         \/ DrainCall(c) \/ Dequeue(c) \/ Release(c) \/ DrainedHot(c) \/ DrainedHead(c)
         \/ DrainedTail(c) \/ OpenGate(c) \/ Recheck(c) \/ Reshut(c)
  PROVE  UNCHANGED <<HotShards, Counting, Uncounting, saturated>>
  <1> USE DEF HotShards, Counting, Uncounting, TypeOK, CGoto, Go, Swept, valveVars, prodVars
  <1>1. CASE DrainCall(c)
    BY <1>1 DEF DrainCall
  <1>2. CASE Dequeue(c)
    BY <1>2 DEF Dequeue
  <1>3. CASE Release(c)
    BY <1>3 DEF Release
  <1>4. CASE DrainedHot(c)
    BY <1>4 DEF DrainedHot
  <1>5. CASE DrainedHead(c)
    BY <1>5 DEF DrainedHead
  <1>6. CASE DrainedTail(c)
    BY <1>6 DEF DrainedTail
  <1>7. CASE OpenGate(c)
    BY <1>7 DEF OpenGate
  <1>8. CASE Recheck(c)
    BY <1>8 DEF Recheck
  <1>9. CASE Reshut(c)
    BY <1>9 DEF Reshut
  <1> QED BY <1>1, <1>2, <1>3, <1>4, <1>5, <1>6, <1>7, <1>8, <1>9

(* A won CAS sets the latch and commits its thread to one add; the add     *)
(* settles it.  The same holds of clearing a latch.                        *)
LEMMA CountStep ==
  ASSUME TypeOK, CountIsExact, [Next]_vars
  PROVE  CountIsExact'
  <1> USE CountedFinite, FS_CardinalityType DEF CountIsExact
  <1>1. CASE UNCHANGED <<HotShards, Counting, Uncounting, saturated>>
    BY <1>1
  <1>2. ASSUME NEW p \in Producers, LatchHot(p) PROVE CountIsExact'
    <2> DEFINE s == pshard[p]
    <2>1. CASE hot[s] # 0
      <3>1. UNCHANGED <<HotShards, Counting, Uncounting, saturated>>
        BY <1>2, <2>1 DEF LatchHot, PReturn, PGoto, HotShards, Counting, Uncounting, TypeOK, consVars
      <3> QED BY <3>1
    <2>2. CASE hot[s] = 0
      <3>1. s \in Shards /\ HotShards' = HotShards \cup {s} /\ s \notin HotShards
        BY <1>2, <2>2 DEF LatchHot, HotShards, TypeOK
      <3>2. Counting' = Counting \cup {p} /\ p \notin Counting
        BY <1>2, <2>2 DEF LatchHot, PGoto, Counting, TypeOK
      <3>3. UNCHANGED <<Uncounting, saturated>>
        BY <1>2 DEF LatchHot, Uncounting, consVars
      <3> QED BY <3>1, <3>2, <3>3, CardinalityOneMore
    <2> QED BY <2>1, <2>2
  <1>3. ASSUME NEW p \in Producers, CountHot(p) PROVE CountIsExact'
    <2>1. Counting' = Counting \ {p} /\ p \in Counting
      BY <1>3 DEF CountHot, PGoto, Counting, TypeOK
    <2>2. UNCHANGED <<HotShards, Uncounting>> /\ saturated' = saturated + 1
      BY <1>3 DEF CountHot, HotShards, Uncounting, consVars
    <2> QED BY <2>1, <2>2, CardinalityOneLess
  <1>4. ASSUME NEW c \in Consumers, ClearHot(c) PROVE CountIsExact'
    <2> DEFINE s == cshard[c]
    <2>1. CASE hot[s] # 1
      <3>1. UNCHANGED <<HotShards, Counting, Uncounting, saturated>>
        BY <1>4, <2>1 DEF ClearHot, Swept, CGoto, HotShards, Counting, Uncounting, TypeOK, prodVars
      <3> QED BY <3>1
    <2>2. CASE hot[s] = 1
      <3>1. s \in HotShards /\ HotShards' = HotShards \ {s}
        BY <1>4, <2>2 DEF ClearHot, HotShards, TypeOK
      <3>2. Uncounting' = Uncounting \cup {c} /\ c \notin Uncounting
        BY <1>4, <2>2 DEF ClearHot, Go, CGoto, Uncounting, TypeOK
      <3>3. UNCHANGED <<Counting, saturated>>
        BY <1>4 DEF ClearHot, Counting, prodVars
      <3>4. Cardinality(HotShards') = Cardinality(HotShards) - 1
        BY <3>1, CardinalityOneLess
      <3>5. Cardinality(Uncounting') = Cardinality(Uncounting) + 1
        BY <3>2, CardinalityOneMore
      <3>6. /\ Cardinality(HotShards) \in Nat /\ Cardinality(Counting) \in Nat
            /\ Cardinality(Uncounting) \in Nat
        OBVIOUS
      <3> QED BY <3>3, <3>4, <3>5, <3>6
    <2> QED BY <2>1, <2>2
  <1>5. ASSUME NEW c \in Consumers, UncountHot(c) PROVE CountIsExact'
    <2>1. c \in Uncounting /\ Uncounting' = Uncounting \ {c}
      BY <1>5 DEF UncountHot, Go, Swept, CGoto, Uncounting, TypeOK
    <2>2. UNCHANGED <<HotShards, Counting>> /\ saturated' = saturated - 1
      BY <1>5 DEF UncountHot, HotShards, Counting, prodVars
    <2>3. Cardinality(Uncounting') = Cardinality(Uncounting) - 1
      BY <2>1, CardinalityOneLess
    <2>4. /\ Cardinality(HotShards) \in Nat /\ Cardinality(Counting) \in Nat
          /\ Cardinality(Uncounting) \in Nat
      OBVIOUS
    <2> QED BY <2>2, <2>3, <2>4
  <1>6. CASE UNCHANGED vars
    BY <1>1, <1>6 DEF vars, valveVars, prodVars, consVars, HotShards, Counting, Uncounting
  <1> QED
    BY <1>1, <1>2, <1>3, <1>4, <1>5, <1>6, CountProducerQuiet, CountConsumerQuiet
       DEF Next, PublishStep, ConsumeStep, Consumers

(* No latch is set and nobody is counting when the engine starts.          *)
LEMMA CountInit == Init => CountIsExact
  <1> SUFFICES ASSUME Init PROVE CountIsExact
    OBVIOUS
  <1>1. HotShards = {} /\ Counting = {} /\ Uncounting = {}
    BY DEF Init, HotShards, Counting, Uncounting, Consumers
  <1> QED BY <1>1, FS_EmptySet DEF Init, CountIsExact

(* fabric.go:164: however markSaturated and markDrained of all shards      *)
(* overlap, the engine-wide counter is the number of latched shards, up to *)
(* the threads between their CAS and their add.                            *)
THEOREM CounterExact == Spec => []CountIsExact
  <1>1. CountIsExact /\ TypeOK /\ [Next]_vars => CountIsExact'
    BY CountStep
  <1> QED BY CountInit, <1>1, TypeCorrect, PTL DEF Spec
-----------------------------------------------------------------------------
(* A producer that makes the counter positive is about to shut the gate; a *)
(* consumer that opens it is about to look at the counter again; and a     *)
(* consumer that saw it positive is about to shut the gate.                *)
LEMMA ShutPendingStep ==
  ASSUME TypeOK, ShutPending, [Next]_vars
  PROVE  ShutPending'
  <1> USE DEF ShutPending, TypeOK
  <1>1. ASSUME NEW p \in Producers, PublishStep(p) \/ \E s \in Shards : GateCheck(p, s)
        PROVE  ShutPending'
    <2> USE DEF PGoto, PReturn, valveVars, consVars
    <2>1. ASSUME NEW s \in Shards, GateCheck(p, s) PROVE ShutPending'
      BY <2>1 DEF GateCheck
    <2>2. CASE Claim(p)
      BY <2>2 DEF Claim
    <2>3. CASE Publish(p)
      BY <2>3 DEF Publish
    <2>4. CASE PendingHead(p)
      BY <2>4 DEF PendingHead
    <2>5. CASE PendingTail(p)
      BY <2>5 DEF PendingTail
    <2>6. CASE LatchHot(p)
      BY <2>6 DEF LatchHot
    <2>7. CASE CountHot(p)
      BY <2>7 DEF CountHot
    <2>8. CASE Shut(p)
      BY <2>8 DEF Shut
    <2> QED BY <1>1, <2>1, <2>2, <2>3, <2>4, <2>5, <2>6, <2>7, <2>8 DEF PublishStep
  <1>2. ASSUME NEW c \in Consumers, ConsumeStep(c) \/ DrainCall(c)
        PROVE  ShutPending'
    <2> USE DEF CGoto, Go, Swept, valveVars, prodVars
    <2>1. CASE Dequeue(c)
      BY <2>1 DEF Dequeue
    <2>2. CASE Release(c)
      BY <2>2 DEF Release
    <2>3. CASE DrainedHot(c)
      BY <2>3 DEF DrainedHot
    <2>4. CASE DrainedHead(c)
      BY <2>4 DEF DrainedHead
    <2>5. CASE DrainedTail(c)
      BY <2>5 DEF DrainedTail
    <2>6. CASE ClearHot(c)
      BY <2>6 DEF ClearHot
    <2>7. CASE UncountHot(c)
      BY <2>7 DEF UncountHot
    <2>8. CASE OpenGate(c)
      BY <2>8 DEF OpenGate
    <2>9. CASE Recheck(c)
      BY <2>9 DEF Recheck
    <2>10. CASE Reshut(c)
      BY <2>10 DEF Reshut
    <2>11. CASE DrainCall(c)
      BY <2>11 DEF DrainCall
    <2> QED
      BY <1>2, <2>1, <2>2, <2>3, <2>4, <2>5, <2>6, <2>7, <2>8, <2>9, <2>10, <2>11 DEF ConsumeStep
  <1>3. CASE UNCHANGED vars
    BY <1>3 DEF vars, valveVars, prodVars, consVars
  <1> QED BY <1>1, <1>2, <1>3 DEF Next, Consumers

(* fabric.go:517-518: whatever markSaturated and markDrained of all shards *)
(* interleave, once they have all returned the gate is not left open over  *)
(* a hot shard.                                                            *)
THEOREM GateNotLeftOpen == Spec => []NotLeftOpen
  <1>1. Init => GateInv
    BY TypeInit, CountInit DEF GateInv, Init, ShutPending
  <1>2. GateInv /\ [Next]_vars => GateInv'
    BY TypeStep, CountStep, ShutPendingStep DEF GateInv
  <1>3. GateInv => NotLeftOpen
    <2> SUFFICES ASSUME GateInv, ValveQuiet, HotShards # {} PROVE gate = "closed"
      BY DEF NotLeftOpen
    <2>1. Counting = {} /\ Uncounting = {}
      BY DEF ValveQuiet, Counting, Uncounting
    <2>2. Cardinality(HotShards) \in Nat \ {0}
      BY CountedFinite, FS_CardinalityType, FS_EmptySet
    <2>3. saturated > 0
      BY <2>1, <2>2, FS_EmptySet DEF GateInv, CountIsExact
    <2> QED BY <2>3 DEF GateInv, TypeOK, ShutPending, ValveQuiet
  <1> QED BY <1>1, <1>2, <1>3, PTL DEF Spec
-----------------------------------------------------------------------------
(* Division by the capacity is monotone.                                   *)
LEMMA DivMonotone ==
  ASSUME NEW a \in Nat, NEW b \in Nat, a <= b
  PROVE  a \div Capacity <= b \div Capacity
  <1> DEFINE q == a \div Capacity
             r == b \div Capacity
  <1>1. Capacity \in Nat /\ Capacity > 0
    BY BackpressureAssumption
  <1>2. q \in Nat /\ r \in Nat /\ Capacity * q <= a /\ b < Capacity * (r + 1)
    BY <1>1
  <1> HIDE DEF q, r
  <1>3. SUFFICES ASSUME r + 1 <= q PROVE FALSE
    BY <1>2 DEF q, r
  <1>4. Capacity * (r + 1) <= Capacity * q
    BY <1>1, <1>2, <1>3
  <1> QED BY <1>1, <1>2, <1>4

(* The further the head, the lower the occupancy.                          *)
LEMMA PctAntitone ==
  ASSUME NEW g \in Nat, NEW h \in Nat, NEW t \in Nat, g <= h
  PROVE  Pct(h, t) \in Nat /\ Pct(g, t) \in Nat /\ Pct(h, t) <= Pct(g, t)
  <1> DEFINE used(x) == (IF t < x THEN 0 ELSE t - x) * 100
  <1>1. used(g) \in Nat /\ used(h) \in Nat /\ used(h) <= used(g)
    OBVIOUS
  <1>2. Pct(h, t) = used(h) \div Capacity /\ Pct(g, t) = used(g) \div Capacity
    BY DEF Pct
  <1>3. \A n \in Nat : n \div Capacity \in Nat
    BY BackpressureAssumption
  <1> QED BY <1>1, <1>2, <1>3, DivMonotone

(* Consumers only move head forward, so a head read earlier is behind it.  *)
LEMMA HeadSeenStep ==
  ASSUME TypeOK, HeadSeen, [Next]_vars
  PROVE  HeadSeen'
  <1> USE DEF HeadSeen, TypeOK
  <1>1. ASSUME NEW p \in Producers, PublishStep(p) \/ \E s \in Shards : GateCheck(p, s)
        PROVE  HeadSeen'
    <2> USE DEF PGoto, PReturn, ringVars
    <2>1. ASSUME NEW s \in Shards, GateCheck(p, s) PROVE HeadSeen'
      BY <2>1 DEF GateCheck
    <2>2. CASE Claim(p)
      BY <2>2 DEF Claim
    <2>3. CASE Publish(p)
      BY <2>3 DEF Publish
    <2>4. CASE PendingHead(p)
      BY <2>4 DEF PendingHead
    <2>5. CASE PendingTail(p)
      BY <2>5 DEF PendingTail
    <2>6. CASE LatchHot(p)
      BY <2>6 DEF LatchHot
    <2>7. CASE CountHot(p)
      BY <2>7 DEF CountHot
    <2>8. CASE Shut(p)
      BY <2>8 DEF Shut
    <2> QED BY <1>1, <2>1, <2>2, <2>3, <2>4, <2>5, <2>6, <2>7, <2>8 DEF PublishStep
  <1>2. ASSUME NEW c \in Consumers, Dequeue(c) PROVE HeadSeen'
    BY <1>2 DEF Dequeue, prodVars
  <1>3. CASE UNCHANGED <<head, prodVars>>
    BY <1>3 DEF prodVars
  <1> QED
    BY <1>1, <1>2, <1>3
       DEF Next, vars, ConsumeStep, Release, DrainedHot, DrainedHead, DrainedTail, ClearHot,
           UncountHot, OpenGate, Recheck, Reshut, DrainCall, ringVars

(* ring.go:304-306: pending is read while consumers move on, and yet a     *)
(* producer that leaves publish without marking its shard did so while the *)
(* shard really was below the high-water mark.                             *)
THEOREM PendingNeverLate == Spec => NeverLate
  <1>1. Init => HeadSeen
    BY DEF Init, HeadSeen
  <1>2. TypeOK /\ HeadSeen /\ [Next]_vars => HeadSeen'
    BY HeadSeenStep
  <1>3. ASSUME TypeOK, HeadSeen, [Next]_vars
        PROVE  [\A p \in Producers :
                  ppc[p] = "pendingTail" /\ ppc'[p] = "idle" =>
                     Pct(head[pshard[p]], tail[pshard[p]]) < HighWaterPct]_vars
    <2> SUFFICES ASSUME NEW p \in Producers, ppc[p] = "pendingTail", ppc'[p] = "idle"
                 PROVE  Pct(head[pshard[p]], tail[pshard[p]]) < HighWaterPct
      OBVIOUS
    <2>1. PendingTail(p)
      <3>1. ASSUME NEW q \in Producers, PublishStep(q) \/ \E s \in Shards : GateCheck(q, s)
            PROVE  PendingTail(p)
        <4>1. q = p
          BY <1>3, <3>1
             DEF PublishStep, GateCheck, Claim, Publish, PendingHead, PendingTail, LatchHot,
                 CountHot, Shut, PGoto, PReturn, TypeOK
        <4> QED
          BY <3>1, <4>1 DEF PublishStep, GateCheck, Claim, Publish, PendingHead, LatchHot,
                            CountHot, Shut
      <3>2. ppc' # ppc
        OBVIOUS
      <3>3. ASSUME NEW c, ConsumeStep(c) \/ DrainCall(c) PROVE ppc' = ppc
        BY <3>3 DEF prodVars, ConsumeStep, Dequeue, Release, DrainedHot, DrainedHead, DrainedTail,
                    ClearHot, UncountHot, OpenGate, Recheck, Reshut, DrainCall
      <3>4. Next
        BY <1>3, <3>2 DEF vars, prodVars
      <3> QED BY <3>1, <3>2, <3>3, <3>4 DEF Next
    <2> DEFINE s == pshard[p]
    <2>2. /\ s \in Shards /\ phead[p] \in Nat /\ head[s] \in Nat /\ tail[s] \in Nat
          /\ phead[p] <= head[s]
      BY <1>3 DEF TypeOK, HeadSeen
    <2>3. ~(Pct(phead[p], tail[s]) >= HighWaterPct)
      BY <2>1, <1>3 DEF PendingTail, PGoto, TypeOK
    <2>4. Pct(head[s], tail[s]) \in Nat /\ Pct(phead[p], tail[s]) \in Nat
          /\ Pct(head[s], tail[s]) <= Pct(phead[p], tail[s])
      BY <2>2, PctAntitone
    <2> QED BY <2>3, <2>4, BackpressureAssumption
  <1> QED BY <1>1, <1>2, <1>3, TypeCorrect, PTL DEF Spec, NeverLate
=============================================================================
