---------------------------- MODULE EngineProofs ----------------------------
(***************************************************************************)
(* Proofs about the life of an engine for every number of shards, cells,   *)
(* producers, drainers, readers, observers and closers.                    *)
(***************************************************************************)
EXTENDS Engine, FiniteSetTheorems, TLAPS

(* Shards are positive numbers, the control arena is not one of them.      *)
LEMMA ShardFacts ==
  /\ 1 \in Shards /\ Ctl \notin Shards /\ Shards \subseteq Nat /\ Shards \subseteq Arenas
  /\ Ctl \in Arenas /\ Workers \subseteq Shards /\ Workers \cap Drainers = {}
  /\ \A s \in Shards : s < NShards => s + 1 \in Shards
  BY EngineAssumption DEF Shards, Ctl, Arenas, Workers

(* A nonempty set of numbers has a least member.                           *)
LEMMA MinOfNaturals ==
  ASSUME NEW S, S \subseteq Nat, S # {}
  PROVE  Min(S) \in S /\ \A x \in S : Min(S) <= x
  <1>1. PICK m \in S : \A y \in S : <<y, m>> \notin OpToRel(<, Nat)
    BY NatLessThanWellFounded, WFMin, Zenon
  <1>2. m \in Nat /\ \A y \in S : y \in Nat
    OBVIOUS
  <1>3. \A y \in S : ~(y < m)
    BY <1>1, <1>2 DEF OpToRel
  <1>4. \A y \in S : m <= y
    BY <1>2, <1>3
  <1> QED BY <1>4 DEF Min

(* Stats loads words that exist.                                           *)
LEMMA LoadOrderType ==
  ASSUME NEW n \in 1 .. Len(LoadOrder)
  PROVE  \/ LoadOrder[n] \in {<<"tickets", Ctl>>, <<"dropped", Ctl>>}
         \/ \E s \in Shards, i \in 1 .. 7 : LoadOrder[n] = <<ShardWords[i], s>>
  <1>1. 7 * NShards + 2 \in Nat /\ Len(LoadOrder) = 7 * NShards + 2
    BY EngineAssumption DEF LoadOrder
  <1>2. n \in 1 .. 7 * NShards + 2
    BY <1>1
  <1>3. CASE n <= 2
    BY <1>2, <1>3 DEF LoadOrder
  <1>4. CASE n > 2
    <2>1. n - 3 \in 0 .. 7 * NShards - 1 /\ NShards \in Nat
      BY <1>2, <1>4, EngineAssumption
    <2>2. ((n - 3) % 7) + 1 \in 1 .. 7 /\ ((n - 3) \div 7) + 1 \in 1 .. NShards
      BY <2>1
    <2>3. LoadOrder[n] = <<ShardWords[((n - 3) % 7) + 1], ((n - 3) \div 7) + 1>>
      BY <1>2, <1>4 DEF LoadOrder
    <2> QED BY <2>2, <2>3 DEF Shards
  <1> QED BY <1>2, <1>3, <1>4

(* Every word that Stats loads is a number.                                *)
LEMMA WordType ==
  ASSUME TypeOK, NEW n \in 1 .. Len(LoadOrder)
  PROVE  Word(LoadOrder[n][1], LoadOrder[n][2]) \in Nat
  <1>1. /\ issued \in Nat /\ dropped \in Nat
        /\ \A s \in Shards : /\ head[s] \in Nat /\ commit[s] \in Nat /\ tail(s) \in Nat
                             /\ ingested[s] \in Nat /\ consumed[s] \in Nat /\ rejected[s] \in Nat
    BY EngineAssumption DEF TypeOK, PublishType, CounterType, RingType, tail
  <1>2. CASE LoadOrder[n] \in {<<"tickets", Ctl>>, <<"dropped", Ctl>>}
    BY <1>1, <1>2 DEF Word
  <1>3. ASSUME NEW s \in Shards, NEW i \in 1 .. 7, LoadOrder[n] = <<ShardWords[i], s>>
        PROVE  Word(LoadOrder[n][1], LoadOrder[n][2]) \in Nat
    <2>1. ShardWords[i] \in {"pendingHead", "pendingTail", "committedHead", "committedTo",
                             "ingested", "consumed", "rejected"}
      BY DEF ShardWords
    <2> QED BY <1>1, <1>3, <2>1 DEF Word
  <1> QED BY <1>2, <1>3, LoadOrderType
-----------------------------------------------------------------------------
(* Types, operation by operation.                                          *)

(* New and the ticker.                                                     *)
LEMMA TypeNew ==
  ASSUME TypeOK, NewStep \/ TickerStep
  PROVE  TypeOK'
  <1> USE DEF NewStep, TickerStep, TypeOK
  <1>1. CASE MapCtl \/ MapShard \/ BuildFails \/ TearDownShard \/ TearDownCtl \/ TickerStop
    <2>1. LifeType'
      BY <1>1, ShardFacts DEF MapCtl, MapShard, BuildFails, TearDownShard, TearDownCtl, TickerStop, LifeType, Arenas
    <2>2. UNCHANGED <<traffic, queryVars>>
      BY <1>1 DEF MapCtl, MapShard, BuildFails, TearDownShard, TearDownCtl, TickerStop
    <2> QED
      BY <2>1, <2>2
         DEF traffic, ring, counters, pubVars, conVars, queryVars, CounterType, RingType, PublishType,
             ConsumeType, QueryType
  <1>2. CASE Start
    <2>1. LifeType'
      BY <1>2 DEF Start, LifeType
    <2>2. ConsumeType'
      BY <1>2 DEF Start, ConsumeType
    <2>3. UNCHANGED <<ring, counters, pubVars, queryVars>>
      BY <1>2 DEF Start
    <2> QED
      BY <2>1, <2>2, <2>3
         DEF ring, counters, pubVars, queryVars, CounterType, RingType, PublishType, QueryType
  <1> QED BY <1>1, <1>2

(* Close.                                                                  *)
LEMMA TypeClose ==
  ASSUME TypeOK, NEW k \in Closers, CloserStep(k) \/ (CallClose(k) /\ UNCHANGED queryVars)
  PROVE  TypeOK'
  <1> USE DEF CloserStep
  <1>1. LifeType
    BY DEF TypeOK
  <1>2. LifeType'
    BY <1>1 DEF LifeType, CallClose, LockClose, StopRunning, SignalStop, WaitAll, UnmapShard, UnmapCtl, ClearPointers, XGoto
  <1>3. UNCHANGED <<traffic, queryVars>>
    BY DEF CallClose, LockClose, StopRunning, SignalStop, WaitAll, UnmapShard, UnmapCtl, ClearPointers
  <1> QED
    BY <1>2, <1>3
       DEF TypeOK, traffic, ring, counters, pubVars, conVars, queryVars, CounterType, RingType,
           PublishType, ConsumeType, QueryType

(* A publish that returns keeps its locals in their types.                 *)
LEMMA ReturnType ==
  ASSUME TypeOK, NEW p \in Producers, Return(p)
  PROVE  /\ pc' \in [Producers -> {"idle", "call", "ticket", "claim", "write", "count", "index", "drop", "mark",
                             "faulted"}]
         /\ shard' \in [Producers -> Shards] /\ ticket' \in [Producers -> 0 .. MaxTickets]
         /\ pos' \in [Producers -> Nat]
  BY ShardFacts, EngineAssumption DEF TypeOK, PublishType, Return, Goto
-----------------------------------------------------------------------------
(* Calls that have passed the bound on tickets and not drawn theirs.       *)
Asking == {p \in Producers : pc[p] \in {"call", "ticket"}}

(* The bound MaxTickets is never passed; a publish past its ticket has one *)
(* of its own.                                                             *)
TicketInv ==
    /\ issued + Cardinality(Asking) <= MaxTickets
    /\ \A p \in Producers : pc[p] \in {"claim", "write", "count", "index"} => ticket[p] \in 1 .. issued

(* Positions of a shard are taken, committed and claimed in this order.    *)
CursorsOrdered ==
    \A s \in Shards :
        /\ head[s] <= commit[s] /\ commit[s] <= tail(s)
        /\ \A i \in written[s] : i < tail(s)
        /\ \A i \in freed[s] : i < head[s]

(* A claimed position is in the hands of one producer until it is written. *)
OneWriterEach ==
    /\ \A p \in Producers : pc[p] = "write" =>
          pos[p] < tail(shard[p]) /\ pos[p] \notin written[shard[p]]
    /\ \A p, q \in Producers :
          pc[p] = "write" /\ pc[q] = "write" /\ shard[p] = shard[q] /\ p # q => pos[p] # pos[q]

(* A taken position is in the hands of one consumer until it is freed.     *)
Holding(c) == cpc[c] \in {"handle", "release"}
OneTakerEach ==
    /\ \A c \in Consumers : Holding(c) =>
          cpos[c] < head[cshard[c]] /\ cpos[c] \notin freed[cshard[c]]
    /\ \A c, d \in Consumers :
          Holding(c) /\ Holding(d) /\ cshard[c] = cshard[d] /\ c # d => cpos[c] # cpos[d]

ShardInv == CursorsOrdered /\ OneWriterEach /\ OneTakerEach

CoreInv == TypeOK /\ TicketInv /\ ShardInv

(* Asking is finite; a member is one of at least one.                      *)
LEMMA AskingFinite ==
  /\ IsFiniteSet(Asking) /\ Cardinality(Asking) \in Nat
  /\ \A p \in Asking : Cardinality(Asking) >= 1
  <1>1. Asking \subseteq Producers /\ IsFiniteSet(Producers)
    BY EngineAssumption DEF Asking
  <1>2. IsFiniteSet(Asking)
    BY <1>1, FS_Subset
  <1>3. Cardinality(Asking) \in Nat
    BY <1>2, FS_CardinalityType
  <1>4. ASSUME NEW p \in Asking PROVE Cardinality(Asking) >= 1
    <2>1. Cardinality(Asking) # 0
      BY <1>2, FS_EmptySet
    <2> QED BY <1>3, <2>1
  <1> QED BY <1>2, <1>3, <1>4

(* A ticket can be drawn by a call that has not drawn one.                 *)
LEMMA TicketLeft ==
  ASSUME TypeOK, TicketInv, NEW p \in Producers, pc[p] = "ticket"
  PROVE  issued + 1 \in Tickets
  <1>1. p \in Asking /\ issued \in Nat /\ MaxTickets \in Nat
    BY EngineAssumption DEF Asking, TypeOK, PublishType
  <1> QED BY <1>1, AskingFinite DEF TicketInv, Tickets

(* A publish moves within its types.                                       *)
LEMMA TypeProducer ==
  ASSUME CoreInv, NEW p \in Producers, ProducerStep(p)
  PROVE  TypeOK'
  <1>1. TypeOK /\ TicketInv /\ LifeType /\ CounterType /\ RingType /\ PublishType
    BY DEF CoreInv, TypeOK
  <1>2. UNCHANGED <<lifeVars, conVars, queryVars>>
    BY DEF ProducerStep, CheckRunning, TakeTicket, Claim, Write, CountIngested, Accept, ClaimFull, Drop, Refuse
  <1>3. LifeType' /\ ConsumeType' /\ QueryType'
    BY <1>1, <1>2 DEF TypeOK, lifeVars, conVars, queryVars, LifeType, ConsumeType, QueryType
  <1>4. SUFFICES CounterType' /\ RingType' /\ PublishType'
    BY <1>3 DEF TypeOK
  <1>5. shard[p] \in Shards /\ pos[p] \in Nat
    BY <1>1 DEF PublishType
  <1>6. ASSUME pc[p] \in {"claim", "write", "count", "index"} PROVE ticket[p] \in Tickets
    BY <1>1, <1>6, EngineAssumption DEF TicketInv, PublishType, Tickets
  <1>7. CASE CheckRunning(p)
    <2>1. CounterType' /\ RingType' /\ UNCHANGED <<issued, accepted, author>>
      BY <1>1, <1>7 DEF CheckRunning, ring, counters, CounterType, RingType
    <2>2. CASE Return(p)
      BY <1>1, <2>1, <2>2, ReturnType DEF PublishType
    <2>3. CASE Goto(p, "ticket") /\ UNCHANGED <<shard, ticket, pos>>
      BY <1>1, <2>1, <2>3 DEF Goto, PublishType
    <2> QED BY <1>7, <2>1, <2>2, <2>3 DEF CheckRunning
  <1>8. CASE TakeTicket(p)
    <2>1. issued + 1 \in Tickets /\ Tickets \subseteq 0 .. MaxTickets
      BY <1>1, <1>8, TicketLeft, EngineAssumption DEF TakeTicket, Tickets
    <2>2. CounterType' /\ RingType'
      BY <1>1, <1>8 DEF TakeTicket, ring, counters, CounterType, RingType
    <2>3. PublishType'
      BY <1>1, <1>8, <2>1 DEF TakeTicket, Goto, PublishType
    <2> QED BY <2>2, <2>3
  <1>9. CASE Claim(p)
    <2>1. Append(log[shard[p]], ticket[p]) \in Seq(Tickets) /\ tail(shard[p]) \in Nat
      BY <1>1, <1>5, <1>6, <1>9 DEF Claim, RingType, tail
    <2> QED BY <1>1, <1>5, <1>9, <2>1
            DEF Claim, Goto, ring, counters, CounterType, RingType, PublishType
  <1>10. CASE ClaimFull(p) \/ Drop(p) \/ CountIngested(p)
    <2>1. CounterType' /\ RingType'
      <3>1. UNCHANGED <<log, written, commit, head, freed, consumed>>
        BY <1>10 DEF ClaimFull, Drop, CountIngested, ring
      <3>2. /\ dropped' \in {dropped, dropped + 1}
            /\ ingested' = ingested \/ ingested' = [ingested EXCEPT ![shard[p]] = @ + 1]
            /\ rejected' = rejected \/ rejected' = [rejected EXCEPT ![shard[p]] = @ + 1]
        BY <1>10 DEF ClaimFull, Drop, CountIngested
      <3>3. RingType'
        BY <1>1, <3>1 DEF RingType
      <3>4. CounterType'
        BY <1>1, <1>5, <3>1, <3>2 DEF CounterType
      <3> QED BY <3>3, <3>4
    <2>2. PICK label \in {"drop", "mark", "index"} :
             /\ pc' = [pc EXCEPT ![p] = label]
             /\ UNCHANGED <<shard, ticket, pos, issued, accepted, author>>
      BY <1>10 DEF ClaimFull, Drop, CountIngested, Goto
    <2>3. PublishType'
      BY <1>1, <2>2 DEF PublishType
    <2> QED BY <2>1, <2>3
  <1>11. CASE Write(p)
    BY <1>1, <1>5, <1>11 DEF Write, Goto, counters, CounterType, RingType, PublishType
  <1>12. CASE Accept(p) \/ Refuse(p)
    <2>1. CounterType' /\ RingType'
      BY <1>1, <1>12 DEF Accept, Refuse, ring, counters, CounterType, RingType
    <2>2. Return(p) /\ UNCHANGED <<issued, author>> /\ accepted' \in SUBSET Tickets
      BY <1>1, <1>6, <1>12 DEF Accept, Refuse, PublishType
    <2>3. PublishType'
      BY <1>1, <2>2, ReturnType DEF PublishType
    <2> QED BY <2>1, <2>3
  <1> QED BY <1>7, <1>8, <1>9, <1>10, <1>11, <1>12 DEF ProducerStep

(* A consumer moves within its types, and handles a ticket of the log.     *)
LEMMA TypeConsumer ==
  ASSUME CoreInv, NEW c \in Consumers, ConsumerStep(c)
  PROVE  TypeOK'
  <1>1. TypeOK /\ ShardInv /\ LifeType /\ CounterType /\ RingType /\ ConsumeType
    BY DEF CoreInv, TypeOK
  <1>2. UNCHANGED <<lifeVars, pubVars, queryVars, log, written, commit>>
    BY DEF ConsumerStep, Dequeue, Handle, Release, CountConsumed, WorkerEmpty, IdleRunning, IdlePending, DrainNext,
           DrainReturn, ring
  <1>3. LifeType' /\ PublishType' /\ QueryType'
    BY <1>1, <1>2 DEF TypeOK, lifeVars, pubVars, queryVars, LifeType, PublishType, QueryType
  <1>4. SUFFICES CounterType' /\ RingType' /\ ConsumeType'
    BY <1>3 DEF TypeOK
  <1>5. cshard[c] \in Shards /\ cpos[c] \in Nat
    BY <1>1 DEF ConsumeType
  <1>6. CASE Dequeue(c)
    BY <1>1, <1>2, <1>5, <1>6, SMTT(30) DEF Dequeue, CGoto, counters, CounterType, RingType, ConsumeType
  <1>7. CASE Handle(c)
    <2>1. cpos[c] < tail(cshard[c])
      BY <1>1, <1>5, <1>7 DEF Handle, ShardInv, CursorsOrdered, OneTakerEach, Holding, RingType, tail
    <2>2. log[cshard[c]][cpos[c] + 1] \in Tickets
      BY <1>1, <1>5, <2>1 DEF RingType, tail
    <2>3. Append(handled[cshard[c]], log[cshard[c]][cpos[c] + 1]) \in Seq(Tickets)
      BY <1>1, <1>5, <2>2 DEF ConsumeType
    <2> QED BY <1>1, <1>2, <1>5, <1>7, <2>3
            DEF Handle, CGoto, ring, counters, CounterType, RingType, ConsumeType
  <1>8. CASE Release(c) \/ CountConsumed(c)
    <2>1. CounterType'
      BY <1>1, <1>5, <1>8 DEF Release, CountConsumed, counters, CounterType
    <2>2. RingType'
      <3>1. CASE Release(c)
        BY <1>1, <1>2, <1>5, <3>1 DEF Release, RingType
      <3>2. CASE CountConsumed(c)
        BY <1>1, <3>2 DEF CountConsumed, ring, RingType
      <3> QED BY <1>8, <3>1, <3>2
    <2>3. ConsumeType'
      BY <1>1, <1>8 DEF Release, CountConsumed, CGoto, ConsumeType
    <2> QED BY <2>1, <2>2, <2>3
  <1>9. CASE WorkerEmpty(c) \/ IdleRunning(c) \/ IdlePending(c)
    BY <1>1, <1>2, <1>9
       DEF WorkerEmpty, IdleRunning, IdlePending, CGoto, ring, counters, CounterType, RingType, ConsumeType
  <1>10. CASE DrainNext(c)
    BY <1>1, <1>2, <1>5, <1>10, ShardFacts
       DEF DrainNext, ring, counters, CounterType, RingType, ConsumeType
  <1>11. CASE DrainReturn(c)
    BY <1>1, <1>2, <1>11, ShardFacts
       DEF DrainReturn, CGoto, ring, counters, CounterType, RingType, ConsumeType
  <1> QED BY <1>6, <1>7, <1>8, <1>9, <1>10, <1>11 DEF ConsumerStep

(* Calls of Publish and Drain, the commit cursor, Lookup and Stats.        *)
LEMMA TypeOther ==
  ASSUME TypeOK, \/ \E s \in Shards : CommitStep(s)
                 \/ Call
                 \/ QueryStep
  PROVE  TypeOK'
  <1>1. LifeType /\ CounterType /\ RingType /\ PublishType /\ ConsumeType /\ QueryType
    BY DEF TypeOK
  <1>2. ASSUME NEW s \in Shards, CommitStep(s) PROVE TypeOK'
    <2>1. RingType'
      BY <1>1, <1>2 DEF CommitStep, Commit, RingType
    <2>2. UNCHANGED <<lifeVars, counters, pubVars, conVars, queryVars>>
      BY <1>2 DEF CommitStep, Commit
    <2> QED BY <1>1, <2>1, <2>2
            DEF TypeOK, lifeVars, counters, pubVars, conVars, queryVars, LifeType, CounterType,
                PublishType, ConsumeType, QueryType
  <1>3. ASSUME NEW p \in Producers, NEW s \in Shards, Publish(p, s), UNCHANGED queryVars PROVE TypeOK'
    <2>1. PublishType'
      BY <1>1, <1>3 DEF Publish, Goto, Enter, PublishType
    <2>2. UNCHANGED <<lifeVars, ring, counters, conVars, queryVars>>
      BY <1>3 DEF Publish
    <2> QED BY <1>1, <2>1, <2>2
            DEF TypeOK, lifeVars, ring, counters, conVars, queryVars, LifeType, CounterType,
                RingType, ConsumeType, QueryType
  <1>4. ASSUME NEW d \in Drainers, Drain(d), UNCHANGED queryVars PROVE TypeOK'
    <2>1. ConsumeType'
      BY <1>1, <1>4 DEF Drain, CGoto, Enter, ConsumeType
    <2>2. UNCHANGED <<lifeVars, ring, counters, pubVars, queryVars>>
      BY <1>4 DEF Drain
    <2> QED BY <1>1, <2>1, <2>2
            DEF TypeOK, lifeVars, ring, counters, pubVars, queryVars, LifeType, CounterType,
                RingType, PublishType, QueryType
  <1>5. CASE QueryStep
    <2>1. ASSUME NEW r \in Readers, NEW s \in Shards, Lookup(r, s) \/ LookupReturn(r) PROVE QueryType'
      <3>1. 1 \in Shards
        BY ShardFacts
      <3>2. CASE Lookup(r, s)
        BY <1>1, <3>2 DEF Lookup, QGoto, Enter, QueryType
      <3>3. CASE LookupReturn(r)
        BY <1>1, <3>1, <3>3 DEF LookupReturn, QGoto, QueryType
      <3> QED BY <2>1, <3>2, <3>3
    <2>2. ASSUME NEW o \in Observers, Stats(o) PROVE QueryType'
      BY <1>1, <2>2 DEF Stats, QGoto, Enter, QueryType
    <2>3. ASSUME NEW o \in Observers, StatsLoad(o) PROVE QueryType'
      <3> DEFINE n == Len(snap[o]) + 1
      <3>1. snap[o] \in Seq(Nat) /\ n \in 1 .. Len(LoadOrder)
        <4>1. Len(LoadOrder) \in Nat
          BY EngineAssumption DEF LoadOrder
        <4> QED BY <1>1, <2>3, <4>1 DEF QueryType, StatsLoad
      <3>2. Word(LoadOrder[n][1], LoadOrder[n][2]) \in Nat
        BY <3>1, WordType
      <3>3. Append(snap[o], Word(LoadOrder[n][1], LoadOrder[n][2])) \in Seq(Nat)
        BY <3>1, <3>2
      <3> QED BY <1>1, <2>3, <3>3 DEF StatsLoad, QueryType
    <2>4. ASSUME NEW o \in Observers, StatsReturn(o) PROVE QueryType'
      <3>1. <<>> \in Seq(Nat)
        OBVIOUS
      <3> QED BY <1>1, <2>4, <3>1 DEF StatsReturn, QGoto, QueryType
    <2>5. QueryType'
      BY <1>5, <2>1, <2>2, <2>3, <2>4, ShardFacts DEF QueryStep
    <2>6. UNCHANGED <<lifeVars, traffic>>
      BY <1>5 DEF QueryStep
    <2> QED BY <1>1, <2>5, <2>6
            DEF TypeOK, lifeVars, traffic, ring, counters, pubVars, conVars, LifeType, CounterType,
                RingType, PublishType, ConsumeType
  <1> QED BY <1>2, <1>3, <1>4, <1>5, TypeClose DEF Call
-----------------------------------------------------------------------------
(* A step of one publish leaves the other ones alone, and happens only     *)
(* inside Publish.                                                         *)
LEMMA ProducerMoves ==
  ASSUME TypeOK, NEW p \in Producers, ProducerStep(p)
  PROVE  /\ UNCHANGED <<lifeVars, conVars, queryVars, commit, head, freed>>
         /\ \A q \in Producers \ {p} :
               pc'[q] = pc[q] /\ shard'[q] = shard[q] /\ ticket'[q] = ticket[q] /\ pos'[q] = pos[q]
         /\ pc[p] \notin {"idle", "faulted"} /\ pc'[p] # "faulted"
  <1>1. PublishType
    BY DEF TypeOK
  <1>2. UNCHANGED <<lifeVars, conVars, queryVars, commit, head, freed>>
    BY DEF ProducerStep, CheckRunning, TakeTicket, Claim, Write, CountIngested, Accept, ClaimFull, Drop, Refuse, ring
  <1> DEFINE Alone == \A q \in Producers \ {p} :
               pc'[q] = pc[q] /\ shard'[q] = shard[q] /\ ticket'[q] = ticket[q] /\ pos'[q] = pos[q]
  <1>3. Return(p) => Alone /\ pc'[p] = "idle"
    BY <1>1 DEF Return, Goto, PublishType
  <1>4. CASE CheckRunning(p)
    BY <1>1, <1>2, <1>3, <1>4 DEF CheckRunning, Goto, PublishType
  <1>5. CASE Accept(p) \/ Refuse(p)
    BY <1>2, <1>3, <1>5 DEF Accept, Refuse
  <1>6. CASE TakeTicket(p)
    BY <1>1, <1>2, <1>6 DEF TakeTicket, Goto, PublishType
  <1>7. CASE Claim(p) \/ Write(p)
    BY <1>1, <1>2, <1>7 DEF Claim, Write, Goto, PublishType
  <1>8. CASE ClaimFull(p) \/ Drop(p) \/ CountIngested(p)
    BY <1>1, <1>2, <1>8 DEF ClaimFull, Drop, CountIngested, Goto, PublishType
  <1> QED BY <1>4, <1>5, <1>6, <1>7, <1>8 DEF ProducerStep

(* A step of one consumer leaves the other ones alone, and happens only    *)
(* between its start and its end.                                          *)
LEMMA ConsumerMoves ==
  ASSUME TypeOK, NEW c \in Consumers, ConsumerStep(c)
  PROVE  /\ UNCHANGED <<lifeVars, pubVars, queryVars, log, written, commit, dropped, ingested, rejected>>
         /\ \A d \in Consumers \ {c} :
               cpc'[d] = cpc[d] /\ cshard'[d] = cshard[d] /\ cpos'[d] = cpos[d]
         /\ cpc[c] \notin {"off", "done", "faulted"}
         /\ cpc'[c] # "faulted" /\ (c \notin Drainers => cshard'[c] = cshard[c])
  <1>1. ConsumeType
    BY DEF TypeOK
  <1> USE DEF CGoto, ConsumeType, ring, counters
  <1>2. CASE Dequeue(c)
    BY <1>1, <1>2 DEF Dequeue, ConsumerStep
  <1>3. CASE Handle(c)
    BY <1>1, <1>3 DEF Handle, ConsumerStep
  <1>4. CASE Release(c) \/ CountConsumed(c)
    BY <1>1, <1>4 DEF Release, CountConsumed, ConsumerStep
  <1>5. CASE WorkerEmpty(c) \/ IdleRunning(c) \/ IdlePending(c)
    BY <1>1, <1>5 DEF WorkerEmpty, IdleRunning, IdlePending, Empty, ConsumerStep
  <1>6. CASE DrainNext(c)
    BY <1>1, <1>6 DEF DrainNext, Empty, ConsumerStep
  <1>7. CASE DrainReturn(c)
    BY <1>1, <1>7 DEF DrainReturn, Empty, ConsumerStep
  <1> QED BY <1>2, <1>3, <1>4, <1>5, <1>6, <1>7 DEF ConsumerStep

(* The steps that are nobody's publish or consumption.                     *)
LEMMA OtherMoves ==
  ASSUME TypeOK, [Next]_vars
  PROVE  \/ \E p \in Producers : ProducerStep(p)
         \/ \E c \in Consumers : ConsumerStep(c)
         \/ \E s \in Shards : CommitStep(s)
         \/ \E p \in Producers, s \in Shards : Publish(p, s) /\ UNCHANGED queryVars
         \/ \E d \in Drainers : Drain(d) /\ UNCHANGED queryVars
         \/ Start /\ UNCHANGED queryVars
         \/ UNCHANGED traffic
  <1>1. NewStep => (Start /\ UNCHANGED queryVars) \/ UNCHANGED traffic
    BY DEF NewStep, MapCtl, MapShard, BuildFails, TearDownShard, TearDownCtl
  <1>2. TickerStep => UNCHANGED traffic
    BY DEF TickerStep, TickerStop
  <1>3. \A k \in Closers : CloserStep(k) \/ CallClose(k) => UNCHANGED traffic
    BY DEF CloserStep, CallClose, LockClose, StopRunning, SignalStop, WaitAll, UnmapShard, UnmapCtl, ClearPointers
  <1>4. QueryStep => UNCHANGED traffic
    BY DEF QueryStep
  <1>5. UNCHANGED vars => UNCHANGED traffic
    BY DEF vars
  <1> QED BY <1>1, <1>2, <1>3, <1>4, <1>5 DEF Next, Call

(* The bound on tickets, and every publish's own ticket.                   *)
LEMMA TicketStep ==
  ASSUME TypeOK, TicketInv, [Next]_vars
  PROVE  TicketInv'
  <1>1. PublishType /\ issued \in Nat /\ MaxTickets \in Nat
    BY EngineAssumption DEF TypeOK, PublishType
  <1>2. IsFiniteSet(Asking) /\ Cardinality(Asking) \in Nat
    BY AskingFinite
  <1> DEFINE Past == {"claim", "write", "count", "index"}
             Own == \A p \in Producers : pc[p] \in Past => ticket[p] \in 1 .. issued
  <1>3. TicketInv <=> issued + Cardinality(Asking) <= MaxTickets /\ Own
    BY DEF TicketInv
  <1>4. ASSUME NEW p \in Producers, ProducerStep(p) PROVE TicketInv'
    <2>1. \A q \in Producers \ {p} : pc'[q] = pc[q] /\ ticket'[q] = ticket[q]
      BY <1>4, ProducerMoves
    <2>2. CASE TakeTicket(p)
      <3>1. pc[p] = "ticket" /\ pc'[p] = "claim" /\ issued' = issued + 1 /\ ticket'[p] = issued + 1
        BY <1>1, <2>2 DEF TakeTicket, Goto, PublishType
      <3>2. p \in Asking /\ Asking' = Asking \ {p}
        BY <2>1, <3>1 DEF Asking
      <3>3. Cardinality(Asking') = Cardinality(Asking) - 1
        BY <1>2, <3>2, FS_RemoveElement
      <3>4. issued' + Cardinality(Asking') <= MaxTickets
        BY <1>1, <1>2, <1>3, <3>1, <3>3
      <3>5. Own'
        BY <1>1, <1>3, <2>1, <3>1
      <3> QED BY <3>4, <3>5 DEF TicketInv
    <2>3. CASE ~TakeTicket(p)
      <3>1. issued' = issued
        BY <1>4, <2>3 DEF ProducerStep, CheckRunning, Claim, Write, CountIngested, Accept, ClaimFull, Drop, Refuse
      <3>2. /\ pc'[p] \in {"call", "ticket"} => pc[p] \in {"call", "ticket"}
            /\ pc'[p] \in Past => pc[p] \in Past /\ ticket'[p] = ticket[p]
        <4>1. Return(p) => pc'[p] = "idle"
          BY <1>1 DEF Return, Goto, PublishType
        <4>2. CASE CheckRunning(p)
          BY <1>1, <4>1, <4>2 DEF CheckRunning, Goto, PublishType
        <4>3. CASE Accept(p) \/ Refuse(p)
          BY <4>1, <4>3 DEF Accept, Refuse
        <4>4. CASE Claim(p) \/ Write(p)
          BY <1>1, <4>4 DEF Claim, Write, Goto, PublishType
        <4>5. CASE ClaimFull(p) \/ Drop(p) \/ CountIngested(p)
          BY <1>1, <4>5 DEF ClaimFull, Drop, CountIngested, Goto, PublishType
        <4> QED BY <1>4, <2>3, <4>2, <4>3, <4>4, <4>5 DEF ProducerStep
      <3>3. Asking' \subseteq Asking
        BY <2>1, <3>2 DEF Asking
      <3>4. Cardinality(Asking') <= Cardinality(Asking) /\ Cardinality(Asking') \in Nat
        BY <1>2, <3>3, FS_Subset, FS_CardinalityType
      <3>5. issued' + Cardinality(Asking') <= MaxTickets
        BY <1>1, <1>2, <1>3, <3>1, <3>4
      <3>6. Own'
        BY <1>3, <2>1, <3>1, <3>2
      <3> QED BY <3>5, <3>6 DEF TicketInv
    <2> QED BY <2>2, <2>3
  <1>5. ASSUME NEW p \in Producers, NEW s \in Shards, Publish(p, s) PROVE TicketInv'
    <2>1. /\ issued' = issued /\ ticket' = ticket /\ pc'[p] \in {"call", "faulted"}
          /\ \A q \in Producers \ {p} : pc'[q] = pc[q]
          /\ issued + Cardinality(Asking) < MaxTickets
      BY <1>1, <1>5 DEF Publish, Goto, Enter, PublishType, Asking
    <2>2. Asking' \subseteq Asking \cup {p}
      BY <2>1 DEF Asking
    <2>3. IsFiniteSet(Asking \cup {p}) /\ Cardinality(Asking \cup {p}) <= Cardinality(Asking) + 1
      <3>1. /\ IsFiniteSet(Asking \cup {p})
            /\ \/ Cardinality(Asking \cup {p}) = Cardinality(Asking)
               \/ Cardinality(Asking \cup {p}) = Cardinality(Asking) + 1
        BY <1>2, FS_AddElement
      <3> QED BY <1>2, <3>1
    <2>4. Cardinality(Asking') <= Cardinality(Asking \cup {p})
      BY <2>2, <2>3, FS_Subset
    <2>5. Cardinality(Asking') \in Nat /\ Cardinality(Asking \cup {p}) \in Nat
      <3>1. IsFiniteSet(Asking')
        BY <2>2, <2>3, FS_Subset
      <3> QED BY <2>3, <3>1, FS_CardinalityType
    <2>6. issued' + Cardinality(Asking') <= MaxTickets
      BY <1>1, <1>2, <2>1, <2>3, <2>4, <2>5
    <2>7. Own'
      BY <1>3, <2>1
    <2> QED BY <2>6, <2>7 DEF TicketInv
  <1>6. ASSUME UNCHANGED <<pc, issued, ticket>> PROVE TicketInv'
    BY <1>6 DEF TicketInv, Asking
  <1>7. ASSUME NEW c \in Consumers, ConsumerStep(c) PROVE UNCHANGED pubVars
    BY <1>7, ConsumerMoves
  <1>9. \A s \in Shards : CommitStep(s) => UNCHANGED pubVars
    BY DEF CommitStep, Commit
  <1>10. Start => UNCHANGED pubVars
    BY DEF Start
  <1>11. \A d \in Drainers : Drain(d) => UNCHANGED pubVars
    BY DEF Drain
  <1>12. UNCHANGED traffic => UNCHANGED pubVars
    BY DEF traffic
  <1>13. UNCHANGED pubVars => UNCHANGED <<pc, issued, ticket>>
    BY DEF pubVars
  <1> QED
    BY <1>4, <1>5, <1>6, <1>7, <1>9, <1>10, <1>11, <1>12, <1>13, OtherMoves
-----------------------------------------------------------------------------
(* What a producer's step does to the shards.                              *)
LEMMA ProducerShard ==
  ASSUME CoreInv, NEW p \in Producers, ProducerStep(p)
  PROVE  \/ Claim(p) /\ tail(shard[p])' = tail(shard[p]) + 1
                     /\ (\A s \in Shards \ {shard[p]} : log'[s] = log[s])
                     /\ pos'[p] = tail(shard[p]) /\ pc'[p] = "write" /\ shard' = shard
                     /\ written' = written
         \/ Write(p) /\ log' = log /\ pc'[p] = "count" /\ UNCHANGED <<shard, pos>>
                     /\ written'[shard[p]] = written[shard[p]] \cup {pos[p]}
                     /\ \A s \in Shards \ {shard[p]} : written'[s] = written[s]
         \/ pc'[p] \notin {"write", "count"} /\ UNCHANGED <<log, written>>
  <1>1. RingType /\ PublishType /\ shard[p] \in Shards
    BY DEF CoreInv, TypeOK, PublishType
  <1>2. ASSUME Return(p) PROVE pc'[p] = "idle"
    BY <1>1, <1>2 DEF Return, Goto, PublishType
  <1>3. CASE CheckRunning(p)
    BY <1>1, <1>2, <1>3 DEF CheckRunning, Goto, PublishType, ring
  <1>4. CASE TakeTicket(p)
    BY <1>1, <1>4 DEF TakeTicket, Goto, PublishType, ring
  <1>5. CASE Accept(p) \/ Refuse(p)
    BY <1>2, <1>5 DEF Accept, Refuse, ring
  <1>6. CASE Claim(p)
    <2>1. log[shard[p]] \in Seq(Tickets) /\ log'[shard[p]] = Append(log[shard[p]], ticket[p])
      BY <1>1, <1>6 DEF Claim, RingType
    <2>2. shard' = shard /\ written' = written /\ Len(log'[shard[p]]) = Len(log[shard[p]]) + 1
      BY <1>6, <2>1 DEF Claim
    <2> QED BY <1>1, <1>6, <2>2 DEF Claim, Goto, PublishType, RingType, tail
  <1>7. CASE Write(p)
    BY <1>1, <1>7 DEF Write, Goto, PublishType, RingType
  <1>8. CASE ClaimFull(p) \/ Drop(p) \/ CountIngested(p)
    BY <1>1, <1>8 DEF ClaimFull, Drop, CountIngested, Goto, PublishType, ring
  <1> QED BY <1>3, <1>4, <1>5, <1>6, <1>7, <1>8 DEF ProducerStep

(* Producers keep the shards in order.                                     *)
LEMMA ShardProducer ==
  ASSUME CoreInv, NEW p \in Producers, ProducerStep(p)
  PROVE  ShardInv'
  <1>1. /\ CursorsOrdered /\ OneWriterEach /\ OneTakerEach /\ shard[p] \in Shards /\ pos[p] \in Nat
        /\ \A s \in Shards : tail(s) \in Nat /\ head[s] \in Nat /\ commit[s] \in Nat
                             /\ written[s] \subseteq Nat
        /\ \A q \in Producers : shard[q] \in Shards /\ pos[q] \in Nat
    BY DEF CoreInv, TypeOK, ShardInv, RingType, PublishType, tail
  <1>2. UNCHANGED <<conVars, commit, head, freed>>
    BY ProducerMoves DEF CoreInv
  <1>3. OneTakerEach'
    BY <1>1, <1>2 DEF OneTakerEach, Holding, conVars
  <1>4. \A q \in Producers \ {p} : pc'[q] = pc[q] /\ shard'[q] = shard[q] /\ pos'[q] = pos[q]
    BY ProducerMoves DEF CoreInv
  <1>5. CASE /\ Claim(p) /\ tail(shard[p])' = tail(shard[p]) + 1
             /\ \A s \in Shards \ {shard[p]} : log'[s] = log[s]
             /\ pos'[p] = tail(shard[p]) /\ pc'[p] = "write" /\ shard' = shard
             /\ written' = written
    <2>1. \A s \in Shards : tail(s)' = IF s = shard[p] THEN tail(s) + 1 ELSE tail(s)
      BY <1>5 DEF tail
    <2>2. CursorsOrdered'
      BY <1>1, <1>2, <1>5, <2>1 DEF CursorsOrdered
    <2>3. \A q \in Producers : pc[q] = "write" /\ shard[q] = shard[p] => pos[q] < tail(shard[p])
      BY <1>1 DEF OneWriterEach
    <2>4. tail(shard[p]) \notin written[shard[p]]
      BY <1>1 DEF CursorsOrdered
    <2>5. shard'[p] = shard[p] /\ written' = written /\ pos'[p] = tail(shard[p]) /\ pc'[p] = "write"
      BY <1>5
    <2>6. \A q \in Producers : pc'[q] = "write" =>
             pos'[q] < Len(log'[shard'[q]]) /\ pos'[q] \notin written'[shard'[q]]
      <3>1. \A s \in Shards : Len(log'[s]) = IF s = shard[p] THEN tail(s) + 1 ELSE tail(s)
        BY <2>1 DEF tail
      <3>2. pos'[p] < Len(log'[shard'[p]]) /\ pos'[p] \notin written'[shard'[p]]
        BY <1>1, <2>4, <2>5, <3>1
      <3>3. ASSUME NEW q \in Producers \ {p}, pc'[q] = "write"
            PROVE  pos'[q] < Len(log'[shard'[q]]) /\ pos'[q] \notin written'[shard'[q]]
        <4>1. pos[q] < tail(shard[q]) /\ pos[q] \notin written[shard[q]]
          BY <1>1, <1>4, <3>3 DEF OneWriterEach
        <4> QED BY <1>1, <1>4, <2>5, <3>1, <4>1
      <3> QED BY <3>2, <3>3
    <2>7. OneWriterEach'
      BY <1>1, <1>4, <2>3, <2>5, <2>6 DEF OneWriterEach, tail
    <2> QED BY <1>3, <2>2, <2>7 DEF ShardInv
  <1>6. CASE /\ Write(p) /\ log' = log /\ pc'[p] = "count" /\ UNCHANGED <<shard, pos>>
             /\ written'[shard[p]] = written[shard[p]] \cup {pos[p]}
             /\ \A s \in Shards \ {shard[p]} : written'[s] = written[s]
    <2>1. pc[p] = "write"
      BY <1>6 DEF Write
    <2>2. pos[p] < tail(shard[p])
      BY <1>1, <2>1 DEF OneWriterEach
    <2>3. CursorsOrdered'
      BY <1>1, <1>2, <1>6, <2>2 DEF CursorsOrdered, tail
    <2>4. OneWriterEach'
      BY <1>1, <1>4, <1>6, <2>1 DEF OneWriterEach, tail
    <2> QED BY <1>3, <2>3, <2>4 DEF ShardInv
  <1>7. CASE pc'[p] \notin {"write", "count"} /\ UNCHANGED <<log, written>>
    <2>1. CursorsOrdered'
      BY <1>1, <1>2, <1>7 DEF CursorsOrdered, tail
    <2>2. OneWriterEach'
      BY <1>1, <1>4, <1>7 DEF OneWriterEach, tail
    <2> QED BY <1>3, <2>1, <2>2 DEF ShardInv
  <1> QED BY <1>5, <1>6, <1>7, ProducerShard

(* What a consumer's step does to the shards.                              *)
LEMMA ConsumerShard ==
  ASSUME CoreInv, NEW c \in Consumers, ConsumerStep(c)
  PROVE  \/ Dequeue(c) /\ cpos'[c] = head[cshard[c]] /\ cpc'[c] = "handle"
                       /\ head'[cshard[c]] = head[cshard[c]] + 1
                       /\ (\A s \in Shards \ {cshard[c]} : head'[s] = head[s])
                       /\ UNCHANGED <<cshard, freed, handled, consumed>>
         \/ Handle(c) /\ cpc'[c] = "release" /\ UNCHANGED <<cshard, cpos, head, freed, consumed>>
         \/ Release(c) /\ cpc'[c] = "consumed"
                       /\ freed'[cshard[c]] = freed[cshard[c]] \cup {cpos[c]}
                       /\ (\A s \in Shards \ {cshard[c]} : freed'[s] = freed[s])
                       /\ UNCHANGED <<cshard, cpos, head, handled, consumed>>
         \/ /\ ~Holding(c) /\ cpc'[c] \notin {"handle", "release", "consumed"}
            /\ UNCHANGED <<head, freed, handled>>
            /\ CountConsumed(c) \/ (cpc[c] # "consumed" /\ UNCHANGED consumed)
  <1>1. RingType /\ ConsumeType /\ cshard[c] \in Shards
    BY DEF CoreInv, TypeOK, ConsumeType
  <1>2. CASE Dequeue(c)
    BY <1>1, <1>2 DEF Dequeue, CGoto, ConsumeType, RingType, counters
  <1>3. CASE Handle(c)
    BY <1>1, <1>3 DEF Handle, CGoto, ConsumeType, ring, counters
  <1>4. CASE Release(c)
    BY <1>1, <1>4 DEF Release, CGoto, ConsumeType, RingType, counters
  <1>5. CASE WorkerEmpty(c) \/ IdleRunning(c) \/ IdlePending(c)
    BY <1>1, <1>5 DEF WorkerEmpty, IdleRunning, IdlePending, Empty, CGoto, ConsumeType, ring, counters, Holding
  <1>6. CASE DrainNext(c)
    BY <1>1, <1>6 DEF DrainNext, Empty, ring, counters, Holding
  <1>7. CASE DrainReturn(c)
    BY <1>1, <1>7 DEF DrainReturn, Empty, CGoto, ConsumeType, ring, counters, Holding
  <1>8. CASE CountConsumed(c)
    <2>1. cpc[c] = "consumed" /\ cpc'[c] \in {"run", "sated"}
      BY <1>1, <1>8 DEF CountConsumed, CGoto, ConsumeType
    <2> QED BY <1>8, <2>1 DEF CountConsumed, ring, Holding
  <1> QED BY <1>2, <1>3, <1>4, <1>5, <1>6, <1>7, <1>8 DEF ConsumerStep

(* Consumers keep the shards in order.                                     *)
LEMMA ShardConsumer ==
  ASSUME CoreInv, NEW c \in Consumers, ConsumerStep(c)
  PROVE  ShardInv'
  <1>1. /\ CursorsOrdered /\ OneWriterEach /\ OneTakerEach /\ cshard[c] \in Shards
        /\ \A s \in Shards : tail(s) \in Nat /\ head[s] \in Nat /\ commit[s] \in Nat
                             /\ freed[s] \subseteq Nat
        /\ \A d \in Consumers : cshard[d] \in Shards /\ cpos[d] \in Nat
    BY DEF CoreInv, TypeOK, ShardInv, RingType, ConsumeType, tail
  <1>2. UNCHANGED <<pubVars, log, written, commit>>
    BY ConsumerMoves DEF CoreInv
  <1>3. OneWriterEach'
    BY <1>1, <1>2 DEF OneWriterEach, pubVars, tail
  <1>4. \A d \in Consumers \ {c} : cpc'[d] = cpc[d] /\ cshard'[d] = cshard[d] /\ cpos'[d] = cpos[d]
    BY ConsumerMoves DEF CoreInv
  <1> DEFINE s == cshard[c]
  <1>5. CASE Dequeue(c) /\ cpos'[c] = head[s] /\ cpc'[c] = "handle" /\ head'[s] = head[s] + 1
             /\ (\A t \in Shards \ {s} : head'[t] = head[t]) /\ UNCHANGED <<cshard, freed, handled, consumed>>
    <2>1. head[s] < commit[s] /\ cpc[c] = "run"
      BY <1>5 DEF Dequeue
    <2>2. CursorsOrdered'
      BY <1>1, <1>2, <1>5, <2>1 DEF CursorsOrdered, tail
    <2>3. \A d \in Consumers : cpc'[d] \in {"handle", "release"} =>
             cpos'[d] < head'[cshard'[d]] /\ cpos'[d] \notin freed'[cshard'[d]]
      <3>1. cpos'[c] < head'[cshard'[c]] /\ cpos'[c] \notin freed'[cshard'[c]]
        BY <1>1, <1>5 DEF CursorsOrdered
      <3>2. ASSUME NEW d \in Consumers \ {c}, cpc'[d] \in {"handle", "release"}
            PROVE  cpos'[d] < head'[cshard'[d]] /\ cpos'[d] \notin freed'[cshard'[d]]
        <4>1. cpos[d] < head[cshard[d]] /\ cpos[d] \notin freed[cshard[d]]
          BY <1>1, <1>4, <3>2 DEF OneTakerEach, Holding
        <4> QED BY <1>1, <1>4, <1>5, <4>1
      <3> QED BY <3>1, <3>2
    <2>4. \A d \in Consumers \ {c} : Holding(d) /\ cshard[d] = s => cpos[d] < head[s]
      BY <1>1 DEF OneTakerEach
    <2>5. cpos'[c] = head[s] /\ cshard'[c] = s
      BY <1>5
    <2>6. OneTakerEach'
      BY <1>1, <1>4, <2>3, <2>4, <2>5 DEF OneTakerEach, Holding
    <2> QED BY <1>3, <2>2, <2>6 DEF ShardInv
  <1>6. CASE Handle(c) /\ cpc'[c] = "release" /\ UNCHANGED <<cshard, cpos, head, freed, consumed>>
    <2>1. CursorsOrdered'
      BY <1>1, <1>2, <1>6 DEF CursorsOrdered, tail
    <2>2. \A d \in Consumers : Holding(d)' => Holding(d)
      BY <1>4, <1>6 DEF Handle, Holding
    <2>3. OneTakerEach'
      BY <1>1, <1>6, <2>2 DEF OneTakerEach
    <2> QED BY <1>3, <2>1, <2>3 DEF ShardInv
  <1>7. CASE Release(c) /\ cpc'[c] = "consumed" /\ freed'[s] = freed[s] \cup {cpos[c]}
             /\ (\A t \in Shards \ {s} : freed'[t] = freed[t]) /\ UNCHANGED <<cshard, cpos, head, handled>>
    <2>1. Holding(c)
      BY <1>7 DEF Release, Holding
    <2>2. cpos[c] < head[s]
      BY <1>1, <2>1 DEF OneTakerEach
    <2>3. CursorsOrdered'
      BY <1>1, <1>2, <1>7, <2>2 DEF CursorsOrdered, tail
    <2>4. \A d \in Consumers : Holding(d)' => Holding(d) /\ d # c
      BY <1>4, <1>7 DEF Holding
    <2>5. OneTakerEach'
      BY <1>1, <1>7, <2>1, <2>4 DEF OneTakerEach
    <2> QED BY <1>3, <2>3, <2>5 DEF ShardInv
  <1>8. CASE ~Holding(c) /\ cpc'[c] \notin {"handle", "release"} /\ UNCHANGED <<head, freed, handled>>
    <2>1. CursorsOrdered'
      BY <1>1, <1>2, <1>8 DEF CursorsOrdered, tail
    <2>2. OneTakerEach'
      BY <1>1, <1>4, <1>8 DEF OneTakerEach, Holding
    <2> QED BY <1>3, <2>1, <2>2 DEF ShardInv
  <1> QED BY <1>5, <1>6, <1>7, <1>8, ConsumerShard

(* Every step keeps the shards in order.                                   *)
LEMMA ShardStep ==
  ASSUME CoreInv, [Next]_vars
  PROVE  ShardInv'
  <1>1. /\ CursorsOrdered /\ OneWriterEach /\ OneTakerEach /\ PublishType /\ ConsumeType /\ TypeOK
        /\ \A s \in Shards : tail(s) \in Nat /\ head[s] \in Nat /\ commit[s] \in Nat
    BY DEF CoreInv, TypeOK, ShardInv, RingType, tail
  <1>2. UNCHANGED ring => CursorsOrdered'
    BY <1>1 DEF CursorsOrdered, ring, tail
  <1>3. UNCHANGED <<log, written, pubVars>> => OneWriterEach'
    BY <1>1 DEF OneWriterEach, pubVars, tail
  <1>4. UNCHANGED <<head, freed, conVars>> => OneTakerEach'
    BY <1>1 DEF OneTakerEach, Holding, conVars
  <1>5. ASSUME NEW s \in Shards, CommitStep(s) PROVE ShardInv'
    <2>1. /\ commit[s] \in written[s] /\ commit'[s] = commit[s] + 1
          /\ \A t \in Shards \ {s} : commit'[t] = commit[t]
      BY <1>5 DEF CommitStep, Commit, CoreInv, TypeOK, RingType
    <2>2. UNCHANGED <<log, written, head, freed, pubVars, conVars>>
      BY <1>5 DEF CommitStep, Commit
    <2>3. CursorsOrdered'
      BY <1>1, <2>1, <2>2 DEF CursorsOrdered, tail
    <2> QED BY <1>3, <1>4, <2>2, <2>3 DEF ShardInv
  <1>6. ASSUME NEW p \in Producers, NEW s \in Shards, Publish(p, s) PROVE ShardInv'
    <2>1. /\ UNCHANGED <<ring, conVars>> /\ pc'[p] # "write"
          /\ \A q \in Producers \ {p} : pc'[q] = pc[q] /\ shard'[q] = shard[q] /\ pos'[q] = pos[q]
      BY <1>1, <1>6 DEF Publish, Goto, Enter, PublishType
    <2>2. OneWriterEach'
      BY <1>1, <2>1 DEF OneWriterEach, ring, tail
    <2> QED BY <1>2, <1>4, <2>1, <2>2 DEF ShardInv, ring
  <1>7. ASSUME \/ \E d \in Drainers : Drain(d)
               \/ Start
        PROVE  ShardInv'
    <2>1. /\ UNCHANGED <<ring, pubVars, cshard, cpos>>
          /\ \A c \in Consumers : Holding(c)' => Holding(c)
      BY <1>1, <1>7 DEF Drain, Start, CGoto, Enter, ConsumeType, Holding
    <2>2. OneTakerEach'
      BY <1>1, <2>1 DEF OneTakerEach, ring
    <2> QED BY <1>2, <1>3, <2>1, <2>2 DEF ShardInv, ring
  <1>8. ASSUME UNCHANGED traffic PROVE ShardInv'
    BY <1>2, <1>3, <1>4, <1>8 DEF ShardInv, traffic, ring
  <1> QED BY <1>1, <1>5, <1>6, <1>7, <1>8, OtherMoves, ShardProducer, ShardConsumer
-----------------------------------------------------------------------------
(* The core invariant holds in the beginning.                              *)
LEMMA CoreInit == Init => CoreInv
  <1> SUFFICES ASSUME Init PROVE CoreInv
    OBVIOUS
  <1>1. 1 \in Shards /\ <<>> \in Seq(Tickets) /\ <<>> \in Seq(Nat) /\ MaxTickets \in Nat
    BY ShardFacts, EngineAssumption
  <1>2. Consumers \ Drainers \subseteq Shards
    BY ShardFacts DEF Consumers
  <1>3. LifeType /\ CounterType /\ RingType
    BY <1>1 DEF Init, LifeType, CounterType, RingType
  <1>4. PublishType
    BY <1>1 DEF Init, PublishType
  <1>5. ConsumeType /\ QueryType
    BY <1>1, <1>2 DEF Init, ConsumeType, QueryType
  <1>6. TicketInv
    <2>1. Asking = {} /\ issued = 0 /\ \A p \in Producers : pc[p] = "idle"
      BY DEF Init, Asking
    <2> QED BY <1>1, <2>1, FS_EmptySet DEF TicketInv
  <1>7. CursorsOrdered
    <2>1. \A s \in Shards : tail(s) = 0
      BY DEF Init, tail
    <2> QED BY <2>1 DEF Init, CursorsOrdered
  <1>8. OneWriterEach /\ OneTakerEach
    BY DEF Init, OneWriterEach, OneTakerEach, Holding
  <1> QED BY <1>3, <1>4, <1>5, <1>6, <1>7, <1>8 DEF CoreInv, TypeOK, ShardInv

(* Every step keeps it.                                                    *)
LEMMA CoreStep ==
  ASSUME CoreInv, [Next]_vars
  PROVE  CoreInv'
  <1>1. TypeOK /\ TicketInv
    BY DEF CoreInv
  <1>2. TicketInv' /\ ShardInv'
    BY <1>1, TicketStep, ShardStep
  <1>3. UNCHANGED vars => TypeOK'
    BY <1>1
       DEF vars, lifeVars, traffic, ring, counters, pubVars, conVars, queryVars, TypeOK, LifeType,
           CounterType, RingType, PublishType, ConsumeType, QueryType
  <1>4. TypeOK'
    BY <1>1, <1>3, TypeNew, TypeClose, TypeProducer, TypeConsumer, TypeOther DEF Next
  <1> QED BY <1>2, <1>4 DEF CoreInv

(* The core invariant holds in every behaviour.                            *)
LEMMA CoreAlways == Spec => []CoreInv
  BY CoreInit, CoreStep, PTL DEF Spec

(* Publish, the consumers, New, Close, Lookup and Stats stay in their      *)
(* types; in particular a consumer hands only claimed tickets to the       *)
(* handler and no ticket is drawn beyond the bound.                        *)
THEOREM TypeCorrect == Spec => []TypeOK
  <1>1. CoreInv => TypeOK
    BY DEF CoreInv
  <1> QED BY <1>1, CoreAlways, PTL

(* A step of the engine is, on each shard, a step of the bounded commit    *)
(* log or none.                                                            *)
LEMMA LogStep ==
  ASSUME CoreInv, [Next]_vars, NEW s \in Shards
  PROVE  Log(s)!LogNext \/ UNCHANGED Log(s)!logVars
  <1>1. /\ CursorsOrdered /\ OneWriterEach /\ OneTakerEach /\ RingType /\ TypeOK
        /\ \A t \in Shards : tail(t) \in Nat /\ head[t] \in Nat /\ commit[t] \in Nat
    BY DEF CoreInv, TypeOK, ShardInv, RingType, tail
  <1>2. UNCHANGED <<log[s], written[s], commit[s], head[s], freed[s]>> => UNCHANGED Log(s)!logVars
    BY DEF Log!logVars, tail
  <1>3. UNCHANGED ring => UNCHANGED <<log[s], written[s], commit[s], head[s], freed[s]>>
    BY DEF ring
  <1>4. ASSUME NEW p \in Producers, ProducerStep(p)
        PROVE  Log(s)!LogNext \/ UNCHANGED Log(s)!logVars
    <2>1. UNCHANGED <<commit, head, freed>> /\ shard[p] \in Shards /\ pos[p] \in Nat
      BY <1>1, <1>4, ProducerMoves DEF TypeOK, PublishType
    <2>2. CASE Claim(p) /\ tail(shard[p])' = tail(shard[p]) + 1
               /\ (\A t \in Shards \ {shard[p]} : log'[t] = log[t])
               /\ shard' = shard /\ written' = written
      <3>1. CASE s = shard[p]
        <4>1. tail(s) < Capacity \/ tail(s) - Capacity \in freed[s]
          BY <2>2, <3>1 DEF Claim, HasRoom
        <4>2. Log(s)!Claim
          BY <2>1, <2>2, <3>1, <4>1 DEF Log!Claim, tail
        <4> QED BY <4>2 DEF Log!LogNext
      <3>2. CASE s # shard[p]
        BY <1>2, <2>1, <2>2, <3>2
      <3> QED BY <3>1, <3>2
    <2>3. CASE Write(p) /\ log' = log
               /\ written'[shard[p]] = written[shard[p]] \cup {pos[p]}
               /\ (\A t \in Shards \ {shard[p]} : written'[t] = written[t])
      <3>1. CASE s = shard[p]
        <4>1. pos[p] < tail(s) /\ pos[p] \notin written[s]
          BY <2>3, <3>1 DEF Write, CoreInv, ShardInv, OneWriterEach
        <4>2. pos[p] \in 0 .. tail(s) - 1
          BY <1>1, <2>1, <4>1
        <4>3. Log(s)!Publish(pos[p])
          BY <2>1, <2>3, <3>1, <4>1, <4>2 DEF Log!Publish, tail
        <4> QED BY <4>2, <4>3 DEF Log!LogNext
      <3>2. CASE s # shard[p]
        BY <1>2, <2>1, <2>3, <3>2
      <3> QED BY <3>1, <3>2
    <2>4. CASE UNCHANGED <<log, written>>
      BY <1>2, <2>1, <2>4
    <2> QED BY <1>4, <2>2, <2>3, <2>4, ProducerShard
  <1>5. ASSUME NEW c \in Consumers, ConsumerStep(c)
        PROVE  Log(s)!LogNext \/ UNCHANGED Log(s)!logVars
    <2>1. UNCHANGED <<log, written, commit>> /\ cshard[c] \in Shards /\ cpos[c] \in Nat
      BY <1>1, <1>5, ConsumerMoves DEF TypeOK, ConsumeType
    <2>2. CASE Dequeue(c) /\ head'[cshard[c]] = head[cshard[c]] + 1
               /\ (\A t \in Shards \ {cshard[c]} : head'[t] = head[t]) /\ freed' = freed
      <3>1. CASE s = cshard[c]
        <4>1. head[s] < commit[s]
          BY <2>2, <3>1 DEF Dequeue
        <4>2. Log(s)!Take
          BY <2>1, <2>2, <3>1, <4>1 DEF Log!Take, tail
        <4> QED BY <4>2 DEF Log!LogNext
      <3>2. CASE s # cshard[c]
        BY <1>2, <2>1, <2>2, <3>2
      <3> QED BY <3>1, <3>2
    <2>3. CASE Release(c) /\ freed'[cshard[c]] = freed[cshard[c]] \cup {cpos[c]}
               /\ (\A t \in Shards \ {cshard[c]} : freed'[t] = freed[t]) /\ head' = head
      <3>1. CASE s = cshard[c]
        <4>1. cpos[c] < head[s] /\ cpos[c] \notin freed[s]
          BY <1>1, <2>3, <3>1 DEF Release, OneTakerEach, Holding
        <4>2. cpos[c] \in 0 .. head[s] - 1
          BY <1>1, <2>1, <4>1
        <4>3. Log(s)!Free(cpos[c])
          BY <2>1, <2>3, <3>1, <4>1, <4>2 DEF Log!Free, tail
        <4> QED BY <4>2, <4>3 DEF Log!LogNext
      <3>2. CASE s # cshard[c]
        BY <1>2, <2>1, <2>3, <3>2
      <3> QED BY <3>1, <3>2
    <2>4. CASE UNCHANGED <<head, freed>>
      BY <1>2, <2>1, <2>4
    <2> QED BY <1>5, <2>2, <2>3, <2>4, ConsumerShard
  <1>6. ASSUME NEW t \in Shards, CommitStep(t)
        PROVE  Log(s)!LogNext \/ UNCHANGED Log(s)!logVars
    <2>1. /\ commit[t] \in written[t] /\ UNCHANGED <<log, written, head, freed>>
          /\ commit'[t] = commit[t] + 1 /\ \A u \in Shards \ {t} : commit'[u] = commit[u]
      BY <1>1, <1>6 DEF CommitStep, Commit, RingType
    <2>2. CASE s = t
      <3>1. Log(s)!Commit
        BY <2>1, <2>2 DEF Log!Commit, tail
      <3> QED BY <3>1 DEF Log!LogNext
    <2>3. CASE s # t
      BY <1>2, <2>1, <2>3
    <2> QED BY <2>2, <2>3
  <1>7. ASSUME \/ \E p \in Producers, t \in Shards : Publish(p, t)
               \/ \E d \in Drainers : Drain(d)
               \/ Start
               \/ UNCHANGED traffic
        PROVE  UNCHANGED ring
    BY <1>7 DEF Publish, Drain, Start, traffic
  <1> QED BY <1>1, <1>2, <1>3, <1>4, <1>5, <1>6, <1>7, OtherMoves

(* Each shard of the engine implements the bounded commit log: producers,  *)
(* helpers of the commit cursor, workers and callers of Drain together     *)
(* never claim an occupied cell, write or free a position twice, commit an *)
(* unwritten one or take an uncommitted one.                               *)
THEOREM ShardRefinesLog == Spec => ShardIsLog
  <1>1. ASSUME CoreInv, [Next]_vars
        PROVE  [\A s \in Shards : Log(s)!LogNext \/ UNCHANGED Log(s)!logVars]_vars
    BY <1>1, LogStep
  <1> QED BY <1>1, CoreAlways, PTL DEF Spec, ShardIsLog
-----------------------------------------------------------------------------
(* The life of the memory: New, the goroutines, Close.                     *)

(* Nobody is inside the engine.                                            *)
Still == /\ \A p \in Producers : pc[p] = "idle"
         /\ \A c \in Consumers : cpc[c] = "off"
         /\ \A q \in Queries : qpc[q] = "out"

(* What Close waits for.                                                   *)
Ended == ticker = "off" /\ \A w \in Workers : cpc[w] = "done"

InClose(k) == xpc[k] \in {"stop", "signal", "wait", "unmap", "clear"}

(* Before New returns an engine nobody uses it, and a New that failed      *)
(* unmapped everything.                                                    *)
Unborn ==
    /\ phase # "up" => /\ Still /\ ~closed /\ ~nilled /\ lock = {} /\ ticker = "off"
                       /\ \A k \in Closers : xpc[k] = "out"
    /\ phase = "failed" => mem = {}

(* Until a Close is called everything is mapped.                           *)
Open ==
    /\ phase = "up" /\ ~closed => mem = Arenas /\ ~nilled /\ lock = {}
    /\ closed => \E k \in Closers : xpc[k] # "out"

(* One Close holds closeMu; it unmaps nothing before the workers and the   *)
(* ticker have ended.                                                      *)
OneCloses ==
    /\ \A k \in Closers : InClose(k) => lock = {k} /\ closed /\ ~nilled
    /\ \A k \in Closers : xpc[k] \in {"stop", "signal", "wait"} => mem = Arenas
    /\ \A k \in Closers : xpc[k] = "unmap" => Ctl \in mem /\ Ended
    /\ \A k \in Closers : xpc[k] = "clear" => mem = {} /\ Ended
    /\ lock # {} => \E k \in Closers : InClose(k)

(* Afterwards nothing is mapped and every pointer is nil.                  *)
Gone ==
    /\ closed /\ lock = {} => nilled
    /\ nilled => closed /\ mem = {} /\ lock = {} /\ Ended
    /\ \A k \in Closers : xpc[k] = "returned" => nilled

LifeInv == Unborn /\ Open /\ OneCloses /\ Gone

(* The steps of callers and workers happen only when the engine is up, and *)
(* leave its life and a finished worker alone.                             *)
LEMMA WorkMoves ==
  ASSUME TypeOK, LifeInv,
         \/ \E p \in Producers : ProducerStep(p)
         \/ \E s \in Shards : CommitStep(s)
         \/ \E c \in Consumers : ConsumerStep(c)
         \/ \E p \in Producers, s \in Shards : Publish(p, s) /\ UNCHANGED queryVars
         \/ \E d \in Drainers : Drain(d) /\ UNCHANGED queryVars
         \/ QueryStep
         \/ UNCHANGED vars
  PROVE  /\ UNCHANGED lifeVars
         /\ phase # "up" => UNCHANGED <<pc, cpc, qpc>>
         /\ Ended => Ended'
  <1>1. /\ ConsumeType /\ Workers \cap Drainers = {} /\ Workers \subseteq Consumers
        /\ phase # "up" => Still
    BY ShardFacts DEF TypeOK, LifeInv, Unborn, Consumers
  <1>2. UNCHANGED <<lifeVars, cpc>> => (Ended => Ended')
    BY DEF Ended, lifeVars
  <1>3. ASSUME NEW p \in Producers, ProducerStep(p)
        PROVE  UNCHANGED <<lifeVars, cpc>> /\ phase = "up"
    BY <1>1, <1>3, ProducerMoves DEF Still, conVars
  <1>4. ASSUME NEW s \in Shards, CommitStep(s)
        PROVE  UNCHANGED <<lifeVars, pc, cpc, qpc>>
    BY <1>4 DEF CommitStep, Commit, pubVars, conVars, queryVars
  <1>5. ASSUME NEW c \in Consumers, ConsumerStep(c)
        PROVE  UNCHANGED lifeVars /\ phase = "up" /\ (Ended => Ended')
    <2>1. UNCHANGED lifeVars /\ cpc[c] \notin {"off", "done"} /\ \A d \in Consumers \ {c} : cpc'[d] = cpc[d]
      BY <1>5, ConsumerMoves
    <2> QED BY <1>1, <2>1 DEF Still, Ended, lifeVars
  <1>6. ASSUME NEW p \in Producers, NEW s \in Shards, Publish(p, s)
        PROVE  UNCHANGED <<lifeVars, cpc>> /\ phase = "up"
    BY <1>6 DEF Publish, MayCall, conVars
  <1>7. ASSUME NEW d \in Drainers, Drain(d)
        PROVE  UNCHANGED lifeVars /\ phase = "up" /\ (Ended => Ended')
    <2>1. UNCHANGED lifeVars /\ phase = "up" /\ \A w \in Workers : cpc'[w] = cpc[w]
      BY <1>1, <1>7 DEF Drain, MayCall, CGoto, ConsumeType
    <2> QED BY <2>1 DEF Ended, lifeVars
  <1>8. ASSUME QueryStep PROVE UNCHANGED <<lifeVars, pc, cpc>> /\ phase = "up"
    <2>1. UNCHANGED <<lifeVars, pc, cpc>>
      BY <1>8 DEF QueryStep, traffic, pubVars, conVars
    <2>2. ASSUME phase # "up" PROVE \A q \in Queries : qpc[q] = "out"
      BY <1>1, <2>2 DEF Still
    <2>3. phase = "up"
      BY <1>8, <2>2 DEF QueryStep, Lookup, LookupReturn, Stats, StatsLoad, StatsReturn, MayCall, Queries
    <2> QED BY <2>1, <2>3
  <1>9. UNCHANGED vars => UNCHANGED <<lifeVars, pc, cpc, qpc>>
    BY DEF vars, traffic, pubVars, conVars, queryVars
  <1> QED BY <1>2, <1>3, <1>4, <1>5, <1>6, <1>7, <1>8, <1>9

(* New, the ticker and Close keep the life cycle.                          *)
LEMMA LifeNew ==
  ASSUME TypeOK, LifeInv, NewStep \/ TickerStep
  PROVE  LifeInv'
  <1>1. LifeType /\ Unborn /\ Open /\ OneCloses /\ Gone
    BY DEF TypeOK, LifeInv
  <1>2. CASE MapCtl \/ MapShard \/ BuildFails \/ TearDownShard \/ TearDownCtl
    <2>1. /\ phase # "up" /\ phase' # "up" /\ (phase' = "failed" => mem' = {})
          /\ UNCHANGED <<nilled, closed, lock, stop, ticker, xpc, traffic>>
      BY <1>1, <1>2 DEF LifeType, Arenas, MapCtl, MapShard, BuildFails, TearDownShard, TearDownCtl
    <2>2. /\ Still /\ ~closed /\ ~nilled /\ lock = {} /\ ticker = "off"
          /\ \A k \in Closers : xpc[k] = "out"
      BY <1>1, <2>1 DEF Unborn
    <2>3. UNCHANGED <<pc, cpc, qpc>>
      BY <1>2, <2>1 DEF NewStep, TickerStep, TickerStop, traffic, pubVars, conVars, queryVars
    <2> QED BY <2>1, <2>2, <2>3 DEF LifeInv, Unborn, Still, Open, OneCloses, InClose, Gone
  <1>3. CASE Start
    <2>1. /\ phase = "building" /\ phase' = "up" /\ mem = Arenas
          /\ UNCHANGED <<mem, nilled, closed, lock, stop, xpc>>
      BY <1>3 DEF Start
    <2>2. /\ ~closed /\ ~nilled /\ lock = {}
          /\ \A k \in Closers : xpc[k] = "out"
      BY <1>1, <2>1 DEF Unborn
    <2> QED BY <2>1, <2>2 DEF LifeInv, Unborn, Open, OneCloses, InClose, Gone
  <1>4. CASE TickerStep
    <2>1. /\ ticker = "run" /\ ticker' = "off" /\ UNCHANGED <<phase, mem, nilled, closed, lock, xpc, pc, cpc, qpc>>
      BY <1>4 DEF TickerStep, TickerStop, traffic, pubVars, conVars, queryVars
    <2>2. Ended => Ended'
      BY <2>1 DEF Ended
    <2> QED BY <1>1, <2>1, <2>2 DEF LifeInv, Unborn, Still, Open, OneCloses, InClose, Gone
  <1> QED BY <1>2, <1>3, <1>4 DEF NewStep

(* Close keeps the life cycle, however many callers it has.                *)
LEMMA LifeClose ==
  ASSUME TypeOK, LifeInv, NEW k \in Closers, CloserStep(k) \/ CallClose(k)
  PROVE  LifeInv'
  <1>1. /\ Unborn /\ Open /\ OneCloses /\ Gone /\ mem \subseteq Arenas /\ lock \subseteq Closers
        /\ xpc \in [Closers -> {"out", "lock", "stop", "signal", "wait", "unmap", "clear", "returned"}]
    BY DEF TypeOK, LifeInv, LifeType
  <1>2. UNCHANGED <<phase, pc, cpc, ticker>>
    BY DEF CloserStep, CallClose, LockClose, StopRunning, SignalStop, WaitAll, UnmapShard, UnmapCtl, ClearPointers,
           traffic, pubVars, conVars
  <1>3. phase = "up"
    BY <1>1 DEF Unborn, CloserStep, CallClose, LockClose, StopRunning, SignalStop, WaitAll, UnmapShard, UnmapCtl, ClearPointers
  <1>4. Unborn' /\ (Ended => Ended')
    BY <1>2, <1>3 DEF Unborn, Ended
  <1>5. SUFFICES Open' /\ OneCloses' /\ Gone'
    BY <1>4 DEF LifeInv
  <1>6. \A j \in Closers \ {k} : xpc'[j] = xpc[j]
    BY <1>1 DEF CloserStep, CallClose, LockClose, StopRunning, SignalStop, WaitAll, UnmapShard, UnmapCtl, ClearPointers, XGoto
  <1>7. CASE CallClose(k) \/ SignalStop(k) \/ StopRunning(k)
    <2>1. /\ UNCHANGED <<mem, nilled, closed, lock>>
          /\ \/ xpc[k] = "out" /\ xpc'[k] = "lock"
             \/ xpc[k] = "signal" /\ xpc'[k] = "wait"
             \/ xpc[k] = "stop" /\ xpc'[k] = "signal"
      BY <1>1, <1>7 DEF CallClose, SignalStop, StopRunning, XGoto
    <2>2. \A j \in Closers : ((InClose(j)' <=> InClose(j)) /\ xpc'[j] # "out") \/ xpc'[j] = xpc[j]
      BY <1>6, <2>1 DEF InClose
    <2> QED BY <1>1, <1>2, <1>3, <1>4, <1>6, <2>1, <2>2 DEF Open, OneCloses, InClose, Gone
  <1>8. CASE LockClose(k)
    <2>1. UNCHANGED <<mem, nilled>> /\ xpc[k] = "lock" /\ lock = {}
      BY <1>8 DEF LockClose
    <2>2. \A j \in Closers : ~InClose(j)
      BY <1>1, <2>1 DEF OneCloses
    <2>3. CASE closed
      <3>1. xpc'[k] = "returned" /\ UNCHANGED <<lock, closed>> /\ nilled
        BY <1>1, <1>8, <2>1, <2>3 DEF LockClose, XGoto, Gone
      <3> QED BY <1>1, <1>2, <1>3, <1>4, <1>6, <2>1, <2>2, <2>3, <3>1 DEF Open, OneCloses, InClose, Gone
    <2>4. CASE ~closed
      <3>1. xpc'[k] = "stop" /\ lock' = {k} /\ closed' /\ mem = Arenas /\ ~nilled
        BY <1>1, <1>3, <1>8, <2>4 DEF LockClose, XGoto, Open
      <3> QED BY <1>1, <1>2, <1>3, <1>4, <1>6, <2>1, <2>2, <3>1 DEF Open, OneCloses, InClose, Gone
    <2> QED BY <2>3, <2>4
  <1>9. CASE WaitAll(k)
    <2>1. UNCHANGED <<mem, nilled, closed, lock>> /\ xpc[k] = "wait" /\ xpc'[k] = "unmap" /\ Ended
      BY <1>1, <1>9 DEF WaitAll, XGoto, Ended
    <2>2. mem = Arenas /\ Ctl \in Arenas
      BY <1>1, <2>1, ShardFacts DEF OneCloses
    <2>3. \A j \in Closers : ((InClose(j)' <=> InClose(j)) /\ xpc'[j] # "out") \/ xpc'[j] = xpc[j]
      BY <1>6, <2>1 DEF InClose
    <2> QED BY <1>1, <1>2, <1>3, <1>4, <1>6, <2>1, <2>2, <2>3 DEF Open, OneCloses, InClose, Gone
  <1>10. CASE UnmapShard(k) \/ UnmapCtl(k)
    <2>1. xpc[k] = "unmap" /\ lock = {k} /\ closed /\ ~nilled /\ Ctl \in mem /\ Ended
      BY <1>1, <1>10 DEF UnmapShard, UnmapCtl, ClearPointers, OneCloses, InClose
    <2>2. \A j \in Closers : InClose(j) => j = k
      BY <1>1, <2>1 DEF OneCloses
    <2>3. CASE UnmapShard(k)
      <3>1. UNCHANGED <<nilled, closed, lock, xpc>> /\ mem' = mem \ {Min(mem \cap Shards)} /\ mem \cap Shards # {}
        BY <2>3 DEF UnmapShard
      <3>2. Ctl # Min(mem \cap Shards)
        <4>1. mem \cap Shards \subseteq Nat /\ mem \cap Shards # {}
          BY <3>1, ShardFacts
        <4>2. Min(mem \cap Shards) \in mem \cap Shards
          BY <4>1, MinOfNaturals
        <4> QED BY <4>2, ShardFacts
      <3> QED BY <1>1, <1>2, <1>3, <1>4, <2>1, <2>2, <3>1, <3>2 DEF Open, OneCloses, InClose, Gone
    <2>4. CASE UnmapCtl(k)
      <3>1. mem' = {} /\ UNCHANGED <<nilled, lock, closed>> /\ xpc'[k] = "clear"
        BY <1>1, <2>4 DEF UnmapCtl, XGoto
      <3> QED BY <1>1, <1>2, <1>3, <1>4, <1>6, <2>1, <2>2, <3>1 DEF Open, OneCloses, InClose, Gone
    <2> QED BY <1>10, <2>3, <2>4
  <1>11. CASE ClearPointers(k)
    <2>1. /\ xpc[k] = "clear" /\ xpc'[k] = "returned" /\ closed /\ mem = {} /\ Ended
          /\ nilled' /\ lock' = {} /\ UNCHANGED <<closed, mem>>
      BY <1>1, <1>11 DEF ClearPointers, XGoto, OneCloses, InClose
    <2>2. \A j \in Closers : InClose(j) => j = k
      BY <1>1, <2>1 DEF OneCloses, InClose
    <2> QED BY <1>1, <1>2, <1>3, <1>4, <1>6, <2>1, <2>2 DEF Open, OneCloses, InClose, Gone
  <1> QED BY <1>7, <1>8, <1>9, <1>10, <1>11 DEF CloserStep

(* The life cycle begins as it should.                                     *)
LEMMA LifeInit == Init => LifeInv
  BY DEF Init, LifeInv, Unborn, Still, Open, OneCloses, InClose, Gone

(* Every step keeps it.                                                    *)
LEMMA LifeStep ==
  ASSUME TypeOK, LifeInv, [Next]_vars
  PROVE  LifeInv'
  <1>1. ASSUME UNCHANGED lifeVars, phase # "up" => UNCHANGED <<pc, cpc, qpc>>, Ended => Ended'
        PROVE  LifeInv'
    <2>1. Unborn /\ Open /\ OneCloses /\ Gone
      BY DEF LifeInv
    <2>2. UNCHANGED <<phase, mem, nilled, closed, lock, ticker, xpc>>
      BY <1>1 DEF lifeVars
    <2>3. Unborn'
      BY <1>1, <2>1, <2>2 DEF Unborn, Still
    <2>4. Open'
      BY <2>1, <2>2 DEF Open
    <2>5. OneCloses' /\ Gone'
      BY <1>1, <2>1, <2>2 DEF OneCloses, InClose, Gone
    <2> QED BY <2>3, <2>4, <2>5 DEF LifeInv
  <1>2. CASE NewStep \/ TickerStep
    BY <1>2, LifeNew
  <1>3. CASE \E k \in Closers : CloserStep(k) \/ (CallClose(k) /\ UNCHANGED queryVars)
    BY <1>3, LifeClose
  <1>4. CASE \/ \E p \in Producers : ProducerStep(p)
             \/ \E s \in Shards : CommitStep(s)
             \/ \E c \in Consumers : ConsumerStep(c)
             \/ \E p \in Producers, s \in Shards : Publish(p, s) /\ UNCHANGED queryVars
             \/ \E d \in Drainers : Drain(d) /\ UNCHANGED queryVars
             \/ QueryStep
             \/ UNCHANGED vars
    BY <1>1, <1>4, WorkMoves
  <1> QED BY <1>2, <1>3, <1>4 DEF Next, Call

(* The life cycle holds in every behaviour.                                *)
LEMMA LifeAlways == Spec => [](CoreInv /\ LifeInv)
  <1>1. ASSUME CoreInv /\ LifeInv, [Next]_vars PROVE LifeInv'
    BY <1>1, LifeStep DEF CoreInv
  <1> QED BY <1>1, LifeInit, CoreAlways, PTL DEF Spec

(* No arena outlives its engine: a New that fails half way unmaps what it  *)
(* had mapped, and when a Close returns, to whichever of several callers,  *)
(* every arena is unmapped.                                                *)
THEOREM NoArenaLeaks == Spec => []NothingLeaks
  <1>1. CoreInv /\ LifeInv => NothingLeaks
    BY DEF LifeInv, Unborn, Gone, NothingLeaks
  <1> QED BY <1>1, LifeAlways, PTL
-----------------------------------------------------------------------------
(* A caller that joins its goroutines before Close has none inside the     *)
(* engine from then on; a late call has met nil.                           *)
Joins ==
    (\E k \in Closers : xpc[k] # "out") =>
        /\ \A p \in Producers : pc[p] \in {"idle", "faulted"}
        /\ \A d \in Drainers : cpc[d] \in {"off", "faulted"}
        /\ \A q \in Queries : qpc[q] # "in"

(* Joins is kept when the caller joins.                                    *)
LEMMA JoinsStep ==
  ASSUME JoinFirst, TypeOK, LifeInv, Joins, [Next]_vars
  PROVE  Joins'
  <1>1. /\ Unborn /\ Gone /\ PublishType /\ ConsumeType /\ QueryType /\ LifeType
        /\ Workers \cap Drainers = {} /\ Drainers \subseteq Consumers
    BY ShardFacts DEF TypeOK, LifeInv, Consumers
  <1> DEFINE Begun == \E k \in Closers : xpc[k] # "out"
             In == /\ \A p \in Producers : pc[p] \in {"idle", "faulted"}
                   /\ \A d \in Drainers : cpc[d] \in {"off", "faulted"}
                   /\ \A q \in Queries : qpc[q] # "in"
  <1>2. Joins <=> (Begun => In)
    BY DEF Joins
  <1>3. Late => nilled
    BY <1>1 DEF Late, Gone
  <1>4. ASSUME UNCHANGED xpc, Begun => UNCHANGED <<pc, cpc, qpc>> PROVE Joins'
    BY <1>2, <1>4 DEF Joins
  <1>5. ASSUME NEW p \in Producers, ProducerStep(p) PROVE Joins'
    <2>1. UNCHANGED xpc /\ pc[p] \notin {"idle", "faulted"}
      BY <1>5, ProducerMoves DEF lifeVars
    <2> QED BY <1>2, <1>4, <2>1
  <1>6. ASSUME NEW c \in Consumers, ConsumerStep(c) PROVE Joins'
    <2>1. /\ UNCHANGED <<xpc, pc, qpc>> /\ cpc[c] \notin {"off", "faulted"}
          /\ \A d \in Consumers \ {c} : cpc'[d] = cpc[d]
      BY <1>6, ConsumerMoves DEF lifeVars, pubVars, queryVars
    <2>2. Begun => c \notin Drainers
      BY <1>2, <2>1
    <2> QED BY <1>1, <1>2, <2>1, <2>2 DEF Joins
  <1>7. ASSUME NEW p \in Producers, NEW s \in Shards, Publish(p, s), UNCHANGED queryVars PROVE Joins'
    <2>1. /\ UNCHANGED <<xpc, cpc, qpc>> /\ pc'[p] = Enter("call")
          /\ \A q \in Producers \ {p} : pc'[q] = pc[q]
      BY <1>1, <1>7 DEF Publish, Goto, PublishType, lifeVars, conVars, queryVars
    <2>2. Begun => pc'[p] = "faulted"
      BY <1>3, <1>7, <2>1 DEF Publish, MayCall, Enter
    <2> QED BY <1>2, <2>1, <2>2 DEF Joins
  <1>8. ASSUME NEW d \in Drainers, Drain(d), UNCHANGED queryVars PROVE Joins'
    <2>1. /\ UNCHANGED <<xpc, pc, qpc>> /\ cpc'[d] = Enter("run")
          /\ \A c \in Consumers \ {d} : cpc'[c] = cpc[c]
      BY <1>1, <1>8 DEF Drain, CGoto, ConsumeType, lifeVars, pubVars, queryVars
    <2>2. Begun => cpc'[d] = "faulted"
      BY <1>3, <1>8, <2>1 DEF Drain, MayCall, Enter
    <2> QED BY <1>1, <1>2, <2>1, <2>2 DEF Joins
  <1>9. ASSUME QueryStep PROVE Joins'
    <2>1. UNCHANGED <<xpc, pc, cpc>>
      BY <1>9 DEF QueryStep, lifeVars, traffic, pubVars, conVars
    <2>2. ASSUME Begun, NEW q \in Queries PROVE qpc'[q] # "in"
      <3>1. qpc[q] # "in" /\ \A r \in Queries : qpc[r] # "in"
        BY <1>2, <2>2
      <3>2. ASSUME NEW r \in Readers, NEW s \in Shards, Lookup(r, s) PROVE qpc'[q] # "in"
        BY <1>1, <1>3, <2>2, <3>1, <3>2 DEF Lookup, MayCall, QGoto, Enter, QueryType
      <3>3. ASSUME NEW o \in Observers, Stats(o) PROVE qpc'[q] # "in"
        BY <1>1, <1>3, <2>2, <3>1, <3>3 DEF Stats, QGoto, Enter, QueryType
      <3>4. ASSUME NEW r \in Queries,
                   LookupReturn(r) \/ StatsLoad(r) \/ StatsReturn(r)
            PROVE  FALSE
        BY <3>1, <3>4 DEF LookupReturn, StatsLoad, StatsReturn
      <3> QED BY <1>9, <3>2, <3>3, <3>4 DEF QueryStep, Queries
    <2> QED BY <1>2, <2>1, <2>2 DEF Joins
  <1>10. ASSUME NEW k \in Closers, CallClose(k), UNCHANGED queryVars PROVE Joins'
    <2>1. UNCHANGED <<pc, cpc, qpc>> /\ Joined
      BY <1>10 DEF CallClose, traffic, pubVars, conVars, queryVars
    <2> QED BY <2>1 DEF Joins, Joined
  <1>11. ASSUME NEW k \in Closers, CloserStep(k) PROVE Joins'
    <2>1. UNCHANGED <<pc, cpc, qpc>> /\ xpc[k] # "out"
      BY <1>11 DEF CloserStep, LockClose, StopRunning, SignalStop, WaitAll, UnmapShard, UnmapCtl, ClearPointers, traffic,
                   pubVars, conVars, queryVars
    <2> QED BY <1>2, <2>1 DEF Joins
  <1>12. ASSUME NewStep PROVE Joins'
    <2>1. phase # "up" /\ UNCHANGED xpc
      BY <1>12 DEF NewStep, MapCtl, MapShard, BuildFails, TearDownShard, TearDownCtl, Start
    <2>2. ~Begun
      BY <1>1, <2>1 DEF Unborn
    <2> QED BY <1>4, <2>1, <2>2
  <1>13. TickerStep => UNCHANGED <<xpc, pc, cpc, qpc>>
    BY DEF TickerStep, TickerStop, traffic, pubVars, conVars, queryVars
  <1>14. \A s \in Shards : CommitStep(s) => UNCHANGED <<xpc, pc, cpc, qpc>>
    BY DEF CommitStep, Commit, lifeVars, pubVars, conVars, queryVars
  <1>15. UNCHANGED vars => UNCHANGED <<xpc, pc, cpc, qpc>>
    BY DEF vars, lifeVars, traffic, pubVars, conVars, queryVars
  <1> QED
    BY <1>4, <1>5, <1>6, <1>7, <1>8, <1>9, <1>10, <1>11, <1>12, <1>13, <1>14, <1>15 DEF Next, Call

(* Joins holds in every behaviour of a caller that joins.                  *)
LEMMA JoinsAlways ==
  ASSUME JoinFirst PROVE Spec => [](CoreInv /\ LifeInv /\ Joins)
  <1>1. Init => Joins
    BY DEF Init, Joins
  <1>2. ASSUME CoreInv /\ LifeInv, Joins, [Next]_vars PROVE Joins'
    BY <1>2, JoinsStep DEF CoreInv
  <1> QED BY <1>1, <1>2, LifeAlways, PTL DEF Spec

(* What the workers and the ticker touch is mapped, whoever joins.         *)
LEMMA WorkersSafe ==
  ASSUME TypeOK, LifeInv
  PROVE  /\ \A w \in Workers : CNeeds(w) \subseteq mem
         /\ ticker = "run" => Ctl \in mem
  <1>1. Unborn /\ Open /\ OneCloses /\ Gone /\ Workers \subseteq Consumers
    BY DEF LifeInv, Consumers
  <1>2. \A c \in Consumers : CNeeds(c) \subseteq Arenas
    <2>1. \A c \in Consumers : {Ctl, cshard[c]} \subseteq Arenas
      BY ShardFacts DEF TypeOK, ConsumeType
    <2> QED BY <2>1 DEF CNeeds
  <1>3. \A c \in Consumers : cpc[c] \in {"off", "done", "faulted"} => CNeeds(c) = {}
    BY DEF CNeeds
  <1>4. \/ phase # "up" /\ Still /\ ticker = "off"
        \/ mem = Arenas
        \/ Ended
    BY <1>1 DEF Unborn, Open, OneCloses, InClose, Gone
  <1> QED BY <1>1, <1>2, <1>3, <1>4, ShardFacts DEF Still, Ended

(* When the caller joins its goroutines before Close, no goroutine ever    *)
(* touches an arena that is not mapped: not the workers and the ticker     *)
(* that Close waits for, not a producer or a reader that Close did not,    *)
(* and not a late call, which meets nil.                                   *)
THEOREM MemoryIsSafe ==
  ASSUME JoinFirst PROVE Spec => []MemorySafe
  <1>1. ASSUME CoreInv /\ LifeInv /\ Joins PROVE MemorySafe
    <2>1. TypeOK /\ Unborn /\ Open /\ Consumers = Workers \cup Drainers
      BY <1>1 DEF CoreInv, LifeInv, Consumers
    <2>2. /\ \A p \in Producers : Needs(p) \subseteq Arenas /\ (pc[p] \in {"idle", "faulted"} => Needs(p) = {})
          /\ \A c \in Consumers : CNeeds(c) \subseteq Arenas /\ (cpc[c] \in {"off", "faulted"} => CNeeds(c) = {})
          /\ \A q \in Queries : QNeeds(q) \subseteq Arenas /\ (qpc[q] # "in" => QNeeds(q) = {})
      <3>1. /\ \A p \in Producers : {Ctl, shard[p]} \subseteq Arenas
            /\ \A c \in Consumers : {Ctl, cshard[c]} \subseteq Arenas
            /\ \A q \in Queries : {Ctl, qshard[q]} \subseteq Arenas
        BY <2>1, ShardFacts DEF TypeOK, PublishType, ConsumeType, QueryType
      <3>2. ASSUME NEW p \in Producers PROVE Needs(p) \subseteq Arenas
        BY <3>1, <3>2 DEF Needs
      <3>3. ASSUME NEW c \in Consumers PROVE CNeeds(c) \subseteq Arenas
        BY <3>1, <3>3 DEF CNeeds
      <3>4. ASSUME NEW q \in Queries PROVE QNeeds(q) \subseteq Arenas
        BY <3>1, <3>4 DEF QNeeds
      <3>5. \A p \in Producers : pc[p] \in {"idle", "faulted"} => Needs(p) = {}
        BY DEF Needs
      <3>6. \A c \in Consumers : cpc[c] \in {"off", "faulted"} => CNeeds(c) = {}
        BY DEF CNeeds
      <3>7. \A q \in Queries : qpc[q] # "in" => QNeeds(q) = {}
        BY DEF QNeeds
      <3> QED BY <3>2, <3>3, <3>4, <3>5, <3>6, <3>7
    <2>3. \/ phase # "up" /\ Still
          \/ mem = Arenas
          \/ \E k \in Closers : xpc[k] # "out"
      BY <2>1 DEF Unborn, Open
    <2>4. /\ \A p \in Producers : Needs(p) \subseteq mem
          /\ \A d \in Drainers : CNeeds(d) \subseteq mem
          /\ \A q \in Queries : QNeeds(q) \subseteq mem
      BY <1>1, <2>1, <2>2, <2>3 DEF Still, Joins
    <2> QED BY <1>1, <2>1, <2>4, WorkersSafe DEF MemorySafe
  <1> QED BY <1>1, JoinsAlways, PTL
-----------------------------------------------------------------------------
(* What was taken from a shard reaches the handler.                        *)

(* The handler of shard s has seen the ticket t.                           *)
Seen(s, t) == \E j \in 1 .. Len(handled[s]) : handled[s][j] = t

(* Consumer c is about to hand position i of shard s to the handler.       *)
Carries(c, s, i) == cpc[c] = "handle" /\ cshard[c] = s /\ cpos[c] = i

TakenIsHandled ==
    \A s \in Shards : \A i \in 1 .. head[s] :
        Seen(s, log[s][i]) \/ \E c \in Consumers : Carries(c, s, i - 1)

(* The handler never forgets; a Handle adds what its consumer carries.     *)
LEMMA SeenGrows ==
  ASSUME CoreInv, NEW c \in Consumers, ConsumerStep(c)
  PROVE  /\ \A s \in Shards, t \in Tickets : Seen(s, t) => Seen(s, t)'
         /\ Handle(c) => /\ \E j \in 1 .. Len(handled'[cshard[c]]) :
                               handled'[cshard[c]][j] = log[cshard[c]][cpos[c] + 1]
                         /\ \A s \in Shards \ {cshard[c]} : handled'[s] = handled[s]
  <1>1. ConsumeType /\ cshard[c] \in Shards
    BY DEF CoreInv, TypeOK, ConsumeType
  <1>2. UNCHANGED handled => \A s \in Shards, t \in Tickets : Seen(s, t) => Seen(s, t)'
    BY DEF Seen
  <1>3. CASE Handle(c)
    <2> DEFINE q == handled[cshard[c]]
               x == log[cshard[c]][cpos[c] + 1]
    <2>1. q \in Seq(Tickets) /\ handled'[cshard[c]] = Append(q, x)
          /\ \A s \in Shards \ {cshard[c]} : handled'[s] = handled[s]
      BY <1>1, <1>3 DEF Handle, ConsumeType
    <2>2. /\ Len(Append(q, x)) = Len(q) + 1 /\ Len(q) \in Nat
          /\ Append(q, x)[Len(q) + 1] = x
          /\ \A j \in 1 .. Len(q) : Append(q, x)[j] = q[j]
      <3> HIDE DEF x
      <3> QED BY <2>1
    <2>3. \E j \in 1 .. Len(handled'[cshard[c]]) : handled'[cshard[c]][j] = x
      <3> HIDE DEF x, q
      <3>1. Len(q) + 1 \in 1 .. Len(Append(q, x))
        BY <2>2
      <3> QED BY <2>1, <2>2, <3>1
    <2>4. ASSUME NEW s \in Shards, NEW t \in Tickets, Seen(s, t) PROVE Seen(s, t)'
      <3>1. CASE s = cshard[c]
        <4>1. PICK j \in 1 .. Len(q) : q[j] = t
          BY <2>4, <3>1 DEF Seen
        <4>2. j \in 1 .. Len(Append(q, x)) /\ Append(q, x)[j] = t
          <5> HIDE DEF x, q
          <5> QED BY <2>2, <4>1
        <4>3. j \in 1 .. Len(handled'[s]) /\ handled'[s][j] = t
          BY <2>1, <3>1, <4>2
        <4> QED BY <4>3 DEF Seen
      <3>2. CASE s # cshard[c]
        BY <2>1, <2>4, <3>2 DEF Seen
      <3> QED BY <3>1, <3>2
    <2> QED BY <2>1, <2>3, <2>4
  <1>4. CASE Dequeue(c) \/ Release(c) \/ (~Holding(c) /\ UNCHANGED handled)
    <2>1. UNCHANGED handled
      BY <1>4 DEF Dequeue, Release
    <2>2. ~Handle(c)
      BY <1>4 DEF Handle, Dequeue, Release, Holding
    <2> QED BY <1>2, <2>1, <2>2
  <1> QED BY <1>3, <1>4, ConsumerShard

(* Every step keeps TakenIsHandled.                                        *)
LEMMA TakenStep ==
  ASSUME CoreInv, LifeInv, TakenIsHandled, [Next]_vars
  PROVE  TakenIsHandled'
  <1>1. /\ TypeOK /\ RingType /\ ConsumeType /\ CursorsOrdered
        /\ \A s \in Shards : head[s] \in Nat /\ commit[s] \in Nat /\ tail(s) \in Nat
                             /\ log[s] \in Seq(Tickets) /\ head[s] <= tail(s)
    BY DEF CoreInv, TypeOK, ShardInv, RingType, CursorsOrdered, tail
  <1>2. \A s \in Shards : \A i \in 1 .. head[s] : i \in 1 .. Len(log[s]) /\ log[s][i] \in Tickets
    BY <1>1 DEF tail
  <1>3. ASSUME UNCHANGED <<head, handled>>,
               \A s \in Shards : \A i \in 1 .. head[s] : log'[s][i] = log[s][i],
               \A c \in Consumers, s \in Shards, i \in Nat : Carries(c, s, i) => Carries(c, s, i)'
        PROVE  TakenIsHandled'
    <2>1. \A s \in Shards : \A i \in 1 .. head[s] : i - 1 \in Nat
      BY <1>1
    <2>2. ASSUME NEW s \in Shards, NEW i \in 1 .. head[s]
          PROVE  Seen(s, log[s][i])' \/ \E c \in Consumers : Carries(c, s, i - 1)'
      <3>1. CASE Seen(s, log[s][i])
        BY <1>3, <2>2, <3>1 DEF Seen
      <3>2. CASE \E c \in Consumers : Carries(c, s, i - 1)
        BY <1>3, <2>1, <2>2, <3>2
      <3> QED BY <3>1, <3>2 DEF TakenIsHandled
    <2> QED BY <1>3, <2>2 DEF TakenIsHandled
  <1>4. ASSUME UNCHANGED conVars, UNCHANGED head,
               \A s \in Shards : \A i \in 1 .. head[s] : log'[s][i] = log[s][i]
        PROVE  TakenIsHandled'
    BY <1>3, <1>4 DEF conVars, Carries
  <1>5. ASSUME NEW p \in Producers, ProducerStep(p) PROVE TakenIsHandled'
    <2>1. UNCHANGED <<conVars, head>> /\ shard[p] \in Shards
      BY <1>1, <1>5, ProducerMoves DEF TypeOK, PublishType
    <2>2. CASE Claim(p) /\ \A s \in Shards \ {shard[p]} : log'[s] = log[s]
      <3>1. log'[shard[p]] = Append(log[shard[p]], ticket[p])
        BY <1>1, <2>1, <2>2 DEF Claim, RingType
      <3>2. \A i \in 1 .. Len(log[shard[p]]) : log'[shard[p]][i] = log[shard[p]][i]
        BY <1>1, <2>1, <3>1
      <3> QED BY <1>2, <1>4, <2>1, <2>2, <3>2
    <2>3. CASE UNCHANGED log
      BY <1>4, <2>1, <2>3
    <2> QED BY <1>5, <2>2, <2>3, ProducerShard
  <1>6. ASSUME NEW c \in Consumers, ConsumerStep(c) PROVE TakenIsHandled'
    <2> DEFINE s == cshard[c]
    <2>1. /\ s \in Shards /\ cpos[c] \in Nat /\ log' = log
          /\ \A d \in Consumers \ {c} : cpc'[d] = cpc[d] /\ cshard'[d] = cshard[d] /\ cpos'[d] = cpos[d]
      BY <1>1, <1>6, ConsumerMoves DEF ConsumeType
    <2>2. CASE Dequeue(c) /\ cpos'[c] = head[s] /\ cpc'[c] = "handle" /\ head'[s] = head[s] + 1
               /\ (\A u \in Shards \ {s} : head'[u] = head[u]) /\ UNCHANGED <<cshard, freed, handled, consumed>>
      <3>1. cpc[c] = "run" /\ cshard'[c] = s
        BY <2>2 DEF Dequeue
      <3>2. ASSUME NEW u \in Shards, NEW i \in 1 .. head'[u]
            PROVE  Seen(u, log[u][i])' \/ \E d \in Consumers : Carries(d, u, i - 1)'
        <4>1. CASE u = s /\ i = head[s] + 1
          <5>1. i - 1 = head[s]
            <6>1. head[s] \in Nat /\ i = head[s] + 1
              BY <1>1, <2>1, <4>1
            <6> QED BY <6>1
          <5>2. Carries(c, u, i - 1)'
            BY <2>2, <3>1, <4>1, <5>1 DEF Carries
          <5> QED BY <5>2
        <4>2. CASE ~(u = s /\ i = head[s] + 1)
          <5>1. i \in 1 .. head[u]
            BY <1>1, <2>1, <2>2, <3>2, <4>2
          <5>2. Seen(u, log[u][i]) \/ \E d \in Consumers : Carries(d, u, i - 1)
            BY <5>1 DEF TakenIsHandled
          <5>3. Seen(u, log[u][i]) => Seen(u, log[u][i])'
            BY <2>1, <2>2 DEF Seen
          <5>4. \A d \in Consumers : Carries(d, u, i - 1) => Carries(d, u, i - 1)'
            BY <2>1, <3>1 DEF Carries
          <5> QED BY <5>2, <5>3, <5>4
        <4> QED BY <4>1, <4>2
      <3> QED BY <3>2 DEF TakenIsHandled
    <2>3. CASE Handle(c) /\ UNCHANGED <<cshard, cpos, head, freed, consumed>>
      <3>1. /\ \E j \in 1 .. Len(handled'[s]) : handled'[s][j] = log[s][cpos[c] + 1]
            /\ \A u \in Shards, t \in Tickets : Seen(u, t) => Seen(u, t)'
        BY <1>6, <2>3, SeenGrows
      <3>2. ASSUME NEW u \in Shards, NEW i \in 1 .. head[u]
            PROVE  Seen(u, log[u][i])' \/ \E d \in Consumers : Carries(d, u, i - 1)'
        <4>1. CASE Carries(c, u, i - 1)
          <5>1. u = s /\ cpos[c] + 1 = i
            BY <1>1, <2>1, <4>1 DEF Carries
          <5>2. \E j \in 1 .. Len(handled'[u]) : handled'[u][j] = log'[u][i]
            BY <2>1, <3>1, <5>1
          <5> QED BY <5>2 DEF Seen
        <4>2. CASE Seen(u, log[u][i])
          <5>1. \E j \in 1 .. Len(handled'[u]) : handled'[u][j] = log[u][i]
            BY <1>2, <3>1, <3>2, <4>2 DEF Seen
          <5> QED BY <2>1, <5>1 DEF Seen
        <4>3. CASE \E d \in Consumers \ {c} : Carries(d, u, i - 1)
          BY <2>1, <4>3 DEF Carries
        <4> QED BY <4>1, <4>2, <4>3 DEF TakenIsHandled
      <3> QED BY <2>3, <3>2 DEF TakenIsHandled
    <2>4. CASE (Release(c) \/ ~Holding(c)) /\ UNCHANGED <<head, handled>>
      <3>1. cpc[c] # "handle"
        BY <2>4 DEF Release, Holding
      <3>2. \A d \in Consumers, u \in Shards, i \in Nat : Carries(d, u, i) => Carries(d, u, i)'
        BY <2>1, <3>1 DEF Carries
      <3> QED BY <1>3, <2>1, <2>4, <3>2
    <2> HIDE DEF s
    <2> QED BY <1>6, <2>2, <2>3, <2>4, ConsumerShard DEF s
  <1>7. ASSUME NEW s \in Shards, CommitStep(s) PROVE TakenIsHandled'
    BY <1>4, <1>7 DEF CommitStep, Commit
  <1>8. ASSUME NEW p \in Producers, NEW s \in Shards, Publish(p, s) PROVE TakenIsHandled'
    BY <1>4, <1>8 DEF Publish, ring
  <1>9. ASSUME \/ \E d \in Drainers : Drain(d)
               \/ Start /\ \A c \in Consumers : cpc[c] = "off"
        PROVE  TakenIsHandled'
    <2>1. UNCHANGED <<ring, cshard, cpos, handled>>
      BY <1>9 DEF Drain, Start
    <2>2. \A c \in Consumers : cpc[c] = "handle" => cpc'[c] = "handle"
      BY <1>1, <1>9 DEF Drain, Start, CGoto, ConsumeType
    <2>3. \A d \in Consumers, u \in Shards, i \in Nat : Carries(d, u, i) => Carries(d, u, i)'
      BY <2>1, <2>2 DEF Carries
    <2> QED BY <1>3, <2>1, <2>3 DEF ring
  <1>10. ASSUME UNCHANGED traffic PROVE TakenIsHandled'
    BY <1>4, <1>10 DEF traffic, ring
  <1>11. Start => \A c \in Consumers : cpc[c] = "off"
    BY DEF Start, LifeInv, Unborn, Still
  <1> QED BY <1>1, <1>5, <1>6, <1>7, <1>8, <1>9, <1>10, <1>11, OtherMoves
-----------------------------------------------------------------------------
(* A worker that has ended has drained its shard.                          *)

(* The running flag is set before the first shard is mapped and cleared by *)
(* Close only; a worker looks at its pending records after it saw the flag *)
(* cleared, and leaves when there are none.                                *)
FlagInv ==
    /\ phase = "building" /\ mem # {} => running
    /\ phase = "up" /\ ~running => \E k \in Closers : xpc[k] # "out"
    /\ \A w \in Workers : cshard[w] = w
    /\ \A w \in Workers : cpc[w] \in {"pending", "done"} => phase = "up" /\ ~running

Emptied == \A w \in Workers : cpc[w] = "done" => head[w] = tail(w)

(* FlagInv holds in the beginning.                                         *)
LEMMA FlagInit == Init => FlagInv /\ Emptied
  BY ShardFacts DEF Init, FlagInv, Emptied, Consumers

(* Every step keeps FlagInv.                                               *)
LEMMA FlagStep ==
  ASSUME TypeOK, LifeInv, FlagInv, [Next]_vars
  PROVE  FlagInv'
  <1>1. /\ ConsumeType /\ Unborn /\ Workers \cap Drainers = {} /\ Workers \subseteq Consumers
        /\ xpc \in [Closers -> {"out", "lock", "stop", "signal", "wait", "unmap", "clear", "returned"}]
    BY ShardFacts DEF TypeOK, LifeType, LifeInv, Consumers
  <1>2. ASSUME UNCHANGED lifeVars, \A w \in Workers : cshard'[w] = cshard[w],
               \A w \in Workers : cpc'[w] \in {"pending", "done"} => cpc[w] \in {"pending", "done"} \/ (phase = "up" /\ ~running)
        PROVE  FlagInv'
    BY <1>2 DEF FlagInv, lifeVars
  <1>3. ASSUME NEW p \in Producers, ProducerStep(p) PROVE FlagInv'
    BY <1>2, <1>3, ProducerMoves DEF conVars
  <1>4. ASSUME NEW c \in Consumers, ConsumerStep(c) PROVE FlagInv'
    <2>1. /\ UNCHANGED lifeVars /\ cpc[c] # "off" /\ (c \notin Drainers => cshard'[c] = cshard[c])
          /\ \A d \in Consumers \ {c} : cpc'[d] = cpc[d] /\ cshard'[d] = cshard[d]
      BY <1>4, ConsumerMoves
    <2>2. phase = "up"
      BY <1>1, <2>1 DEF Unborn, Still
    <2>3. ASSUME c \in Workers, cpc'[c] \in {"pending", "done"}
          PROVE  cpc[c] \in {"pending", "done"} \/ ~running
      BY <1>1, <1>4, <2>3
         DEF ConsumerStep, Dequeue, Handle, Release, CountConsumed, WorkerEmpty, IdleRunning, IdlePending, DrainNext,
             DrainReturn, CGoto, ConsumeType, Empty
    <2> QED BY <1>1, <1>2, <2>1, <2>2, <2>3
  <1>5. ASSUME NEW s \in Shards, CommitStep(s) PROVE FlagInv'
    BY <1>2, <1>5 DEF CommitStep, Commit, conVars
  <1>6. ASSUME NEW p \in Producers, NEW s \in Shards, Publish(p, s) PROVE FlagInv'
    BY <1>2, <1>6 DEF Publish, conVars
  <1>7. ASSUME NEW d \in Drainers, Drain(d) PROVE FlagInv'
    <2>1. UNCHANGED <<lifeVars, cshard>> /\ \A w \in Workers : cpc'[w] = cpc[w]
      BY <1>1, <1>7 DEF Drain, CGoto, ConsumeType
    <2> QED BY <1>2, <2>1
  <1>8. ASSUME QueryStep \/ UNCHANGED vars PROVE FlagInv'
    BY <1>2, <1>8 DEF QueryStep, vars, traffic, conVars
  <1>9. ASSUME MapCtl \/ MapShard \/ BuildFails \/ TearDownShard \/ TearDownCtl PROVE FlagInv'
    <2>1. UNCHANGED <<cpc, cshard>> /\ phase # "up" /\ phase' # "up"
      BY <1>9 DEF MapCtl, MapShard, BuildFails, TearDownShard, TearDownCtl, traffic, conVars
    <2>2. \A w \in Workers : cpc[w] = "off"
      BY <1>1, <2>1 DEF Unborn, Still
    <2>3. phase' = "building" /\ mem' # {} => running'
      BY <1>9, ShardFacts DEF MapCtl, MapShard, BuildFails, TearDownShard, TearDownCtl, FlagInv
    <2> QED BY <2>1, <2>2, <2>3 DEF FlagInv
  <1>10. ASSUME Start PROVE FlagInv'
    <2>1. /\ UNCHANGED <<cshard, running>> /\ phase = "building" /\ phase' = "up" /\ mem = Arenas
          /\ \A w \in Workers : cpc'[w] = "run"
      BY <1>1, <1>10 DEF Start
    <2>2. running
      BY <2>1, ShardFacts DEF FlagInv
    <2> QED BY <2>1, <2>2 DEF FlagInv
  <1>11. ASSUME TickerStop PROVE FlagInv'
    BY <1>11 DEF TickerStop, traffic, conVars, FlagInv
  <1>12. ASSUME NEW k \in Closers, CloserStep(k) \/ CallClose(k) PROVE FlagInv'
    <2>1. /\ UNCHANGED <<phase, cpc, cshard>> /\ xpc'[k] # "out" /\ (running' = running \/ ~running')
          /\ xpc'[k] # "out"
      BY <1>1, <1>12
         DEF CloserStep, CallClose, LockClose, StopRunning, SignalStop, WaitAll, UnmapShard, UnmapCtl, ClearPointers,
             XGoto, traffic, conVars
    <2>2. phase = "up"
      BY <1>1, <1>12
         DEF Unborn, CloserStep, CallClose, LockClose, StopRunning, SignalStop, WaitAll, UnmapShard, UnmapCtl, ClearPointers
    <2> QED BY <2>1, <2>2 DEF FlagInv
  <1> QED
    BY <1>3, <1>4, <1>5, <1>6, <1>7, <1>8, <1>9, <1>10, <1>11, <1>12 DEF Next, NewStep, TickerStep, Call

(* A shard whose worker has ended stays drained: nobody publishes any more *)
(* and nobody else drains.                                                 *)
LEMMA EmptiedStep ==
  ASSUME CoreInv, LifeInv, Joins, FlagInv, Emptied, [Next]_vars
  PROVE  Emptied'
  <1>1. /\ TypeOK /\ ConsumeType /\ RingType /\ CursorsOrdered /\ Unborn
        /\ Workers \cap Drainers = {} /\ Workers \subseteq Consumers /\ Workers \subseteq Shards
    BY ShardFacts DEF CoreInv, ShardInv, TypeOK, LifeInv, Consumers
  <1>2. UNCHANGED <<log, head, cpc>> => Emptied'
    BY DEF Emptied, tail
  <1>3. ASSUME NEW w \in Workers, cpc[w] = "done"
        PROVE  \A p \in Producers : pc[p] \in {"idle", "faulted"}
    BY <1>3 DEF FlagInv, Joins
  <1>4. ASSUME NEW p \in Producers, ProducerStep(p) PROVE Emptied'
    <2>1. UNCHANGED <<head, cpc>> /\ pc[p] \notin {"idle", "faulted"}
      BY <1>1, <1>4, ProducerMoves DEF conVars
    <2> QED BY <1>3, <2>1 DEF Emptied
  <1>5. ASSUME NEW c \in Consumers, ConsumerStep(c) PROVE Emptied'
    <2>1. /\ log' = log /\ cpc[c] # "done"
          /\ \A d \in Consumers \ {c} : cpc'[d] = cpc[d] /\ cshard'[d] = cshard[d]
      BY <1>1, <1>5, ConsumerMoves
    <2>2. ASSUME NEW w \in Workers, cpc'[w] = "done", cpc[w] # "done"
          PROVE  head'[w] = head[w] /\ head[w] = tail(w)
      <3>1. w = c /\ cshard[c] = c
        BY <1>1, <2>1, <2>2 DEF FlagInv
      <3>2. IdlePending(c)
        BY <1>1, <1>5, <2>2, <3>1
           DEF ConsumerStep, Dequeue, Handle, Release, CountConsumed, WorkerEmpty, IdleRunning, DrainNext,
               DrainReturn, CGoto, ConsumeType, Empty
      <3> QED BY <1>1, <2>2, <3>1, <3>2 DEF IdlePending, CGoto, ConsumeType, ring
    <2>3. ASSUME NEW w \in Workers, cpc[w] = "done" PROVE head'[w] = head[w]
      <3>1. head[w] = tail(w) /\ head[w] <= commit[w] /\ commit[w] <= tail(w) /\ tail(w) \in Nat /\ commit[w] \in Nat
        BY <1>1, <2>3 DEF Emptied, CursorsOrdered, RingType, tail
      <3>2. ~(head[w] < commit[w])
        BY <3>1
      <3> QED BY <1>1, <1>5, <3>2, ConsumerShard DEF Dequeue
    <2> QED BY <1>1, <2>1, <2>2, <2>3 DEF Emptied, tail
  <1>6. ASSUME \/ \E s \in Shards : CommitStep(s)
               \/ \E p \in Producers, s \in Shards : Publish(p, s)
               \/ UNCHANGED traffic
        PROVE  UNCHANGED <<log, head, cpc>>
    BY <1>6 DEF CommitStep, Commit, Publish, traffic, ring, conVars
  <1>7. ASSUME (\E d \in Drainers : Drain(d)) \/ Start PROVE Emptied'
    <2>1. UNCHANGED <<log, head>> /\ \A w \in Workers : cpc'[w] = "done" => cpc[w] = "done"
      BY <1>1, <1>7 DEF Drain, Start, CGoto, ConsumeType, ring
    <2> QED BY <2>1 DEF Emptied, tail
  <1> QED BY <1>1, <1>2, <1>4, <1>5, <1>6, <1>7, OtherMoves

(* "With a consumer, Close drains fully before unmapping": when the caller *)
(* joins its producers before Close, every record claimed in a shard has   *)
(* been handled by the time the shard is unmapped.                         *)
THEOREM CloseDrains ==
  ASSUME JoinFirst PROVE Spec => []DrainedAtClose
  <1> DEFINE Inv == CoreInv /\ LifeInv /\ Joins /\ FlagInv /\ Emptied /\ TakenIsHandled
  <1>1. Init => TakenIsHandled
    BY DEF Init, TakenIsHandled
  <1>2. ASSUME CoreInv /\ LifeInv /\ Joins, FlagInv /\ Emptied /\ TakenIsHandled, [Next]_vars
        PROVE  (FlagInv /\ Emptied /\ TakenIsHandled)'
    BY <1>2, FlagStep, EmptiedStep, TakenStep DEF CoreInv
  <1>3. ASSUME Inv PROVE DrainedAtClose
    <2> SUFFICES ASSUME NEW s \in Shards \ mem, phase = "up", HasConsumer, NEW i \in 1 .. tail(s)
                 PROVE  log[s][i] \in {handled[s][j] : j \in 1 .. Len(handled[s])}
      BY DEF DrainedAtClose
    <2>1. s \in Workers /\ s \in Shards
      BY DEF Workers
    <2>2. Ended /\ \E k \in Closers : xpc[k] # "out"
      <3>1. mem # Arenas
        BY <2>1, ShardFacts
      <3>2. closed
        BY <1>3, <3>1 DEF LifeInv, Open
      <3> QED BY <1>3, <3>1, <3>2 DEF LifeInv, Open, OneCloses, InClose, Gone
    <2>3. cpc[s] = "done" /\ head[s] = tail(s)
      BY <1>3, <2>1, <2>2 DEF Ended, Emptied
    <2>4. ASSUME NEW c \in Consumers, Carries(c, s, i - 1) PROVE FALSE
      <3>1. CASE c \in Workers
        BY <1>3, <2>3, <2>4, <3>1 DEF FlagInv, Carries
      <3>2. CASE c \in Drainers
        BY <1>3, <2>2, <2>4, <3>2 DEF Joins, Carries
      <3> QED BY <3>1, <3>2 DEF Consumers
    <2>5. Seen(s, log[s][i])
      BY <1>3, <2>1, <2>3, <2>4 DEF TakenIsHandled
    <2> QED BY <2>5 DEF Seen
  <1>4. Spec => []Inv
    BY <1>1, <1>2, FlagInit, JoinsAlways, PTL DEF Spec
  <1> QED BY <1>3, <1>4, PTL
-----------------------------------------------------------------------------
(* The books of the engine.                                                *)

(* Counting one more and one less.                                         *)
LEMMA OneMore ==
  ASSUME NEW S, NEW x, IsFiniteSet(S), x \notin S
  PROVE  Cardinality(S \cup {x}) = Cardinality(S) + 1 /\ Cardinality(S) \in Nat
  BY FS_AddElement, FS_CardinalityType

(* See OneMore.                                                            *)
LEMMA OneLess ==
  ASSUME NEW S, NEW x, IsFiniteSet(S), x \in S
  PROVE  Cardinality(S \ {x}) = Cardinality(S) - 1 /\ Cardinality(S) \in Nat
  BY FS_RemoveElement, FS_CardinalityType

(* The units of a counter are finitely many.                               *)
LEMMA UnitsFinite ==
  ASSUME NEW f \in [Shards -> Nat]
  PROVE  IsFiniteSet(Units(f)) /\ Total(f) \in Nat
  <1> DEFINE Column(s) == {s} \X (1 .. f[s])
             Columns == {Column(s) : s \in Shards}
  <1>1. IsFiniteSet(Shards)
    BY EngineAssumption, FS_Interval DEF Shards
  <1>2. IsFiniteSet(Columns)
    <2>1. [s \in Shards |-> Column(s)] \in Surjection(Shards, Columns)
      BY DEF Surjection
    <2> QED BY <1>1, <2>1, FS_Surjection
  <1>3. \A s \in Shards : IsFiniteSet(Column(s))
    <2> SUFFICES ASSUME NEW s \in Shards PROVE IsFiniteSet(Column(s))
      OBVIOUS
    <2>1. IsFiniteSet({s})
      BY FS_Singleton
    <2>2. IsFiniteSet(1 .. f[s])
      BY FS_Interval
    <2> QED BY <2>1, <2>2, FS_Product
  <1>4. \A c \in Columns : IsFiniteSet(c)
    BY <1>3
  <1>5. Units(f) = UNION Columns
    BY DEF Units
  <1> HIDE DEF Columns
  <1>6. IsFiniteSet(Units(f))
    BY <1>2, <1>4, <1>5, FS_UNION
  <1> QED BY <1>6, FS_CardinalityType DEF Total

(* Counting one on one shard adds one to the sum.                          *)
LEMMA TotalUp ==
  ASSUME NEW f \in [Shards -> Nat], NEW s \in Shards
  PROVE  Total([f EXCEPT ![s] = @ + 1]) = Total(f) + 1
  <1> DEFINE g == [f EXCEPT ![s] = @ + 1]
             x == <<s, f[s] + 1>>
  <1>1. \A h \in [Shards -> Nat] : \A u : u \in Units(h) <=> \E t \in Shards : \E n \in 1 .. h[t] : u = <<t, n>>
    BY DEF Units
  <1>2. g \in [Shards -> Nat] /\ g[s] = f[s] + 1 /\ f[s] \in Nat /\ \A t \in Shards \ {s} : g[t] = f[t]
    OBVIOUS
  <1> HIDE DEF g
  <1>3. x \notin Units(f)
    <2> SUFFICES ASSUME NEW t \in Shards, NEW n \in 1 .. f[t], x = <<t, n>> PROVE FALSE
      BY <1>1
    <2> QED BY <1>2
  <1>4. Units(g) = Units(f) \cup {x}
    <2>1. ASSUME NEW u \in Units(g) PROVE u \in Units(f) \cup {x}
      <3>1. PICK t \in Shards : \E n \in 1 .. g[t] : u = <<t, n>>
        BY <1>1, <1>2
      <3>2. PICK n \in 1 .. g[t] : u = <<t, n>>
        BY <3>1
      <3>3. CASE n \in 1 .. f[t]
        BY <1>1, <3>2, <3>3
      <3>4. CASE n \notin 1 .. f[t]
        <4>1. t = s /\ n = f[s] + 1
          BY <1>2, <3>2, <3>4
        <4> QED BY <3>2, <4>1
      <3> QED BY <3>3, <3>4
    <2>2. ASSUME NEW u \in Units(f) PROVE u \in Units(g)
      <3>1. PICK t \in Shards : \E n \in 1 .. f[t] : u = <<t, n>>
        BY <1>1
      <3>2. PICK n \in 1 .. f[t] : u = <<t, n>>
        BY <3>1
      <3>3. n \in 1 .. g[t]
        BY <1>2, <3>2
      <3> QED BY <1>1, <1>2, <3>2, <3>3
    <2>3. x \in Units(g)
      <3>1. f[s] + 1 \in 1 .. g[s]
        BY <1>2
      <3> QED BY <1>1, <1>2, <3>1
    <2> HIDE DEF x
    <2> QED BY <2>1, <2>2, <2>3
  <1>5. IsFiniteSet(Units(f))
    BY UnitsFinite
  <1> HIDE DEF x
  <1>6. Cardinality(Units(g)) = Cardinality(Units(f)) + 1
    BY <1>3, <1>4, <1>5, OneMore
  <1> QED BY <1>6 DEF Total, g

(* A counter that is zero everywhere.                                      *)
LEMMA TotalZero ==
  ASSUME NEW f \in [Shards -> Nat], \A s \in Shards : f[s] = 0
  PROVE  Total(f) = 0
  <1>1. Units(f) = {}
    BY DEF Units
  <1> QED BY <1>1, FS_EmptySet DEF Total

(* Publishes that have a ticket and have not counted it.                   *)
Underway == {p \in Producers : pc[p] \in {"claim", "write", "count", "drop"}}

(* The sets that the balances count are finite.                            *)
LEMMA CrowdsFinite ==
  /\ IsFiniteSet(Underway)
  /\ \A s \in Shards : IsFiniteSet(PublishersAt({"write", "count"}, s))
                       /\ IsFiniteSet(ConsumersAt({"handle", "release", "consumed"}, s))
  <1>1. IsFiniteSet(Producers) /\ IsFiniteSet(Drainers)
    BY EngineAssumption
  <1>2. IsFiniteSet(Consumers)
    <2>1. IsFiniteSet(Shards)
      BY EngineAssumption, FS_Interval DEF Shards
    <2>2. IsFiniteSet(Workers)
      BY <2>1, ShardFacts, FS_Subset
    <2> QED BY <1>1, <2>2, FS_Union DEF Consumers
  <1>3. /\ Underway \subseteq Producers
        /\ \A s \in Shards : PublishersAt({"write", "count"}, s) \subseteq Producers
                             /\ ConsumersAt({"handle", "release", "consumed"}, s) \subseteq Consumers
    BY DEF Underway, PublishersAt, ConsumersAt
  <1> QED BY <1>1, <1>2, <1>3, FS_Subset

(* Every step keeps the account of the tickets.                            *)
LEMMA TicketsStep ==
  ASSUME CoreInv, TicketsBalance, [Next]_vars
  PROVE  TicketsBalance'
  <1>1. /\ TypeOK /\ PublishType /\ CounterType /\ issued \in Nat /\ dropped \in Nat
        /\ ingested \in [Shards -> Nat] /\ IsFiniteSet(Underway)
    BY CrowdsFinite, EngineAssumption DEF CoreInv, TypeOK, PublishType, CounterType
  <1>2. Total(ingested) \in Nat /\ Cardinality(Underway) \in Nat
    BY <1>1, UnitsFinite, FS_CardinalityType
  <1>3. issued = Total(ingested) + dropped + Cardinality(Underway)
    BY DEF TicketsBalance, Underway
  <1>4. SUFFICES issued' = Total(ingested') + dropped' + Cardinality(Underway')
    BY DEF TicketsBalance, Underway, Total, Units
  <1>5. ASSUME UNCHANGED <<issued, ingested, dropped>>, Underway' = Underway
        PROVE  issued' = Total(ingested') + dropped' + Cardinality(Underway')
    BY <1>3, <1>5
  <1>6. ASSUME NEW p \in Producers, ProducerStep(p)
        PROVE  issued' = Total(ingested') + dropped' + Cardinality(Underway')
    <2>1. \A q \in Producers \ {p} : pc'[q] = pc[q]
      BY <1>1, <1>6, ProducerMoves
    <2>2. Return(p) => pc'[p] = "idle"
      BY <1>1 DEF Return, Goto, PublishType
    <2>3. CASE TakeTicket(p)
      <3>1. pc[p] = "ticket" /\ pc'[p] = "claim" /\ issued' = issued + 1 /\ UNCHANGED <<ingested, dropped>>
        BY <1>1, <2>3 DEF TakeTicket, Goto, PublishType, counters
      <3>2. p \notin Underway /\ Underway' = Underway \cup {p}
        BY <2>1, <3>1 DEF Underway
      <3>3. Cardinality(Underway') = Cardinality(Underway) + 1
        BY <1>1, <3>2, OneMore
      <3> QED BY <1>1, <1>2, <1>3, <3>1, <3>3
    <2>4. CASE Drop(p)
      <3>1. pc[p] = "drop" /\ pc'[p] = "mark" /\ dropped' = dropped + 1 /\ UNCHANGED <<ingested, issued>>
        BY <1>1, <2>4 DEF Drop, Goto, PublishType
      <3>2. p \in Underway /\ Underway' = Underway \ {p}
        BY <2>1, <3>1 DEF Underway
      <3>3. Cardinality(Underway') = Cardinality(Underway) - 1
        BY <1>1, <3>2, OneLess
      <3> QED BY <1>1, <1>2, <1>3, <3>1, <3>3
    <2>5. CASE CountIngested(p)
      <3>1. /\ pc[p] = "count" /\ pc'[p] = "index" /\ UNCHANGED <<issued, dropped>> /\ shard[p] \in Shards
            /\ ingested' = [ingested EXCEPT ![shard[p]] = @ + 1]
        BY <1>1, <2>5 DEF CountIngested, Goto, PublishType
      <3>2. p \in Underway /\ Underway' = Underway \ {p}
        BY <2>1, <3>1 DEF Underway
      <3>3. Cardinality(Underway') = Cardinality(Underway) - 1
        BY <1>1, <3>2, OneLess
      <3>4. Total(ingested') = Total(ingested) + 1
        BY <1>1, <3>1, TotalUp
      <3> QED BY <1>1, <1>2, <1>3, <3>1, <3>3, <3>4
    <2>6. CASE CheckRunning(p) \/ Accept(p) \/ Refuse(p)
      <3>1. /\ pc[p] \in {"call", "index", "mark"} /\ pc'[p] \in {"ticket", "idle"}
            /\ UNCHANGED <<issued, ingested, dropped>>
        BY <1>1, <2>2, <2>6 DEF CheckRunning, Accept, Refuse, Goto, PublishType, counters
      <3>2. Underway' = Underway
        BY <2>1, <3>1 DEF Underway
      <3> QED BY <1>5, <3>1, <3>2
    <2>7. CASE Claim(p) \/ ClaimFull(p) \/ Write(p)
      <3>1. /\ pc[p] \in {"claim", "write"} /\ pc'[p] \in {"write", "count", "drop"}
            /\ UNCHANGED <<issued, ingested, dropped>>
        BY <1>1, <2>7 DEF Claim, ClaimFull, Write, Goto, PublishType, counters
      <3>2. Underway' = Underway
        BY <2>1, <3>1 DEF Underway
      <3> QED BY <1>5, <3>1, <3>2
    <2> QED BY <1>6, <2>3, <2>4, <2>5, <2>6, <2>7 DEF ProducerStep
  <1>7. ASSUME UNCHANGED <<issued, ingested, dropped, pc>>
        PROVE  issued' = Total(ingested') + dropped' + Cardinality(Underway')
    BY <1>5, <1>7 DEF Underway
  <1>8. ASSUME NEW p \in Producers, NEW s \in Shards, Publish(p, s)
        PROVE  issued' = Total(ingested') + dropped' + Cardinality(Underway')
    <2>1. /\ pc[p] = "idle" /\ pc'[p] \in {"call", "faulted"} /\ UNCHANGED <<issued, ingested, dropped>>
          /\ \A q \in Producers \ {p} : pc'[q] = pc[q]
      BY <1>1, <1>8 DEF Publish, Goto, Enter, PublishType, counters
    <2>2. Underway' = Underway
      BY <2>1 DEF Underway
    <2> QED BY <1>5, <2>1, <2>2
  <1>9. ASSUME NEW c \in Consumers, ConsumerStep(c) PROVE UNCHANGED <<issued, ingested, dropped, pc>>
    BY <1>1, <1>9, ConsumerMoves DEF pubVars
  <1>10. ASSUME \/ \E s \in Shards : CommitStep(s)
                \/ \E d \in Drainers : Drain(d)
                \/ Start
                \/ UNCHANGED traffic
         PROVE  UNCHANGED <<issued, ingested, dropped, pc>>
    BY <1>10 DEF CommitStep, Commit, Drain, Start, traffic, pubVars, counters
  <1> QED BY <1>1, <1>6, <1>7, <1>8, <1>9, <1>10, OtherMoves

(* Every step keeps the account of each shard's records.                   *)
LEMMA RecordsStep ==
  ASSUME CoreInv, LifeInv, RecordsBalance, [Next]_vars
  PROVE  RecordsBalance'
  <1> DEFINE Pub(s) == PublishersAt({"write", "count"}, s)
             Con(s) == ConsumersAt({"handle", "release", "consumed"}, s)
  <1>1. TypeOK /\ PublishType /\ ConsumeType /\ CounterType /\ RingType
    BY DEF CoreInv, TypeOK
  <1> SUFFICES ASSUME NEW s \in Shards
               PROVE  ingested'[s] + Cardinality(Pub(s)') = consumed'[s] + (Len(log'[s]) - head'[s]) + Cardinality(Con(s)')
    BY DEF RecordsBalance, tail
  <1>2. /\ ingested[s] \in Nat /\ consumed[s] \in Nat /\ Len(log[s]) \in Nat /\ head[s] \in Nat
        /\ IsFiniteSet(Pub(s)) /\ IsFiniteSet(Con(s))
    BY <1>1, CrowdsFinite DEF CounterType, RingType
  <1>3. Cardinality(Pub(s)) \in Nat /\ Cardinality(Con(s)) \in Nat
    BY <1>2, FS_CardinalityType
  <1>4. ingested[s] + Cardinality(Pub(s)) = consumed[s] + (Len(log[s]) - head[s]) + Cardinality(Con(s))
    BY DEF RecordsBalance, tail
  <1>5. \A p : p \in Pub(s) <=> p \in Producers /\ pc[p] \in {"write", "count"} /\ shard[p] = s
    BY DEF PublishersAt
  <1>6. \A c : c \in Con(s) <=> c \in Consumers /\ cpc[c] \in {"handle", "release", "consumed"} /\ cshard[c] = s
    BY DEF ConsumersAt
  <1>7. \A p : p \in Pub(s)' <=> p \in Producers /\ pc'[p] \in {"write", "count"} /\ shard'[p] = s
    BY DEF PublishersAt
  <1>8. \A c : c \in Con(s)' <=> c \in Consumers /\ cpc'[c] \in {"handle", "release", "consumed"} /\ cshard'[c] = s
    BY DEF ConsumersAt
  <1> HIDE DEF Pub, Con
  <1>9. /\ ingested[s] + (Cardinality(Pub(s)) + 1) = consumed[s] + ((Len(log[s]) + 1) - head[s]) + Cardinality(Con(s))
        /\ (ingested[s] + 1) + (Cardinality(Pub(s)) - 1) = consumed[s] + (Len(log[s]) - head[s]) + Cardinality(Con(s))
        /\ ingested[s] + Cardinality(Pub(s)) = consumed[s] + (Len(log[s]) - (head[s] + 1)) + (Cardinality(Con(s)) + 1)
        /\ ingested[s] + Cardinality(Pub(s)) = (consumed[s] + 1) + (Len(log[s]) - head[s]) + (Cardinality(Con(s)) - 1)
    <2> DEFINE i == ingested[s]
               a == Cardinality(Pub(s))
               c == consumed[s]
               l == Len(log[s])
               h == head[s]
               b == Cardinality(Con(s))
    <2>1. i \in Nat /\ a \in Nat /\ c \in Nat /\ l \in Nat /\ h \in Nat /\ b \in Nat /\ i + a = c + (l - h) + b
      BY <1>2, <1>3, <1>4
    <2> HIDE DEF i, a, c, l, h, b
    <2>2. /\ i + (a + 1) = c + ((l + 1) - h) + b
          /\ (i + 1) + (a - 1) = c + (l - h) + b
          /\ i + a = c + (l - (h + 1)) + (b + 1)
          /\ i + a = (c + 1) + (l - h) + (b - 1)
      BY <2>1
    <2> QED BY <2>2, Zenon DEF i, a, c, l, h, b
  <1> DEFINE Goal == ingested'[s] + Cardinality(Pub(s)') = consumed'[s] + (Len(log'[s]) - head'[s]) + Cardinality(Con(s)')
  <1>10. ASSUME UNCHANGED <<ingested[s], consumed[s], log[s], head[s]>>, Pub(s)' = Pub(s), Con(s)' = Con(s)
        PROVE  Goal
    BY <1>4, <1>10
  <1>11. UNCHANGED <<pc, shard>> => Pub(s)' = Pub(s)
    BY <1>5, <1>7
  <1>12. UNCHANGED <<cpc, cshard>> => Con(s)' = Con(s)
    BY <1>6, <1>8
  <1>13. ASSUME NEW p \in Producers, ProducerStep(p) PROVE Goal
    <2>1. UNCHANGED <<cpc, cshard, head>> /\ \A q \in Producers \ {p} : pc'[q] = pc[q] /\ shard'[q] = shard[q]
      BY <1>1, <1>13, ProducerMoves DEF conVars
    <2>2. Con(s)' = Con(s) /\ consumed' = consumed /\ head' = head
      BY <1>12, <1>13, <2>1
         DEF ProducerStep, CheckRunning, TakeTicket, Claim, Write, CountIngested, Accept, ClaimFull, Drop, Refuse, counters
    <2>3. CASE Claim(p) /\ s = shard[p]
      <3>1. /\ pc[p] = "claim" /\ pc'[p] = "write" /\ shard'[p] = s /\ ingested' = ingested
            /\ log'[s] = Append(log[s], ticket[p])
        BY <1>1, <2>3 DEF Claim, Goto, PublishType, RingType, counters
      <3>2. Len(log'[s]) = Len(log[s]) + 1
        BY <1>1, <3>1 DEF RingType
      <3>3. p \notin Pub(s) /\ Pub(s)' = Pub(s) \cup {p}
        BY <1>5, <1>7, <2>1, <3>1
      <3>4. Cardinality(Pub(s)') = Cardinality(Pub(s)) + 1
        BY <1>2, <3>3, OneMore
      <3>5. UNCHANGED <<ingested[s], consumed[s], head[s], Cardinality(Con(s))>>
        BY <2>2, <3>1
      <3> QED BY <1>9, <3>2, <3>4, <3>5, Zenon
    <2>4. CASE CountIngested(p) /\ s = shard[p]
      <3>1. /\ pc[p] = "count" /\ pc'[p] = "index" /\ log' = log /\ ingested'[s] = ingested[s] + 1
        BY <1>1, <2>4 DEF CountIngested, Goto, PublishType, CounterType, ring
      <3>2. p \in Pub(s) /\ Pub(s)' = Pub(s) \ {p}
        BY <1>5, <1>7, <2>1, <2>4, <3>1
      <3>3. Cardinality(Pub(s)') = Cardinality(Pub(s)) - 1
        BY <1>2, <3>2, OneLess
      <3>4. UNCHANGED <<log[s], consumed[s], head[s], Cardinality(Con(s))>>
        BY <2>2, <3>1
      <3> QED BY <1>9, <3>1, <3>3, <3>4, Zenon
    <2>5. CASE Write(p)
      <3>1. pc[p] = "write" /\ pc'[p] = "count" /\ shard' = shard /\ UNCHANGED <<log, ingested>>
        BY <1>1, <2>5 DEF Write, Goto, PublishType, counters
      <3>2. Pub(s)' = Pub(s)
        BY <1>5, <1>7, <2>1, <3>1
      <3> QED BY <1>10, <2>2, <3>1, <3>2
    <2>6. CASE \/ (Claim(p) \/ CountIngested(p)) /\ s # shard[p]
               \/ CheckRunning(p) \/ TakeTicket(p) \/ Accept(p)
               \/ ClaimFull(p) \/ Drop(p) \/ Refuse(p)
      <3>1. UNCHANGED <<log[s], ingested[s]>>
        BY <1>1, <2>6 DEF Claim, CountIngested, CheckRunning, TakeTicket, Accept, ClaimFull, Drop, Refuse,
                           ring, counters, RingType, CounterType
      <3>2. Return(p) => pc'[p] = "idle"
        BY <1>1 DEF Return, Goto, PublishType
      <3>3. ~(pc[p] \in {"write", "count"} /\ shard[p] = s) /\ ~(pc'[p] \in {"write", "count"} /\ shard'[p] = s)
        BY <1>1, <2>6, <3>2
           DEF Claim, CountIngested, CheckRunning, TakeTicket, Accept, ClaimFull, Drop, Refuse, Goto, PublishType
      <3>4. Pub(s)' = Pub(s)
        BY <1>5, <1>7, <2>1, <3>3
      <3> QED BY <1>10, <2>2, <3>1, <3>4
    <2> QED BY <1>13, <2>3, <2>4, <2>5, <2>6 DEF ProducerStep
  <1>14. ASSUME NEW c \in Consumers, ConsumerStep(c) PROVE Goal
    <2>1. /\ UNCHANGED <<pc, shard, log, ingested>>
          /\ \A d \in Consumers \ {c} : cpc'[d] = cpc[d] /\ cshard'[d] = cshard[d]
      BY <1>1, <1>14, ConsumerMoves DEF pubVars
    <2>2. Pub(s)' = Pub(s)
      BY <1>11, <2>1
    <2>3. CASE Dequeue(c) /\ cpc'[c] = "handle" /\ head'[cshard[c]] = head[cshard[c]] + 1
               /\ (\A t \in Shards \ {cshard[c]} : head'[t] = head[t]) /\ UNCHANGED <<cshard, consumed>>
      <3>1. cpc[c] = "run"
        BY <2>3 DEF Dequeue
      <3>2. CASE s = cshard[c]
        <4>1. c \notin Con(s) /\ Con(s)' = Con(s) \cup {c}
          BY <1>6, <1>8, <2>1, <2>3, <3>1, <3>2
        <4>2. Cardinality(Con(s)') = Cardinality(Con(s)) + 1
          BY <1>2, <4>1, OneMore
        <4>3. UNCHANGED <<log[s], ingested[s], consumed[s], Cardinality(Pub(s))>> /\ head'[s] = head[s] + 1
          BY <2>1, <2>2, <2>3, <3>2
        <4> QED BY <1>9, <4>2, <4>3, Zenon
      <3>3. CASE s # cshard[c]
        <4>1. Con(s)' = Con(s)
          BY <1>6, <1>8, <2>1, <2>3, <3>3
        <4> QED BY <1>10, <2>1, <2>2, <2>3, <3>3, <4>1
      <3> QED BY <3>2, <3>3
    <2>4. CASE Handle(c) /\ cpc'[c] = "release" /\ UNCHANGED <<cshard, head, consumed>>
      <3>1. cpc[c] = "handle"
        BY <2>4 DEF Handle
      <3>2. Con(s)' = Con(s)
        BY <1>6, <1>8, <2>1, <2>4, <3>1
      <3> QED BY <1>10, <2>1, <2>2, <2>4, <3>2
    <2>5. CASE CountConsumed(c) /\ cpc'[c] \notin {"handle", "release", "consumed"} /\ UNCHANGED head
      <3>1. /\ cpc[c] = "consumed" /\ consumed' = [consumed EXCEPT ![cshard[c]] = @ + 1]
            /\ cshard[c] \in Shards /\ UNCHANGED cshard
        BY <1>1, <2>5 DEF CountConsumed, ConsumeType
      <3>2. CASE s = cshard[c]
        <4>1. c \in Con(s) /\ Con(s)' = Con(s) \ {c}
          BY <1>6, <1>8, <2>1, <2>5, <3>1, <3>2
        <4>2. Cardinality(Con(s)') = Cardinality(Con(s)) - 1
          BY <1>2, <4>1, OneLess
        <4>3. consumed'[s] = consumed[s] + 1
          BY <1>1, <3>1, <3>2 DEF CounterType
        <4>4. UNCHANGED <<log[s], ingested[s], head[s], Cardinality(Pub(s))>>
          BY <2>1, <2>2, <2>5
        <4> QED BY <1>9, <4>2, <4>3, <4>4, Zenon
      <3>3. CASE s # cshard[c]
        <4>1. Con(s)' = Con(s)
          BY <1>6, <1>8, <2>1, <2>5, <3>1, <3>3
        <4>2. consumed'[s] = consumed[s]
          BY <1>1, <3>1, <3>3 DEF CounterType
        <4> QED BY <1>10, <2>1, <2>2, <2>5, <4>1, <4>2
      <3> QED BY <3>2, <3>3
    <2>6. CASE Release(c) /\ cpc'[c] = "consumed" /\ UNCHANGED <<cshard, head, consumed>>
      <3>1. cpc[c] = "release"
        BY <2>6 DEF Release
      <3>2. Con(s)' = Con(s)
        BY <1>6, <1>8, <2>1, <2>6, <3>1
      <3> QED BY <1>10, <2>1, <2>2, <2>6, <3>2
    <2>7. CASE /\ ~Holding(c) /\ cpc[c] # "consumed" /\ cpc'[c] \notin {"handle", "release", "consumed"}
               /\ UNCHANGED <<head, consumed>>
      <3>1. Con(s)' = Con(s)
        BY <1>6, <1>8, <2>1, <2>7 DEF Holding
      <3> QED BY <1>10, <2>1, <2>2, <2>7, <3>1
    <2> QED BY <1>14, <2>3, <2>4, <2>5, <2>6, <2>7, ConsumerShard
  <1>15. ASSUME NEW p \in Producers, NEW t \in Shards, Publish(p, t) PROVE Goal
    <2>1. /\ UNCHANGED <<cpc, cshard, log, head, ingested, consumed>>
          /\ pc[p] = "idle" /\ pc'[p] \in {"call", "faulted"}
          /\ \A q \in Producers \ {p} : pc'[q] = pc[q] /\ shard'[q] = shard[q]
      BY <1>1, <1>15 DEF Publish, Goto, Enter, PublishType, ring, counters, conVars
    <2>2. Pub(s)' = Pub(s)
      BY <1>5, <1>7, <2>1
    <2> QED BY <1>10, <1>12, <2>1, <2>2
  <1>16. ASSUME (\E d \in Drainers : Drain(d)) \/ Start PROVE Goal
    <2>1. UNCHANGED <<pc, shard, cshard, log, head, ingested, consumed>>
      BY <1>16 DEF Drain, Start, ring, counters, pubVars
    <2>2. Start => \A c \in Consumers : cpc[c] = "off"
      BY DEF Start, LifeInv, Unborn, Still
    <2>3. \A c \in Consumers : cpc'[c] = cpc[c]
             \/ /\ cpc[c] \notin {"handle", "release", "consumed"}
                /\ cpc'[c] \notin {"handle", "release", "consumed"}
      BY <1>1, <1>16, <2>2 DEF Drain, Start, CGoto, Enter, ConsumeType
    <2>4. Con(s)' = Con(s)
      BY <1>6, <1>8, <2>1, <2>3
    <2> QED BY <1>10, <1>11, <2>1, <2>4
  <1>17. ASSUME (\E t \in Shards : CommitStep(t)) \/ UNCHANGED traffic PROVE Goal
    <2>1. UNCHANGED <<pc, shard, cpc, cshard, log, head, ingested, consumed>>
      BY <1>17 DEF CommitStep, Commit, traffic, ring, counters, pubVars, conVars
    <2> QED BY <1>10, <1>11, <1>12, <2>1
  <1> QED BY <1>1, <1>13, <1>14, <1>15, <1>16, <1>17, OtherMoves

(* The counters start balanced.                                            *)
LEMMA BalanceInit == Init => CountersBalance
  <1> SUFFICES ASSUME Init PROVE CountersBalance
    OBVIOUS
  <1>1. Underway = {} /\ issued = 0 /\ dropped = 0
    BY DEF Init, Underway
  <1>2. ingested \in [Shards -> Nat] /\ \A s \in Shards : ingested[s] = 0
    BY DEF Init
  <1>3. Total(ingested) = 0
    BY <1>2, TotalZero
  <1>4. Cardinality(Underway) = 0
    BY <1>1, FS_EmptySet
  <1>5. TicketsBalance
    BY <1>1, <1>3, <1>4 DEF TicketsBalance, Underway
  <1>6. \A s \in Shards : PublishersAt({"write", "count"}, s) = {} /\ ConsumersAt({"handle", "release", "consumed"}, s) = {}
    BY DEF Init, PublishersAt, ConsumersAt
  <1>7. \A s \in Shards : consumed[s] = 0 /\ head[s] = 0 /\ tail(s) = 0
    BY DEF Init, tail
  <1>8. Cardinality({}) = 0
    BY FS_EmptySet
  <1>9. RecordsBalance
    <2>1. \A s \in Shards : /\ Cardinality(PublishersAt({"write", "count"}, s)) = 0
                            /\ Cardinality(ConsumersAt({"handle", "release", "consumed"}, s)) = 0
      BY <1>6, <1>8
    <2> QED BY <1>2, <1>7, <2>1 DEF RecordsBalance
  <1> QED BY <1>5, <1>9 DEF CountersBalance

(* The books balance at every moment: each ticket drawn is ingested,       *)
(* dropped, or still in some producer's Publish, and each record ingested  *)
(* in a shard is consumed, waiting in its ring, or in a consumer's hands.  *)
THEOREM BooksBalance == Spec => []CountersBalance
  <1>1. ASSUME CoreInv /\ LifeInv, CountersBalance, [Next]_vars PROVE CountersBalance'
    BY <1>1, TicketsStep, RecordsStep DEF CountersBalance
  <1> QED BY <1>1, BalanceInit, LifeAlways, PTL DEF Spec
-----------------------------------------------------------------------------
(* The order of one producer's records.                                    *)

(* In a log the tickets of one author ascend, and an author that is about  *)
(* to claim holds a greater one.                                           *)
LogOrdered ==
    /\ \A s \in Shards : \A i \in 1 .. Len(log[s]) : log[s][i] <= issued
    /\ \A p \in Producers : pc[p] = "claim" => author[ticket[p]] = {p}
    /\ \A p \in Producers : pc[p] = "claim" =>
          \A s \in Shards : \A i \in 1 .. Len(log[s]) :
              p \in author[log[s][i]] => log[s][i] < ticket[p]
    /\ \A s \in Shards : \A i, j \in 1 .. Len(log[s]) : \A p \in Producers :
          i < j /\ p \in author[log[s][i]] /\ p \in author[log[s][j]] => log[s][i] < log[s][j]

(* Every step keeps LogOrdered.                                            *)
LEMMA LogOrderedStep ==
  ASSUME CoreInv, LogOrdered, [Next]_vars
  PROVE  LogOrdered'
  <1>1. /\ TypeOK /\ PublishType /\ RingType /\ TicketInv /\ issued \in Nat
        /\ \A s \in Shards : log[s] \in Seq(Tickets) /\ Len(log[s]) \in Nat
        /\ Tickets \subseteq Nat
    BY EngineAssumption DEF CoreInv, TypeOK, PublishType, RingType, Tickets
  <1>2. \A s \in Shards : \A i \in 1 .. Len(log[s]) : log[s][i] \in Tickets /\ log[s][i] \in Nat
    <2> SUFFICES ASSUME NEW s \in Shards, NEW i \in 1 .. Len(log[s])
                 PROVE  log[s][i] \in Tickets /\ log[s][i] \in Nat
      OBVIOUS
    <2>1. log[s] \in Seq(Tickets)
      BY <1>1
    <2>2. log[s][i] \in Tickets
      BY <2>1
    <2> QED BY <1>1, <2>2
  <1>3. ASSUME UNCHANGED <<log, issued, author>>,
               \A p \in Producers : pc'[p] = "claim" => pc[p] = "claim" /\ ticket'[p] = ticket[p]
        PROVE  LogOrdered'
    BY <1>3 DEF LogOrdered
  <1>4. ASSUME NEW p \in Producers, ProducerStep(p) PROVE LogOrdered'
    <2>1. \A q \in Producers \ {p} : pc'[q] = pc[q] /\ ticket'[q] = ticket[q]
      BY <1>1, <1>4, ProducerMoves
    <2>2. CASE TakeTicket(p)
      <3>1. /\ pc'[p] = "claim" /\ ticket'[p] = issued + 1 /\ issued' = issued + 1 /\ log' = log
            /\ author' = [author EXCEPT ![issued + 1] = {p}]
        BY <1>1, <2>2 DEF TakeTicket, Goto, PublishType, ring
      <3>2. issued + 1 \in Tickets
        BY <1>1, <2>2, TicketLeft DEF TakeTicket
      <3>3. author'[issued + 1] = {p} /\ \A t \in Tickets : t <= issued => author'[t] = author[t]
        BY <1>1, <3>1, <3>2 DEF PublishType
      <3>4. \A s \in Shards : \A i \in 1 .. Len(log[s]) :
               log[s][i] <= issued /\ author'[log[s][i]] = author[log[s][i]]
        BY <1>2, <3>3 DEF LogOrdered
      <3>5. ASSUME NEW q \in Producers \ {p}, pc'[q] = "claim"
            PROVE  author'[ticket'[q]] = {q} /\ pc[q] = "claim" /\ ticket'[q] = ticket[q]
        <4>1. pc[q] = "claim" /\ ticket'[q] = ticket[q] /\ author[ticket[q]] = {q}
          BY <2>1, <3>5 DEF LogOrdered
        <4>2. ticket[q] \in 1 .. issued
          BY <1>1, <4>1 DEF TicketInv
        <4>3. ticket[q] \in Tickets /\ ticket[q] <= issued
          <5>1. issued \in Nat /\ MaxTickets \in Nat /\ issued + 1 \in 1 .. MaxTickets
            BY <1>1, <3>2, EngineAssumption DEF Tickets
          <5> QED BY <4>2, <5>1 DEF Tickets
        <4> QED BY <3>3, <4>1, <4>3
      <3>6. \A s \in Shards : \A i \in 1 .. Len(log[s]) : log[s][i] < issued + 1 /\ log[s][i] <= issued'
        BY <1>1, <1>2, <3>1, <3>4
      <3>7. \A q \in Producers : pc'[q] = "claim" => author'[ticket'[q]] = {q}
        BY <3>1, <3>3, <3>5
      <3>8. ASSUME NEW q \in Producers, pc'[q] = "claim", NEW s \in Shards, NEW i \in 1 .. Len(log[s]),
                   q \in author[log[s][i]]
            PROVE  log[s][i] < ticket'[q]
        <4>1. CASE q = p
          BY <3>1, <3>6, <4>1
        <4>2. CASE q # p
          BY <3>5, <3>8, <4>2 DEF LogOrdered
        <4> QED BY <4>1, <4>2
      <3>9. ASSUME NEW s \in Shards, NEW i \in 1 .. Len(log[s]), NEW j \in 1 .. Len(log[s]), NEW q \in Producers,
                   i < j, q \in author'[log[s][i]], q \in author'[log[s][j]]
            PROVE  log[s][i] < log[s][j]
        BY <3>4, <3>9 DEF LogOrdered
      <3>10. ASSUME NEW q \in Producers, pc'[q] = "claim", NEW s \in Shards, NEW i \in 1 .. Len(log[s]),
                    q \in author'[log[s][i]]
             PROVE  log[s][i] < ticket'[q]
        BY <3>4, <3>8, <3>10
      <3>11. UNCHANGED log
        BY <3>1
      <3> QED BY <3>6, <3>7, <3>9, <3>10, <3>11 DEF LogOrdered
    <2>3. CASE Claim(p)
      <3> DEFINE s == shard[p]
      <3>1. /\ s \in Shards /\ pc[p] = "claim" /\ pc'[p] = "write" /\ UNCHANGED <<ticket, issued, author>>
            /\ log'[s] = Append(log[s], ticket[p]) /\ \A u \in Shards \ {s} : log'[u] = log[u]
        BY <1>1, <2>3 DEF Claim, Goto, PublishType, RingType
      <3>2. ticket[p] \in 1 .. issued /\ author[ticket[p]] = {p}
        BY <1>1, <3>1 DEF TicketInv, LogOrdered
      <3>3. /\ Len(log'[s]) = Len(log[s]) + 1 /\ log'[s][Len(log[s]) + 1] = ticket[p]
            /\ \A i \in 1 .. Len(log[s]) : log'[s][i] = log[s][i]
        <4>1. log[s] \in Seq(Tickets)
          BY <1>1, <3>1
        <4> HIDE DEF s
        <4> QED BY <3>1, <4>1
      <3> HIDE DEF s
      <3>4. \A u \in Shards : \A i \in 1 .. Len(log'[u]) :
               \/ i \in 1 .. Len(log[u]) /\ log'[u][i] = log[u][i]
               \/ u = s /\ i = Len(log[s]) + 1 /\ log'[u][i] = ticket[p]
        BY <1>1, <3>1, <3>3
      <3>5. \A u \in Shards : \A i \in 1 .. Len(log'[u]) : log'[u][i] <= issued
        BY <1>1, <3>2, <3>4 DEF LogOrdered
      <3>6. \A q \in Producers : pc'[q] = "claim" => pc[q] = "claim" /\ q # p
        BY <2>1, <3>1
      <3>7. ASSUME NEW q \in Producers, pc'[q] = "claim", NEW u \in Shards, NEW i \in 1 .. Len(log'[u]),
                   q \in author[log'[u][i]]
            PROVE  log'[u][i] < ticket[q]
        <4>1. log'[u][i] # ticket[p]
          BY <3>2, <3>6, <3>7
        <4>2. i \in 1 .. Len(log[u]) /\ log'[u][i] = log[u][i]
          BY <3>4, <4>1
        <4> QED BY <3>6, <3>7, <4>2 DEF LogOrdered
      <3>8. ASSUME NEW u \in Shards, NEW i \in 1 .. Len(log'[u]), NEW j \in 1 .. Len(log'[u]),
                   NEW q \in Producers, i < j, q \in author[log'[u][i]], q \in author[log'[u][j]]
            PROVE  log'[u][i] < log'[u][j]
        <4>1. i \in 1 .. Len(log[u]) /\ log'[u][i] = log[u][i]
          <5>1. Len(log[u]) \in Nat /\ Len(log[s]) \in Nat /\ i \in Nat /\ j \in Nat
            BY <1>1, <3>1
          <5>2. CASE u = s /\ i = Len(log[s]) + 1
            BY <3>3, <3>8, <5>1, <5>2
          <5> QED BY <3>4, <5>2
        <4>2. CASE j \in 1 .. Len(log[u]) /\ log'[u][j] = log[u][j]
          BY <3>8, <4>1, <4>2 DEF LogOrdered
        <4>3. CASE u = s /\ log'[u][j] = ticket[p]
          <5>1. q = p
            BY <3>2, <3>8, <4>3
          <5> QED BY <3>1, <3>8, <4>1, <4>3, <5>1 DEF LogOrdered
        <4> QED BY <3>4, <4>2, <4>3
      <3>9. UNCHANGED <<ticket, issued, author>>
        BY <3>1
      <3>10. \A q \in Producers : pc'[q] = "claim" => author[ticket[q]] = {q}
        BY <3>6 DEF LogOrdered
      <3> QED BY <3>5, <3>7, <3>8, <3>9, <3>10 DEF LogOrdered
    <2>4. CASE ~TakeTicket(p) /\ ~Claim(p)
      <3>1. UNCHANGED <<log, issued, author>>
        BY <1>4, <2>4 DEF ProducerStep, CheckRunning, Write, CountIngested, Accept, ClaimFull, Drop, Refuse, ring
      <3>2. Return(p) => pc'[p] = "idle"
        BY <1>1 DEF Return, Goto, PublishType
      <3>3. pc'[p] # "claim"
        BY <1>1, <1>4, <2>4, <3>2 DEF ProducerStep, CheckRunning, Write, CountIngested, Accept, ClaimFull, Drop, Refuse, Goto, PublishType
      <3> QED BY <1>3, <2>1, <3>1, <3>3
    <2> QED BY <2>2, <2>3, <2>4
  <1>5. ASSUME NEW p \in Producers, NEW s \in Shards, Publish(p, s) PROVE LogOrdered'
    <2>1. /\ UNCHANGED <<log, issued, author, ticket>> /\ pc'[p] # "claim"
          /\ \A q \in Producers \ {p} : pc'[q] = pc[q]
      BY <1>1, <1>5 DEF Publish, Goto, Enter, PublishType, ring
    <2> QED BY <1>3, <2>1
  <1>6. ASSUME UNCHANGED <<log, pubVars>> PROVE LogOrdered'
    BY <1>3, <1>6 DEF pubVars
  <1>7. ASSUME NEW c \in Consumers, ConsumerStep(c) PROVE UNCHANGED <<log, pubVars>>
    BY <1>1, <1>7, ConsumerMoves
  <1>8. ASSUME \/ \E s \in Shards : CommitStep(s)
               \/ \E d \in Drainers : Drain(d)
               \/ Start
               \/ UNCHANGED traffic
        PROVE  UNCHANGED <<log, pubVars>>
    BY <1>8 DEF CommitStep, Commit, Drain, Start, traffic, ring
  <1> QED BY <1>1, <1>4, <1>5, <1>6, <1>7, <1>8, OtherMoves

(* One goroutine consumes a shard: its worker, with nobody calling Drain,  *)
(* or one caller of Drain, without workers.                                *)
OneTaker == \A c, d \in Consumers : c # d => c \in Workers /\ d \in Workers

(* The handler sees the log's tickets in the log's order, up to the one    *)
(* that is being carried to it.                                            *)
InLogOrder ==
    /\ \A s \in Shards : \A j \in 1 .. Len(handled[s]) : j <= head[s] /\ handled[s][j] = log[s][j]
    /\ \A s \in Shards : Len(handled[s]) = head[s] \/ \E c \in Consumers : cpc[c] = "handle" /\ cshard[c] = s
    /\ \A c \in Consumers : cpc[c] = "handle" =>
          Len(handled[cshard[c]]) = cpos[c] /\ head[cshard[c]] = cpos[c] + 1

(* Every step keeps InLogOrder when a shard has one consumer.              *)
LEMMA InLogOrderStep ==
  ASSUME OneTaker, CoreInv, LifeInv, FlagInv, InLogOrder, [Next]_vars
  PROVE  InLogOrder'
  <1>1. /\ TypeOK /\ RingType /\ ConsumeType
        /\ \A s \in Shards : /\ head[s] \in Nat /\ log[s] \in Seq(Tickets) /\ head[s] <= Len(log[s])
                             /\ handled[s] \in Seq(Tickets) /\ Len(handled[s]) \in Nat /\ Len(log[s]) \in Nat
        /\ \A c \in Consumers : cshard[c] \in Shards /\ cpos[c] \in Nat
    BY DEF CoreInv, TypeOK, RingType, ConsumeType, ShardInv, CursorsOrdered, tail
  <1>2. \A c, d \in Consumers : c # d => cshard[c] # cshard[d]
    BY DEF OneTaker, FlagInv
  <1>3. ASSUME UNCHANGED <<head, handled>>,
               \A s \in Shards : \A j \in 1 .. Len(log[s]) : log'[s][j] = log[s][j],
               \A c \in Consumers : (cpc'[c] = "handle" <=> cpc[c] = "handle")
                                    /\ (cpc[c] = "handle" => cshard'[c] = cshard[c] /\ cpos'[c] = cpos[c])
        PROVE  InLogOrder'
    <2>1. \A s \in Shards : \A j \in 1 .. Len(handled[s]) : j <= head[s] /\ handled[s][j] = log'[s][j]
      <3> SUFFICES ASSUME NEW s \in Shards, NEW j \in 1 .. Len(handled[s])
                   PROVE  j <= head[s] /\ handled[s][j] = log'[s][j]
        OBVIOUS
      <3>1. j <= head[s] /\ handled[s][j] = log[s][j]
        BY DEF InLogOrder
      <3>2. j \in 1 .. Len(log[s])
        BY <1>1, <3>1
      <3> QED BY <1>3, <3>1, <3>2
    <2> QED BY <1>3, <2>1 DEF InLogOrder
  <1>4. ASSUME NEW p \in Producers, ProducerStep(p) PROVE InLogOrder'
    <2>1. UNCHANGED <<head, conVars>> /\ shard[p] \in Shards
      BY <1>1, <1>4, ProducerMoves DEF TypeOK, PublishType
    <2>2. \A s \in Shards : \A j \in 1 .. Len(log[s]) : log'[s][j] = log[s][j]
      <3>1. CASE Claim(p)
        <4>1. log'[shard[p]] = Append(log[shard[p]], ticket[p]) /\ \A s \in Shards \ {shard[p]} : log'[s] = log[s]
          BY <1>1, <2>1, <3>1 DEF Claim, RingType
        <4>2. \A j \in 1 .. Len(log[shard[p]]) : log'[shard[p]][j] = log[shard[p]][j]
          BY <1>1, <2>1, <4>1
        <4> QED BY <4>1, <4>2
      <3>2. CASE UNCHANGED log
        BY <3>2
      <3> QED BY <1>4, <3>1, <3>2, ProducerShard
    <2> QED BY <1>3, <2>1, <2>2 DEF conVars
  <1>5. ASSUME NEW c \in Consumers, ConsumerStep(c) PROVE InLogOrder'
    <2> DEFINE s == cshard[c]
    <2>1. /\ s \in Shards /\ cpos[c] \in Nat /\ log' = log
          /\ \A d \in Consumers \ {c} : cpc'[d] = cpc[d] /\ cshard'[d] = cshard[d] /\ cpos'[d] = cpos[d]
      BY <1>1, <1>5, ConsumerMoves
    <2>2. \A d \in Consumers \ {c} : cshard[d] # s
      BY <1>2
    <2>3. CASE Dequeue(c) /\ cpos'[c] = head[s] /\ cpc'[c] = "handle" /\ head'[s] = head[s] + 1
               /\ (\A u \in Shards \ {s} : head'[u] = head[u]) /\ UNCHANGED <<cshard, handled>>
      <3>1. Len(handled[s]) = head[s]
        <4>1. cpc[c] = "run"
          BY <2>3 DEF Dequeue
        <4> QED BY <2>1, <2>2, <4>1 DEF InLogOrder
      <3>2. ASSUME NEW u \in Shards, NEW j \in 1 .. Len(handled[u])
            PROVE  j <= head'[u] /\ handled[u][j] = log[u][j]
        <4>1. j <= head[u] /\ handled[u][j] = log[u][j] /\ head[u] \in Nat
          BY <1>1, <3>2 DEF InLogOrder
        <4> QED BY <2>3, <4>1
      <3>3. \A u \in Shards : Len(handled[u]) = head'[u] \/ \E d \in Consumers : cpc'[d] = "handle" /\ cshard'[d] = u
        <4> SUFFICES ASSUME NEW u \in Shards
                     PROVE  Len(handled[u]) = head'[u] \/ \E d \in Consumers : cpc'[d] = "handle" /\ cshard'[d] = u
          OBVIOUS
        <4>1. CASE u = s
          BY <2>3, <4>1
        <4>2. CASE u # s
          <5>1. CASE Len(handled[u]) = head[u]
            BY <2>3, <4>2, <5>1
          <5>2. CASE \E d \in Consumers : cpc[d] = "handle" /\ cshard[d] = u
            BY <2>1, <4>2, <5>2
          <5> QED BY <5>1, <5>2 DEF InLogOrder
        <4> QED BY <4>1, <4>2
      <3>4. ASSUME NEW d \in Consumers, cpc'[d] = "handle"
            PROVE  Len(handled[cshard'[d]]) = cpos'[d] /\ head'[cshard'[d]] = cpos'[d] + 1
        <4>1. CASE d = c
          BY <2>3, <3>1, <4>1
        <4>2. CASE d # c
          <5>1. cpc[d] = "handle" /\ cshard[d] \in Shards \ {s}
            BY <1>1, <2>1, <2>2, <3>4, <4>2
          <5>2. Len(handled[cshard[d]]) = cpos[d] /\ head[cshard[d]] = cpos[d] + 1
            BY <5>1 DEF InLogOrder
          <5> QED BY <2>1, <2>3, <4>2, <5>1, <5>2
        <4> QED BY <4>1, <4>2
      <3>5. UNCHANGED <<log, handled>>
        BY <2>1, <2>3
      <3> QED BY <3>2, <3>3, <3>4, <3>5 DEF InLogOrder
    <2>4. CASE Handle(c) /\ cpc'[c] = "release" /\ UNCHANGED <<cshard, cpos, head>>
      <3>1. /\ Len(handled[s]) = cpos[c] /\ head[s] = cpos[c] + 1 /\ cpc[c] = "handle"
            /\ handled'[s] = Append(handled[s], log[s][cpos[c] + 1])
            /\ \A u \in Shards \ {s} : handled'[u] = handled[u]
        BY <1>1, <2>1, <2>4 DEF Handle, InLogOrder, ConsumeType
      <3>2. /\ Len(handled'[s]) = head[s] /\ handled'[s][head[s]] = log[s][head[s]]
            /\ \A j \in 1 .. Len(handled[s]) : handled'[s][j] = handled[s][j]
        <4> DEFINE x == log[s][cpos[c] + 1]
                   q == handled[s]
        <4>1. q \in Seq(Tickets) /\ Len(q) \in Nat
          BY <1>1, <2>1
        <4> HIDE DEF x, q
        <4>2. /\ Len(Append(q, x)) = Len(q) + 1 /\ Append(q, x)[Len(q) + 1] = x
              /\ \A j \in 1 .. Len(q) : Append(q, x)[j] = q[j]
          BY <4>1
        <4> QED BY <3>1, <4>2 DEF x, q
      <3>3. ASSUME NEW u \in Shards, NEW j \in 1 .. Len(handled'[u])
            PROVE  j <= head[u] /\ handled'[u][j] = log[u][j]
        <4>1. CASE u = s /\ j = head[s]
          BY <1>1, <2>1, <3>2, <4>1
        <4>2. CASE ~(u = s /\ j = head[s])
          <5>1. j \in 1 .. Len(handled[u]) /\ handled'[u][j] = handled[u][j]
            <6>1. CASE u = s
              <7>1. /\ j \in 1 .. cpos[c] + 1 /\ j # cpos[c] + 1 /\ cpos[c] \in Nat /\ Len(handled[s]) = cpos[c]
                BY <2>1, <3>1, <3>2, <3>3, <4>2, <6>1
              <7>2. j \in 1 .. Len(handled[s])
                BY <7>1
              <7> QED BY <3>2, <6>1, <7>2
            <6>2. CASE u # s
              BY <3>1, <3>3, <6>2
            <6> QED BY <6>1, <6>2
          <5> QED BY <5>1 DEF InLogOrder
        <4> QED BY <4>1, <4>2
      <3>4. \A u \in Shards : Len(handled'[u]) = head[u] \/ \E d \in Consumers : cpc'[d] = "handle" /\ cshard'[d] = u
        <4> SUFFICES ASSUME NEW u \in Shards
                     PROVE  Len(handled'[u]) = head[u] \/ \E d \in Consumers : cpc'[d] = "handle" /\ cshard'[d] = u
          OBVIOUS
        <4>1. CASE u = s
          BY <3>2, <4>1
        <4>2. CASE u # s
          <5>1. CASE Len(handled[u]) = head[u]
            BY <3>1, <4>2, <5>1
          <5>2. CASE \E d \in Consumers : cpc[d] = "handle" /\ cshard[d] = u
            BY <2>1, <4>2, <5>2
          <5> QED BY <5>1, <5>2 DEF InLogOrder
        <4> QED BY <4>1, <4>2
      <3>5. ASSUME NEW d \in Consumers, cpc'[d] = "handle"
            PROVE  Len(handled'[cshard[d]]) = cpos[d] /\ head[cshard[d]] = cpos[d] + 1
        <4>1. d # c
          BY <2>4, <3>5
        <4>2. cpc[d] = "handle" /\ cshard[d] \in Shards \ {s}
          BY <1>1, <2>1, <2>2, <3>5, <4>1
        <4> QED BY <3>1, <4>2 DEF InLogOrder
      <3>6. UNCHANGED <<log, cshard, cpos, head>>
        BY <2>1, <2>4
      <3> QED BY <3>3, <3>4, <3>5, <3>6 DEF InLogOrder
    <2>5. CASE (Release(c) \/ ~Holding(c)) /\ cpc'[c] # "handle" /\ UNCHANGED <<head, handled>>
      <3>1. cpc[c] # "handle"
        BY <2>5 DEF Release, Holding
      <3> QED BY <1>3, <2>1, <2>5, <3>1
    <2> HIDE DEF s
    <2> QED BY <1>5, <2>3, <2>4, <2>5, ConsumerShard DEF s
  <1>6. ASSUME \/ \E s \in Shards : CommitStep(s)
               \/ \E p \in Producers, s \in Shards : Publish(p, s)
               \/ UNCHANGED traffic
        PROVE  UNCHANGED <<log, head, conVars>>
    BY <1>6 DEF CommitStep, Commit, Publish, traffic, ring
  <1>7. ASSUME UNCHANGED <<log, head, conVars>> PROVE InLogOrder'
    BY <1>3, <1>7 DEF conVars
  <1>8. ASSUME (\E d \in Drainers : Drain(d)) \/ Start PROVE InLogOrder'
    <2>1. UNCHANGED <<log, head, cshard, cpos, handled>>
      BY <1>8 DEF Drain, Start, ring
    <2>2. Start => \A c \in Consumers : cpc[c] = "off"
      BY DEF Start, LifeInv, Unborn, Still
    <2>3. \A c \in Consumers : cpc'[c] = "handle" <=> cpc[c] = "handle"
      BY <1>1, <1>8, <2>2 DEF Drain, Start, CGoto, Enter, ConsumeType
    <2> QED BY <1>3, <2>1, <2>3
  <1> QED BY <1>1, <1>4, <1>5, <1>6, <1>7, <1>8, OtherMoves

(* When one goroutine consumes a shard, the records that one producer      *)
(* publishes to the shard reach the handler in the order of their tickets, *)
(* however the producers race for positions and help each other commit.    *)
THEOREM ProducerOrderKept ==
  ASSUME OneTaker PROVE Spec => []ProducerOrder
  <1> DEFINE Inv == FlagInv /\ LogOrdered /\ InLogOrder
  <1>1. Init => Inv
    <2> SUFFICES ASSUME Init PROVE Inv
      OBVIOUS
    <2>1. \A s \in Shards : Len(log[s]) = 0 /\ Len(handled[s]) = 0 /\ head[s] = 0
      BY DEF Init
    <2>2. LogOrdered
      BY <2>1 DEF Init, LogOrdered
    <2>3. InLogOrder
      BY <2>1 DEF Init, InLogOrder
    <2> QED BY <2>2, <2>3, FlagInit
  <1>2. ASSUME CoreInv /\ LifeInv, Inv, [Next]_vars PROVE Inv'
    BY <1>2, FlagStep, LogOrderedStep, InLogOrderStep DEF CoreInv
  <1>3. ASSUME CoreInv /\ LifeInv, Inv PROVE ProducerOrder
    <2> SUFFICES ASSUME NEW s \in Shards, NEW p \in Producers,
                        NEW i \in 1 .. Len(handled[s]), NEW j \in 1 .. Len(handled[s]),
                        i < j, p \in author[handled[s][i]], p \in author[handled[s][j]]
                 PROVE  handled[s][i] < handled[s][j]
      BY DEF ProducerOrder
    <2>1. handled[s][i] = log[s][i] /\ handled[s][j] = log[s][j] /\ i <= head[s] /\ j <= head[s]
      BY <1>3 DEF InLogOrder
    <2>2. head[s] <= Len(log[s]) /\ head[s] \in Nat /\ Len(log[s]) \in Nat /\ Len(handled[s]) \in Nat
      BY <1>3 DEF CoreInv, TypeOK, RingType, ConsumeType, ShardInv, CursorsOrdered, tail
    <2>3. i \in 1 .. Len(log[s]) /\ j \in 1 .. Len(log[s])
      BY <2>1, <2>2
    <2> QED BY <1>3, <2>1, <2>3 DEF LogOrdered
  <1> HIDE DEF Inv
  <1> QED BY <1>1, <1>2, <1>3, LifeAlways, PTL DEF Spec
-----------------------------------------------------------------------------
(* What a snapshot of Stats shows.                                         *)

(* The i-th word of shard s is the At(i, s)-th load.                       *)
At(i, s) == 7 * (s - 1) + 2 + i

(* See At.                                                                 *)
LEMMA AtLoads ==
  ASSUME NEW s \in Shards, NEW i \in 1 .. 7
  PROVE  At(i, s) \in 3 .. Len(LoadOrder) /\ LoadOrder[At(i, s)] = <<ShardWords[i], s>>
  <1>1. 7 * NShards + 2 \in Nat /\ Len(LoadOrder) = 7 * NShards + 2 /\ NShards \in Nat
    BY EngineAssumption DEF LoadOrder
  <1>2. s \in 1 .. NShards
    BY DEF Shards
  <1>3. At(i, s) \in 3 .. 7 * NShards + 2
    BY <1>1, <1>2 DEF At
  <1>4. (At(i, s) - 3) % 7 = i - 1 /\ (At(i, s) - 3) \div 7 = s - 1
    <2>1. At(i, s) - 3 = 7 * (s - 1) + (i - 1) /\ s - 1 \in Nat /\ i - 1 \in 0 .. 6
      BY <1>2 DEF At
    <2> QED BY <2>1
  <1>5. ((At(i, s) - 3) % 7) + 1 = i /\ ((At(i, s) - 3) \div 7) + 1 = s
    BY <1>2, <1>4
  <1>6. LoadOrder[At(i, s)] = <<ShardWords[((At(i, s) - 3) % 7) + 1], ((At(i, s) - 3) \div 7) + 1>>
    BY <1>1, <1>3 DEF LoadOrder
  <1> QED BY <1>1, <1>3, <1>5, <1>6

(* Every load but the first two is some shard's.                           *)
LEMMA LoadsAt ==
  ASSUME NEW n \in 3 .. Len(LoadOrder)
  PROVE  \E s \in Shards, i \in 1 .. 7 : n = At(i, s)
  <1>1. Len(LoadOrder) = 7 * NShards + 2 /\ NShards \in Nat
    BY EngineAssumption DEF LoadOrder
  <1>2. n - 3 \in 0 .. 7 * NShards - 1
    BY <1>1
  <1> DEFINE s == ((n - 3) \div 7) + 1
             i == ((n - 3) % 7) + 1
  <1>3. s \in 1 .. NShards /\ i \in 1 .. 7 /\ n - 3 = 7 * (s - 1) + (i - 1)
    BY <1>1, <1>2
  <1> HIDE DEF s, i
  <1>4. n = At(i, s)
    BY <1>1, <1>3 DEF At
  <1> QED BY <1>3, <1>4 DEF Shards

(* Which word of a snapshot is which.                                      *)
LEMMA ShownAt ==
  ASSUME NEW o
  PROVE  /\ Shown(o, "tickets", Ctl) = snap[o][1]
         /\ Shown(o, "dropped", Ctl) = snap[o][2]
         /\ \A s \in Shards, i \in 1 .. 7 : Shown(o, ShardWords[i], s) = snap[o][At(i, s)]
  <1>1. Len(LoadOrder) \in Nat /\ Len(LoadOrder) >= 2
    BY EngineAssumption DEF LoadOrder
  <1>2. LoadOrder[1] = <<"tickets", Ctl>> /\ LoadOrder[2] = <<"dropped", Ctl>>
    BY EngineAssumption DEF LoadOrder
  <1>3. \A i \in 1 .. 7 : ShardWords[i] \notin {"tickets", "dropped"}
    BY DEF ShardWords
  <1>4. \A i, j \in 1 .. 7 : ShardWords[i] = ShardWords[j] => i = j
    BY DEF ShardWords
  <1>5. \A n \in 1 .. Len(LoadOrder) : n = 1 \/ n = 2 \/ \E s \in Shards, i \in 1 .. 7 : n = At(i, s)
    BY <1>1, LoadsAt
  <1>6. \A s \in Shards, i \in 1 .. 7 :
           At(i, s) \in 3 .. Len(LoadOrder) /\ LoadOrder[At(i, s)] = <<ShardWords[i], s>>
    BY AtLoads
  <1>7. ASSUME NEW n \in 1 .. Len(LoadOrder)
        PROVE  /\ LoadOrder[n] = <<"tickets", Ctl>> => n = 1
               /\ LoadOrder[n] = <<"dropped", Ctl>> => n = 2
    <2>1. CASE n = 1 \/ n = 2
      BY <1>2, <2>1
    <2>2. ASSUME NEW s \in Shards, NEW i \in 1 .. 7, n = At(i, s)
          PROVE  LoadOrder[n] \notin {<<"tickets", Ctl>>, <<"dropped", Ctl>>}
      <3>1. LoadOrder[n] = <<ShardWords[i], s>> /\ ShardWords[i] \notin {"tickets", "dropped"}
        BY <1>3, <1>6, <2>2
      <3> QED BY <3>1
    <2> QED BY <1>5, <2>1, <2>2
  <1>8. ASSUME NEW s \in Shards, NEW i \in 1 .. 7, NEW n \in 1 .. Len(LoadOrder),
               LoadOrder[n] = <<ShardWords[i], s>>
        PROVE  n = At(i, s)
    <2>1. n # 1 /\ n # 2
      <3>1. ShardWords[i] \notin {"tickets", "dropped"}
        BY <1>3
      <3> QED BY <1>2, <1>8, <3>1
    <2>2. PICK t \in Shards, j \in 1 .. 7 : n = At(j, t)
      BY <1>5, <2>1
    <2>3. <<ShardWords[j], t>> = <<ShardWords[i], s>>
      BY <1>6, <1>8, <2>2
    <2>4. ShardWords[j] = ShardWords[i] /\ t = s
      BY <2>3
    <2> QED BY <1>4, <2>2, <2>4
  <1>9. 1 \in 1 .. Len(LoadOrder) /\ 2 \in 1 .. Len(LoadOrder)
    BY <1>1
  <1>10. (CHOOSE n \in 1 .. Len(LoadOrder) : LoadOrder[n] = <<"tickets", Ctl>>) = 1
    BY <1>2, <1>7, <1>9
  <1>11. (CHOOSE n \in 1 .. Len(LoadOrder) : LoadOrder[n] = <<"dropped", Ctl>>) = 2
    BY <1>2, <1>7, <1>9
  <1>12. ASSUME NEW s \in Shards, NEW i \in 1 .. 7
         PROVE  (CHOOSE n \in 1 .. Len(LoadOrder) : LoadOrder[n] = <<ShardWords[i], s>>) = At(i, s)
    <2>1. At(i, s) \in 1 .. Len(LoadOrder) /\ LoadOrder[At(i, s)] = <<ShardWords[i], s>>
      <3>1. At(i, s) \in 3 .. Len(LoadOrder) /\ LoadOrder[At(i, s)] = <<ShardWords[i], s>>
        BY <1>6
      <3> QED BY <1>1, <3>1
    <2> QED BY <1>8, <2>1
  <1> QED BY <1>10, <1>11, <1>12 DEF Shown

(* Every drop is some shard's rejection, and every rejection is a drop or  *)
(* about to be one.                                                        *)
Dropping == {p \in Producers : pc[p] = "drop"}
DropsBalance == dropped + Cardinality(Dropping) = Total(rejected)

(* Every step keeps DropsBalance.                                          *)
LEMMA DropsStep ==
  ASSUME CoreInv, DropsBalance, [Next]_vars
  PROVE  DropsBalance'
  <1>1. TypeOK /\ PublishType /\ rejected \in [Shards -> Nat] /\ dropped \in Nat
    BY DEF CoreInv, TypeOK, CounterType
  <1>2. IsFiniteSet(Dropping) /\ Cardinality(Dropping) \in Nat
    <2>1. Dropping \subseteq Producers /\ IsFiniteSet(Producers)
      BY EngineAssumption DEF Dropping
    <2> QED BY <2>1, FS_Subset, FS_CardinalityType
  <1>3. ASSUME UNCHANGED <<dropped, rejected>>, Dropping' = Dropping PROVE DropsBalance'
    BY <1>3 DEF DropsBalance, Total, Units
  <1>4. ASSUME NEW p \in Producers, ProducerStep(p) PROVE DropsBalance'
    <2>1. \A q \in Producers \ {p} : pc'[q] = pc[q]
      BY <1>1, <1>4, ProducerMoves
    <2>2. CASE ClaimFull(p)
      <3>1. /\ pc[p] = "claim" /\ pc'[p] = "drop" /\ dropped' = dropped
            /\ rejected' = [rejected EXCEPT ![shard[p]] = @ + 1] /\ shard[p] \in Shards
        BY <1>1, <2>2 DEF ClaimFull, Goto, PublishType
      <3>2. Total(rejected') = Total(rejected) + 1
        BY <1>1, <3>1, TotalUp
      <3>3. p \notin Dropping /\ Dropping' = Dropping \cup {p}
        BY <2>1, <3>1 DEF Dropping
      <3>4. Cardinality(Dropping') = Cardinality(Dropping) + 1
        BY <1>2, <3>3, OneMore
      <3>5. dropped' + Cardinality(Dropping') = Total(rejected')
        BY <1>1, <1>2, <3>1, <3>2, <3>4 DEF DropsBalance
      <3> QED BY <3>5 DEF DropsBalance, Total, Units
    <2>3. CASE Drop(p)
      <3>1. pc[p] = "drop" /\ pc'[p] = "mark" /\ dropped' = dropped + 1 /\ UNCHANGED rejected
        BY <1>1, <2>3 DEF Drop, Goto, PublishType
      <3>2. p \in Dropping /\ Dropping' = Dropping \ {p}
        BY <2>1, <3>1 DEF Dropping
      <3>3. Cardinality(Dropping') = Cardinality(Dropping) - 1
        BY <1>2, <3>2, OneLess
      <3>4. dropped' + Cardinality(Dropping') = Total(rejected)
        BY <1>1, <1>2, <3>1, <3>3 DEF DropsBalance
      <3> QED BY <3>1, <3>4 DEF DropsBalance, Total, Units
    <2>4. CASE ~ClaimFull(p) /\ ~Drop(p)
      <3>1. Return(p) => pc'[p] = "idle"
        BY <1>1 DEF Return, Goto, PublishType
      <3>2. UNCHANGED <<dropped, rejected>> /\ pc[p] # "drop" /\ pc'[p] # "drop"
        BY <1>1, <1>4, <2>4, <3>1
           DEF ProducerStep, CheckRunning, TakeTicket, Claim, Write, CountIngested, Accept, Refuse, Goto,
               PublishType, counters
      <3>3. Dropping' = Dropping
        BY <2>1, <3>2 DEF Dropping
      <3> QED BY <1>3, <3>2, <3>3
    <2> QED BY <2>2, <2>3, <2>4
  <1>5. ASSUME NEW p \in Producers, NEW s \in Shards, Publish(p, s) PROVE DropsBalance'
    <2>1. /\ UNCHANGED <<dropped, rejected>> /\ pc[p] = "idle" /\ pc'[p] \in {"call", "faulted"}
          /\ \A q \in Producers \ {p} : pc'[q] = pc[q]
      BY <1>1, <1>5 DEF Publish, Goto, Enter, PublishType, counters
    <2>2. Dropping' = Dropping
      BY <2>1 DEF Dropping
    <2> QED BY <1>3, <2>1, <2>2
  <1>6. ASSUME UNCHANGED <<dropped, rejected, pc>> PROVE DropsBalance'
    BY <1>3, <1>6 DEF Dropping
  <1>7. ASSUME NEW c \in Consumers, ConsumerStep(c) PROVE UNCHANGED <<dropped, rejected, pc>>
    BY <1>1, <1>7, ConsumerMoves DEF pubVars
  <1>8. ASSUME \/ \E s \in Shards : CommitStep(s)
               \/ \E d \in Drainers : Drain(d)
               \/ Start
               \/ UNCHANGED traffic
        PROVE  UNCHANGED <<dropped, rejected, pc>>
    BY <1>8 DEF CommitStep, Commit, Drain, Start, traffic, counters, pubVars
  <1> QED BY <1>1, <1>4, <1>5, <1>6, <1>7, <1>8, OtherMoves

(* While the caller that has joined its goroutines looks at Stats, nobody  *)
(* publishes, drains or closes; a snapshot is kept no longer than that.    *)
Watched ==
    \A o \in Observers :
        /\ qpc[o] = "in" => /\ \A k \in Closers : xpc[k] = "out"
                            /\ \A p \in Producers : pc[p] = "idle"
                            /\ \A d \in Drainers : cpc[d] = "off"
        /\ qpc[o] # "in" => snap[o] = <<>>

(* Every step keeps Watched when the caller joins.                         *)
LEMMA WatchedStep ==
  ASSUME JoinFirst, TypeOK, LifeInv, Watched, [Next]_vars
  PROVE  Watched'
  <1>1. /\ Unborn /\ Gone /\ PublishType /\ ConsumeType /\ QueryType /\ LifeType
        /\ Observers \subseteq Queries /\ Drainers \subseteq Consumers /\ Readers \cap Observers = {}
    BY EngineAssumption DEF TypeOK, LifeInv, Consumers, Queries
  <1>2. Late => nilled
    BY <1>1 DEF Late, Gone
  <1> DEFINE Nobody == \A o \in Observers : qpc[o] # "in"
  <1>3. ASSUME UNCHANGED queryVars, Nobody \/ (UNCHANGED <<xpc, pc>> /\ \A d \in Drainers : cpc'[d] = cpc[d])
        PROVE  Watched'
    BY <1>3 DEF Watched, queryVars
  <1>4. ASSUME NEW p \in Producers, ProducerStep(p) PROVE Watched'
    <2>1. pc[p] # "idle" /\ UNCHANGED queryVars
      BY <1>4, ProducerMoves
    <2>2. Nobody
      BY <2>1 DEF Watched
    <2> QED BY <1>3, <2>1, <2>2
  <1>5. ASSUME NEW c \in Consumers, ConsumerStep(c) PROVE Watched'
    <2>1. /\ cpc[c] # "off" /\ UNCHANGED <<xpc, pc, queryVars>> /\ \A d \in Consumers \ {c} : cpc'[d] = cpc[d]
      BY <1>5, ConsumerMoves DEF lifeVars, pubVars
    <2>2. c \in Drainers => Nobody
      BY <2>1 DEF Watched
    <2>3. c \notin Drainers => \A d \in Drainers : cpc'[d] = cpc[d]
      BY <1>1, <2>1
    <2> QED BY <1>3, <2>1, <2>2, <2>3
  <1>6. ASSUME MayCall PROVE Nobody
    BY <1>6 DEF MayCall, Late, Watched
  <1>7. ASSUME NEW p \in Producers, NEW s \in Shards, Publish(p, s), UNCHANGED queryVars PROVE Watched'
    BY <1>3, <1>6, <1>7 DEF Publish
  <1>8. ASSUME NEW d \in Drainers, Drain(d), UNCHANGED queryVars PROVE Watched'
    BY <1>3, <1>6, <1>8 DEF Drain
  <1>9. ASSUME NEW k \in Closers, CallClose(k), UNCHANGED queryVars PROVE Watched'
    <2>1. Nobody
      BY <1>1, <1>9 DEF CallClose, Joined
    <2> QED BY <1>3, <1>9, <2>1
  <1>10. ASSUME NEW k \in Closers, CloserStep(k) PROVE Watched'
    <2>1. xpc[k] # "out" /\ UNCHANGED queryVars
      BY <1>10 DEF CloserStep, LockClose, StopRunning, SignalStop, WaitAll, UnmapShard, UnmapCtl, ClearPointers
    <2>2. Nobody
      BY <2>1 DEF Watched
    <2> QED BY <1>3, <2>1, <2>2
  <1>11. ASSUME NewStep PROVE Watched'
    <2>1. phase # "up" /\ UNCHANGED queryVars
      BY <1>11 DEF NewStep, MapCtl, MapShard, BuildFails, TearDownShard, TearDownCtl, Start
    <2>2. Nobody
      BY <1>1, <2>1 DEF Unborn, Still
    <2> QED BY <1>3, <2>1, <2>2
  <1>12. ASSUME TickerStep \/ (\E s \in Shards : CommitStep(s)) \/ UNCHANGED vars PROVE Watched'
    <2>1. UNCHANGED <<xpc, pc, cpc, queryVars>>
      BY <1>12 DEF TickerStep, TickerStop, CommitStep, Commit, vars, lifeVars, traffic, pubVars, conVars
    <2> QED BY <1>3, <2>1
  <1>13. ASSUME QueryStep PROVE Watched'
    <2>1. UNCHANGED <<xpc, pc, cpc>>
      BY <1>13 DEF QueryStep, lifeVars, traffic, pubVars, conVars
    <2>2. ASSUME NEW r \in Readers, NEW s \in Shards, Lookup(r, s) \/ LookupReturn(r) PROVE Watched'
      <3>1. UNCHANGED snap /\ \A o \in Observers : qpc'[o] = qpc[o]
        BY <1>1, <2>2 DEF Lookup, LookupReturn, QGoto, QueryType
      <3> QED BY <2>1, <3>1 DEF Watched
    <2>3. ASSUME NEW o \in Observers, Stats(o) PROVE Watched'
      <3>1. /\ qpc[o] = "out" /\ UNCHANGED snap /\ qpc'[o] = Enter("in")
            /\ \A q \in Observers \ {o} : qpc'[q] = qpc[q]
        BY <1>1, <2>3 DEF Stats, QGoto, QueryType
      <3>2. snap[o] = <<>>
        BY <3>1 DEF Watched
      <3>3. ASSUME qpc'[o] = "in"
            PROVE  /\ \A k \in Closers : xpc[k] = "out"
                   /\ \A p \in Producers : pc[p] = "idle"
                   /\ \A d \in Drainers : cpc[d] = "off"
        <4>1. ~nilled
          BY <3>1, <3>3 DEF Enter
        <4> QED BY <1>2, <2>3, <4>1 DEF Stats, Joined
      <3> QED BY <2>1, <3>1, <3>2, <3>3 DEF Watched
    <2>4. ASSUME NEW o \in Observers, StatsLoad(o) PROVE Watched'
      <3>1. UNCHANGED qpc /\ qpc[o] = "in" /\ \A q \in Observers \ {o} : snap'[q] = snap[q]
        BY <1>1, <2>4 DEF StatsLoad, QueryType
      <3> QED BY <2>1, <3>1 DEF Watched
    <2>5. ASSUME NEW o \in Observers, StatsReturn(o) PROVE Watched'
      <3>1. /\ qpc'[o] = "done" /\ snap'[o] = <<>>
            /\ \A q \in Observers \ {o} : qpc'[q] = qpc[q] /\ snap'[q] = snap[q]
        BY <1>1, <2>5 DEF StatsReturn, QGoto, QueryType
      <3> QED BY <2>1, <3>1 DEF Watched
    <2> QED BY <1>13, <2>2, <2>3, <2>4, <2>5, ShardFacts DEF QueryStep
  <1> QED
    BY <1>4, <1>5, <1>7, <1>8, <1>9, <1>10, <1>11, <1>12, <1>13 DEF Next, Call

(* What Stats has loaded so far against what the words are now: nobody     *)
(* publishes, so the counters of the producers stand still; the head moves *)
(* on; and what is missing from the shard's books is with its worker.      *)
Loaded(o, n) == n <= Len(snap[o])
WordsOf(o, s) ==
    /\ Loaded(o, At(1, s)) => snap[o][At(1, s)] <= head[s]
    /\ Loaded(o, At(2, s)) => snap[o][At(2, s)] = tail(s)
    /\ Loaded(o, At(3, s)) => snap[o][At(1, s)] <= snap[o][At(3, s)]
    /\ Loaded(o, At(4, s)) => snap[o][At(4, s)] <= tail(s)
    /\ Loaded(o, At(5, s)) => snap[o][At(5, s)] = ingested[s]
    /\ Loaded(o, At(6, s)) =>
          ingested[s] + snap[o][At(1, s)] <= snap[o][At(6, s)] + tail(s) + Cardinality(Workers \cap {s})
    /\ Loaded(o, At(7, s)) => snap[o][At(7, s)] = rejected[s]
SnapInv ==
    \A o \in Observers :
        /\ Loaded(o, 1) => snap[o][1] = issued
        /\ Loaded(o, 2) => snap[o][2] = dropped
        /\ \A s \in Shards : WordsOf(o, s)

(* Nothing of a snapshot is contradicted while nobody publishes.           *)
LEMMA SnapKept ==
  ASSUME CoreInv, SnapInv, NEW o \in Observers, snap'[o] = snap[o],
         UNCHANGED <<issued, dropped, ingested, rejected, log>>,
         \A s \in Shards : head[s] <= head'[s] /\ head'[s] \in Nat
  PROVE  /\ Loaded(o, 1)' => snap'[o][1] = issued'
         /\ Loaded(o, 2)' => snap'[o][2] = dropped'
         /\ \A s \in Shards : WordsOf(o, s)'
  <1>1. /\ Loaded(o, 1) => snap[o][1] = issued
        /\ Loaded(o, 2) => snap[o][2] = dropped
        /\ \A s \in Shards : WordsOf(o, s)
    BY DEF SnapInv
  <1>2. ASSUME NEW s \in Shards PROVE WordsOf(o, s)'
    <2>1. WordsOf(o, s) /\ head[s] \in Nat
      BY <1>1 DEF CoreInv, TypeOK, RingType
    <2>2. Loaded(o, At(1, s)) => snap[o][At(1, s)] <= head'[s]
      <3> SUFFICES ASSUME Loaded(o, At(1, s)) PROVE snap[o][At(1, s)] <= head'[s]
        OBVIOUS
      <3>1. snap[o] \in Seq(Nat) /\ At(1, s) \in 1 .. Len(snap[o])
        <4>1. At(1, s) \in Nat /\ At(1, s) >= 3
          BY EngineAssumption DEF At, Shards
        <4>2. snap[o] \in Seq(Nat) /\ Len(snap[o]) \in Nat
          BY DEF CoreInv, TypeOK, QueryType
        <4> QED BY <4>1, <4>2 DEF Loaded
      <3>2. snap[o][At(1, s)] \in Nat
        BY <3>1
      <3>3. snap[o][At(1, s)] <= head[s]
        BY <2>1 DEF WordsOf
      <3> QED BY <2>1, <3>2, <3>3
    <2>3. \A n : Loaded(o, n)' <=> Loaded(o, n)
      BY DEF Loaded
    <2>4. UNCHANGED <<snap[o], ingested[s], rejected[s], tail(s)>>
      BY DEF tail
    <2> QED BY <2>1, <2>2, <2>3, <2>4 DEF WordsOf
  <1> QED BY <1>1, <1>2 DEF Loaded

(* The load of one more word of shard s.                                   *)
LEMMA SnapLoad ==
  ASSUME CoreInv, FlagInv, RecordsBalance, SnapInv, NEW o \in Observers, StatsLoad(o),
         UNCHANGED <<issued, dropped, ingested, consumed, rejected, log, commit, head>>,
         \A p \in Producers : pc[p] = "idle", \A d \in Drainers : cpc[d] = "off",
         NEW s \in Shards
  PROVE  WordsOf(o, s)'
  <1> DEFINE n == Len(snap[o]) + 1
             v == Word(LoadOrder[n][1], LoadOrder[n][2])
             q == snap[o]
  <1>1. /\ q \in Seq(Nat) /\ Len(q) \in Nat /\ snap'[o] = Append(q, v)
    BY DEF CoreInv, TypeOK, QueryType, StatsLoad
  <1>2. /\ \A i \in 1 .. 7 : At(i, s) \in Nat /\ At(i, s) >= 3
        /\ At(1, s) < At(2, s) /\ At(1, s) < At(3, s) /\ At(1, s) < At(6, s)
    BY EngineAssumption DEF At, Shards
  <1>3. /\ Len(Append(q, v)) = Len(q) + 1 /\ Append(q, v)[Len(q) + 1] = v
        /\ \A j \in 1 .. Len(q) : Append(q, v)[j] = q[j]
    <2> HIDE DEF v, q
    <2> QED BY <1>1
  <1>4. \A i \in 1 .. 7 : At(i, s) = n => v = Word(ShardWords[i], s)
    <2> SUFFICES ASSUME NEW i \in 1 .. 7, At(i, s) = n PROVE v = Word(ShardWords[i], s)
      OBVIOUS
    <2>1. LoadOrder[n] = <<ShardWords[i], s>>
      BY AtLoads
    <2> QED BY <2>1
  <1>5. /\ Word(ShardWords[1], s) = head[s] /\ Word(ShardWords[2], s) = tail(s)
        /\ Word(ShardWords[3], s) = head[s] /\ Word(ShardWords[4], s) = commit[s]
        /\ Word(ShardWords[5], s) = ingested[s] /\ Word(ShardWords[6], s) = consumed[s]
        /\ Word(ShardWords[7], s) = rejected[s]
    BY DEF Word, ShardWords
  <1>6. /\ head[s] \in Nat /\ commit[s] \in Nat /\ tail(s) \in Nat /\ ingested[s] \in Nat /\ consumed[s] \in Nat
        /\ rejected[s] \in Nat /\ commit[s] <= tail(s)
    BY DEF CoreInv, TypeOK, RingType, CounterType, ShardInv, CursorsOrdered, tail
  <1>7. UNCHANGED <<head[s], tail(s), ingested[s], rejected[s]>>
    BY DEF tail
  <1>8. WordsOf(o, s)
    BY DEF SnapInv
  <1> HIDE DEF v
  <1>9. ASSUME NEW i \in 1 .. 7, At(i, s) <= Len(q) + 1
        PROVE  \/ At(i, s) \in 1 .. Len(q) /\ Loaded(o, At(i, s)) /\ snap'[o][At(i, s)] = q[At(i, s)]
                                           /\ q[At(i, s)] \in Nat
               \/ At(i, s) = n /\ snap'[o][At(i, s)] = v
    <2>1. At(i, s) \in Nat /\ At(i, s) >= 3
      BY <1>2
    <2>2. CASE At(i, s) = n
      BY <1>1, <1>3, <2>2
    <2>3. CASE At(i, s) # n
      <3>1. At(i, s) \in 1 .. Len(q)
        BY <1>1, <1>9, <2>1, <2>3
      <3>2. q[At(i, s)] \in Nat
        BY <1>1, <3>1
      <3>3. Loaded(o, At(i, s))
        BY <1>1, <3>1 DEF Loaded
      <3> QED BY <1>1, <1>3, <3>1, <3>2, <3>3
    <2> QED BY <2>2, <2>3
  <1>10. \A i \in 1 .. 7 : Loaded(o, At(i, s))' <=> At(i, s) <= Len(q) + 1
    BY <1>1, <1>3 DEF Loaded
  <1> HIDE DEF q, n
  <1>11. At(1, s) <= Len(q) + 1 => snap'[o][At(1, s)] <= head[s]
    <2>1. CASE At(1, s) = n /\ snap'[o][At(1, s)] = v
      BY <1>4, <1>5, <1>6, <2>1
    <2>2. CASE Loaded(o, At(1, s)) /\ snap'[o][At(1, s)] = q[At(1, s)]
      BY <1>8, <2>2 DEF WordsOf, q
    <2> QED BY <1>9, <2>1, <2>2
  <1>12. At(2, s) <= Len(q) + 1 => snap'[o][At(2, s)] = tail(s)
    <2>1. CASE At(2, s) = n /\ snap'[o][At(2, s)] = v
      BY <1>4, <1>5, <2>1
    <2>2. CASE Loaded(o, At(2, s)) /\ snap'[o][At(2, s)] = q[At(2, s)]
      BY <1>8, <2>2 DEF WordsOf, q
    <2> QED BY <1>9, <2>1, <2>2
  <1>13. At(4, s) <= Len(q) + 1 => snap'[o][At(4, s)] <= tail(s)
    <2>1. CASE At(4, s) = n /\ snap'[o][At(4, s)] = v
      BY <1>4, <1>5, <1>6, <2>1
    <2>2. CASE Loaded(o, At(4, s)) /\ snap'[o][At(4, s)] = q[At(4, s)]
      BY <1>8, <2>2 DEF WordsOf, q
    <2> QED BY <1>9, <2>1, <2>2
  <1>14. At(5, s) <= Len(q) + 1 => snap'[o][At(5, s)] = ingested[s]
    <2>1. CASE At(5, s) = n /\ snap'[o][At(5, s)] = v
      BY <1>4, <1>5, <2>1
    <2>2. CASE Loaded(o, At(5, s)) /\ snap'[o][At(5, s)] = q[At(5, s)]
      BY <1>8, <2>2 DEF WordsOf, q
    <2> QED BY <1>9, <2>1, <2>2
  <1>15. At(7, s) <= Len(q) + 1 => snap'[o][At(7, s)] = rejected[s]
    <2>1. CASE At(7, s) = n /\ snap'[o][At(7, s)] = v
      BY <1>4, <1>5, <2>1
    <2>2. CASE Loaded(o, At(7, s)) /\ snap'[o][At(7, s)] = q[At(7, s)]
      BY <1>8, <2>2 DEF WordsOf, q
    <2> QED BY <1>9, <2>1, <2>2
  <1>16. ASSUME At(3, s) <= Len(q) + 1 \/ At(6, s) <= Len(q) + 1
         PROVE  Loaded(o, At(1, s)) /\ snap'[o][At(1, s)] = q[At(1, s)] /\ q[At(1, s)] \in Nat /\ q[At(1, s)] <= head[s]
    <2>1. At(1, s) <= Len(q) + 1 /\ At(1, s) # n
      <3>1. n = Len(q) + 1
        BY DEF n, q
      <3>2. Len(q) \in Nat /\ At(1, s) < At(3, s) /\ At(1, s) < At(6, s)
        BY <1>1, <1>2
      <3>3. At(1, s) \in Nat /\ At(3, s) \in Nat /\ At(6, s) \in Nat
        BY <1>2
      <3> QED BY <1>16, <3>1, <3>2, <3>3
    <2>2. Loaded(o, At(1, s)) /\ snap'[o][At(1, s)] = q[At(1, s)] /\ q[At(1, s)] \in Nat
      BY <1>9, <2>1
    <2> QED BY <1>8, <2>2 DEF WordsOf, q
  <1>17. At(3, s) <= Len(q) + 1 => snap'[o][At(1, s)] <= snap'[o][At(3, s)]
    <2>1. CASE At(3, s) <= Len(q) + 1 /\ At(3, s) = n /\ snap'[o][At(3, s)] = v
      <3>1. snap'[o][At(3, s)] = head[s]
        BY <1>4, <1>5, <2>1
      <3>2. snap'[o][At(1, s)] <= head[s]
        BY <1>16, <2>1
      <3> QED BY <3>1, <3>2
    <2>2. CASE At(3, s) <= Len(q) + 1 /\ Loaded(o, At(3, s)) /\ snap'[o][At(3, s)] = q[At(3, s)]
      BY <1>8, <1>16, <2>2 DEF WordsOf, q
    <2> QED BY <1>9, <2>1, <2>2
  <1>18. At(6, s) <= Len(q) + 1 =>
            ingested[s] + snap'[o][At(1, s)] <= snap'[o][At(6, s)] + tail(s) + Cardinality(Workers \cap {s})
    <2>1. CASE At(6, s) <= Len(q) + 1 /\ At(6, s) = n /\ snap'[o][At(6, s)] = v
      <3> DEFINE Con == ConsumersAt({"handle", "release", "consumed"}, s)
      <3>1. PublishersAt({"write", "count"}, s) = {}
        BY DEF PublishersAt
      <3>2. Cardinality(PublishersAt({"write", "count"}, s)) = 0
        BY <3>1, FS_EmptySet
      <3>3. Con \subseteq Workers \cap {s}
        BY DEF ConsumersAt, Consumers, FlagInv
      <3>4. IsFiniteSet(Workers \cap {s})
        <4>1. Workers \cap {s} \subseteq {s} /\ IsFiniteSet({s})
          BY FS_Singleton
        <4> QED BY <4>1, FS_Subset
      <3>5. Cardinality(Con) <= Cardinality(Workers \cap {s}) /\ IsFiniteSet(Con)
        BY <3>3, <3>4, FS_Subset
      <3>6. Cardinality(Con) \in Nat /\ Cardinality(Workers \cap {s}) \in Nat
        BY <3>4, <3>5, FS_CardinalityType
      <3>7. ingested[s] + 0 = consumed[s] + (tail(s) - head[s]) + Cardinality(Con)
        BY <3>2 DEF RecordsBalance
      <3>8. v = consumed[s]
        BY <1>4, <1>5, <2>1
      <3>9. snap'[o][At(1, s)] = q[At(1, s)] /\ q[At(1, s)] \in Nat /\ q[At(1, s)] <= head[s]
        BY <1>16, <2>1
      <3> DEFINE a == q[At(1, s)]
                 b == Cardinality(Con)
                 w == Cardinality(Workers \cap {s})
      <3>10. a \in Nat /\ b \in Nat /\ w \in Nat /\ a <= head[s] /\ b <= w /\ ingested[s] + 0 = consumed[s] + (tail(s) - head[s]) + b
        BY <3>5, <3>6, <3>7, <3>9
      <3> HIDE DEF a, b, w, Con
      <3>11. ingested[s] + a <= consumed[s] + tail(s) + w
        BY <1>6, <3>10
      <3> QED BY <2>1, <3>8, <3>9, <3>11 DEF a, w
    <2>2. CASE At(6, s) <= Len(q) + 1 /\ Loaded(o, At(6, s)) /\ snap'[o][At(6, s)] = q[At(6, s)]
      BY <1>8, <1>16, <2>2 DEF WordsOf, q
    <2> QED BY <1>9, <2>1, <2>2
  <1> QED
    BY <1>7, <1>10, <1>11, <1>12, <1>13, <1>14, <1>15, <1>17, <1>18 DEF WordsOf

(* How a step changes one observer's snapshot.                             *)
LEMMA SnapMoves ==
  ASSUME TypeOK, [Next]_vars, NEW o \in Observers
  PROVE  snap'[o] = snap[o] \/ snap'[o] = <<>> \/ (StatsLoad(o) /\ UNCHANGED <<lifeVars, traffic>>)
  <1>1. QueryType
    BY DEF TypeOK
  <1>2. CASE UNCHANGED queryVars
    BY <1>2 DEF queryVars
  <1>3. CASE QueryStep
    <2>1. UNCHANGED <<lifeVars, traffic>>
      BY <1>3 DEF QueryStep
    <2>2. ASSUME NEW r \in Readers, (\E s \in Shards : Lookup(r, s)) \/ LookupReturn(r)
          PROVE  snap'[o] = snap[o]
      BY <2>2 DEF Lookup, LookupReturn
    <2>3. ASSUME NEW q \in Observers, Stats(q) \/ StatsLoad(q) \/ StatsReturn(q)
          PROVE  snap'[o] = snap[o] \/ snap'[o] = <<>> \/ StatsLoad(o)
      <3>1. CASE q = o
        BY <1>1, <2>3, <3>1 DEF Stats, StatsReturn, QueryType
      <3>2. CASE q # o
        BY <1>1, <2>3, <3>2 DEF Stats, StatsLoad, StatsReturn, QueryType
      <3> QED BY <3>1, <3>2
    <2> QED BY <1>3, <2>1, <2>2, <2>3 DEF QueryStep
  <1>4. Next => QueryStep \/ UNCHANGED queryVars
    BY ProducerMoves, ConsumerMoves DEF Next, NewStep, TickerStep, Call, CommitStep, CloserStep
  <1>5. UNCHANGED vars => UNCHANGED queryVars
    BY DEF vars
  <1> QED BY <1>2, <1>3, <1>4, <1>5

(* Without producers the counters of Publish stand still, and heads only   *)
(* grow.                                                                   *)
LEMMA StandStill ==
  ASSUME CoreInv, [Next]_vars, \A p \in Producers : pc[p] = "idle"
  PROVE  /\ UNCHANGED <<issued, dropped, ingested, rejected, log>>
         /\ \A s \in Shards : head[s] <= head'[s] /\ head'[s] \in Nat
  <1>1. TypeOK /\ RingType /\ \A s \in Shards : head[s] \in Nat
    BY DEF CoreInv, TypeOK, RingType
  <1>2. ASSUME UNCHANGED head PROVE \A s \in Shards : head[s] <= head'[s] /\ head'[s] \in Nat
    BY <1>1, <1>2
  <1>3. ASSUME NEW p \in Producers, ProducerStep(p) PROVE FALSE
    BY <1>1, <1>3, ProducerMoves
  <1>4. ASSUME NEW c \in Consumers, ConsumerStep(c)
        PROVE  /\ UNCHANGED <<issued, dropped, ingested, rejected, log>>
               /\ \A s \in Shards : head[s] <= head'[s] /\ head'[s] \in Nat
    <2>1. UNCHANGED <<issued, dropped, ingested, rejected, log>>
      BY <1>1, <1>4, ConsumerMoves DEF pubVars
    <2>2. CASE head'[cshard[c]] = head[cshard[c]] + 1 /\ \A s \in Shards \ {cshard[c]} : head'[s] = head[s]
      BY <1>1, <2>1, <2>2
    <2>3. CASE UNCHANGED head
      BY <1>2, <2>1, <2>3
    <2> QED BY <1>4, <2>2, <2>3, ConsumerShard
  <1>5. ASSUME \/ \E s \in Shards : CommitStep(s)
               \/ \E p \in Producers, s \in Shards : Publish(p, s)
               \/ \E d \in Drainers : Drain(d)
               \/ Start
               \/ UNCHANGED traffic
        PROVE  UNCHANGED <<issued, dropped, ingested, rejected, log, head>>
    BY <1>5 DEF CommitStep, Commit, Publish, Drain, Start, traffic, ring, counters, pubVars
  <1> QED BY <1>1, <1>2, <1>3, <1>4, <1>5, OtherMoves

(* Every step keeps SnapInv.                                               *)
LEMMA SnapStep ==
  ASSUME CoreInv, FlagInv, RecordsBalance, Watched, SnapInv, [Next]_vars
  PROVE  SnapInv'
  <1> SUFFICES ASSUME NEW o \in Observers
               PROVE  /\ Loaded(o, 1)' => snap'[o][1] = issued'
                      /\ Loaded(o, 2)' => snap'[o][2] = dropped'
                      /\ \A s \in Shards : WordsOf(o, s)'
    BY DEF SnapInv
  <1>1. TypeOK /\ snap[o] \in Seq(Nat)
    BY DEF CoreInv, TypeOK, QueryType
  <1>2. \A s \in Shards, i \in 1 .. 7 : At(i, s) \in Nat /\ At(i, s) >= 3
    BY EngineAssumption DEF At, Shards
  <1>3. CASE snap'[o] = <<>>
    <2>1. Len(snap'[o]) = 0
      BY <1>3
    <2>2. \A n \in Nat : n >= 1 => ~(n <= Len(snap'[o]))
      BY <2>1
    <2>3. ~Loaded(o, 1)' /\ ~Loaded(o, 2)'
      BY <2>2 DEF Loaded
    <2>4. ASSUME NEW s \in Shards PROVE WordsOf(o, s)'
      <3>1. \A i \in 1 .. 7 : ~(At(i, s) <= Len(snap'[o]))
        BY <1>2, <2>1
      <3>2. \A i \in 1 .. 7 : ~Loaded(o, At(i, s))'
        BY <3>1 DEF Loaded
      <3> QED BY <3>2 DEF WordsOf
    <2> QED BY <2>3, <2>4
  <1>4. CASE snap[o] # <<>> /\ snap'[o] = snap[o]
    <2>1. \A p \in Producers : pc[p] = "idle"
      BY <1>4 DEF Watched
    <2> QED BY <1>4, <2>1, StandStill, SnapKept
  <1>5. CASE StatsLoad(o) /\ UNCHANGED <<lifeVars, traffic>>
    <2>1. /\ qpc[o] = "in" /\ UNCHANGED <<issued, dropped, ingested, consumed, rejected, log, commit, head>>
      BY <1>5 DEF StatsLoad, traffic, ring, counters, pubVars
    <2>2. (\A p \in Producers : pc[p] = "idle") /\ (\A d \in Drainers : cpc[d] = "off")
      BY <2>1 DEF Watched
    <2>3. \A s \in Shards : WordsOf(o, s)'
      BY <1>5, <2>1, <2>2, SnapLoad
    <2> DEFINE q == snap[o]
               n == Len(q) + 1
               v == Word(LoadOrder[n][1], LoadOrder[n][2])
    <2>4. /\ Len(q) \in Nat /\ snap'[o] = Append(q, v)
          /\ Len(Append(q, v)) = Len(q) + 1 /\ Append(q, v)[Len(q) + 1] = v
          /\ \A j \in 1 .. Len(q) : Append(q, v)[j] = q[j]
      <3>1. snap'[o] = Append(q, v)
        BY <1>5 DEF StatsLoad, CoreInv, TypeOK, QueryType
      <3> HIDE DEF v
      <3> QED BY <1>1, <3>1
    <2>5. (n = 1 => v = issued) /\ (n = 2 => v = dropped)
      <3>1. LoadOrder[1] = <<"tickets", Ctl>> /\ LoadOrder[2] = <<"dropped", Ctl>>
        BY EngineAssumption DEF LoadOrder
      <3>2. Word("tickets", Ctl) = issued /\ Word("dropped", Ctl) = dropped
        BY DEF Word
      <3> QED BY <3>1, <3>2
    <2>6. (1 <= Len(q) => q[1] = issued) /\ (2 <= Len(q) => q[2] = dropped)
      BY DEF SnapInv, Loaded
    <2> HIDE DEF q, n, v
    <2>7. n = Len(q) + 1
      BY DEF n
    <2>8. ASSUME 1 <= Len(q) + 1 PROVE Append(q, v)[1] = issued
      <3>1. CASE Len(q) = 0
        BY <2>4, <2>5, <2>7, <3>1
      <3>2. CASE Len(q) # 0
        <4>1. 1 \in 1 .. Len(q)
          BY <2>4, <3>2
        <4> QED BY <2>4, <2>6, <4>1
      <3> QED BY <3>1, <3>2
    <2>9. ASSUME 2 <= Len(q) + 1 PROVE Append(q, v)[2] = dropped
      <3>1. CASE Len(q) = 1
        BY <2>4, <2>5, <2>7, <3>1
      <3>2. CASE Len(q) # 1
        <4>1. Len(q) \in Nat /\ 2 <= Len(q) + 1 /\ Len(q) # 1
          BY <2>4, <2>9, <3>2
        <4>2. \A k \in Nat : 2 <= k + 1 /\ k # 1 => 2 <= k /\ 2 \in 1 .. k
          OBVIOUS
        <4>3. 2 <= Len(q) /\ 2 \in 1 .. Len(q)
          BY ONLY <4>1, <4>2
        <4>4. Append(q, v)[2] = q[2]
          BY <2>4, <4>3
        <4> QED BY <2>6, <4>3, <4>4
      <3> QED BY <3>1, <3>2
    <2>10. /\ Loaded(o, 1)' => snap'[o][1] = issued'
           /\ Loaded(o, 2)' => snap'[o][2] = dropped'
      BY <2>1, <2>4, <2>8, <2>9 DEF Loaded
    <2> QED BY <2>3, <2>10
  <1> QED BY <1>1, <1>3, <1>4, <1>5, SnapMoves

(* What a complete snapshot shows.                                         *)
LEMMA SnapShows ==
  ASSUME CoreInv, CountersBalance, DropsBalance, Watched, SnapInv, NEW o \in Observers, Complete(o)
  PROVE  /\ Shown(o, "tickets", Ctl) = Shown(o, "dropped", Ctl)
              + Total([s \in Shards |-> Shown(o, "ingested", s)])
         /\ Shown(o, "dropped", Ctl) = Total([s \in Shards |-> Shown(o, "rejected", s)])
         /\ \A s \in Shards :
              LET pending == Shown(o, "pendingTail", s) - Shown(o, "pendingHead", s)
                  committed == Shown(o, "committedTo", s) - Shown(o, "committedHead", s)
                  missing == Shown(o, "ingested", s) - Shown(o, "consumed", s) - pending
              IN  committed <= pending /\ missing <= Cardinality(Workers \cap {s})
  <1>1. /\ snap[o] \in Seq(Nat) /\ Len(snap[o]) = 7 * NShards + 2 /\ NShards \in Nat \ {0}
        /\ Len(LoadOrder) = 7 * NShards + 2
    BY EngineAssumption DEF Complete, LoadOrder, CoreInv, TypeOK, QueryType
  <1>2. /\ Loaded(o, 1) /\ Loaded(o, 2)
        /\ \A s \in Shards, i \in 1 .. 7 : At(i, s) \in 1 .. Len(snap[o]) /\ Loaded(o, At(i, s))
    <2>1. \A s \in Shards, i \in 1 .. 7 : At(i, s) \in 3 .. Len(LoadOrder)
      BY AtLoads
    <2>2. \A s \in Shards, i \in 1 .. 7 : At(i, s) \in 1 .. Len(snap[o])
      <3>1. \A m \in Nat : \A k \in 3 .. m : k \in 1 .. m
        OBVIOUS
      <3>2. Len(snap[o]) = Len(LoadOrder) /\ Len(snap[o]) \in Nat
        BY <1>1
      <3> HIDE DEF At
      <3> QED BY <2>1, <3>1, <3>2, Zenon
    <2>3. 1 <= Len(snap[o]) /\ 2 <= Len(snap[o]) /\ \A s \in Shards, i \in 1 .. 7 : At(i, s) <= Len(snap[o])
      BY <1>1, <2>2
    <2> QED BY <2>2, <2>3 DEF Loaded
  <1>3. snap[o][1] = issued /\ snap[o][2] = dropped /\ \A s \in Shards : WordsOf(o, s)
    BY <1>2 DEF SnapInv
  <1>4. /\ Shown(o, "tickets", Ctl) = issued
        /\ Shown(o, "dropped", Ctl) = dropped
    BY <1>3, ShownAt
  <1>5. ASSUME NEW s \in Shards
        PROVE  /\ Shown(o, "pendingHead", s) = snap[o][At(1, s)]
               /\ Shown(o, "pendingTail", s) = snap[o][At(2, s)]
               /\ Shown(o, "committedHead", s) = snap[o][At(3, s)]
               /\ Shown(o, "committedTo", s) = snap[o][At(4, s)]
               /\ Shown(o, "ingested", s) = snap[o][At(5, s)]
               /\ Shown(o, "consumed", s) = snap[o][At(6, s)]
               /\ Shown(o, "rejected", s) = snap[o][At(7, s)]
    <2>1. \A i \in 1 .. 7 : Shown(o, ShardWords[i], s) = snap[o][At(i, s)]
      BY ShownAt
    <2>2. /\ ShardWords[1] = "pendingHead" /\ ShardWords[2] = "pendingTail" /\ ShardWords[3] = "committedHead"
          /\ ShardWords[4] = "committedTo" /\ ShardWords[5] = "ingested" /\ ShardWords[6] = "consumed"
          /\ ShardWords[7] = "rejected"
      BY DEF ShardWords
    <2> QED BY <2>1, <2>2
  <1>6. \A s \in Shards : Shown(o, "ingested", s) = ingested[s] /\ Shown(o, "rejected", s) = rejected[s]
    <2> SUFFICES ASSUME NEW s \in Shards
                 PROVE  Shown(o, "ingested", s) = ingested[s] /\ Shown(o, "rejected", s) = rejected[s]
      OBVIOUS
    <2>1. Loaded(o, At(5, s)) /\ Loaded(o, At(7, s)) /\ WordsOf(o, s)
      BY <1>2, <1>3
    <2>2. snap[o][At(5, s)] = ingested[s] /\ snap[o][At(7, s)] = rejected[s]
      BY <2>1 DEF WordsOf
    <2> QED BY <1>5, <2>2
  <1>7. /\ [s \in Shards |-> Shown(o, "ingested", s)] = ingested
        /\ [s \in Shards |-> Shown(o, "rejected", s)] = rejected
    BY <1>6 DEF CoreInv, TypeOK, CounterType
  <1>8. \A p \in Producers : pc[p] = "idle"
    <2>1. snap[o] # <<>>
      BY <1>1
    <2> QED BY <2>1 DEF Watched
  <1>9. issued = Total(ingested) + dropped + 0
    <2>1. {p \in Producers : pc[p] \in {"claim", "write", "count", "drop"}} = {}
      BY <1>8
    <2> QED BY <2>1, FS_EmptySet DEF CountersBalance, TicketsBalance
  <1>10. dropped \in Nat /\ Total(ingested) \in Nat
    BY UnitsFinite DEF CoreInv, TypeOK, CounterType
  <1>11. issued = dropped + Total(ingested)
    BY <1>9, <1>10
  <1>12. ASSUME NEW s \in Shards
         PROVE  LET pending == Shown(o, "pendingTail", s) - Shown(o, "pendingHead", s)
                    committed == Shown(o, "committedTo", s) - Shown(o, "committedHead", s)
                    missing == Shown(o, "ingested", s) - Shown(o, "consumed", s) - pending
                IN  committed <= pending /\ missing <= Cardinality(Workers \cap {s})
    <2> DEFINE a == snap[o][At(1, s)]
               b == snap[o][At(2, s)]
               c == snap[o][At(3, s)]
               d == snap[o][At(4, s)]
               e == snap[o][At(5, s)]
               f == snap[o][At(6, s)]
               w == Cardinality(Workers \cap {s})
    <2>1. a \in Nat /\ b \in Nat /\ c \in Nat /\ d \in Nat /\ e \in Nat /\ f \in Nat
      <3>1. \A j \in 1 .. Len(snap[o]) : snap[o][j] \in Nat
        BY <1>1
      <3>2. \A i \in 1 .. 7 : At(i, s) \in 1 .. Len(snap[o])
        BY <1>2
      <3>3. \A i \in 1 .. 7 : snap[o][At(i, s)] \in Nat
        BY <3>1, <3>2, Zenon
      <3> QED BY <3>3
    <2>2. w \in Nat
      <3>1. Workers \cap {s} \subseteq {s} /\ IsFiniteSet({s})
        BY FS_Singleton
      <3>2. IsFiniteSet(Workers \cap {s})
        BY <3>1, FS_Subset
      <3> QED BY <3>2, FS_CardinalityType
    <2>3. b = tail(s) /\ a <= c /\ d <= tail(s) /\ e = ingested[s] /\ ingested[s] + a <= f + tail(s) + w
      <3>1. /\ Loaded(o, At(2, s)) /\ Loaded(o, At(3, s)) /\ Loaded(o, At(4, s))
            /\ Loaded(o, At(5, s)) /\ Loaded(o, At(6, s)) /\ WordsOf(o, s)
        BY <1>2, <1>3
      <3> QED BY <3>1 DEF WordsOf
    <2>4. a <= c /\ d <= b /\ e + a <= f + b + w
      BY <2>3
    <2> HIDE DEF a, b, c, d, e, f, w
    <2>5. d - c <= b - a /\ e - f - (b - a) <= w
      BY <2>1, <2>2, <2>4
    <2>6. /\ Shown(o, "pendingHead", s) = a /\ Shown(o, "pendingTail", s) = b
          /\ Shown(o, "committedHead", s) = c /\ Shown(o, "committedTo", s) = d
          /\ Shown(o, "ingested", s) = e /\ Shown(o, "consumed", s) = f
      BY <1>5 DEF a, b, c, d, e, f
    <2> QED BY <2>5, <2>6 DEF w
  <1>13. dropped = Total(rejected)
    <2>1. Dropping = {}
      BY <1>8 DEF Dropping
    <2>2. dropped + 0 = Total(rejected)
      BY <2>1, FS_EmptySet DEF DropsBalance
    <2> QED BY <1>10, <2>2
  <1> QED BY <1>4, <1>7, <1>11, <1>12, <1>13

(* A snapshot that the caller takes after it joined its producers adds up, *)
(* although it is read word by word while the workers go on: every ticket  *)
(* is ingested or dropped, every drop is some shard's, no more is          *)
(* committed than pending, and no record is missing but the one in the     *)
(* hands of the shard's worker.                                            *)
THEOREM StatsAddUp == Spec => []StatsAccount
  <1>1. CASE JoinFirst
    <2> DEFINE Inv == FlagInv /\ CountersBalance /\ DropsBalance /\ Watched /\ SnapInv
    <2>1. Init => Inv
      <3> SUFFICES ASSUME Init PROVE Inv
        OBVIOUS
      <3>1. DropsBalance
        <4>1. /\ dropped = 0 /\ rejected \in [Shards -> Nat] /\ \A s \in Shards : rejected[s] = 0
              /\ Dropping = {}
          BY DEF Init, Dropping
        <4>2. Cardinality(Dropping) = 0
          BY <4>1, FS_EmptySet
        <4> QED BY <4>1, <4>2, TotalZero DEF DropsBalance
      <3>2. Watched
        BY DEF Init, Watched, Queries
      <3>3. SnapInv
        <4>1. \A o \in Observers : Len(snap[o]) = 0
          BY DEF Init
        <4>2. \A s \in Shards, i \in 1 .. 7 : At(i, s) \in Nat /\ At(i, s) >= 3
          BY EngineAssumption DEF At, Shards
        <4>3. \A o \in Observers : ~Loaded(o, 1) /\ ~Loaded(o, 2) /\ \A s \in Shards, i \in 1 .. 7 : ~Loaded(o, At(i, s))
          BY <4>1, <4>2 DEF Loaded
        <4> QED BY <4>3 DEF SnapInv, WordsOf
      <3> QED BY <3>1, <3>2, <3>3, FlagInit, BalanceInit
    <2>2. ASSUME CoreInv /\ LifeInv, Inv, [Next]_vars PROVE Inv'
      <3>1. FlagInv' /\ DropsBalance' /\ Watched'
        BY <1>1, <2>2, FlagStep, DropsStep, WatchedStep DEF CoreInv
      <3>2. CountersBalance'
        BY <2>2, TicketsStep, RecordsStep DEF CountersBalance
      <3>3. SnapInv'
        BY <2>2, SnapStep DEF CountersBalance
      <3> QED BY <3>1, <3>2, <3>3
    <2>3. ASSUME CoreInv /\ LifeInv, Inv PROVE StatsAccount
      BY <2>3, SnapShows DEF StatsAccount
    <2> HIDE DEF Inv
    <2> QED BY <2>1, <2>2, <2>3, LifeAlways, PTL DEF Spec
  <1>2. CASE ~JoinFirst
    <2>1. StatsAccount
      BY <1>2 DEF StatsAccount
    <2> QED BY <2>1, PTL
  <1> QED BY <1>1, <1>2
=============================================================================
