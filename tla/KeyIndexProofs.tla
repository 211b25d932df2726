--------------------------- MODULE KeyIndexProofs ---------------------------
(***************************************************************************)
(* Proofs about the key index for every number of producers, readers,      *)
(* keys, buckets and cells, every hash and every probe limit.              *)
(***************************************************************************)
EXTENDS KeyIndex, FiniteSetTheorems, TLAPS

(* Where the constants put the words that the operations compute.          *)
LEMMA ConstantTypes ==
  /\ 0 \in Slots /\ 0 \in TicketWords /\ NoKey \in KeyWords
  /\ 0 \in 0 .. MaxProbe - 1
  /\ KeyWords \subseteq Nat
  /\ \A w \in Nat : w % Capacity \in Slots
  BY KeyIndexAssumption DEF Slots, TicketWords, KeyWords, NoKey

(* hashKey and mask address one of the buckets.                            *)
LEMMA BucketInRange ==
  ASSUME NEW k \in Keys, NEW n \in Nat
  PROVE  Bucket(k, n) \in BucketIds
  <1>1. Home[k] + n \in Nat
    BY KeyIndexAssumption
  <1> QED BY <1>1, KeyIndexAssumption DEF Bucket, BucketIds

(* A nonempty set of numbers that are at most n has a greatest member.     *)
LEMMA MaxInBounded ==
  ASSUME NEW n \in Nat, NEW S, S \subseteq 0 .. n, S # {}
  PROVE  Max(S) \in S /\ \A x \in S : Max(S) >= x
  <1> DEFINE T == {n - x : x \in S}
  <1>1. T \subseteq Nat /\ T # {}
    <2>1. \A x \in S : n - x \in Nat
      OBVIOUS
    <2>2. \A y \in T : y \in Nat
      BY <2>1
    <2>3. PICK x \in S : TRUE
      OBVIOUS
    <2>4. n - x \in T
      BY <2>3
    <2> QED BY <2>2, <2>4
  <1>2. PICK m \in T : \A y \in T : <<y, m>> \notin OpToRel(<, Nat)
    BY <1>1, NatLessThanWellFounded, WFMin, Zenon
  <1>3. PICK a \in S : m = n - a
    OBVIOUS
  <1>4. \A x \in S : n - x \in T /\ n - x \in Nat
    OBVIOUS
  <1>5. \A x \in S : ~(n - x < m)
    BY <1>1, <1>2, <1>4 DEF OpToRel
  <1>6. \A x \in S : a >= x
    BY <1>3, <1>5
  <1> QED BY <1>6 DEF Max

(* A publish under way carries one of its caller's keys and the ticket it  *)
(* drew; a lookup under way carries the key it was asked for.              *)
Keyed ==
    /\ \A p \in Producers : pc[p] # "idle" =>
          call[p].key \in KeysOf[p] /\ call[p].ticket \in Tickets
    /\ \A r \in Readers : rpc[r] # "idle" => look[r].key \in Keys

(* Key 0 is nobody's key.                                                  *)
LEMMA KeyNotEmpty == NoKey \notin Keys /\ \A p \in Producers : KeysOf[p] \subseteq Keys
  BY KeyIndexAssumption

(* The bucket that a call is at.                                           *)
LEMMA MyBucketInRange ==
  ASSUME TypeOK, Keyed, NEW p \in Producers, pc[p] # "idle"
  PROVE  MyBucket(p) \in BucketIds /\ bucket[MyBucket(p)] \in BucketWords
  <1>1. call[p].key \in Keys /\ call[p].probe \in Nat
    BY KeyNotEmpty, KeyIndexAssumption DEF TypeOK, Keyed, Calls
  <1>2. MyBucket(p) \in BucketIds
    BY <1>1, BucketInRange DEF MyBucket
  <1> QED BY <1>2 DEF TypeOK
-----------------------------------------------------------------------------
(* Types of one word stored, of locals that change, and of a whole return. *)
LEMMA StoreBucketType ==
  ASSUME TypeOK, NEW p \in Producers, NEW v,
         \/ StoreBucket(p, "key", v) /\ v \in KeyWords
         \/ StoreBucket(p, "ticket", v) /\ v \in TicketWords
         \/ StoreBucket(p, "slot", v) /\ v \in Slots
  PROVE  bucket' \in [BucketIds -> BucketWords]
  <1>1. bucket \in [BucketIds -> BucketWords]
    BY DEF TypeOK
  <1> QED BY <1>1 DEF StoreBucket, BucketWords

(* The stores into the claimed cell keep its words in their types.         *)
LEMMA StoreCellType ==
  ASSUME TypeOK, NEW p \in Producers, NEW v,
         \/ StoreCell(p, "pay", v) /\ v \in TicketWords
         \/ StoreCell(p, "ticket", v) /\ v \in TicketWords
         \/ StoreCell(p, "key", v) /\ v \in KeyWords
         \/ StoreCell(p, "flag", v) /\ v \in BOOLEAN
  PROVE  cell' \in [Slots -> CellWords]
  <1>1. cell \in [Slots -> CellWords]
    BY DEF TypeOK
  <1> QED BY <1>1 DEF StoreCell, CellWords

(* A call's step leaves its locals in their types and at a known label.    *)
MovesWell == pc' \in [Producers -> ProducerPc] /\ call' \in [Producers -> Calls]

(* Every way of moving on does so.                                         *)
LEMMA MoveType ==
  ASSUME TypeOK, NEW p \in Producers
  PROVE  /\ Return(p) => MovesWell
         /\ \A label \in ProducerPc : Jump(p, label) => MovesWell
         /\ \A label \in ProducerPc : \A v \in Nat : Load(p, label, v) => MovesWell
         /\ \A label \in ProducerPc : \A n \in 0 .. MaxProbe - 1 : Probe(p, label, n) => MovesWell
         /\ Retry(p) => MovesWell
  <1>1. pc \in [Producers -> ProducerPc] /\ call \in [Producers -> Calls]
    BY DEF TypeOK
  <1>2. NoCall \in Calls
    BY ConstantTypes, KeyIndexAssumption DEF NoCall, Calls
  <1>3. \A r \in Calls : \A v \in Nat : [r EXCEPT !.cur = v] \in Calls
    BY DEF Calls
  <1>4. ASSUME NEW n \in 0 .. MaxProbe - 1
        PROVE  [call[p] EXCEPT !.probe = n, !.cur = 0, !.dead = 0] \in Calls
    <2>1. call[p] \in Calls /\ 0 \in Slots
      BY <1>1, ConstantTypes
    <2> QED BY <2>1 DEF Calls
  <1>5. [call[p] EXCEPT !.attempt = 1, !.probe = 0] \in Calls
    <2>1. call[p] \in Calls /\ 0 \in 0 .. MaxProbe - 1 /\ 1 \in 0 .. 1
      BY <1>1, ConstantTypes
    <2> QED BY <2>1 DEF Calls
  <1>6. Return(p) => MovesWell
    BY <1>1, <1>2 DEF Return, Goto, MovesWell, ProducerPc
  <1>7. ASSUME NEW label \in ProducerPc, Jump(p, label) PROVE MovesWell
    BY <1>1, <1>7 DEF Jump, Goto, MovesWell
  <1>8. ASSUME NEW label \in ProducerPc, NEW v \in Nat, Load(p, label, v) PROVE MovesWell
    BY <1>1, <1>3, <1>8 DEF Load, Goto, MovesWell
  <1>9. ASSUME NEW label \in ProducerPc, NEW n \in 0 .. MaxProbe - 1, Probe(p, label, n)
        PROVE  MovesWell
    <2> DEFINE c == [call[p] EXCEPT !.probe = n, !.cur = 0, !.dead = 0]
    <2>1. call' = [call EXCEPT ![p] = c] /\ pc' = [pc EXCEPT ![p] = label]
      BY <1>1, <1>9 DEF Probe, Goto
    <2>2. c \in Calls
      BY <1>4
    <2> HIDE DEF c
    <2> QED BY <1>1, <2>1, <2>2 DEF MovesWell
  <1>10. Retry(p) => MovesWell
    <2>1. [call EXCEPT ![p].attempt = 1, ![p].probe = 0]
             = [call EXCEPT ![p] = [call[p] EXCEPT !.attempt = 1, !.probe = 0]]
      BY <1>1
    <2> QED BY <1>1, <1>5, <1>6, <2>1 DEF Retry, Goto, MovesWell, ProducerPc
  <1> QED BY <1>6, <1>7, <1>8, <1>9, <1>10

(* The ends of a pass move on or return.                                   *)
LEMMA PassType ==
  ASSUME TypeOK, NEW p \in Producers
  PROVE  (NextOfScan(p) => MovesWell) /\ (NextOfFind(p) => MovesWell)
  <1>1. call[p].probe \in 0 .. MaxProbe - 1
    BY DEF TypeOK, Calls
  <1>2. call[p].probe + 1 < MaxProbe => call[p].probe + 1 \in 0 .. MaxProbe - 1
    BY <1>1, KeyIndexAssumption
  <1>3. {"scan", "find"} \subseteq ProducerPc
    BY DEF ProducerPc
  <1> QED BY <1>2, <1>3, MoveType, ConstantTypes DEF NextOfScan, NextOfFind

(* A step that keeps the matrix and moves its call keeps the types.        *)
LEMMA TypeOfMove ==
  ASSUME TypeOK, MovesWell, UNCHANGED <<live, matrix, readVars>>,
         bucket' \in [BucketIds -> BucketWords]
  PROVE  TypeOK'
  BY DEF TypeOK, MovesWell, matrix, readVars

(* A store into the claimed cell keeps the types.                          *)
LEMMA TypeOfCell ==
  ASSUME TypeOK, MovesWell, cell' \in [Slots -> CellWords],
         UNCHANGED <<bucket, live, tail, issued, record, readVars>>
  PROVE  TypeOK'
  BY DEF TypeOK, MovesWell, readVars

(* publish up to the release store keeps the types.                        *)
LEMMA TypePublish ==
  ASSUME TypeOK, NEW p \in Producers, UNCHANGED readVars,
         \/ \E k \in Keys : TakeTicket(p, k)
         \/ ClaimCell(p) \/ ClaimFull(p) \/ WritePayload(p) \/ WriteTicket(p) \/ WriteKey(p)
         \/ WriteFlags(p) \/ StoreSeq(p)
  PROVE  TypeOK'
  <1>1. /\ pc \in [Producers -> ProducerPc] /\ call \in [Producers -> Calls]
        /\ record \in [Tickets -> Places]
        /\ live \in Nat /\ tail \in Nat /\ issued \in TicketWords
    BY DEF TypeOK
  <1>2. call[p].ticket \in TicketWords /\ call[p].key \in KeyWords /\ MySlot(p) \in Slots
    BY <1>1, ConstantTypes DEF Calls, MySlot
  <1>3. ASSUME NEW k \in Keys, TakeTicket(p, k) PROVE TypeOK'
    <2>1. issued + 1 \in TicketWords /\ k \in KeyWords
      <3>1. issued < MaxTickets /\ MaxTickets \in Nat
        BY <1>3, KeyIndexAssumption DEF TakeTicket
      <3>2. issued \in 0 .. MaxTickets
        BY <1>1 DEF TicketWords
      <3>3. issued + 1 \in 0 .. MaxTickets
        BY <3>1, <3>2
      <3> QED BY <3>3 DEF TicketWords, KeyWords
    <2>2. [call EXCEPT ![p].ticket = issued + 1, ![p].key = k] \in [Producers -> Calls]
      <3>1. [call[p] EXCEPT !.ticket = issued + 1, !.key = k] \in Calls
        <4>1. call[p] \in Calls
          BY <1>1
        <4> QED BY <2>1, <4>1 DEF Calls
      <3>2. [call EXCEPT ![p].ticket = issued + 1, ![p].key = k]
               = [call EXCEPT ![p] = [call[p] EXCEPT !.ticket = issued + 1, !.key = k]]
        BY <1>1
      <3> QED BY <1>1, <3>1, <3>2
    <2>3. MovesWell
      BY <1>1, <1>3, <2>2 DEF TakeTicket, Goto, MovesWell, ProducerPc
    <2> QED BY <1>3, <2>1, <2>3 DEF TakeTicket, TypeOK, MovesWell, readVars
  <1>4. CASE ClaimCell(p)
    <2>1. [call EXCEPT ![p].pos = tail] \in [Producers -> Calls]
      BY <1>1 DEF Calls
    <2>2. MovesWell
      BY <1>1, <1>4, <2>1 DEF ClaimCell, Goto, MovesWell, ProducerPc
    <2> QED BY <1>4, <2>2 DEF ClaimCell, TypeOK, MovesWell, readVars
  <1>5. CASE ClaimFull(p)
    BY <1>5, MoveType, TypeOfMove DEF ClaimFull, TypeOK
  <1>6. CASE WritePayload(p) \/ WriteTicket(p) \/ WriteKey(p) \/ WriteFlags(p)
    <2>1. {"ticket", "key", "flags", "store"} \subseteq ProducerPc
      BY DEF ProducerPc
    <2>2. MovesWell
      BY <1>6, <2>1, MoveType DEF WritePayload, WriteTicket, WriteKey, WriteFlags
    <2>3. cell' \in [Slots -> CellWords]
      BY <1>2, <1>6, StoreCellType DEF WritePayload, WriteTicket, WriteKey, WriteFlags
    <2> QED
      BY <1>6, <2>2, <2>3, TypeOfCell
         DEF WritePayload, WriteTicket, WriteKey, WriteFlags, StoreCell
  <1>7. CASE StoreSeq(p)
    <2>1. "find" \in ProducerPc
      BY DEF ProducerPc
    <2>2. MovesWell
      BY <1>7, <2>1, MoveType DEF StoreSeq
    <2>3. [key |-> call[p].key, slot |-> MySlot(p)] \in Places
      BY <1>2 DEF Places
    <2>4. record' \in [Tickets -> Places]
      BY <1>1, <1>7, <2>3 DEF StoreSeq
    <2> QED BY <1>7, <2>2, <2>4 DEF StoreSeq, TypeOK, MovesWell, readVars
  <1> QED BY <1>3, <1>4, <1>5, <1>6, <1>7

(* upsert, updateMonotonic and isDead keep the types.                      *)
LEMMA TypeUpsert ==
  ASSUME TypeOK, Keyed, NEW p \in Producers, UNCHANGED readVars,
         \/ FindLoad(p) \/ InsertCas(p) \/ LostReload(p)
         \/ InsertSlot(p) \/ InsertTicket(p) \/ CountLive(p)
         \/ UpdateLoad(p) \/ UpdateCas(p) \/ UpdateSlot(p)
         \/ ScanLoad(p) \/ DeadSlot(p) \/ DeadKey(p)
         \/ ReclaimCas(p) \/ ReclaimSlot(p) \/ ReclaimTicket(p)
  PROVE  TypeOK'
  <1>1. /\ pc \in [Producers -> ProducerPc] /\ call \in [Producers -> Calls]
        /\ bucket \in [BucketIds -> BucketWords]
    BY DEF TypeOK
  <1>2. call[p].ticket \in TicketWords /\ call[p].key \in KeyWords /\ MySlot(p) \in Slots
    BY <1>1, ConstantTypes DEF Calls, MySlot
  <1>3. {"insert", "lost", "insertSlot", "insertTicket", "count", "update", "updateCas",
         "updateSlot", "deadSlot", "deadKey", "reclaim", "reclaimSlot", "reclaimTicket"}
           \subseteq ProducerPc
    BY DEF ProducerPc
  <1>4. CASE FindLoad(p)
    BY <1>1, <1>3, <1>4, MoveType, PassType, TypeOfMove DEF FindLoad
  <1>5. CASE InsertCas(p)
    BY <1>1, <1>2, <1>3, <1>5, MoveType, StoreBucketType, TypeOfMove
       DEF InsertCas, BucketCas, StoreBucket
  <1>6. CASE LostReload(p)
    BY <1>1, <1>3, <1>6, MoveType, PassType, TypeOfMove DEF LostReload
  <1>7. CASE InsertSlot(p)
    BY <1>2, <1>3, <1>7, MoveType, StoreBucketType, TypeOfMove DEF InsertSlot, StoreBucket
  <1>8. CASE InsertTicket(p)
    BY <1>2, <1>3, <1>8, MoveType, StoreBucketType, TypeOfMove DEF InsertTicket, StoreBucket
  <1>9. CASE CountLive(p)
    <2>1. MovesWell
      BY <1>9, MoveType DEF CountLive
    <2> QED BY <1>9, <2>1 DEF CountLive, TypeOK, MovesWell, matrix, readVars
  <1>10. CASE UpdateLoad(p)
    <2>1. bucket[MyBucket(p)].ticket \in Nat
      BY <1>10, MyBucketInRange DEF UpdateLoad, BucketWords, TicketWords
    <2> QED BY <1>1, <1>3, <1>10, <2>1, MoveType, TypeOfMove DEF UpdateLoad
  <1>11. CASE UpdateCas(p)
    BY <1>1, <1>2, <1>3, <1>11, MoveType, StoreBucketType, TypeOfMove
       DEF UpdateCas, BucketCas, StoreBucket
  <1>12. CASE UpdateSlot(p)
    BY <1>2, <1>12, MoveType, StoreBucketType, TypeOfMove DEF UpdateSlot, StoreBucket
  <1>13. CASE ScanLoad(p)
    <2>1. bucket[MyBucket(p)].key \in Nat
      BY <1>13, MyBucketInRange, ConstantTypes DEF ScanLoad, BucketWords
    <2> QED BY <1>1, <1>3, <1>13, <2>1, MoveType, TypeOfMove DEF ScanLoad
  <1>14. CASE DeadSlot(p)
    <2>1. bucket[MyBucket(p)].slot \in Slots
      BY <1>14, MyBucketInRange DEF DeadSlot, BucketWords
    <2>2. [call EXCEPT ![p].dead = bucket[MyBucket(p)].slot] \in [Producers -> Calls]
      BY <1>1, <2>1 DEF Calls
    <2>3. MovesWell
      BY <1>1, <1>3, <1>14, <2>2 DEF DeadSlot, Goto, MovesWell
    <2> QED BY <1>1, <1>14, <2>3, TypeOfMove DEF DeadSlot
  <1>15. CASE DeadKey(p)
    BY <1>1, <1>3, <1>15, MoveType, PassType, TypeOfMove DEF DeadKey
  <1>16. CASE ReclaimCas(p)
    BY <1>1, <1>2, <1>3, <1>16, MoveType, PassType, StoreBucketType, TypeOfMove
       DEF ReclaimCas, BucketCas, StoreBucket
  <1>17. CASE ReclaimSlot(p)
    BY <1>2, <1>3, <1>17, MoveType, StoreBucketType, TypeOfMove DEF ReclaimSlot, StoreBucket
  <1>18. CASE ReclaimTicket(p)
    BY <1>2, <1>18, MoveType, StoreBucketType, TypeOfMove DEF ReclaimTicket, StoreBucket
  <1> QED
    BY <1>4, <1>5, <1>6, <1>7, <1>8, <1>9, <1>10, <1>11, <1>12, <1>13, <1>14, <1>15, <1>16,
       <1>17, <1>18

(* The steps of lookup keep the types and the key asked for.               *)
LEMMA TypeLookup ==
  ASSUME TypeOK, Keyed, NEW r \in Readers, LookupStep(r)
  PROVE  TypeOK' /\ Keyed'
  <1>1. /\ rpc \in [Readers -> ReaderPc] /\ look \in [Readers -> Looks]
        /\ floor \in [Readers -> TicketWords]
        /\ look[r] \in Looks
        /\ cell \in [Slots -> CellWords] /\ bucket \in [BucketIds -> BucketWords]
    BY DEF TypeOK
  <1>2. UNCHANGED <<bucket, live, cell, tail, issued, record, pc, call>>
    BY DEF LookupStep, pubVars, matrix
  <1>3. SUFFICES /\ rpc' \in [Readers -> ReaderPc] /\ look' \in [Readers -> Looks]
                 /\ floor' \in [Readers -> TicketWords]
                 /\ \A q \in Readers : rpc'[q] # "idle" => look'[q].key \in Keys
    BY <1>2 DEF TypeOK, Keyed
  <1> DEFINE Fine == /\ rpc' \in [Readers -> ReaderPc] /\ look' \in [Readers -> Looks]
                     /\ floor' \in [Readers -> TicketWords]
                     /\ \A q \in Readers : rpc'[q] # "idle" => look'[q].key \in Keys
  <1>4. \A q \in Readers : rpc[q] # "idle" => look[q].key \in Keys
    BY DEF Keyed
  <1>5. ASSUME NEW k \in Keys, Lookup(r, k) PROVE Fine
    <2>1. Max({0} \cup Completed(k)) \in TicketWords
      <3>1. {0} \cup Completed(k) \subseteq 0 .. MaxTickets /\ MaxTickets \in Nat
        BY KeyIndexAssumption DEF Completed, Published, Tickets
      <3> QED BY <3>1, MaxInBounded DEF TicketWords
    <2>2. look' \in [Readers -> Looks]
      BY <1>1, <1>5 DEF Lookup, Looks, KeyWords
    <2> QED BY <1>1, <1>4, <1>5, <2>1, <2>2 DEF Lookup, RGoto, ReaderPc
  <1>6. Reset(r) => Fine
    <2>1. NoLook \in Looks
      BY ConstantTypes DEF NoLook, Looks
    <2> QED BY <1>1, <1>4, <2>1, ConstantTypes DEF Reset, RGoto, ReaderPc
  <1>7. ASSUME NEW label \in ReaderPc, RJump(r, label), rpc[r] # "idle" PROVE Fine
    BY <1>1, <1>4, <1>7 DEF RJump, RGoto
  <1>8. ASSUME NEW label \in ReaderPc, rpc[r] # "idle", NEW v,
               \/ Keep(r, label, "probe", v) /\ v \in 0 .. MaxProbe - 1
               \/ Keep(r, label, "slot", v) /\ v \in Slots
               \/ Keep(r, label, "ticket", v) /\ v \in TicketWords
               \/ Keep(r, label, "pay", v) /\ v \in TicketWords
        PROVE  Fine
    <2>1. look' \in [Readers -> Looks] /\ \A q \in Readers : look'[q].key = look[q].key
      BY <1>1, <1>8 DEF Keep, Looks
    <2> QED BY <1>1, <1>4, <1>8, <2>1 DEF Keep, RGoto
  <1>9. /\ rpc[r] # "idle" => RBucket(r) \in BucketWords
        /\ RCell(r) \in CellWords
    <2>1. look[r].probe \in Nat /\ look[r].slot \in Slots
      BY <1>1, KeyIndexAssumption DEF Looks
    <2> QED BY <1>1, <1>4, <2>1, BucketInRange DEF RBucket, RCell
  <1>10. ReaderPc = {"idle", "key", "ticket", "slot", "check", "flags", "copy", "payload",
                     "again", "found"}
    BY DEF ReaderPc
  <1>11. CASE ProbeKey(r)
    <2>1. look[r].probe + 1 < MaxProbe => look[r].probe + 1 \in 0 .. MaxProbe - 1
      BY <1>1, KeyIndexAssumption DEF Looks
    <2> QED BY <1>6, <1>7, <1>8, <1>10, <1>11, <2>1 DEF ProbeKey
  <1>12. CASE ProbeTicket(r)
    BY <1>6, <1>7, <1>10, <1>12 DEF ProbeTicket
  <1>13. CASE ProbeSlot(r)
    BY <1>8, <1>9, <1>10, <1>13 DEF ProbeSlot, BucketWords
  <1>14. CASE CheckKey(r)
    BY <1>6, <1>7, <1>10, <1>14 DEF CheckKey
  <1>15. CASE CheckFlags(r)
    BY <1>6, <1>7, <1>10, <1>15 DEF CheckFlags
  <1>16. CASE CopyTicket(r)
    BY <1>8, <1>9, <1>10, <1>16 DEF CopyTicket, CellWords
  <1>17. CASE CopyPayload(r)
    BY <1>8, <1>9, <1>10, <1>17 DEF CopyPayload, CellWords
  <1>18. CASE CheckAgain(r)
    BY <1>6, <1>7, <1>10, <1>18 DEF CheckAgain
  <1>19. CASE LookupDone(r)
    BY <1>6, <1>19 DEF LookupDone
  <1> QED
    BY <1>5, <1>11, <1>12, <1>13, <1>14, <1>15, <1>16, <1>17, <1>18, <1>19 DEF LookupStep
-----------------------------------------------------------------------------
(* What a step of one call does to the locals: nothing to those of others, *)
(* and of its own either everything is forgotten or the record stays.      *)
Others(p) == \A q \in Producers \ {p} : pc'[q] = pc[q] /\ call'[q] = call[q]
Returned(p) == Others(p) /\ pc'[p] = "idle" /\ call'[p] = NoCall
Carried(p, label) ==
    /\ Others(p) /\ pc'[p] = label
    /\ call'[p].key = call[p].key /\ call'[p].ticket = call[p].ticket
Moved(p, label) == Carried(p, label) /\ call'[p].pos = call[p].pos

(* What each way of moving on does to the locals.                          *)
LEMMA Moves ==
  ASSUME TypeOK, NEW p \in Producers
  PROVE  /\ Return(p) => Returned(p)
         /\ \A label : Jump(p, label) => Moved(p, label) /\ call'[p] = call[p]
         /\ \A label, v : Load(p, label, v) =>
               Moved(p, label) /\ call'[p].cur = v /\ call'[p].probe = call[p].probe
         /\ \A label, n : Probe(p, label, n) => Moved(p, label) /\ call'[p].probe = n
         /\ Retry(p) => Returned(p) \/ (Moved(p, "find") /\ call'[p].probe = 0)
  <1>1. /\ pc \in [Producers -> ProducerPc] /\ call \in [Producers -> Calls]
        /\ call[p] \in Calls
    BY DEF TypeOK
  <1> USE DEF Others, Carried, Moved, Returned
  <1>2. Return(p) => Returned(p)
    BY <1>1 DEF Return, Goto
  <1>3. ASSUME NEW label, Jump(p, label) PROVE Moved(p, label) /\ call'[p] = call[p]
    BY <1>1, <1>3 DEF Jump, Goto
  <1>4. ASSUME NEW label, NEW v, Load(p, label, v)
        PROVE  Moved(p, label) /\ call'[p].cur = v /\ call'[p].probe = call[p].probe
    BY <1>1, <1>4 DEF Load, Goto, Calls
  <1>5. ASSUME NEW label, NEW n, Probe(p, label, n)
        PROVE  Moved(p, label) /\ call'[p].probe = n
    BY <1>1, <1>5 DEF Probe, Goto, Calls
  <1>6. Retry(p) => Returned(p) \/ (Moved(p, "find") /\ call'[p].probe = 0)
    BY <1>1, <1>2 DEF Retry, Goto, Calls
  <1> QED BY <1>2, <1>3, <1>4, <1>5, <1>6

(* The end of a bucket in either pass.                                     *)
LEMMA PassMoves ==
  ASSUME TypeOK, NEW p \in Producers
  PROVE  /\ NextOfFind(p) =>
               \/ Moved(p, "find") /\ call'[p].probe = call[p].probe + 1
               \/ Moved(p, "scan") /\ call'[p].probe = 0 /\ call[p].probe + 1 >= MaxProbe
         /\ NextOfScan(p) =>
               \/ Returned(p)
               \/ Moved(p, "scan") /\ call'[p].probe = call[p].probe + 1
  <1>1. call[p].probe \in Nat /\ MaxProbe \in Nat
    BY KeyIndexAssumption DEF TypeOK, Calls
  <1> QED BY <1>1, Moves DEF NextOfFind, NextOfScan

(* Every step but the first of publish keeps its record until it returns.  *)
LEMMA RecordKept ==
  ASSUME TypeOK, NEW p \in Producers, PublishStep(p)
  PROVE  \/ \E k \in Keys : TakeTicket(p, k)
         \/ pc[p] # "idle" /\ (Returned(p) \/ \E label \in ProducerPc \ {"idle"} : Carried(p, label))
  <1>1. /\ pc \in [Producers -> ProducerPc] /\ call \in [Producers -> Calls]
        /\ call[p] \in Calls
    BY DEF TypeOK
  <1> USE DEF Moved
  <1>2. CASE ClaimCell(p)
    <2>1. Carried(p, "payload")
      BY <1>1, <1>2 DEF ClaimCell, Goto, Calls, Others, Carried
    <2> QED BY <1>2, <2>1 DEF ClaimCell, ProducerPc
  <1>3. CASE ClaimFull(p) \/ WritePayload(p) \/ WriteTicket(p) \/ WriteKey(p) \/ WriteFlags(p)
             \/ StoreSeq(p)
    BY <1>3, Moves DEF ClaimFull, WritePayload, WriteTicket, WriteKey, WriteFlags, StoreSeq, ProducerPc
  <1>4. CASE FindLoad(p) \/ LostReload(p)
    BY <1>4, Moves, PassMoves DEF FindLoad, LostReload, ProducerPc
  <1>5. CASE InsertCas(p)
    BY <1>5, Moves DEF InsertCas, BucketCas, ProducerPc
  <1>6. CASE InsertSlot(p) \/ InsertTicket(p) \/ CountLive(p)
    BY <1>6, Moves DEF InsertSlot, InsertTicket, CountLive, ProducerPc
  <1>7. CASE UpdateLoad(p) \/ UpdateCas(p) \/ UpdateSlot(p)
    BY <1>7, Moves DEF UpdateLoad, UpdateCas, UpdateSlot, BucketCas, ProducerPc
  <1>8. CASE ScanLoad(p)
    BY <1>8, Moves DEF ScanLoad, ProducerPc
  <1>9. CASE DeadSlot(p)
    <2>1. Carried(p, "deadKey")
      BY <1>1, <1>9 DEF DeadSlot, Goto, Calls, Others, Carried
    <2> QED BY <1>9, <2>1 DEF DeadSlot, ProducerPc
  <1>10. CASE DeadKey(p)
    BY <1>10, Moves, PassMoves DEF DeadKey, ProducerPc
  <1>11. CASE ReclaimCas(p)
    BY <1>11, Moves, PassMoves DEF ReclaimCas, BucketCas, ProducerPc
  <1>12. CASE ReclaimSlot(p) \/ ReclaimTicket(p)
    BY <1>12, Moves DEF ReclaimSlot, ReclaimTicket, ProducerPc
  <1> QED
    BY <1>2, <1>3, <1>4, <1>5, <1>6, <1>7, <1>8, <1>9, <1>10, <1>11, <1>12 DEF PublishStep

(* A publish keeps its key and its ticket from the first step to the last. *)
LEMMA KeyedPublish ==
  ASSUME TypeOK, Keyed, NEW p \in Producers, PublishStep(p)
  PROVE  Keyed'
  <1>1. \A r \in Readers : rpc'[r] # "idle" => look'[r].key \in Keys
    BY DEF Keyed, PublishStep, readVars
  <1>2. CASE pc[p] # "idle" /\ (Returned(p) \/ \E label \in ProducerPc \ {"idle"} : Carried(p, label))
    BY <1>1, <1>2 DEF Keyed, Returned, Carried, Others
  <1>3. ASSUME NEW k \in Keys, TakeTicket(p, k) PROVE Keyed'
    <2>1. /\ pc \in [Producers -> ProducerPc] /\ call \in [Producers -> Calls]
          /\ call[p] \in Calls
      BY DEF TypeOK
    <2>2. Others(p) /\ call'[p].key = k /\ call'[p].ticket = issued + 1
      BY <1>3, <2>1 DEF TakeTicket, Goto, Others, Calls
    <2>3. issued + 1 \in Tickets
      <3>1. issued \in 0 .. MaxTickets /\ issued < MaxTickets /\ MaxTickets \in Nat
        BY <1>3, KeyIndexAssumption DEF TakeTicket, TypeOK, TicketWords
      <3> QED BY <3>1 DEF Tickets
    <2> QED BY <1>1, <1>3, <2>2, <2>3 DEF Keyed, Others, TakeTicket
  <1> QED BY <1>2, <1>3, RecordKept

(* Types and keys are kept by every step.                                  *)
LEMMA TypeStep ==
  ASSUME TypeOK, Keyed, [Next]_vars
  PROVE  TypeOK' /\ Keyed'
  <1>1. ASSUME NEW p \in Producers, PublishStep(p) PROVE TypeOK' /\ Keyed'
    BY <1>1, TypePublish, TypeUpsert, KeyedPublish DEF PublishStep
  <1>2. CASE UNCHANGED vars
    BY <1>2 DEF vars, pubVars, matrix, readVars, TypeOK, Keyed
  <1> QED BY <1>1, <1>2, TypeLookup DEF Next

(* initIndex and initRing establish them.                                  *)
LEMMA TypeInit == Init => TypeOK /\ Keyed
  <1> SUFFICES ASSUME Init PROVE TypeOK /\ Keyed
    OBVIOUS
  <1>1. [key |-> NoKey, ticket |-> 0, slot |-> 0] \in BucketWords
    BY ConstantTypes DEF BucketWords
  <1>2. [pay |-> 0, ticket |-> 0, key |-> NoKey, flag |-> FALSE] \in CellWords
    BY ConstantTypes DEF CellWords
  <1>3. NoCall \in Calls /\ NoLook \in Looks /\ Nowhere \in Places
    BY ConstantTypes, KeyIndexAssumption DEF NoCall, NoLook, Nowhere, Calls, Looks, Places
  <1>4. TypeOK
    BY <1>1, <1>2, <1>3, ConstantTypes DEF Init, TypeOK, ProducerPc, ReaderPc
  <1>5. Keyed
    BY DEF Init, Keyed
  <1> QED BY <1>4, <1>5

(* publish, upsert and lookup keep every word of the index, of the cells   *)
(* and of their locals in its type: a slot in a bucket is always a cell.   *)
THEOREM TypeCorrect == Spec => [](TypeOK /\ Keyed)
  <1>1. TypeOK /\ Keyed /\ [Next]_vars => TypeOK' /\ Keyed'
    BY TypeStep
  <1> QED BY TypeInit, <1>1, PTL DEF Spec
-----------------------------------------------------------------------------
(* The key at probe n of k, and after the step.                            *)
KeyAt(k, n) == bucket[Bucket(k, n)].key
KeyNext(k, n) == bucket'[Bucket(k, n)].key

(* Before upsert a call's probe is at the home bucket.                     *)
BeforeUpsert == {"idle", "claim", "payload", "ticket", "key", "flags", "store"}
AtHome == \A p \in Producers : pc[p] \in BeforeUpsert => call[p].probe = 0

(* Pass 1 has seen no empty bucket before the one it is at; pass 2 runs    *)
(* only when pass 1 has seen none at all.                                  *)
Walked ==
    \A p \in Producers :
        /\ pc[p] \in {"find", "insert"} =>
              \A i \in 0 .. call[p].probe - 1 : KeyAt(call[p].key, i) # NoKey
        /\ pc[p] = "lost" =>
              \A i \in 0 .. call[p].probe : KeyAt(call[p].key, i) # NoKey
        /\ pc[p] \in {"scan", "deadSlot", "deadKey", "reclaim"} =>
              \A i \in 0 .. MaxProbe - 1 : KeyAt(call[p].key, i) # NoKey

(* The bucket that holds a key is reached from the key's home without an   *)
(* empty bucket on the way: at some probe, if not at every one where a     *)
(* small table wraps around to it.                                         *)
Rooted ==
    \A k \in Keys, n \in 0 .. MaxProbe - 1 :
        KeyAt(k, n) = k =>
            \E m \in 0 .. n : /\ Bucket(k, m) = Bucket(k, n)
                             /\ \A i \in 0 .. m : KeyAt(k, i) # NoKey

(* The inductive invariant behind ChainUnbroken.                           *)
ChainInv == TypeOK /\ Keyed /\ AtHome /\ Walked /\ Rooted

(* The key words after a store of p's key into its bucket.                 *)
KeyStored(p) ==
    \A b \in BucketIds :
        bucket'[b].key = IF b = MyBucket(p) THEN call[p].key ELSE bucket[b].key
KeysUnchanged == \A b \in BucketIds : bucket'[b].key = bucket[b].key

(* The stores into a bucket, by the word they change.                      *)
LEMMA StoredKeys ==
  ASSUME TypeOK, NEW p \in Producers
  PROVE  /\ \A v : StoreBucket(p, "ticket", v) => KeysUnchanged
         /\ \A v : StoreBucket(p, "slot", v) => KeysUnchanged
         /\ StoreBucket(p, "key", call[p].key) => KeyStored(p)
  <1>1. bucket \in [BucketIds -> BucketWords]
    BY DEF TypeOK
  <1> QED BY <1>1 DEF StoreBucket, BucketWords, KeysUnchanged, KeyStored

(* Only the two CASes on a key word change one: from empty to the caller's *)
(* key, or from a dead key to it.                                          *)
LEMMA KeySteps ==
  ASSUME TypeOK, [Next]_vars
  PROVE  \/ KeysUnchanged
         \/ \E p \in Producers : /\ InsertCas(p) /\ PublishStep(p) /\ KeyStored(p)
                                 /\ bucket[MyBucket(p)].key = NoKey
         \/ \E p \in Producers : /\ ReclaimCas(p) /\ PublishStep(p) /\ KeyStored(p)
                                 /\ bucket[MyBucket(p)].key = call[p].cur
  <1>1. bucket' = bucket => KeysUnchanged
    BY DEF KeysUnchanged
  <1>2. ASSUME NEW p \in Producers, PublishStep(p), bucket' # bucket,
               ~InsertCas(p), ~ReclaimCas(p)
        PROVE  KeysUnchanged
    <2>1. CASE InsertSlot(p) \/ InsertTicket(p) \/ UpdateSlot(p) \/ ReclaimSlot(p) \/ ReclaimTicket(p)
      BY <2>1, StoredKeys DEF InsertSlot, InsertTicket, UpdateSlot, ReclaimSlot, ReclaimTicket
    <2>2. CASE UpdateCas(p)
      BY <2>2, StoredKeys, <1>1 DEF UpdateCas, BucketCas
    <2> QED
      BY <1>2, <2>1, <2>2
         DEF PublishStep, TakeTicket, ClaimCell, ClaimFull, WritePayload, WriteTicket, WriteKey,
             WriteFlags, StoreSeq, FindLoad, LostReload, CountLive, UpdateLoad, ScanLoad, DeadSlot,
             DeadKey, StoreCell
  <1>3. ASSUME NEW p \in Producers, PublishStep(p), InsertCas(p)
        PROVE  KeysUnchanged \/ (KeyStored(p) /\ bucket[MyBucket(p)].key = NoKey)
    BY <1>1, <1>3, StoredKeys DEF InsertCas, BucketCas
  <1>4. ASSUME NEW p \in Producers, PublishStep(p), ReclaimCas(p)
        PROVE  KeysUnchanged \/ (KeyStored(p) /\ bucket[MyBucket(p)].key = call[p].cur)
    BY <1>1, <1>4, StoredKeys DEF ReclaimCas, BucketCas
  <1> QED
    BY <1>1, <1>2, <1>3, <1>4 DEF Next, LookupStep, pubVars, vars

(* No step empties a bucket.                                               *)
LEMMA NeverEmptied ==
  ASSUME TypeOK, Keyed, [Next]_vars
  PROVE  \A b \in BucketIds : bucket[b].key # NoKey => bucket'[b].key # NoKey
  <1>1. ASSUME NEW p \in Producers, InsertCas(p) \/ ReclaimCas(p) PROVE call[p].key # NoKey
    BY <1>1, KeyNotEmpty DEF Keyed, InsertCas, ReclaimCas
  <1> QED BY <1>1, KeySteps DEF KeysUnchanged, KeyStored

(* So a bucket of a chain that was occupied once stays occupied.           *)
LEMMA ChainStaysFull ==
  ASSUME TypeOK, Keyed, [Next]_vars, NEW k \in Keys, NEW n \in Nat, KeyAt(k, n) # NoKey
  PROVE  KeyNext(k, n) # NoKey
  <1>1. Bucket(k, n) \in BucketIds
    BY BucketInRange
  <1> QED BY <1>1, NeverEmptied DEF KeyAt, KeyNext

(* A walked stretch of a chain stays occupied, whoever steps.              *)
LEMMA WalkStays ==
  ASSUME TypeOK, Keyed, [Next]_vars, NEW k \in Keys, NEW n \in Int,
         \A i \in 0 .. n : KeyAt(k, i) # NoKey
  PROVE  \A i \in 0 .. n : KeyNext(k, i) # NoKey
  BY ChainStaysFull

(* A step of one publish leaves the other calls alone.                     *)
LEMMA OwnCallOnly ==
  ASSUME TypeOK, NEW p \in Producers, PublishStep(p)
  PROVE  Others(p)
  <1>1. pc \in [Producers -> ProducerPc] /\ call \in [Producers -> Calls]
    BY DEF TypeOK
  <1>2. ASSUME NEW k \in Keys, TakeTicket(p, k) PROVE Others(p)
    BY <1>1, <1>2 DEF TakeTicket, Goto, Others
  <1> QED BY <1>2, RecordKept DEF Returned, Carried

(* A step leaves the calls of every producer but one alone.                *)
LEMMA WhoSteps ==
  ASSUME TypeOK, [Next]_vars
  PROVE  \/ \A q \in Producers : pc'[q] = pc[q] /\ call'[q] = call[q]
         \/ \E p \in Producers : PublishStep(p) /\ Others(p)
  <1>1. ASSUME NEW r \in Readers, LookupStep(r) PROVE UNCHANGED <<pc, call>>
    BY <1>1 DEF LookupStep, pubVars
  <1> QED BY <1>1, OwnCallOnly DEF Next, vars, pubVars

(* The labels of the two passes of upsert, up to a CAS that wins.          *)
Pass1 == {"find", "insert", "lost"}
Pass2 == {"scan", "deadSlot", "deadKey", "reclaim"}

(* How a call comes to a bucket of pass 1 or of pass 2: it starts pass 1   *)
(* at the home bucket, goes from one that holds another key to the next,   *)
(* tries to take an empty one, or is in pass 2 and stays there.            *)
LEMMA PassSteps ==
  ASSUME TypeOK, AtHome, NEW p \in Producers, PublishStep(p), pc'[p] \in Pass1 \cup Pass2
  PROVE  /\ pc[p] # "idle" /\ call'[p].key = call[p].key /\ bucket' = bucket
         /\ \/ pc'[p] = "find" /\ call'[p].probe = 0
            \/ pc[p] = "find" /\ pc'[p] = "insert" /\ call'[p].probe = call[p].probe
            \/ /\ pc[p] = "insert" /\ pc'[p] = "lost" /\ call'[p].probe = call[p].probe
               /\ bucket[MyBucket(p)].key # NoKey
            \/ /\ pc[p] \in {"find", "lost"}
               /\ bucket[MyBucket(p)].key # call[p].key
               /\ pc[p] = "find" => bucket[MyBucket(p)].key # NoKey
               /\ \/ pc'[p] = "find" /\ call'[p].probe = call[p].probe + 1
                  \/ pc'[p] = "scan" /\ call[p].probe + 1 >= MaxProbe
            \/ pc[p] \in Pass2 /\ pc'[p] \in Pass2
  <1> DEFINE Goal == /\ pc[p] # "idle" /\ call'[p].key = call[p].key /\ bucket' = bucket
                     /\ \/ pc'[p] = "find" /\ call'[p].probe = 0
                        \/ pc[p] = "find" /\ pc'[p] = "insert" /\ call'[p].probe = call[p].probe
                        \/ /\ pc[p] = "insert" /\ pc'[p] = "lost" /\ call'[p].probe = call[p].probe
                           /\ bucket[MyBucket(p)].key # NoKey
                        \/ /\ pc[p] \in {"find", "lost"}
                           /\ bucket[MyBucket(p)].key # call[p].key
                           /\ pc[p] = "find" => bucket[MyBucket(p)].key # NoKey
                           /\ \/ pc'[p] = "find" /\ call'[p].probe = call[p].probe + 1
                              \/ pc'[p] = "scan" /\ call[p].probe + 1 >= MaxProbe
                        \/ pc[p] \in Pass2 /\ pc'[p] \in Pass2
  <1>1. /\ pc \in [Producers -> ProducerPc] /\ call \in [Producers -> Calls]
        /\ call[p] \in Calls
    BY DEF TypeOK
  <1> USE DEF Moved, Carried, Returned
  <1>2. ~Returned(p)
    BY DEF Pass1, Pass2
  <1>3. ASSUME NEW k \in Keys, TakeTicket(p, k) PROVE FALSE
    BY <1>1, <1>3 DEF TakeTicket, Goto, Pass1, Pass2
  <1>4. CASE ClaimCell(p)
    BY <1>1, <1>4 DEF ClaimCell, Goto, Pass1, Pass2
  <1>5. CASE WritePayload(p) \/ WriteTicket(p) \/ WriteKey(p) \/ WriteFlags(p)
    <2>1. PICK label \in {"ticket", "key", "flags", "store"} : Jump(p, label)
      BY <1>5 DEF WritePayload, WriteTicket, WriteKey, WriteFlags
    <2> QED BY <2>1, Moves DEF Pass1, Pass2
  <1>6. CASE StoreSeq(p)
    <2>1. pc[p] = "store" /\ pc'[p] = "find" /\ call'[p] = call[p] /\ bucket' = bucket
      BY <1>6, Moves DEF StoreSeq
    <2> QED BY <2>1 DEF AtHome, BeforeUpsert
  <1>7. CASE FindLoad(p)
    <2>1. ~Jump(p, "update")
      BY Moves DEF Pass1, Pass2
    <2>2. Jump(p, "insert") => Goal
      BY <1>7, Moves DEF FindLoad
    <2>3. NextOfFind(p) /\ bucket[MyBucket(p)].key \notin {NoKey, call[p].key} => Goal
      BY <1>7, PassMoves DEF FindLoad
    <2> QED BY <1>7, <2>1, <2>2, <2>3 DEF FindLoad
  <1>8. CASE InsertCas(p)
    <2>1. ~Jump(p, "insertSlot")
      BY Moves DEF Pass1, Pass2
    <2> QED BY <1>8, <2>1, Moves DEF InsertCas, BucketCas
  <1>9. CASE LostReload(p)
    <2>1. ~Jump(p, "update")
      BY Moves DEF Pass1, Pass2
    <2> QED BY <1>9, <2>1, PassMoves DEF LostReload
  <1>10. CASE InsertSlot(p) \/ InsertTicket(p) \/ ReclaimSlot(p)
    BY <1>10, Moves DEF InsertSlot, InsertTicket, ReclaimSlot, Pass1, Pass2
  <1>11. CASE CountLive(p) \/ UpdateSlot(p) \/ ReclaimTicket(p) \/ ClaimFull(p)
    BY <1>2, <1>11, Moves DEF CountLive, UpdateSlot, ReclaimTicket, ClaimFull
  <1>12. CASE UpdateLoad(p)
    BY <1>2, <1>12, Moves DEF UpdateLoad, Pass1, Pass2
  <1>13. CASE UpdateCas(p)
    BY <1>13, Moves DEF UpdateCas, BucketCas, Pass1, Pass2
  <1>14. NextOfScan(p) => pc'[p] = "scan" /\ call'[p].key = call[p].key
    BY <1>2, PassMoves
  <1>15. CASE ScanLoad(p)
    BY <1>2, <1>15, Moves DEF ScanLoad, Pass2
  <1>16. CASE DeadSlot(p)
    <2>1. pc'[p] = "deadKey" /\ call'[p].key = call[p].key
      BY <1>1, <1>16 DEF DeadSlot, Goto, Calls
    <2> QED BY <1>16, <2>1 DEF DeadSlot, Pass2
  <1>17. CASE DeadKey(p)
    BY <1>14, <1>17, Moves DEF DeadKey, Pass2
  <1>18. CASE ReclaimCas(p)
    <2>1. ~Jump(p, "reclaimSlot")
      BY Moves DEF Pass1, Pass2
    <2> QED BY <1>14, <1>18, <2>1 DEF ReclaimCas, BucketCas, Pass2
  <1>19. Goal
    BY <1>3, <1>4, <1>5, <1>6, <1>7, <1>8, <1>9, <1>10, <1>11, <1>12, <1>13, <1>15, <1>16,
       <1>17, <1>18 DEF PublishStep
  <1> QED BY <1>19

(* Up to the release store the probe stays at home.                        *)
LEMMA OwnHome ==
  ASSUME TypeOK, AtHome, NEW p \in Producers, PublishStep(p), pc'[p] \in BeforeUpsert
  PROVE  call'[p].probe = 0
  <1>1. /\ pc \in [Producers -> ProducerPc] /\ call \in [Producers -> Calls]
        /\ call[p] \in Calls
    BY DEF TypeOK
  <1>2. Returned(p) => call'[p].probe = 0
    BY DEF Returned, NoCall
  <1>3. ASSUME NEW k \in Keys, TakeTicket(p, k) PROVE call'[p].probe = 0
    BY <1>1, <1>3 DEF TakeTicket, Goto, Calls, AtHome, BeforeUpsert
  <1>4. CASE ClaimCell(p)
    BY <1>1, <1>4 DEF ClaimCell, Goto, Calls, AtHome, BeforeUpsert
  <1>5. CASE WritePayload(p) \/ WriteTicket(p) \/ WriteKey(p) \/ WriteFlags(p) \/ StoreSeq(p)
    <2>1. call'[p] = call[p] /\ pc[p] \in BeforeUpsert
      BY <1>5, Moves DEF WritePayload, WriteTicket, WriteKey, WriteFlags, StoreSeq, BeforeUpsert
    <2> QED BY <2>1 DEF AtHome
  <1> USE DEF Moved, Carried, BeforeUpsert
  <1>6. CASE FindLoad(p) \/ LostReload(p)
    BY <1>6, Moves, PassMoves DEF FindLoad, LostReload
  <1>7. CASE InsertCas(p)
    BY <1>7, Moves DEF InsertCas, BucketCas
  <1>8. CASE InsertSlot(p) \/ InsertTicket(p) \/ ReclaimSlot(p)
    BY <1>8, Moves DEF InsertSlot, InsertTicket, ReclaimSlot
  <1>9. CASE CountLive(p) \/ UpdateSlot(p) \/ ReclaimTicket(p) \/ ClaimFull(p)
    BY <1>2, <1>9, Moves DEF CountLive, UpdateSlot, ReclaimTicket, ClaimFull
  <1>10. CASE UpdateLoad(p)
    BY <1>2, <1>10, Moves DEF UpdateLoad
  <1>11. CASE UpdateCas(p)
    BY <1>11, Moves DEF UpdateCas, BucketCas
  <1>12. CASE ScanLoad(p)
    BY <1>2, <1>12, Moves DEF ScanLoad
  <1>13. CASE DeadSlot(p)
    BY <1>1, <1>13 DEF DeadSlot, Goto
  <1>14. CASE DeadKey(p)
    BY <1>2, <1>14, Moves, PassMoves DEF DeadKey
  <1>15. CASE ReclaimCas(p)
    BY <1>2, <1>15, Moves, PassMoves DEF ReclaimCas, BucketCas
  <1> QED
    BY <1>3, <1>4, <1>5, <1>6, <1>7, <1>8, <1>9, <1>10, <1>11, <1>12, <1>13, <1>14, <1>15
       DEF PublishStep

(* A call in either pass has walked over occupied buckets only.            *)
LEMMA OwnWalk ==
  ASSUME TypeOK, Keyed, AtHome, Walked, NEW p \in Producers, PublishStep(p)
  PROVE  /\ pc'[p] \in {"find", "insert"} =>
               \A i \in 0 .. call'[p].probe - 1 : KeyNext(call'[p].key, i) # NoKey
         /\ pc'[p] = "lost" =>
               \A i \in 0 .. call'[p].probe : KeyNext(call'[p].key, i) # NoKey
         /\ pc'[p] \in Pass2 =>
               \A i \in 0 .. MaxProbe - 1 : KeyNext(call'[p].key, i) # NoKey
  <1> DEFINE k == call[p].key
             n == call[p].probe
  <1>1. n \in Nat /\ n <= MaxProbe - 1 /\ MaxProbe \in Nat
    BY KeyIndexAssumption DEF TypeOK, Calls
  <1>2. pc'[p] \in Pass1 \cup Pass2 => \A i : KeyNext(k, i) = KeyAt(k, i)
    BY PassSteps DEF KeyNext, KeyAt
  <1>3. /\ pc[p] \in {"find", "insert"} => \A i \in 0 .. n - 1 : KeyAt(k, i) # NoKey
        /\ pc[p] = "lost" => \A i \in 0 .. n : KeyAt(k, i) # NoKey
        /\ pc[p] \in Pass2 => \A i \in 0 .. MaxProbe - 1 : KeyAt(k, i) # NoKey
    BY DEF Walked, Pass2
  <1>4. bucket[MyBucket(p)].key = KeyAt(k, n)
    BY DEF KeyAt, MyBucket
  <1>5. (pc[p] = "lost" \/ (pc[p] \in {"find", "insert"} /\ bucket[MyBucket(p)].key # NoKey))
          => \A i \in 0 .. n : KeyAt(k, i) # NoKey
    BY <1>1, <1>3, <1>4
  <1>6. CASE pc'[p] \in {"find", "insert"}
    BY <1>1, <1>2, <1>3, <1>5, <1>6, PassSteps DEF Pass1, Pass2
  <1>7. CASE pc'[p] = "lost"
    BY <1>2, <1>5, <1>7, PassSteps DEF Pass1, Pass2
  <1>8. CASE pc'[p] \in Pass2
    BY <1>1, <1>2, <1>3, <1>5, <1>8, PassSteps DEF Pass1, Pass2
  <1> QED BY <1>6, <1>7, <1>8 DEF Pass2

(* Every call's walk survives every step.                                  *)
LEMMA WalkedStep ==
  ASSUME TypeOK, Keyed, AtHome, Walked, [Next]_vars
  PROVE  AtHome' /\ Walked'
  <1>1. TypeOK' /\ Keyed' /\ call \in [Producers -> Calls]
    BY TypeStep DEF TypeOK
  <1>2. ASSUME NEW q \in Producers, pc'[q] = pc[q], call'[q] = call[q]
        PROVE  /\ pc'[q] \in BeforeUpsert => call'[q].probe = 0
               /\ pc'[q] \in {"find", "insert"} =>
                     \A i \in 0 .. call'[q].probe - 1 : KeyNext(call'[q].key, i) # NoKey
               /\ pc'[q] = "lost" =>
                     \A i \in 0 .. call'[q].probe : KeyNext(call'[q].key, i) # NoKey
               /\ pc'[q] \in Pass2 =>
                     \A i \in 0 .. MaxProbe - 1 : KeyNext(call'[q].key, i) # NoKey
    <2>1. call[q].probe \in Int /\ MaxProbe - 1 \in Int /\ call[q].probe - 1 \in Int
      BY <1>1, KeyIndexAssumption DEF Calls
    <2>2. pc[q] # "idle" => call[q].key \in Keys
      BY KeyNotEmpty DEF Keyed
    <2>3. pc[q] = "lost" => \A i \in 0 .. call[q].probe : KeyNext(call[q].key, i) # NoKey
      BY <2>1, <2>2, WalkStays DEF Walked
    <2>4. pc[q] \in {"find", "insert"} =>
             \A i \in 0 .. call[q].probe - 1 : KeyNext(call[q].key, i) # NoKey
      BY <2>1, <2>2, WalkStays DEF Walked
    <2>5. pc[q] \in Pass2 =>
             \A i \in 0 .. MaxProbe - 1 : KeyNext(call[q].key, i) # NoKey
      BY <2>1, <2>2, WalkStays DEF Walked, Pass2
    <2> QED BY <1>2, <2>3, <2>4, <2>5 DEF AtHome
  <1>3. \A q \in Producers :
           /\ pc'[q] \in BeforeUpsert => call'[q].probe = 0
           /\ pc'[q] \in {"find", "insert"} =>
                 \A i \in 0 .. call'[q].probe - 1 : KeyNext(call'[q].key, i) # NoKey
           /\ pc'[q] = "lost" =>
                 \A i \in 0 .. call'[q].probe : KeyNext(call'[q].key, i) # NoKey
           /\ pc'[q] \in Pass2 =>
                 \A i \in 0 .. MaxProbe - 1 : KeyNext(call'[q].key, i) # NoKey
    BY <1>2, WhoSteps, OwnHome, OwnWalk DEF Others
  <1> QED BY <1>3 DEF AtHome, Walked, Pass2, KeyAt, KeyNext, Bucket

(* A key that enters a bucket does so at the end of a walked stretch.      *)
LEMMA RootedStep ==
  ASSUME TypeOK, Keyed, Walked, Rooted, [Next]_vars
  PROVE  Rooted'
  <1> DEFINE Root(k, n) == \E m \in 0 .. n : /\ Bucket(k, m) = Bucket(k, n)
                                            /\ \A i \in 0 .. m : KeyNext(k, i) # NoKey
  <1>1. SUFFICES ASSUME NEW k \in Keys, NEW n \in 0 .. MaxProbe - 1, KeyNext(k, n) = k
                 PROVE  Root(k, n)
    BY DEF Rooted, KeyAt, KeyNext, Bucket
  <1>2. n \in Nat /\ Bucket(k, n) \in BucketIds
    BY BucketInRange, KeyIndexAssumption
  <1>3. CASE KeyAt(k, n) = k
    <2>1. PICK m \in 0 .. n : /\ Bucket(k, m) = Bucket(k, n)
                              /\ \A i \in 0 .. m : KeyAt(k, i) # NoKey
      BY <1>3 DEF Rooted
    <2>2. m \in Int
      BY <1>2
    <2>3. \A i \in 0 .. m : KeyNext(k, i) # NoKey
      BY <2>1, <2>2, WalkStays
    <2> QED BY <2>1, <2>3
  <1>4. ASSUME NEW p \in Producers, InsertCas(p), KeyStored(p), KeyAt(k, n) # k,
               bucket[MyBucket(p)].key = NoKey
        PROVE  Root(k, n)
    <2>1. Bucket(k, n) = MyBucket(p) /\ k = call[p].key /\ KeyAt(k, n) = NoKey
      BY <1>1, <1>2, <1>4 DEF KeyStored, KeyNext, KeyAt
    <2>2. call[p].probe \in Nat
      BY KeyIndexAssumption DEF TypeOK, Calls
    <2>3. \A i \in 0 .. call[p].probe - 1 : KeyAt(k, i) # NoKey
      BY <1>4, <2>1 DEF Walked, InsertCas
    <2>4. call[p].probe <= n
      BY <1>2, <2>1, <2>2, <2>3
    <2>5. \A i \in 0 .. call[p].probe - 1 : KeyNext(k, i) # NoKey
      BY <2>2, <2>3, WalkStays
    <2>6. Bucket(k, call[p].probe) = Bucket(k, n) /\ KeyNext(k, call[p].probe) # NoKey
      BY <1>1, <2>1, KeyNotEmpty DEF MyBucket, KeyNext
    <2>7. \A i \in 0 .. call[p].probe : KeyNext(k, i) # NoKey
      BY <2>2, <2>5, <2>6
    <2> QED BY <1>2, <2>2, <2>4, <2>6, <2>7
  <1>5. ASSUME NEW p \in Producers, ReclaimCas(p), KeyStored(p), KeyAt(k, n) # k
        PROVE  Root(k, n)
    <2>1. k = call[p].key
      BY <1>1, <1>2, <1>5 DEF KeyStored, KeyNext, KeyAt
    <2>2. \A i \in 0 .. n : KeyAt(k, i) # NoKey
      BY <1>2, <1>5, <2>1, KeyIndexAssumption DEF Walked, ReclaimCas
    <2>3. \A i \in 0 .. n : KeyNext(k, i) # NoKey
      BY <1>2, <2>2, WalkStays
    <2> QED BY <1>2, <2>3
  <1>6. KeysUnchanged => KeyAt(k, n) = k
    BY <1>1, <1>2 DEF KeysUnchanged, KeyAt, KeyNext
  <1> QED BY <1>3, <1>4, <1>5, <1>6, KeySteps

(* The chain invariant holds initially and is kept by every step.          *)
LEMMA ChainInvariant == Spec => []ChainInv
  <1>1. Init => ChainInv
    <2> SUFFICES ASSUME Init PROVE ChainInv
      OBVIOUS
    <2>1. AtHome /\ Walked
      BY DEF Init, AtHome, Walked, NoCall
    <2>2. ASSUME NEW k \in Keys, NEW n \in 0 .. MaxProbe - 1 PROVE KeyAt(k, n) # k
      <3>1. Bucket(k, n) \in BucketIds
        BY BucketInRange, KeyIndexAssumption
      <3> QED BY <3>1, KeyNotEmpty DEF Init, KeyAt
    <2> QED BY TypeInit, <2>1, <2>2 DEF ChainInv, Rooted
  <1>2. ChainInv /\ [Next]_vars => ChainInv'
    BY TypeStep, WalkedStep, RootedStep DEF ChainInv
  <1> QED BY <1>1, <1>2, PTL DEF Spec

(* index.go:237-240: however upserts and reclaims race, and whatever the   *)
(* hash, the buckets and the probe limit, no bucket between a key's home   *)
(* and the bucket that holds it is ever empty.                             *)
THEOREM ChainsUnbroken == Spec => []ChainUnbroken
  <1>1. ASSUME ChainInv PROVE ChainUnbroken
    BY <1>1 DEF ChainInv, Rooted, ChainUnbroken, KeyAt
  <1> QED BY <1>1, ChainInvariant, PTL
-----------------------------------------------------------------------------
(* The buckets that hold a key, and the producers that have taken an empty *)
(* one and not yet added to the live counter.                              *)
Occupied == {b \in BucketIds : bucket[b].key # NoKey}
Uncounted == {p \in Producers : pc[p] \in {"insertSlot", "insertTicket", "count"}}

(* A CAS that takes an empty bucket enters p among the uncounted, the add  *)
(* takes p out, and no other step of p concerns the count.                 *)
LEMMA CountSteps ==
  ASSUME TypeOK, Keyed, NEW p \in Producers, PublishStep(p)
  PROVE  \/ /\ KeyStored(p) /\ bucket[MyBucket(p)].key = NoKey /\ live' = live
            /\ p \notin Uncounted /\ Uncounted' = Uncounted \cup {p}
         \/ KeysUnchanged /\ live' = live + 1 /\ p \in Uncounted /\ Uncounted' = Uncounted \ {p}
         \/ KeysUnchanged /\ live' = live /\ Uncounted' = Uncounted
         \/ /\ KeyStored(p) /\ ReclaimCas(p)
            /\ live' = live /\ Uncounted' = Uncounted
  <1> DEFINE Mid == {"insertSlot", "insertTicket", "count"}
  <1>1. /\ pc \in [Producers -> ProducerPc] /\ call \in [Producers -> Calls]
        /\ call[p] \in Calls /\ bucket \in [BucketIds -> BucketWords]
    BY DEF TypeOK
  <1>2. Others(p)
    BY OwnCallOnly
  <1>3. (pc'[p] \in Mid <=> pc[p] \in Mid) => Uncounted' = Uncounted
    BY <1>2 DEF Others, Uncounted
  <1>4. bucket' = bucket => KeysUnchanged
    BY DEF KeysUnchanged
  <1> DEFINE Idle == KeysUnchanged /\ live' = live /\ Uncounted' = Uncounted
  <1>5. ASSUME NEW k \in Keys, TakeTicket(p, k) PROVE Idle
    <2>1. pc'[p] = "claim"
      BY <1>1, <1>5 DEF TakeTicket, Goto
    <2> QED BY <1>3, <1>4, <1>5, <2>1 DEF TakeTicket
  <1>6. CASE ClaimCell(p) \/ DeadSlot(p)
    <2>1. pc'[p] \in {"payload", "deadKey"}
      BY <1>1, <1>6 DEF ClaimCell, DeadSlot, Goto
    <2> QED BY <1>3, <1>4, <1>6, <2>1 DEF ClaimCell, DeadSlot
  <1>7. CASE WritePayload(p) \/ WriteTicket(p) \/ WriteKey(p) \/ WriteFlags(p) \/ StoreSeq(p)
    <2>1. PICK label \in {"ticket", "key", "flags", "store", "find"} : Jump(p, label) /\ pc[p] \notin Mid
      BY <1>7 DEF WritePayload, WriteTicket, WriteKey, WriteFlags, StoreSeq
    <2>2. pc'[p] \notin Mid
      BY <2>1, Moves DEF Moved, Carried
    <2> QED BY <1>3, <1>4, <1>7, <2>1, <2>2
            DEF WritePayload, WriteTicket, WriteKey, WriteFlags, StoreSeq, StoreCell
  <1>8. CASE FindLoad(p) \/ LostReload(p)
    <2>1. pc'[p] \notin Mid
      BY <1>8, Moves, PassMoves DEF FindLoad, LostReload, Moved, Carried
    <2> QED BY <1>3, <1>4, <1>8, <2>1 DEF FindLoad, LostReload
  <1>9. CASE ClaimFull(p) \/ UpdateLoad(p) \/ ScanLoad(p) \/ DeadKey(p)
    <2>1. pc'[p] \notin Mid
      BY <1>9, Moves, PassMoves DEF ClaimFull, UpdateLoad, ScanLoad, DeadKey, Moved, Carried, Returned
    <2> QED BY <1>3, <1>4, <1>9, <2>1 DEF ClaimFull, UpdateLoad, ScanLoad, DeadKey
  <1>10. CASE UpdateSlot(p) \/ ReclaimSlot(p) \/ ReclaimTicket(p)
    <2>1. pc'[p] \notin Mid
      BY <1>10, Moves DEF UpdateSlot, ReclaimSlot, ReclaimTicket, Moved, Carried, Returned
    <2>2. KeysUnchanged /\ live' = live
      BY <1>10, StoredKeys DEF UpdateSlot, ReclaimSlot, ReclaimTicket, StoreBucket
    <2> QED BY <1>3, <1>10, <2>1, <2>2 DEF UpdateSlot, ReclaimSlot, ReclaimTicket
  <1>11. CASE UpdateCas(p)
    <2>1. pc'[p] \notin Mid
      BY <1>11, Moves DEF UpdateCas, BucketCas, Moved, Carried
    <2>2. KeysUnchanged /\ live' = live
      BY <1>4, <1>11, StoredKeys DEF UpdateCas, BucketCas, StoreBucket
    <2> QED BY <1>3, <1>11, <2>1, <2>2 DEF UpdateCas
  <1>12. CASE InsertSlot(p) \/ InsertTicket(p)
    <2>1. pc'[p] \in Mid
      BY <1>12, Moves DEF InsertSlot, InsertTicket, Moved, Carried
    <2>2. KeysUnchanged /\ live' = live
      BY <1>12, StoredKeys DEF InsertSlot, InsertTicket, StoreBucket
    <2> QED BY <1>3, <1>12, <2>1, <2>2 DEF InsertSlot, InsertTicket
  <1>13. CASE CountLive(p)
    <2>1. pc'[p] = "idle" /\ pc[p] = "count"
      BY <1>13, Moves DEF CountLive, Returned
    <2>2. p \in Uncounted /\ Uncounted' = Uncounted \ {p}
      BY <1>2, <2>1 DEF Others, Uncounted
    <2> QED BY <1>4, <1>13, <2>2 DEF CountLive
  <1>14. CASE InsertCas(p)
    <2>1. CASE StoreBucket(p, "key", call[p].key) /\ Jump(p, "insertSlot")
                 /\ bucket[MyBucket(p)].key = NoKey
      <3>1. KeyStored(p) /\ live' = live
        BY <2>1, StoredKeys DEF StoreBucket
      <3>2. pc'[p] = "insertSlot" /\ pc[p] = "insert"
        BY <1>14, <2>1, Moves DEF InsertCas, Moved, Carried
      <3>3. p \notin Uncounted /\ Uncounted' = Uncounted \cup {p}
        BY <1>2, <3>2 DEF Others, Uncounted
      <3> QED BY <2>1, <3>1, <3>3
    <2>2. CASE UNCHANGED <<bucket, live>> /\ Jump(p, "lost")
      <3>1. pc'[p] = "lost" /\ pc[p] = "insert"
        BY <1>14, <2>2, Moves DEF InsertCas, Moved, Carried
      <3> QED BY <1>3, <1>4, <2>2, <3>1
    <2> QED BY <1>14, <2>1, <2>2 DEF InsertCas, BucketCas
  <1>15. CASE ReclaimCas(p)
    <2>1. pc'[p] \notin Mid /\ pc[p] = "reclaim"
      BY <1>15, Moves, PassMoves DEF ReclaimCas, BucketCas, Moved, Carried, Returned
    <2>2. live' = live /\ (KeysUnchanged \/ KeyStored(p))
      BY <1>4, <1>15, StoredKeys DEF ReclaimCas, BucketCas, StoreBucket
    <2> QED BY <1>3, <1>15, <2>1, <2>2
  <1> QED
    BY <1>5, <1>6, <1>7, <1>8, <1>9, <1>10, <1>11, <1>12, <1>13, <1>14, <1>15 DEF PublishStep

(* The occupied buckets after a step: one more for an insert, the same for *)
(* a reclaim.                                                              *)
LEMMA OccupiedSteps ==
  ASSUME TypeOK, Keyed, Walked, NEW p \in Producers
  PROVE  /\ KeysUnchanged => Occupied' = Occupied
         /\ KeyStored(p) /\ pc[p] # "idle" =>
               Occupied' = Occupied \cup {MyBucket(p)} /\ MyBucket(p) \in BucketIds
         /\ ReclaimCas(p) => MyBucket(p) \in Occupied
  <1>1. KeysUnchanged => Occupied' = Occupied
    BY DEF KeysUnchanged, Occupied
  <1>2. ASSUME KeyStored(p), pc[p] # "idle"
        PROVE  Occupied' = Occupied \cup {MyBucket(p)} /\ MyBucket(p) \in BucketIds
    <2>1. call[p].key # NoKey /\ MyBucket(p) \in BucketIds
      BY <1>2, KeyNotEmpty, MyBucketInRange DEF Keyed
    <2> QED BY <1>2, <2>1 DEF KeyStored, Occupied
  <1>3. ASSUME ReclaimCas(p) PROVE MyBucket(p) \in Occupied
    <2>1. pc[p] = "reclaim"
      BY <1>3 DEF ReclaimCas
    <2>2. call[p].probe \in 0 .. MaxProbe - 1
      BY DEF TypeOK, Calls
    <2>3. MyBucket(p) \in BucketIds
      BY <2>1, MyBucketInRange
    <2> QED BY <2>1, <2>2, <2>3 DEF Walked, KeyAt, MyBucket, Occupied
  <1> QED BY <1>1, <1>2, <1>3

(* The live counter is exact: the inserts between the CAS and the add      *)
(* apart, it is the number of occupied buckets.  A reclaim, by pass 2 of a *)
(* full chain, never changes that number.                                  *)
THEOREM LiveExact == Spec => []LiveIsExact
  <1> DEFINE Exact == live = Cardinality(Occupied) - Cardinality(Uncounted)
  <1>1. LiveIsExact <=> Exact
    BY DEF LiveIsExact, Occupied, Uncounted
  <1>2. IsFiniteSet(Occupied) /\ IsFiniteSet(Uncounted)
    <2>1. IsFiniteSet(BucketIds)
      BY FS_Interval, KeyIndexAssumption DEF BucketIds
    <2>2. Occupied \subseteq BucketIds /\ Uncounted \subseteq Producers
      BY DEF Occupied, Uncounted
    <2> QED BY <2>1, <2>2, FS_Subset, KeyIndexAssumption
  <1>3. Cardinality(Occupied) \in Nat /\ Cardinality(Uncounted) \in Nat
    BY <1>2, FS_CardinalityType
  <1>4. Init => Exact
    <2> SUFFICES ASSUME Init PROVE Exact
      OBVIOUS
    <2>1. Occupied = {} /\ Uncounted = {}
      BY DEF Init, Occupied, Uncounted
    <2> QED BY <2>1, FS_EmptySet DEF Init
  <1>5. ASSUME ChainInv, Exact, [Next]_vars PROVE Exact'
    <2>1. ASSUME NEW p \in Producers, PublishStep(p) PROVE Exact'
      <3>1. TypeOK /\ Keyed /\ Walked /\ live \in Nat
        BY <1>5 DEF ChainInv, TypeOK
      <3>2. CASE /\ KeyStored(p) /\ bucket[MyBucket(p)].key = NoKey /\ live' = live
                 /\ p \notin Uncounted /\ Uncounted' = Uncounted \cup {p} /\ pc[p] # "idle"
        <4>1. Occupied' = Occupied \cup {MyBucket(p)} /\ MyBucket(p) \notin Occupied
          BY <3>1, <3>2, OccupiedSteps DEF Occupied
        <4>2. Cardinality(Occupied') = Cardinality(Occupied) + 1
          BY <1>2, <4>1, FS_AddElement
        <4>3. Cardinality(Uncounted') = Cardinality(Uncounted) + 1
          BY <1>2, <3>2, FS_AddElement
        <4> QED BY <1>3, <1>5, <3>1, <3>2, <4>2, <4>3
      <3>3. CASE KeysUnchanged /\ live' = live + 1 /\ p \in Uncounted /\ Uncounted' = Uncounted \ {p}
        <4>1. Occupied' = Occupied
          BY <3>1, <3>3, OccupiedSteps
        <4>2. Cardinality(Uncounted') = Cardinality(Uncounted) - 1
          BY <1>2, <3>3, FS_RemoveElement
        <4> QED BY <1>3, <1>5, <3>1, <3>3, <4>1, <4>2
      <3>4. CASE KeysUnchanged /\ live' = live /\ Uncounted' = Uncounted
        BY <1>5, <3>1, <3>4, OccupiedSteps
      <3>5. CASE KeyStored(p) /\ ReclaimCas(p) /\ live' = live /\ Uncounted' = Uncounted
        <4>1. pc[p] # "idle"
          BY <3>5 DEF ReclaimCas
        <4>2. Occupied' = Occupied
          BY <3>1, <3>5, <4>1, OccupiedSteps
        <4> QED BY <1>5, <3>5, <4>2
      <3>6. KeyStored(p) /\ p \notin Uncounted /\ Uncounted' = Uncounted \cup {p} => pc[p] # "idle"
        BY <2>1, <3>1, RecordKept DEF TakeTicket, Uncounted, Goto, TypeOK
      <3> QED BY <2>1, <3>1, <3>2, <3>3, <3>4, <3>5, <3>6, CountSteps
    <2>2. ASSUME UNCHANGED <<bucket, live, pc>> PROVE Exact'
      BY <1>5, <2>2 DEF Occupied, Uncounted
    <2> QED BY <1>5, <2>1, <2>2 DEF Next, LookupStep, vars, pubVars
  <1>6. Spec => []Exact
    BY <1>4, <1>5, ChainInvariant, PTL DEF Spec
  <1> QED BY <1>1, <1>6, PTL
-----------------------------------------------------------------------------
(* Every key has one writer.                                               *)
OneWriter == \A p, q \in Producers : KeysOf[p] \cap KeysOf[q] # {} => p = q

(* No bucket a call has passed over holds its key, if that is a sole one.  *)
NotMine ==
    \A p \in Producers : Sole(call[p].key) =>
        /\ pc[p] \in Pass1 =>
              \A i \in 0 .. call[p].probe - 1 : KeyAt(call[p].key, i) # call[p].key
        /\ pc[p] \in Pass2 =>
              \A i \in 0 .. MaxProbe - 1 : KeyAt(call[p].key, i) # call[p].key

(* A key is in one of the buckets its probes reach.                        *)
Placed ==
    \A b \in BucketIds : bucket[b].key # NoKey =>
        \E n \in 0 .. MaxProbe - 1 : b = Bucket(bucket[b].key, n)

(* The inductive invariant behind OneEntryPerKey.                          *)
EntryInv == ChainInv /\ NotMine /\ Placed /\ OneEntryPerKey

(* Fewer probes than buckets look at different buckets.                    *)
LEMMA ProbesDiffer ==
  ASSUME NEW k \in Keys, NEW i \in 0 .. Buckets - 1, NEW j \in 0 .. Buckets - 1,
         Bucket(k, i) = Bucket(k, j)
  PROVE  i = j
  <1>1. Home[k] \in 0 .. Buckets - 1 /\ Buckets \in Nat \ {0}
    BY KeyIndexAssumption
  <1>2. ASSUME NEW a \in 0 .. 2 * Buckets - 1
        PROVE  a % Buckets = IF a < Buckets THEN a ELSE a - Buckets
    BY <1>1, <1>2
  <1>3. /\ Home[k] + i \in 0 .. 2 * Buckets - 1
        /\ Home[k] + j \in 0 .. 2 * Buckets - 1
    BY <1>1
  <1> DEFINE a == Home[k] + i
             b == Home[k] + j
  <1>4. /\ a % Buckets = IF a < Buckets THEN a ELSE a - Buckets
        /\ b % Buckets = IF b < Buckets THEN b ELSE b - Buckets
        /\ a % Buckets = b % Buckets
    BY <1>2, <1>3 DEF Bucket
  <1> QED BY <1>1, <1>4

(* With a bucket for every key, pass 1 never runs out of its chain: the    *)
(* keys in it would be more than the other keys there are.                 *)
LEMMA NoSecondPass ==
  ASSUME Roomy, EntryInv, NEW p \in Producers
  PROVE  pc[p] \notin Pass2
  <1> SUFFICES ASSUME pc[p] \in Pass2 PROVE FALSE
    OBVIOUS
  <1> DEFINE k == call[p].key
             S == 0 .. MaxProbe - 1
             T == Keys \ {k}
             f == [i \in S |-> KeyAt(k, i)]
  <1>1. TypeOK /\ Keyed /\ Walked /\ k \in Keys
    BY KeyNotEmpty DEF EntryInv, ChainInv, Keyed, Pass2
  <1>2. ASSUME NEW i \in S PROVE Bucket(k, i) \in BucketIds
    <2>1. i \in Nat
      BY KeyIndexAssumption
    <2> QED BY <1>1, <2>1, BucketInRange
  <1>3. f \in [S -> T]
    <2>1. ASSUME NEW i \in S PROVE KeyAt(k, i) \in T
      <3>1. KeyAt(k, i) # NoKey /\ KeyAt(k, i) # k
        BY <1>1 DEF EntryInv, Walked, NotMine, Pass2, Sole
      <3>2. KeyAt(k, i) \in KeyWords
        BY <1>1, <1>2 DEF TypeOK, BucketWords, KeyAt
      <3> QED BY <3>1, <3>2 DEF KeyWords
    <2> QED BY <2>1
  <1>4. Cardinality(T) < Cardinality(S) /\ IsFiniteSet(S) /\ IsFiniteSet(T)
    <2>1. IsFiniteSet(S) /\ Cardinality(S) = MaxProbe
      BY FS_Interval, KeyIndexAssumption
    <2>2. IsFiniteSet(T) /\ Cardinality(T) = Cardinality(Keys) - 1
      BY <1>1, FS_RemoveElement DEF Roomy
    <2>3. Cardinality(Keys) \in Nat /\ MaxProbe \in Nat
      BY FS_CardinalityType, KeyIndexAssumption DEF Roomy
    <2> QED BY <2>1, <2>2, <2>3 DEF Roomy
  <1>5. PICK i, j \in S : i # j /\ f[i] = f[j]
    <2> HIDE DEF f, S, T
    <2> QED BY <1>3, <1>4, FS_PigeonHole
  <1>6. bucket[Bucket(k, i)].key = bucket[Bucket(k, j)].key
    BY <1>5 DEF KeyAt
  <1>7. bucket[Bucket(k, i)].key # NoKey
    BY <1>1 DEF Walked, Pass2, KeyAt
  <1>8. Bucket(k, i) = Bucket(k, j)
    BY <1>2, <1>6, <1>7 DEF EntryInv, OneEntryPerKey, Sole
  <1>9. i \in 0 .. Buckets - 1 /\ j \in 0 .. Buckets - 1
    BY KeyIndexAssumption DEF Roomy
  <1> QED BY <1>1, <1>5, <1>8, <1>9, ProbesDiffer

(* A call's own step leaves no bucket with its key behind it.              *)
LEMMA OwnNotMine ==
  ASSUME EntryInv, NEW p \in Producers, PublishStep(p), Sole(call'[p].key)
  PROVE  /\ pc'[p] \in Pass1 =>
               \A i \in 0 .. call'[p].probe - 1 : KeyNext(call'[p].key, i) # call'[p].key
         /\ pc'[p] \in Pass2 =>
               \A i \in 0 .. MaxProbe - 1 : KeyNext(call'[p].key, i) # call'[p].key
  <1> SUFFICES ASSUME pc'[p] \in Pass1 \cup Pass2
               PROVE  /\ pc'[p] \in Pass1 =>
                            \A i \in 0 .. call'[p].probe - 1 : KeyNext(call'[p].key, i) # call'[p].key
                      /\ pc'[p] \in Pass2 =>
                            \A i \in 0 .. MaxProbe - 1 : KeyNext(call'[p].key, i) # call'[p].key
    OBVIOUS
  <1> DEFINE k == call[p].key
             n == call[p].probe
  <1>1. TypeOK /\ AtHome
    BY DEF EntryInv, ChainInv
  <1>2. n \in Nat /\ n <= MaxProbe - 1 /\ MaxProbe \in Nat
    BY <1>1, KeyIndexAssumption DEF TypeOK, Calls
  <1>3. pc'[p] \in Pass1 \cup Pass2 => \A i : KeyNext(k, i) = KeyAt(k, i)
    BY <1>1, PassSteps DEF KeyNext, KeyAt
  <1>4. /\ pc[p] \in Pass1 => \A i \in 0 .. n - 1 : KeyAt(k, i) # k
        /\ pc[p] \in Pass2 => \A i \in 0 .. MaxProbe - 1 : KeyAt(k, i) # k
    <2>1. call'[p].key = k
      BY <1>1, PassSteps
    <2> QED BY <2>1 DEF EntryInv, NotMine
  <1>5. pc[p] \in Pass1 /\ bucket[MyBucket(p)].key # k => \A i \in 0 .. n : KeyAt(k, i) # k
    BY <1>2, <1>4 DEF KeyAt, MyBucket
  <1>6. CASE pc'[p] \in Pass1
    BY <1>1, <1>2, <1>3, <1>4, <1>5, <1>6, PassSteps DEF Pass1, Pass2
  <1>7. CASE pc'[p] \in Pass2
    BY <1>1, <1>2, <1>3, <1>4, <1>5, <1>7, PassSteps DEF Pass1, Pass2
  <1> QED BY <1>6, <1>7 DEF Pass1, Pass2

(* Nobody puts a call's key into a bucket the call has passed: an insert   *)
(* takes an empty bucket, and a reclaim for the key needs a second writer  *)
(* and a full chain.                                                       *)
LEMMA OthersNotMine ==
  ASSUME EntryInv, NEW p \in Producers, PublishStep(p),
         NEW q \in Producers \ {p}, Sole(call[q].key)
  PROVE  /\ pc[q] \in Pass1 =>
               \A i \in 0 .. call[q].probe - 1 : KeyNext(call[q].key, i) # call[q].key
         /\ pc[q] \in Pass2 =>
               \A i \in 0 .. MaxProbe - 1 : KeyNext(call[q].key, i) # call[q].key
  <1> DEFINE k == call[q].key
  <1>1. TypeOK /\ Keyed /\ Walked /\ NotMine /\ [Next]_vars
    BY DEF EntryInv, ChainInv, Next
  <1>2. call[q].probe \in Nat /\ MaxProbe \in Nat
    BY <1>1, KeyIndexAssumption DEF TypeOK, Calls
  <1>3. ASSUME NEW i \in Nat, pc[q] # "idle", KeyAt(k, i) # k, KeyAt(k, i) # NoKey
        PROVE  KeyNext(k, i) # k
    <2>1. Bucket(k, i) \in BucketIds /\ k \in KeysOf[q]
      BY <1>1, <1>3, BucketInRange, KeyNotEmpty DEF Keyed
    <2>2. CASE KeysUnchanged
      BY <1>3, <2>1, <2>2 DEF KeysUnchanged, KeyAt, KeyNext
    <2>3. ASSUME NEW s \in Producers, KeyStored(s), bucket[MyBucket(s)].key = NoKey
          PROVE  KeyNext(k, i) # k
      BY <1>3, <2>1, <2>3 DEF KeyStored, KeyAt, KeyNext
    <2>4. ASSUME NEW s \in Producers, KeyStored(s), ReclaimCas(s), PublishStep(s)
          PROVE  KeyNext(k, i) # k
      <3>1. pc[s] \in Pass2 /\ call[s].key \in KeysOf[s]
        BY <1>1, <2>4 DEF ReclaimCas, Pass2, Keyed
      <3>2. ~Roomy
        BY <3>1, NoSecondPass
      <3>3. CASE s = q
        <4>1. pc'[q] # pc[q]
          BY <1>1, <2>4, <3>3, Moves, PassMoves
             DEF ReclaimCas, BucketCas, Moved, Carried, Returned
        <4>2. pc'[q] = pc[q]
          BY <1>1, OwnCallOnly DEF Others
        <4> QED BY <4>1, <4>2
      <3>4. CASE s # q
        BY <1>3, <2>1, <2>4, <3>1, <3>2, <3>4 DEF Sole, KeyStored, KeyAt, KeyNext
      <3> QED BY <3>3, <3>4
    <2> QED BY <1>1, <2>2, <2>3, <2>4, KeySteps
  <1>4. ASSUME pc[q] \in Pass1, NEW i \in 0 .. call[q].probe - 1 PROVE KeyNext(k, i) # k
    <2>1. i \in Nat /\ i \in 0 .. call[q].probe
      BY <1>2
    <2>2. pc[q] # "idle" /\ KeyAt(k, i) # k /\ KeyAt(k, i) # NoKey
      BY <1>1, <1>4, <2>1 DEF Walked, NotMine, Pass1
    <2> QED BY <1>3, <2>1, <2>2
  <1>5. ASSUME pc[q] \in Pass2, NEW i \in 0 .. MaxProbe - 1 PROVE KeyNext(k, i) # k
    <2>1. i \in Nat
      BY <1>2
    <2>2. pc[q] # "idle" /\ KeyAt(k, i) # k /\ KeyAt(k, i) # NoKey
      BY <1>1, <1>5 DEF Walked, NotMine, Pass2
    <2> QED BY <1>3, <2>1, <2>2
  <1> QED BY <1>4, <1>5

(* A key enters a bucket one of its probes looks at.                       *)
LEMMA PlacedStep ==
  ASSUME TypeOK, Keyed, Placed, [Next]_vars
  PROVE  Placed'
  <1>1. SUFFICES ASSUME NEW b \in BucketIds, bucket'[b].key # NoKey
                 PROVE  \E n \in 0 .. MaxProbe - 1 : b = Bucket(bucket'[b].key, n)
    BY DEF Placed, Bucket, BucketIds
  <1>2. CASE bucket'[b].key = bucket[b].key
    BY <1>1, <1>2 DEF Placed
  <1>3. ASSUME NEW p \in Producers, KeyStored(p), bucket'[b].key # bucket[b].key
        PROVE  \E n \in 0 .. MaxProbe - 1 : b = Bucket(bucket'[b].key, n)
    <2>1. b = MyBucket(p) /\ bucket'[b].key = call[p].key
      BY <1>3 DEF KeyStored
    <2>2. call[p].probe \in 0 .. MaxProbe - 1
      BY DEF TypeOK, Calls
    <2> QED BY <2>1, <2>2 DEF MyBucket
  <1> QED BY <1>2, <1>3, KeySteps DEF KeysUnchanged

(* The bucket a CAS gives to a sole key is the only one that holds it.     *)
LEMMA NewEntryOnly ==
  ASSUME EntryInv, NEW p \in Producers, Sole(call[p].key),
         \/ InsertCas(p) /\ bucket[MyBucket(p)].key = NoKey
         \/ ReclaimCas(p)
  PROVE  \A b \in BucketIds : bucket[b].key # call[p].key
  <1> DEFINE k == call[p].key
  <1>1. TypeOK /\ Keyed /\ Walked /\ Rooted /\ NotMine /\ Placed
    BY DEF EntryInv, ChainInv
  <1>2. k \in Keys /\ k # NoKey
    BY <1>1, KeyNotEmpty DEF Keyed, InsertCas, ReclaimCas
  <1>3. call[p].probe \in Nat
    BY <1>1, KeyIndexAssumption DEF TypeOK, Calls
  <1> SUFFICES ASSUME NEW b \in BucketIds, bucket[b].key = k PROVE FALSE
    OBVIOUS
  <1>4. PICK n \in 0 .. MaxProbe - 1 : b = Bucket(k, n)
    BY <1>1, <1>2 DEF Placed
  <1>5. KeyAt(k, n) = k
    BY <1>4 DEF KeyAt
  <1>6. PICK m \in 0 .. n : Bucket(k, m) = b /\ \A i \in 0 .. m : KeyAt(k, i) # NoKey
    BY <1>1, <1>2, <1>4, <1>5 DEF Rooted
  <1>7. CASE ReclaimCas(p)
    BY <1>1, <1>5, <1>7 DEF NotMine, ReclaimCas, Pass2
  <1>8. CASE InsertCas(p) /\ bucket[MyBucket(p)].key = NoKey
    <2>1. KeyAt(k, call[p].probe) = NoKey /\ KeyAt(k, m) = k
      BY <1>6, <1>8 DEF KeyAt, MyBucket
    <2>2. \A i \in 0 .. call[p].probe - 1 : KeyAt(k, i) # k
      BY <1>1, <1>8 DEF NotMine, InsertCas, Pass1
    <2>3. m \in Nat /\ ~(call[p].probe \in 0 .. m) /\ ~(m \in 0 .. call[p].probe - 1)
      BY <1>6, <2>1, <2>2, KeyIndexAssumption
    <2> QED BY <1>3, <2>3
  <1> QED BY <1>7, <1>8

(* The entry invariant is kept by every step.                              *)
LEMMA EntryStep ==
  ASSUME EntryInv, [Next]_vars
  PROVE  EntryInv'
  <1>1. TypeOK /\ Keyed /\ AtHome /\ Walked /\ Rooted /\ NotMine /\ Placed /\ OneEntryPerKey
    BY DEF EntryInv, ChainInv
  <1>2. ChainInv'
    BY <1>1, TypeStep, WalkedStep, RootedStep DEF ChainInv
  <1>3. Placed'
    BY <1>1, PlacedStep
  <1>4. OneEntryPerKey'
    <2>1. KeysUnchanged => OneEntryPerKey'
      BY <1>1 DEF KeysUnchanged, OneEntryPerKey, BucketIds
    <2>2. ASSUME NEW p \in Producers, KeyStored(p),
                 Sole(call[p].key) => \A b \in BucketIds : bucket[b].key # call[p].key
          PROVE  OneEntryPerKey'
      <3>1. SUFFICES ASSUME NEW b \in BucketIds, NEW d \in BucketIds,
                            bucket'[b].key = bucket'[d].key, bucket'[b].key # NoKey,
                            Sole(bucket'[b].key)
                     PROVE  b = d
        BY DEF OneEntryPerKey, BucketIds
      <3>2. CASE bucket'[b].key = call[p].key
        BY <2>2, <3>1, <3>2 DEF KeyStored
      <3>3. CASE bucket'[b].key # call[p].key
        BY <1>1, <2>2, <3>1, <3>3 DEF KeyStored, OneEntryPerKey
      <3> QED BY <3>2, <3>3
    <2> QED BY <1>1, <2>1, <2>2, KeySteps, NewEntryOnly
  <1>5. NotMine'
    <2>1. \A q \in Producers : Sole(call'[q].key) =>
             /\ pc'[q] \in Pass1 =>
                   \A i \in 0 .. call'[q].probe - 1 : KeyNext(call'[q].key, i) # call'[q].key
             /\ pc'[q] \in Pass2 =>
                   \A i \in 0 .. MaxProbe - 1 : KeyNext(call'[q].key, i) # call'[q].key
      <3>1. ASSUME NEW p \in Producers, PublishStep(p), NEW q \in Producers,
                   Sole(call'[q].key)
            PROVE  /\ pc'[q] \in Pass1 =>
                         \A i \in 0 .. call'[q].probe - 1 : KeyNext(call'[q].key, i) # call'[q].key
                   /\ pc'[q] \in Pass2 =>
                         \A i \in 0 .. MaxProbe - 1 : KeyNext(call'[q].key, i) # call'[q].key
        <4>1. CASE q = p
          BY <3>1, <4>1, OwnNotMine
        <4>2. CASE q # p
          <5>1. pc'[q] = pc[q] /\ call'[q] = call[q]
            BY <1>1, <3>1, <4>2, OwnCallOnly DEF Others
          <5> QED BY <3>1, <4>2, <5>1, OthersNotMine
        <4> QED BY <4>1, <4>2
      <3>2. ASSUME UNCHANGED <<bucket, pc, call>>, NEW q \in Producers,
                   Sole(call'[q].key)
            PROVE  /\ pc'[q] \in Pass1 =>
                         \A i \in 0 .. call'[q].probe - 1 : KeyNext(call'[q].key, i) # call'[q].key
                   /\ pc'[q] \in Pass2 =>
                         \A i \in 0 .. MaxProbe - 1 : KeyNext(call'[q].key, i) # call'[q].key
        BY <1>1, <3>2 DEF NotMine, KeyNext, KeyAt
      <3> QED BY <3>1, <3>2 DEF Next, LookupStep, vars, pubVars
    <2> QED BY <2>1 DEF NotMine, KeyAt, KeyNext, Bucket, Pass1, Pass2
  <1> QED BY <1>2, <1>3, <1>4, <1>5 DEF EntryInv

(* It holds of empty tables.                                               *)
LEMMA EntryInit == Init => EntryInv
  <1> SUFFICES ASSUME Init PROVE EntryInv
    OBVIOUS
  <1>1. AtHome /\ Walked /\ NotMine
    BY DEF Init, AtHome, Walked, NotMine, NoCall, Pass1, Pass2
  <1>2. \A b \in BucketIds : bucket[b].key = NoKey
    BY DEF Init
  <1>3. Placed /\ OneEntryPerKey
    BY <1>2 DEF Placed, OneEntryPerKey
  <1>4. Rooted
    <2>1. ASSUME NEW k \in Keys, NEW n \in 0 .. MaxProbe - 1 PROVE KeyAt(k, n) # k
      <3>1. n \in Nat
        BY KeyIndexAssumption
      <3> QED BY <1>2, <3>1, BucketInRange, KeyNotEmpty DEF KeyAt
    <2> QED BY <2>1 DEF Rooted
  <1> QED BY TypeInit, <1>1, <1>3, <1>4 DEF EntryInv, ChainInv

(* index.go:198-201: upsert never creates two entries for a key that has   *)
(* one writer, whatever keys others insert or reclaim around it, nor for   *)
(* any key when the shard has no more keys than a chain has buckets.       *)
THEOREM OneEntry == Spec => []OneEntryPerKey
  <1>1. Init => EntryInv
    BY EntryInit
  <1>2. EntryInv /\ [Next]_vars => EntryInv'
    BY EntryStep
  <1>3. EntryInv => OneEntryPerKey
    BY DEF EntryInv
  <1> QED BY <1>1, <1>2, <1>3, PTL DEF Spec
-----------------------------------------------------------------------------
(* Producers between the claim and the release store, and those with a     *)
(* ticket that is not yet published.                                       *)
Writing == {"payload", "ticket", "key", "flags", "store"}
Holding == Writing \cup {"claim"}

(* Positions and tickets are nobody else's.                                *)
Distinct ==
    /\ \A p \in Producers : pc[p] \in Writing => call[p].pos < tail
    /\ \A p, q \in Producers : pc[p] \in Writing /\ pc[q] \in Writing /\ p # q =>
          call[p].pos # call[q].pos
    /\ \A p \in Producers : call[p].ticket <= issued
    /\ \A p, q \in Producers : pc[p] \in Holding /\ pc[q] \in Holding /\ p # q =>
          call[p].ticket # call[q].ticket
    /\ \A t \in Tickets : record[t].key # NoKey =>
          t <= issued /\ \A p \in Producers : pc[p] \in Holding => call[p].ticket # t

(* The steps that concern tickets and positions: taking a ticket, claiming *)
(* a cell, storing into it, publishing it; every other step leaves the     *)
(* matrix alone, and gives up the ticket or comes after publication.       *)
LEMMA MatrixSteps ==
  ASSUME TypeOK, NEW p \in Producers, PublishStep(p)
  PROVE  \/ \E k \in Keys : TakeTicket(p, k)
         \/ ClaimCell(p) \/ WritePayload(p) \/ WriteTicket(p) \/ WriteKey(p) \/ WriteFlags(p)
         \/ StoreSeq(p)
         \/ /\ UNCHANGED matrix /\ Others(p) /\ pc[p] \notin Writing /\ pc'[p] \notin Holding
            /\ call'[p].ticket \in {0, call[p].ticket}
  <1>1. /\ pc \in [Producers -> ProducerPc] /\ call \in [Producers -> Calls]
        /\ call[p] \in Calls
    BY DEF TypeOK
  <1> USE DEF Moved, Carried
  <1> DEFINE Away == pc'[p] \notin Holding /\ call'[p].ticket \in {0, call[p].ticket}
  <1>2. Others(p)
    BY OwnCallOnly
  <1>3. Returned(p) => Away
    BY DEF Returned, NoCall, Holding, Writing
  <1>4. Return(p) \/ Retry(p) \/ NextOfFind(p) \/ NextOfScan(p) => Away
    <2>1. Return(p) => Away
      BY <1>3, Moves
    <2>2. Retry(p) => Away
      BY <1>3, Moves DEF Holding, Writing
    <2>3. NextOfFind(p) => Away
      BY PassMoves DEF Holding, Writing
    <2>4. NextOfScan(p) => Away
      BY <1>3, PassMoves DEF Holding, Writing
    <2> QED BY <2>1, <2>2, <2>3, <2>4
  <1>5. ASSUME NEW label, label \notin Holding, Jump(p, label) \/ \E v : Load(p, label, v) PROVE Away
    BY <1>5, Moves
  <1>6. {"insert", "lost", "insertSlot", "insertTicket", "count", "update", "updateCas", "updateSlot",
         "deadSlot", "deadKey", "reclaim", "reclaimSlot", "reclaimTicket"} \cap Holding = {}
    BY DEF Holding, Writing
  <1>7. CASE ClaimFull(p)
    BY <1>2, <1>4, <1>7 DEF ClaimFull, Writing
  <1>8. CASE FindLoad(p) \/ LostReload(p)
    <2>1. Away
      BY <1>4, <1>5, <1>6, <1>8 DEF FindLoad, LostReload
    <2> QED BY <1>2, <1>8, <2>1 DEF FindLoad, LostReload, Writing
  <1>9. CASE InsertCas(p)
    <2>1. Away
      BY <1>5, <1>6, <1>9 DEF InsertCas, BucketCas
    <2> QED BY <1>2, <1>9, <2>1 DEF InsertCas, BucketCas, StoreBucket, Writing
  <1>10. CASE InsertSlot(p) \/ InsertTicket(p) \/ ReclaimSlot(p)
    <2>1. Away
      BY <1>5, <1>6, <1>10 DEF InsertSlot, InsertTicket, ReclaimSlot
    <2> QED BY <1>2, <1>10, <2>1 DEF InsertSlot, InsertTicket, ReclaimSlot, StoreBucket, Writing
  <1>11. CASE CountLive(p) \/ UpdateSlot(p) \/ ReclaimTicket(p)
    <2>1. Away
      BY <1>4, <1>11 DEF CountLive, UpdateSlot, ReclaimTicket
    <2> QED BY <1>2, <1>11, <2>1 DEF CountLive, UpdateSlot, ReclaimTicket, StoreBucket, Writing
  <1>12. CASE UpdateLoad(p)
    <2>1. Away
      BY <1>4, <1>5, <1>6, <1>12 DEF UpdateLoad
    <2> QED BY <1>2, <1>12, <2>1 DEF UpdateLoad, Writing
  <1>13. CASE UpdateCas(p)
    <2>1. Away
      BY <1>5, <1>6, <1>13 DEF UpdateCas, BucketCas
    <2> QED BY <1>2, <1>13, <2>1 DEF UpdateCas, BucketCas, StoreBucket, Writing
  <1>14. CASE ScanLoad(p) \/ DeadKey(p)
    <2>1. Away
      BY <1>4, <1>5, <1>6, <1>14 DEF ScanLoad, DeadKey
    <2> QED BY <1>2, <1>14, <2>1 DEF ScanLoad, DeadKey, Writing
  <1>15. CASE DeadSlot(p)
    <2>1. Away
      BY <1>1, <1>6, <1>15 DEF DeadSlot, Goto, Calls
    <2> QED BY <1>2, <1>15, <2>1 DEF DeadSlot, Writing
  <1>16. CASE ReclaimCas(p)
    <2>1. Away
      BY <1>4, <1>5, <1>6, <1>16 DEF ReclaimCas, BucketCas
    <2> QED BY <1>2, <1>16, <2>1 DEF ReclaimCas, BucketCas, StoreBucket, Writing
  <1> QED
    BY <1>7, <1>8, <1>9, <1>10, <1>11, <1>12, <1>13, <1>14, <1>15, <1>16 DEF PublishStep

(* The locals after the steps of publish.                                  *)
LEMMA PublishMoves ==
  ASSUME TypeOK, NEW p \in Producers
  PROVE  /\ \A k : TakeTicket(p, k) =>
               /\ Others(p) /\ pc[p] = "idle" /\ pc'[p] = "claim"
               /\ call'[p].ticket = issued + 1 /\ call'[p].key = k
         /\ ClaimCell(p) =>
               /\ Carried(p, "payload") /\ pc[p] = "claim" /\ call'[p].pos = tail
         /\ WritePayload(p) => Moved(p, "ticket") /\ pc[p] = "payload" /\ call'[p] = call[p]
         /\ WriteTicket(p) => Moved(p, "key") /\ pc[p] = "ticket" /\ call'[p] = call[p]
         /\ WriteKey(p) => Moved(p, "flags") /\ pc[p] = "key" /\ call'[p] = call[p]
         /\ WriteFlags(p) => Moved(p, "store") /\ pc[p] = "flags" /\ call'[p] = call[p]
         /\ StoreSeq(p) => Moved(p, "find") /\ pc[p] = "store" /\ call'[p] = call[p]
  <1>1. /\ pc \in [Producers -> ProducerPc] /\ call \in [Producers -> Calls]
        /\ call[p] \in Calls
    BY DEF TypeOK
  <1>2. ASSUME NEW k, TakeTicket(p, k)
        PROVE  /\ Others(p) /\ pc[p] = "idle" /\ pc'[p] = "claim"
               /\ call'[p].ticket = issued + 1 /\ call'[p].key = k
    BY <1>1, <1>2 DEF TakeTicket, Goto, Others, Calls
  <1>3. ClaimCell(p) => Carried(p, "payload") /\ pc[p] = "claim" /\ call'[p].pos = tail
    BY <1>1 DEF ClaimCell, Goto, Others, Carried, Calls
  <1> QED
    BY <1>2, <1>3, Moves DEF WritePayload, WriteTicket, WriteKey, WriteFlags, StoreSeq

(* The atomic adds of ticket and tail give every call its own.             *)
LEMMA DistinctStep ==
  ASSUME TypeOK, Keyed, Distinct, [Next]_vars
  PROVE  Distinct'
  <1>1. /\ record \in [Tickets -> Places] /\ tail \in Nat /\ issued \in Nat
        /\ \A p \in Producers : call[p].ticket \in Nat /\ call[p].pos \in Nat
    BY KeyIndexAssumption DEF TypeOK, TicketWords, Calls
  <1> USE DEF Writing, Holding, Others, Carried, Moved
  <1>2. ASSUME NEW p \in Producers, NEW k \in Keys, TakeTicket(p, k) PROVE Distinct'
    <2>1. /\ Others(p) /\ pc[p] = "idle" /\ pc'[p] = "claim" /\ call'[p].ticket = issued + 1
          /\ issued' = issued + 1 /\ tail' = tail /\ record' = record
      BY <1>2, PublishMoves DEF TakeTicket
    <2>2. \A t \in Tickets : t \in Nat
      BY KeyIndexAssumption DEF Tickets
    <2>3. \A q \in Producers : call'[q].ticket <= issued'
      BY <1>1, <2>1 DEF Distinct
    <2>4. \A q \in Producers, t \in Tickets :
             record'[t].key # NoKey => t <= issued' /\ (pc'[q] \in Holding => call'[q].ticket # t)
      BY <1>1, <2>1, <2>2 DEF Distinct
    <2>5. \A q, s \in Producers : pc'[q] \in Holding /\ pc'[s] \in Holding /\ q # s =>
             call'[q].ticket # call'[s].ticket
      BY <1>1, <2>1 DEF Distinct
    <2>6. \A q, s \in Producers : /\ pc'[q] \in Writing => call'[q].pos < tail'
                                  /\ pc'[q] \in Writing /\ pc'[s] \in Writing /\ q # s =>
                                        call'[q].pos # call'[s].pos
      BY <2>1 DEF Distinct
    <2> QED BY <2>1, <2>3, <2>4, <2>5, <2>6 DEF Distinct, Tickets
  <1>3. ASSUME NEW p \in Producers, ClaimCell(p) PROVE Distinct'
    <2>1. /\ Carried(p, "payload") /\ pc[p] = "claim" /\ call'[p].pos = tail
          /\ issued' = issued /\ tail' = tail + 1 /\ record' = record
      BY <1>3, PublishMoves DEF ClaimCell
    <2> QED BY <1>1, <2>1 DEF Distinct
  <1>4. ASSUME NEW p \in Producers,
               WritePayload(p) \/ WriteTicket(p) \/ WriteKey(p) \/ WriteFlags(p)
        PROVE  Distinct'
    <2>1. /\ issued' = issued /\ tail' = tail /\ record' = record
      BY <1>4 DEF WritePayload, WriteTicket, WriteKey, WriteFlags, StoreCell
    <2>2. /\ Others(p) /\ call'[p] = call[p]
          /\ pc[p] \in Writing /\ pc'[p] \in Writing
      BY <1>4, PublishMoves
    <2> QED BY <1>1, <2>1, <2>2 DEF Distinct
  <1>5. ASSUME NEW p \in Producers, StoreSeq(p) PROVE Distinct'
    <2>1. /\ issued' = issued /\ tail' = tail
          /\ \A t \in Tickets : t # call[p].ticket => record'[t] = record[t]
      BY <1>1, <1>5 DEF StoreSeq
    <2>2. Others(p) /\ call'[p] = call[p] /\ pc[p] = "store" /\ pc'[p] = "find"
      BY <1>5, PublishMoves
    <2> QED BY <1>1, <2>1, <2>2 DEF Distinct
  <1>6. ASSUME NEW p \in Producers, UNCHANGED matrix, Others(p), pc'[p] \notin Holding,
               call'[p].ticket \in {0, call[p].ticket}
        PROVE  Distinct'
    <2>1. issued' = issued /\ tail' = tail /\ record' = record
      BY <1>6 DEF matrix
    <2> QED BY <1>1, <1>6, <2>1 DEF Distinct
  <1>7. ASSUME UNCHANGED <<pubVars>> PROVE Distinct'
    <2>1. UNCHANGED <<pc, call, issued, tail, record>>
      BY <1>7 DEF pubVars, matrix
    <2> QED BY <2>1 DEF Distinct
  <1>8. ASSUME NEW p \in Producers, PublishStep(p) PROVE Distinct'
    BY <1>2, <1>3, <1>4, <1>5, <1>6, <1>8, MatrixSteps
  <1> QED BY <1>7, <1>8 DEF Next, LookupStep, vars
-----------------------------------------------------------------------------
(* Two positions of one cell are at least one lap apart.                   *)
LEMMA LapApart ==
  ASSUME NEW v \in Nat, NEW w \in Nat, v % Capacity = w % Capacity, v < w
  PROVE  v + Capacity <= w
  <1> DEFINE a == v \div Capacity
             b == w \div Capacity
  <1>1. /\ a \in Nat /\ b \in Nat /\ Capacity \in Nat \ {0}
        /\ v % Capacity \in 0 .. Capacity - 1
        /\ v = Capacity * a + (v % Capacity) /\ w = Capacity * b + (w % Capacity)
    BY KeyIndexAssumption
  <1> HIDE DEF a, b
  <1>2. w - v = Capacity * (b - a)
    BY <1>1
  <1>3. b - a >= 1
    BY <1>1, <1>2
  <1>4. Capacity * (b - a) >= Capacity
    BY <1>1, <1>3
  <1> QED BY <1>1, <1>2, <1>4

(* Calls that fill cells at the same time are less than a lap apart, for a *)
(* cell is claimed only when what it served before is published.           *)
Apart ==
    \A p, q \in Producers : pc[p] \in Writing /\ pc[q] \in Writing =>
        call[p].pos - call[q].pos < Capacity

(* So no two of them fill one cell.                                        *)
LEMMA SlotsApart ==
  ASSUME TypeOK, Distinct, Apart, NEW p \in Producers, NEW q \in Producers, p # q,
         pc[p] \in Writing, pc[q] \in Writing
  PROVE  MySlot(p) # MySlot(q)
  <1>1. /\ call[p].pos \in Nat /\ call[q].pos \in Nat /\ Capacity \in Nat
        /\ call[p].pos # call[q].pos
        /\ call[p].pos - call[q].pos < Capacity /\ call[q].pos - call[p].pos < Capacity
    BY KeyIndexAssumption DEF TypeOK, Calls, Distinct, Apart
  <1> DEFINE v == call[p].pos
             w == call[q].pos
  <1> HIDE DEF v, w
  <1>2. v \in Nat /\ w \in Nat /\ Capacity \in Nat /\ v # w /\ v - w < Capacity /\ w - v < Capacity
    BY <1>1 DEF v, w
  <1>3. v < w => v % Capacity # w % Capacity
    <2>1. v < w /\ v % Capacity = w % Capacity => v + Capacity <= w
      BY <1>2, LapApart
    <2>2. v < w => ~(v + Capacity <= w)
      BY <1>2
    <2> QED BY <2>1, <2>2
  <1>4. w < v => v % Capacity # w % Capacity
    <2>1. w < v /\ w % Capacity = v % Capacity => w + Capacity <= v
      BY <1>2, LapApart
    <2>2. w < v => ~(w + Capacity <= v)
      BY <1>2
    <2> QED BY <2>1, <2>2
  <1>5. v < w \/ w < v
    BY <1>2
  <1>6. v % Capacity # w % Capacity
    BY <1>3, <1>4, <1>5
  <1> QED BY <1>6 DEF MySlot, v, w

(* Claimable is what keeps them apart.                                     *)
LEMMA ApartStep ==
  ASSUME TypeOK, Distinct, Apart, NEW p \in Producers, PublishStep(p)
  PROVE  Apart'
  <1>1. /\ tail \in Nat /\ Capacity \in Nat \ {0} /\ Others(p)
        /\ \A q \in Producers : call[q].pos \in Nat
        /\ \A q \in Producers : pc[q] \in Writing => call[q].pos < tail
    BY KeyIndexAssumption, OwnCallOnly DEF TypeOK, Calls, Distinct
  <1>2. CASE ClaimCell(p)
    <2>1. /\ Carried(p, "payload") /\ pc[p] = "claim" /\ call'[p].pos = tail
          /\ \A q \in Producers : pc[q] \in Writing => call[q].pos > tail - Capacity
      BY <1>2, PublishMoves DEF ClaimCell, Claimable, Writing
    <2> QED BY <1>1, <2>1 DEF Apart, Others, Carried, Writing
  <1>3. CASE ~ClaimCell(p)
    <2>1. pc'[p] \in Writing => pc[p] \in Writing /\ call'[p].pos = call[p].pos
      BY <1>3, MatrixSteps, PublishMoves DEF Writing, Holding, Moved, Carried
    <2> QED BY <1>1, <2>1 DEF Apart, Others
  <1> QED BY <1>2, <1>3
-----------------------------------------------------------------------------
(* Producers that have stored a word of their cell and not released it.    *)
Inside == {"ticket", "key", "flags", "store"}

(* What a step of publish does to the cells: it stores a word of the call's *)
(* own cell, or releases it, or has nothing to do with them.               *)
OnlyMine(p) == \A s \in Slots : s # MySlot(p) => cell'[s] = cell[s]
Held(p) == Others(p) /\ call'[p] = call[p] /\ MySlot(p)' = MySlot(p)
CellStep(p) ==
    \/ /\ WritePayload(p) /\ Held(p) /\ pc[p] = "payload" /\ pc'[p] = "ticket"
       /\ record' = record /\ issued' = issued /\ OnlyMine(p)
       /\ cell'[MySlot(p)].pay = call[p].ticket /\ cell'[MySlot(p)].ticket = cell[MySlot(p)].ticket
       /\ cell'[MySlot(p)].key = cell[MySlot(p)].key /\ cell'[MySlot(p)].flag = cell[MySlot(p)].flag
    \/ /\ WriteTicket(p) /\ Held(p) /\ pc[p] = "ticket" /\ pc'[p] = "key"
       /\ record' = record /\ issued' = issued /\ OnlyMine(p)
       /\ cell'[MySlot(p)].pay = cell[MySlot(p)].pay /\ cell'[MySlot(p)].ticket = call[p].ticket
       /\ cell'[MySlot(p)].key = cell[MySlot(p)].key /\ cell'[MySlot(p)].flag = cell[MySlot(p)].flag
    \/ /\ WriteKey(p) /\ Held(p) /\ pc[p] = "key" /\ pc'[p] = "flags"
       /\ record' = record /\ issued' = issued /\ OnlyMine(p)
       /\ cell'[MySlot(p)].pay = cell[MySlot(p)].pay /\ cell'[MySlot(p)].ticket = cell[MySlot(p)].ticket
       /\ cell'[MySlot(p)].key = call[p].key /\ cell'[MySlot(p)].flag = cell[MySlot(p)].flag
    \/ /\ WriteFlags(p) /\ Held(p) /\ pc[p] = "flags" /\ pc'[p] = "store"
       /\ record' = record /\ issued' = issued /\ OnlyMine(p)
       /\ cell'[MySlot(p)].pay = cell[MySlot(p)].pay /\ cell'[MySlot(p)].ticket = cell[MySlot(p)].ticket
       /\ cell'[MySlot(p)].key = cell[MySlot(p)].key /\ cell'[MySlot(p)].flag
    \/ /\ StoreSeq(p) /\ Held(p) /\ pc[p] = "store" /\ pc'[p] = "find"
       /\ cell' = cell /\ issued' = issued
       /\ record'[call[p].ticket] = [key |-> call[p].key, slot |-> MySlot(p)]
       /\ \A t \in Tickets : t # call[p].ticket => record'[t] = record[t]
    \/ /\ cell' = cell /\ record' = record /\ Others(p)
       /\ pc[p] \notin Inside /\ pc'[p] \notin Inside

(* See CellStep.                                                           *)
LEMMA CellSteps ==
  ASSUME TypeOK, Keyed, NEW p \in Producers, PublishStep(p)
  PROVE  CellStep(p)
  <1>1. /\ cell \in [Slots -> CellWords] /\ record \in [Tickets -> Places] /\ call[p] \in Calls
        /\ Others(p)
    BY OwnCallOnly DEF TypeOK
  <1>2. MySlot(p) \in Slots /\ (call'[p] = call[p] => MySlot(p)' = MySlot(p))
    BY <1>1, ConstantTypes DEF MySlot, Calls
  <1> USE DEF CellStep
  <1>3. CASE WritePayload(p)
    <2>1. /\ cell' = [cell EXCEPT ![MySlot(p)].pay = call[p].ticket]
          /\ record' = record /\ issued' = issued
      BY <1>3 DEF WritePayload, StoreCell
    <2>2. pc[p] = "payload" /\ pc'[p] = "ticket" /\ Held(p)
      BY <1>1, <1>2, <1>3, PublishMoves DEF Moved, Carried, Held
    <2>3. /\ OnlyMine(p) /\ cell'[MySlot(p)].pay = call[p].ticket
          /\ cell'[MySlot(p)].ticket = cell[MySlot(p)].ticket
          /\ cell'[MySlot(p)].key = cell[MySlot(p)].key /\ cell'[MySlot(p)].flag = cell[MySlot(p)].flag
      BY <1>1, <1>2, <2>1 DEF OnlyMine, CellWords
    <2> QED BY <1>3, <2>1, <2>2, <2>3
  <1>4. CASE WriteTicket(p)
    <2>1. /\ cell' = [cell EXCEPT ![MySlot(p)].ticket = call[p].ticket]
          /\ record' = record /\ issued' = issued
      BY <1>4 DEF WriteTicket, StoreCell
    <2>2. pc[p] = "ticket" /\ pc'[p] = "key" /\ Held(p)
      BY <1>1, <1>2, <1>4, PublishMoves DEF Moved, Carried, Held
    <2>3. /\ OnlyMine(p) /\ cell'[MySlot(p)].ticket = call[p].ticket
          /\ cell'[MySlot(p)].pay = cell[MySlot(p)].pay
          /\ cell'[MySlot(p)].key = cell[MySlot(p)].key /\ cell'[MySlot(p)].flag = cell[MySlot(p)].flag
      BY <1>1, <1>2, <2>1 DEF OnlyMine, CellWords
    <2> QED BY <1>4, <2>1, <2>2, <2>3
  <1>5. CASE WriteKey(p)
    <2>1. /\ cell' = [cell EXCEPT ![MySlot(p)].key = call[p].key]
          /\ record' = record /\ issued' = issued
      BY <1>5 DEF WriteKey, StoreCell
    <2>2. pc[p] = "key" /\ pc'[p] = "flags" /\ Held(p)
      BY <1>1, <1>2, <1>5, PublishMoves DEF Moved, Carried, Held
    <2>3. /\ OnlyMine(p) /\ cell'[MySlot(p)].ticket = cell[MySlot(p)].ticket
          /\ cell'[MySlot(p)].pay = cell[MySlot(p)].pay
          /\ cell'[MySlot(p)].key = call[p].key /\ cell'[MySlot(p)].flag = cell[MySlot(p)].flag
      BY <1>1, <1>2, <2>1 DEF OnlyMine, CellWords
    <2> QED BY <1>5, <2>1, <2>2, <2>3
  <1>6. CASE WriteFlags(p)
    <2>1. /\ cell' = [cell EXCEPT ![MySlot(p)].flag = TRUE]
          /\ record' = record /\ issued' = issued
      BY <1>6 DEF WriteFlags, StoreCell
    <2>2. pc[p] = "flags" /\ pc'[p] = "store" /\ Held(p)
      BY <1>1, <1>2, <1>6, PublishMoves DEF Moved, Carried, Held
    <2>3. /\ OnlyMine(p) /\ cell'[MySlot(p)].ticket = cell[MySlot(p)].ticket
          /\ cell'[MySlot(p)].pay = cell[MySlot(p)].pay
          /\ cell'[MySlot(p)].key = cell[MySlot(p)].key /\ cell'[MySlot(p)].flag
      BY <1>1, <1>2, <2>1 DEF OnlyMine, CellWords
    <2> QED BY <1>6, <2>1, <2>2, <2>3
  <1>7. CASE StoreSeq(p)
    <2>1. pc[p] = "store" /\ pc'[p] = "find" /\ Held(p)
      BY <1>1, <1>2, <1>7, PublishMoves DEF Moved, Carried, Held
    <2>2. call[p].ticket \in Tickets
      BY <2>1 DEF Keyed
    <2>3. /\ cell' = cell /\ issued' = issued
          /\ record'[call[p].ticket] = [key |-> call[p].key, slot |-> MySlot(p)]
          /\ \A t \in Tickets : t # call[p].ticket => record'[t] = record[t]
      BY <1>1, <1>7, <2>2 DEF StoreSeq
    <2> QED BY <1>7, <2>1, <2>3
  <1>8. ASSUME NEW k \in Keys, TakeTicket(p, k) PROVE CellStep(p)
    BY <1>1, <1>8, PublishMoves DEF TakeTicket, Inside
  <1>9. CASE ClaimCell(p)
    BY <1>1, <1>9, PublishMoves DEF ClaimCell, Carried, Inside
  <1>10. CASE UNCHANGED matrix /\ pc[p] \notin Writing /\ pc'[p] \notin Holding
    BY <1>1, <1>10 DEF matrix, Writing, Holding, Inside
  <1> QED BY <1>3, <1>4, <1>5, <1>6, <1>7, <1>8, <1>9, <1>10, MatrixSteps
-----------------------------------------------------------------------------
(* What a producer has stored stays in its cell until it releases it.      *)
OwnWords ==
    \A p \in Producers :
        /\ pc[p] \in Inside => cell[MySlot(p)].pay = call[p].ticket
        /\ pc[p] \in Inside \ {"ticket"} => cell[MySlot(p)].ticket = call[p].ticket
        /\ pc[p] \in {"flags", "store"} => cell[MySlot(p)].key = call[p].key
        /\ pc[p] = "store" => cell[MySlot(p)].flag

(* Payload, ticket and key of a cell are those of one record, unless the   *)
(* cell is being overwritten; its key is always one it was filled under.   *)
OneRecord(s) ==
    /\ cell[s].pay = cell[s].ticket /\ cell[s].ticket \in Tickets
    /\ Filled(cell[s].ticket, cell[s].key, s)
CellsWhole ==
    \A s \in Slots :
        cell[s].key # NoKey => /\ Rewriting(s) \/ OneRecord(s)
                               /\ \E t \in Tickets : Filled(t, cell[s].key, s)

(* Once cell s has been filled under k and one of these holds, one of them *)
(* holds for ever, and a lookup that compares the key again either fails   *)
(* or finds the producer or the second record that the property names.     *)
Twice(k, s) == \E t, u \in Tickets : t # u /\ Filled(t, k, s) /\ Filled(u, k, s)
Reused(k, s) == cell[s].key # k \/ Rewriting(s) \/ Twice(k, s)

(* What a lookup past its first comparison has copied belongs to a record  *)
(* of its key, or the cell has been reused.                                *)
Honest(label, k, s, ticket, pay) ==
    /\ label \in {"flags", "copy", "payload", "again"} =>
          k \in Keys /\ s \in Slots /\ \E t \in Tickets : Filled(t, k, s)
    /\ label \in {"payload", "again"} => (ticket \in Tickets /\ Filled(ticket, k, s)) \/ Reused(k, s)
    /\ label = "again" => (pay \in Tickets /\ Filled(pay, k, s)) \/ Reused(k, s)
Copies == \A r \in Readers : Honest(rpc[r], look[r].key, look[r].slot, look[r].ticket, look[r].pay)

(* The inductive invariant behind ReuseIsNoticed.                          *)
CellInv == TypeOK /\ Keyed /\ Distinct /\ Apart /\ OwnWords /\ CellsWhole
ReuseInv == CellInv /\ Copies

(* A ticket is not on record before its call releases the cell.            *)
LEMMA NotYetFilled ==
  ASSUME Distinct, NEW p \in Producers, pc[p] \in Holding \ {"flags", "store"},
         NEW t \in Tickets, t = call[p].ticket, NEW k \in Keys, NEW s
  PROVE  ~Filled(t, k, s)
  <1>1. record[t].key = NoKey
    BY DEF Distinct
  <1>2. record[t] # [key |-> k, slot |-> s]
    BY <1>1, KeyNotEmpty
  <1>3. ASSUME NEW q \in Producers, pc[q] \in {"flags", "store"}, call[q].ticket = t PROVE FALSE
    BY <1>3 DEF Distinct, Holding, Writing
  <1> QED BY <1>2, <1>3 DEF Filled

(* A record that a cell was filled with remains one.                       *)
LEMMA FilledStays ==
  ASSUME TypeOK, Keyed, Distinct, NEW p \in Producers, CellStep(p),
         NEW t \in Tickets, NEW k \in Keys, NEW s, Filled(t, k, s)
  PROVE  Filled(t, k, s)'
  <1>1. CASE record[t] = [key |-> k, slot |-> s]
    <2>1. record[t].key # NoKey
      BY <1>1, KeyNotEmpty
    <2>2. StoreSeq(p) => t # call[p].ticket
      BY <2>1 DEF Distinct, StoreSeq, Holding, Writing
    <2>3. record'[t] = record[t]
      BY <2>2 DEF CellStep
    <2> QED BY <1>1, <2>3 DEF Filled
  <1>2. ASSUME NEW q \in Producers, pc[q] \in {"flags", "store"}, MySlot(q) = s,
               call[q].ticket = t, call[q].key = k
        PROVE  Filled(t, k, s)'
    <2>1. CASE q # p
      <3>1. pc'[q] = pc[q] /\ call'[q] = call[q] /\ MySlot(q)' = MySlot(q)
        BY <2>1 DEF CellStep, Held, Others, MySlot
      <3> QED BY <1>2, <3>1 DEF Filled
    <2>2. CASE q = p /\ StoreSeq(p)
      <3>1. record'[t] = [key |-> k, slot |-> s]
        BY <1>2, <2>2 DEF CellStep, WritePayload, WriteTicket, WriteKey, WriteFlags, StoreSeq, Inside
      <3> QED BY <3>1 DEF Filled
    <2>3. CASE q = p /\ ~StoreSeq(p)
      <3>1. pc'[p] = "store" /\ call'[p] = call[p] /\ MySlot(p)' = MySlot(p)
        BY <1>2, <2>3 DEF CellStep, Held, Inside
      <3> QED BY <1>2, <2>3, <3>1 DEF Filled
    <2> QED BY <2>1, <2>2, <2>3
  <1> QED BY <1>1, <1>2 DEF Filled

(* The stores of other producers go to other cells.                        *)
LEMMA OwnWordsStep ==
  ASSUME TypeOK, Keyed, Distinct, Apart, OwnWords, NEW p \in Producers, CellStep(p)
  PROVE  OwnWords'
  <1> DEFINE Mine(q) ==
        /\ pc'[q] \in Inside => cell'[MySlot(q)'].pay = call'[q].ticket
        /\ pc'[q] \in Inside \ {"ticket"} => cell'[MySlot(q)'].ticket = call'[q].ticket
        /\ pc'[q] \in {"flags", "store"} => cell'[MySlot(q)'].key = call'[q].key
        /\ pc'[q] = "store" => cell'[MySlot(q)'].flag
  <1>1. ASSUME NEW q \in Producers, q # p PROVE Mine(q)
    <2>1. pc'[q] = pc[q] /\ call'[q] = call[q] /\ MySlot(q)' = MySlot(q)
      BY <1>1 DEF CellStep, Held, Others, MySlot
    <2>2. MySlot(q) \in Slots
      BY ConstantTypes DEF TypeOK, Calls, MySlot
    <2>3. pc[q] \in Inside /\ pc[p] \in Writing => MySlot(q) # MySlot(p)
      BY <1>1, SlotsApart DEF Inside, Writing
    <2>4. pc[q] \in Inside => cell'[MySlot(q)] = cell[MySlot(q)]
      BY <2>2, <2>3 DEF CellStep, OnlyMine, Writing
    <2> QED BY <2>1, <2>4 DEF OwnWords, Inside
  <1>2. Mine(p)
    BY DEF CellStep, Held, OwnWords, Inside
  <1>3. \A q \in Producers : Mine(q)
    BY <1>1, <1>2
  <1> QED BY <1>3 DEF OwnWords, Inside

(* While one is being overwritten, nobody else's step ends that.           *)
LEMMA RewritingStays ==
  ASSUME NEW p \in Producers, CellStep(p), NEW s, Rewriting(s)
  PROVE  Rewriting(s)' \/ (WriteKey(p) /\ MySlot(p) = s)
  <1>1. PICK q \in Producers : pc[q] \in {"ticket", "key"} /\ MySlot(q) = s
    BY DEF Rewriting
  <1>2. CASE q # p
    <2>1. pc'[q] = pc[q] /\ MySlot(q)' = MySlot(q)
      BY <1>2 DEF CellStep, Held, Others, MySlot
    <2> QED BY <1>1, <2>1 DEF Rewriting
  <1>3. CASE q = p
    <2>1. WriteKey(p) \/ (pc'[p] = "key" /\ MySlot(p)' = MySlot(p))
      BY <1>1, <1>3 DEF CellStep, Held, Inside
    <2> QED BY <1>1, <1>3, <2>1 DEF Rewriting
  <1> QED BY <1>2, <1>3

(* A cell stays whole; one that is filled holds its writer's record.       *)
LEMMA CellsWholeStep ==
  ASSUME CellInv, OwnWords', NEW p \in Producers, CellStep(p)
  PROVE  CellsWhole'
  <1>1. TypeOK /\ Keyed /\ Distinct /\ OwnWords /\ CellsWhole
    BY DEF CellInv
  <1>2. ASSUME NEW s \in Slots, cell'[s].key # NoKey,
               NEW k, k = cell'[s].key, NEW v, v = cell'[s].ticket
        PROVE  /\ Rewriting(s)' \/ (cell'[s].pay = v /\ v \in Tickets /\ Filled(v, k, s)')
               /\ \E t \in Tickets : Filled(t, k, s)'
    <2>1. CASE WriteKey(p) /\ MySlot(p) = s
      <3>1. pc[p] = "key" /\ pc'[p] = "flags" /\ call'[p] = call[p] /\ MySlot(p)' = s
        BY <2>1 DEF CellStep, Held, WritePayload, WriteTicket, WriteKey, WriteFlags, StoreSeq, Inside
      <3>2. cell'[s].pay = call[p].ticket /\ cell'[s].ticket = call[p].ticket /\ cell'[s].key = call[p].key
        BY <3>1 DEF OwnWords, Inside
      <3>3. call[p].ticket \in Tickets
        BY <1>1, <3>1 DEF Keyed
      <3>4. Filled(v, k, s)'
        BY <1>2, <3>1, <3>2 DEF Filled
      <3> QED BY <1>2, <3>2, <3>3, <3>4
    <2>2. ASSUME ~(WriteKey(p) /\ MySlot(p) = s)
          PROVE  /\ Rewriting(s)' \/ (cell'[s].pay = v /\ v \in Tickets /\ Filled(v, k, s)')
                 /\ \E t \in Tickets : Filled(t, k, s)'
      <3>1. cell[s].key = k
        BY <1>2, <2>2 DEF CellStep, OnlyMine
      <3>2. k \in Keys
        BY <1>1, <1>2, <3>1 DEF TypeOK, CellWords, KeyWords
      <3>3. /\ Rewriting(s) \/ OneRecord(s)
            /\ \E t \in Tickets : Filled(t, k, s)
        BY <1>1, <1>2, <3>1 DEF CellsWhole
      <3>4. \E t \in Tickets : Filled(t, k, s)'
        BY <1>1, <3>2, <3>3, FilledStays
      <3>5. Rewriting(s) => Rewriting(s)'
        BY <2>2, RewritingStays
      <3>6. CASE WritePayload(p) /\ MySlot(p) = s
        <4>1. pc'[p] = "ticket" /\ MySlot(p)' = s
          BY <1>1, <3>6, PublishMoves DEF Moved, Carried, MySlot
        <4> QED BY <3>4, <4>1 DEF Rewriting
      <3>7. CASE WriteTicket(p) /\ MySlot(p) = s
        <4>1. pc'[p] = "key" /\ MySlot(p)' = s
          BY <1>1, <3>7, PublishMoves DEF Moved, Carried, MySlot
        <4> QED BY <3>4, <4>1 DEF Rewriting
      <3>8. CASE ~(WritePayload(p) /\ MySlot(p) = s) /\ ~(WriteTicket(p) /\ MySlot(p) = s)
        <4>1. cell'[s].pay = cell[s].pay /\ cell'[s].ticket = cell[s].ticket
          BY <2>2, <3>8 DEF CellStep, OnlyMine
        <4>2. OneRecord(s) => cell'[s].pay = v /\ v \in Tickets /\ Filled(v, k, s)
          BY <1>2, <3>1, <4>1 DEF OneRecord
        <4>3. OneRecord(s) => Filled(v, k, s)'
          BY <1>1, <3>2, <4>2, FilledStays
        <4> QED BY <3>3, <3>4, <3>5, <4>2, <4>3
      <3> QED BY <3>6, <3>7, <3>8
    <2> QED BY <2>1, <2>2
  <1>3. ASSUME NEW s \in Slots, cell'[s].key # NoKey
        PROVE  (Rewriting(s) \/ OneRecord(s))' /\ \E t \in Tickets : Filled(t, cell[s].key, s)'
    BY <1>2, <1>3 DEF OneRecord, Filled, Tickets
  <1> QED BY <1>3 DEF CellsWhole, Slots, Tickets

(* The invariant of the cells is kept by every step of publish.            *)
LEMMA CellInvStep ==
  ASSUME CellInv, [Next]_vars
  PROVE  CellInv'
  <1>1. TypeOK /\ Keyed /\ Distinct /\ Apart /\ OwnWords /\ CellsWhole
    BY DEF CellInv
  <1>2. TypeOK' /\ Keyed' /\ Distinct'
    BY <1>1, TypeStep, DistinctStep
  <1>3. ASSUME NEW p \in Producers, PublishStep(p) PROVE CellInv'
    <2>1. CellStep(p) /\ Apart'
      BY <1>1, <1>3, CellSteps, ApartStep
    <2>2. OwnWords'
      BY <1>1, <2>1, OwnWordsStep
    <2>3. CellsWhole'
      BY <2>1, <2>2, CellsWholeStep
    <2> QED BY <1>2, <2>1, <2>2, <2>3 DEF CellInv
  <1>4. ASSUME UNCHANGED pubVars PROVE CellInv'
    <2>1. UNCHANGED <<pc, call, cell, record>>
      BY <1>4 DEF pubVars, matrix
    <2>2. Apart' /\ OwnWords'
      BY <1>1, <2>1 DEF Apart, OwnWords, MySlot, Inside, Writing
    <2>3. CellsWhole'
      BY <1>1, <2>1 DEF CellsWhole, OneRecord, Filled, Rewriting, MySlot, Slots, Tickets
    <2> QED BY <1>2, <2>2, <2>3 DEF CellInv
  <1> QED BY <1>3, <1>4 DEF Next, LookupStep, vars

(* Reuse of a cell that was filled under k is for ever.                    *)
LEMMA ReusedStays ==
  ASSUME CellInv, NEW p \in Producers, CellStep(p), NEW k \in Keys, NEW s \in Slots,
         NEW t \in Tickets, Filled(t, k, s), Reused(k, s)
  PROVE  Reused(k, s)'
  <1>1. TypeOK /\ Keyed /\ Distinct
    BY DEF CellInv
  <1>2. \A u \in Tickets : Filled(u, k, s) => Filled(u, k, s)'
    BY <1>1, FilledStays
  <1>3. CASE Twice(k, s)
    <2>1. Twice(k, s)'
      BY <1>2, <1>3 DEF Twice, Tickets
    <2> QED BY <2>1 DEF Reused
  <1>4. CASE WriteKey(p) /\ MySlot(p) = s
    <2>1. pc[p] = "key" /\ pc'[p] = "flags" /\ call'[p] = call[p] /\ MySlot(p)' = s
      BY <1>1, <1>4, PublishMoves DEF Moved, Carried, MySlot
    <2>2. cell'[s].key = call[p].key
      BY <1>4, <2>1 DEF CellStep, Inside
    <2>3. CASE call[p].key # k
      BY <2>2, <2>3 DEF Reused
    <2>4. CASE call[p].key = k
      <3>1. call[p].ticket \in Tickets /\ Filled(call[p].ticket, k, s)'
        BY <1>1, <2>1, <2>4 DEF Keyed, Filled
      <3>2. ~Filled(call[p].ticket, k, s)
        BY <1>1, <2>1, <3>1, NotYetFilled DEF Holding, Writing
      <3>3. t # call[p].ticket /\ Filled(t, k, s)'
        BY <1>2, <3>2
      <3>4. \E a, b \in Tickets : a # b /\ Filled(a, k, s)' /\ Filled(b, k, s)'
        <4> DEFINE u == call[p].ticket
        <4>1. ASSUME NEW a \in Tickets, a = u PROVE Filled(a, k, s)'
          BY <2>1, <2>4, <4>1 DEF Filled
        <4> QED BY <3>1, <3>3, <4>1
      <3> QED BY <3>4 DEF Reused, Twice, Tickets
    <2> QED BY <2>3, <2>4
  <1>5. CASE ~(WriteKey(p) /\ MySlot(p) = s)
    <2>1. cell'[s].key = cell[s].key
      BY <1>5 DEF CellStep, OnlyMine
    <2>2. Rewriting(s) => Rewriting(s)'
      BY <1>5, RewritingStays
    <2>3. CASE cell[s].key # k \/ Rewriting(s)
      BY <2>1, <2>2, <2>3 DEF Reused
    <2> QED BY <1>3, <2>3 DEF Reused
  <1> QED BY <1>4, <1>5

(* What a lookup has copied is honest, whoever publishes.                  *)
LEMMA HonestStays ==
  ASSUME CellInv, NEW p \in Producers, CellStep(p),
         NEW label, NEW k, NEW s, NEW ticket, NEW pay, Honest(label, k, s, ticket, pay)
  PROVE  Honest(label, k, s, ticket, pay)'
  <1> SUFFICES ASSUME label \in {"flags", "copy", "payload", "again"}
               PROVE  Honest(label, k, s, ticket, pay)'
    BY DEF Honest
  <1>1. PICK t \in Tickets : Filled(t, k, s)
    BY DEF Honest
  <1>2. k \in Keys /\ s \in Slots /\ TypeOK /\ Keyed /\ Distinct
    BY DEF Honest, CellInv
  <1>3. \A u \in Tickets : Filled(u, k, s) => Filled(u, k, s)'
    BY <1>2, FilledStays
  <1>4. Reused(k, s) => Reused(k, s)'
    BY <1>1, <1>2, ReusedStays
  <1> QED BY <1>1, <1>2, <1>3, <1>4 DEF Honest, Slots, Tickets

(* It depends on the words of the cells and the calls only.                *)
LEMMA SameHonest ==
  ASSUME UNCHANGED pubVars, NEW label, NEW k, NEW s, NEW ticket, NEW pay,
         Honest(label, k, s, ticket, pay)
  PROVE  Honest(label, k, s, ticket, pay)'
  <1>1. UNCHANGED <<pc, call, cell, record>>
    BY DEF pubVars, matrix
  <1>2. \A t : Filled(t, k, s) => Filled(t, k, s)'
    BY <1>1 DEF Filled, MySlot
  <1>3. Reused(k, s) => Reused(k, s)'
    BY <1>1, <1>2 DEF Reused, Rewriting, Twice, MySlot, Tickets
  <1> QED BY <1>2, <1>3 DEF Honest, Slots, Tickets

(* Where the steps of a lookup lead.                                       *)
LEMMA LookMoves ==
  ASSUME TypeOK, NEW r \in Readers
  PROVE  /\ Reset(r) => rpc'[r] = "idle" /\ floor'[r] = 0 /\ look'[r].probe = 0
         /\ \A label : RJump(r, label) => rpc'[r] = label /\ look'[r] = look[r] /\ floor'[r] = floor[r]
         /\ \A label, v : Keep(r, label, "probe", v) =>
               /\ rpc'[r] = label /\ floor'[r] = floor[r] /\ look'[r].key = look[r].key
               /\ look'[r].probe = v /\ look'[r].slot = look[r].slot
         /\ \A label, v : Keep(r, label, "slot", v) =>
               /\ rpc'[r] = label /\ floor'[r] = floor[r] /\ look'[r].key = look[r].key
               /\ look'[r].probe = look[r].probe /\ look'[r].slot = v
         /\ \A label, v : Keep(r, label, "ticket", v) \/ Keep(r, label, "pay", v) =>
               /\ rpc'[r] = label /\ floor'[r] = floor[r] /\ look'[r].key = look[r].key
               /\ look'[r].probe = look[r].probe /\ look'[r].slot = look[r].slot
         /\ \A k : Lookup(r, k) =>
               /\ rpc[r] = "idle" /\ rpc'[r] = "key" /\ look'[r].key = k
               /\ look'[r].probe = look[r].probe /\ floor'[r] = Max({0} \cup Completed(k))
  <1>1. /\ rpc \in [Readers -> ReaderPc] /\ look \in [Readers -> Looks] /\ look[r] \in Looks
        /\ floor \in [Readers -> TicketWords]
    BY DEF TypeOK
  <1> USE DEF RGoto
  <1>2. Reset(r) => rpc'[r] = "idle" /\ floor'[r] = 0 /\ look'[r].probe = 0
    BY <1>1 DEF Reset, NoLook
  <1>3. ASSUME NEW label, RJump(r, label)
        PROVE  rpc'[r] = label /\ look'[r] = look[r] /\ floor'[r] = floor[r]
    BY <1>1, <1>3 DEF RJump
  <1>4. ASSUME NEW label, NEW v, Keep(r, label, "probe", v)
        PROVE  /\ rpc'[r] = label /\ floor'[r] = floor[r] /\ look'[r].key = look[r].key
               /\ look'[r].probe = v /\ look'[r].slot = look[r].slot
    BY <1>1, <1>4 DEF Keep, Looks
  <1>5. ASSUME NEW label, NEW v, Keep(r, label, "slot", v)
        PROVE  /\ rpc'[r] = label /\ floor'[r] = floor[r] /\ look'[r].key = look[r].key
               /\ look'[r].probe = look[r].probe /\ look'[r].slot = v
    BY <1>1, <1>5 DEF Keep, Looks
  <1>6. ASSUME NEW label, NEW v, Keep(r, label, "ticket", v) \/ Keep(r, label, "pay", v)
        PROVE  /\ rpc'[r] = label /\ floor'[r] = floor[r] /\ look'[r].key = look[r].key
               /\ look'[r].probe = look[r].probe /\ look'[r].slot = look[r].slot
    BY <1>1, <1>6 DEF Keep, Looks
  <1>7. ASSUME NEW k, Lookup(r, k)
        PROVE  /\ rpc[r] = "idle" /\ rpc'[r] = "key" /\ look'[r].key = k
               /\ look'[r].probe = look[r].probe /\ floor'[r] = Max({0} \cup Completed(k))
    BY <1>1, <1>7 DEF Lookup, Looks
  <1> QED BY <1>2, <1>3, <1>4, <1>5, <1>6, <1>7

(* A step of one lookup leaves the others alone.                           *)
LEMMA OwnLookOnly ==
  ASSUME TypeOK, NEW r \in Readers, LookupStep(r), NEW q \in Readers, q # r
  PROVE  rpc'[q] = rpc[q] /\ look'[q] = look[q] /\ floor'[q] = floor[q]
  <1>1. /\ rpc \in [Readers -> ReaderPc] /\ look \in [Readers -> Looks]
        /\ floor \in [Readers -> TicketWords]
    BY DEF TypeOK
  <1> DEFINE Same == rpc'[q] = rpc[q] /\ look'[q] = look[q] /\ floor'[q] = floor[q]
  <1>2. ASSUME NEW k \in Keys, Lookup(r, k) PROVE Same
    BY <1>1, <1>2 DEF Lookup, RGoto
  <1>3. Reset(r) => Same
    BY <1>1 DEF Reset, RGoto
  <1>4. \A label, word, v : Keep(r, label, word, v) => Same
    BY <1>1 DEF Keep, RGoto
  <1>5. \A label : RJump(r, label) => Same
    BY <1>1 DEF RJump, RGoto
  <1> SUFFICES Same
    OBVIOUS
  <1> HIDE DEF Same
  <1>6. CASE ProbeKey(r)
    BY <1>3, <1>4, <1>5, <1>6 DEF ProbeKey
  <1>7. CASE ProbeTicket(r) \/ CheckKey(r) \/ CheckFlags(r) \/ CheckAgain(r) \/ LookupDone(r)
    BY <1>3, <1>5, <1>7 DEF ProbeTicket, CheckKey, CheckFlags, CheckAgain, LookupDone
  <1>8. CASE ProbeSlot(r) \/ CopyTicket(r) \/ CopyPayload(r)
    BY <1>4, <1>8 DEF ProbeSlot, CopyTicket, CopyPayload
  <1> QED BY <1>2, <1>6, <1>7, <1>8 DEF LookupStep

(* A lookup copies what the cell says: a whole record, or a reused cell.   *)
LEMMA HonestCopies ==
  ASSUME CellInv, NEW r \in Readers, LookupStep(r),
         NEW label, label = rpc[r], NEW k, k = look[r].key, NEW s, s = look[r].slot,
         NEW t, t = look[r].ticket, NEW y, y = look[r].pay, Honest(label, k, s, t, y)
  PROVE  Honest(rpc'[r], look'[r].key, look'[r].slot, look'[r].ticket, look'[r].pay)
  <1>1. /\ TypeOK /\ CellsWhole /\ Keyed /\ look \in [Readers -> Looks] /\ look[r] \in Looks
        /\ cell \in [Slots -> CellWords]
    BY DEF CellInv, TypeOK
  <1>2. s \in Slots /\ (rpc[r] # "idle" => k \in Keys /\ k # NoKey) /\ RCell(r) = cell[s]
    BY <1>1, KeyNotEmpty DEF Looks, Keyed, RCell
  <1> DEFINE Past == {"flags", "copy", "payload", "again"}
             After == Honest(rpc'[r], look'[r].key, look'[r].slot, look'[r].ticket, look'[r].pay)
  <1>3. rpc'[r] \notin Past => After
    BY DEF Honest
  <1>4. \A l : RJump(r, l) =>
           rpc'[r] = l /\ look'[r] = look[r]
    BY <1>1, LookMoves
  <1>5. Reset(r) => After
    BY <1>1, <1>3, LookMoves
  <1>6. k \in Keys => \/ Reused(k, s)
                      \/ cell[s].pay \in Tickets /\ cell[s].ticket \in Tickets
                         /\ Filled(cell[s].pay, k, s) /\ Filled(cell[s].ticket, k, s)
    <2> SUFFICES ASSUME k \in Keys, ~Reused(k, s)
                 PROVE  /\ cell[s].pay \in Tickets /\ cell[s].ticket \in Tickets
                        /\ Filled(cell[s].pay, k, s) /\ Filled(cell[s].ticket, k, s)
      OBVIOUS
    <2>1. cell[s].key = k /\ ~Rewriting(s) /\ k # NoKey
      BY KeyNotEmpty DEF Reused
    <2>2. OneRecord(s)
      BY <1>1, <1>2, <2>1 DEF CellsWhole
    <2>3. cell[s].pay = cell[s].ticket /\ cell[s].ticket \in Tickets /\ Filled(cell[s].ticket, k, s)
      BY <2>1, <2>2 DEF OneRecord
    <2> QED BY <2>3
  <1>7. CASE ProbeKey(r) \/ ProbeTicket(r) \/ ProbeSlot(r) \/ LookupDone(r) \/ \E j \in Keys : Lookup(r, j)
    <2>1. \A j : Lookup(r, j) => rpc'[r] = "key"
      BY <1>1, LookMoves
    <2>2. ProbeKey(r) => rpc'[r] \in {"idle", "key", "ticket"}
      BY <1>1, LookMoves DEF ProbeKey
    <2>3. ProbeTicket(r) \/ ProbeSlot(r) \/ LookupDone(r) => rpc'[r] \in {"idle", "slot", "check"}
      BY <1>1, LookMoves DEF ProbeTicket, ProbeSlot, LookupDone
    <2> QED BY <1>3, <1>7, <2>1, <2>2, <2>3
  <1>8. CASE CheckKey(r)
    <2>1. rpc[r] = "check"
      BY <1>8 DEF CheckKey
    <2>2. CASE RCell(r).key # look[r].key
      BY <1>5, <1>8, <2>2 DEF CheckKey
    <2>3. CASE RCell(r).key = look[r].key
      <3>1. RJump(r, "flags")
        BY <1>8, <2>3 DEF CheckKey
      <3>2. \E u \in Tickets : Filled(u, k, s)
        BY <1>1, <1>2, <2>1, <2>3 DEF CellsWhole
      <3>3. Honest("flags", k, s, t, y)
        BY <1>2, <2>1, <3>2 DEF Honest
      <3> QED BY <1>4, <3>1, <3>3
    <2> QED BY <2>2, <2>3
  <1>9. CASE CheckFlags(r)
    <2>1. rpc[r] = "flags" /\ (Reset(r) \/ RJump(r, "copy"))
      BY <1>9 DEF CheckFlags
    <2>2. Honest("copy", k, s, t, y)
      BY <2>1 DEF Honest
    <2> QED BY <1>4, <1>5, <2>1, <2>2
  <1>10. CASE CopyTicket(r)
    <2>1. rpc[r] = "copy" /\ Keep(r, "payload", "ticket", cell[s].ticket)
      BY <1>2, <1>10 DEF CopyTicket
    <2>2. /\ rpc'[r] = "payload" /\ look'[r].key = k /\ look'[r].slot = s
          /\ look'[r].ticket = cell[s].ticket
      BY <1>1, <2>1 DEF Keep, RGoto, Looks, TypeOK
    <2>3. k \in Keys /\ \E u \in Tickets : Filled(u, k, s)
      BY <2>1 DEF Honest
    <2>4. ASSUME NEW v, v = cell[s].ticket, NEW w PROVE Honest("payload", k, s, v, w)
      BY <1>2, <1>6, <2>3, <2>4 DEF Honest
    <2> QED BY <2>2, <2>4
  <1>11. CASE CopyPayload(r)
    <2>1. rpc[r] = "payload" /\ Keep(r, "again", "pay", cell[s].pay)
      BY <1>2, <1>11 DEF CopyPayload
    <2>2. /\ rpc'[r] = "again" /\ look'[r].key = k /\ look'[r].slot = s
          /\ look'[r].ticket = t /\ look'[r].pay = cell[s].pay
      BY <1>1, <2>1 DEF Keep, RGoto, Looks, TypeOK
    <2>3. /\ k \in Keys /\ \E u \in Tickets : Filled(u, k, s)
          /\ (t \in Tickets /\ Filled(t, k, s)) \/ Reused(k, s)
      BY <2>1 DEF Honest
    <2>4. ASSUME NEW v, v = cell[s].pay PROVE Honest("again", k, s, t, v)
      BY <1>2, <1>6, <2>3, <2>4 DEF Honest
    <2> QED BY <2>2, <2>4
  <1>12. CASE CheckAgain(r)
    <2>1. Reset(r) \/ RJump(r, "found")
      BY <1>12 DEF CheckAgain
    <2> QED BY <1>3, <1>4, <1>5, <2>1
  <1> QED BY <1>7, <1>8, <1>9, <1>10, <1>11, <1>12 DEF LookupStep

(* The invariant behind ReuseIsNoticed is kept by every step.              *)
LEMMA ReuseStep ==
  ASSUME ReuseInv, [Next]_vars
  PROVE  ReuseInv'
  <1>1. CellInv /\ Copies /\ TypeOK /\ Keyed /\ CellInv'
    BY CellInvStep DEF ReuseInv, CellInv
  <1> DEFINE Now(r) == Honest(rpc[r], look[r].key, look[r].slot, look[r].ticket, look[r].pay)
  <1>2. ASSUME NEW p \in Producers, PublishStep(p) PROVE Copies'
    <2>1. rpc' = rpc /\ look' = look /\ CellStep(p)
      BY <1>1, <1>2, CellSteps DEF PublishStep, readVars
    <2>2. ASSUME NEW r \in Readers PROVE Now(r)'
      <3>1. ASSUME NEW label, label = rpc[r], NEW k, k = look[r].key, NEW s, s = look[r].slot,
                   NEW t, t = look[r].ticket, NEW y, y = look[r].pay
            PROVE  Honest(label, k, s, t, y)'
        <4>1. Honest(label, k, s, t, y)
          BY <1>1, <3>1 DEF Copies
        <4> QED BY <1>1, <2>1, <4>1, HonestStays
      <3> QED BY <2>1, <3>1 DEF Honest
    <2> QED BY <2>2 DEF Copies
  <1>3. ASSUME UNCHANGED pubVars,
               \A r \in Readers :
                  Honest(rpc'[r], look'[r].key, look'[r].slot, look'[r].ticket, look'[r].pay)
        PROVE  Copies'
    <2>1. ASSUME NEW r \in Readers,
                 NEW label, label = rpc'[r], NEW k, k = look'[r].key, NEW s, s = look'[r].slot,
                 NEW t, t = look'[r].ticket, NEW y, y = look'[r].pay
          PROVE  Honest(label, k, s, t, y)'
      <3>1. Honest(label, k, s, t, y)
        BY <1>3, <2>1
      <3> QED BY <1>3, <3>1, SameHonest
    <2>2. ASSUME NEW r \in Readers PROVE Now(r)'
      BY <2>1, <2>2 DEF Honest
    <2> QED BY <2>2 DEF Copies
  <1>4. ASSUME NEW r \in Readers, LookupStep(r) PROVE Copies'
    <2>1. UNCHANGED pubVars
      BY <1>4 DEF LookupStep
    <2>2. ASSUME NEW q \in Readers
          PROVE  Honest(rpc'[q], look'[q].key, look'[q].slot, look'[q].ticket, look'[q].pay)
      <3>1. CASE q # r
        <4>1. rpc'[q] = rpc[q] /\ look'[q] = look[q]
          BY <1>1, <1>4, <3>1, OwnLookOnly
        <4> QED BY <1>1, <4>1 DEF Copies
      <3>2. CASE q = r
        BY <1>1, <1>4, <3>2, HonestCopies DEF Copies
      <3> QED BY <3>1, <3>2
    <2> QED BY <1>3, <2>1, <2>2
  <1>5. ASSUME UNCHANGED vars PROVE Copies'
    <2>1. UNCHANGED pubVars /\ rpc' = rpc /\ look' = look
      BY <1>5 DEF vars, readVars
    <2> QED BY <1>1, <1>3, <2>1 DEF Copies
  <1> QED BY <1>1, <1>2, <1>4, <1>5 DEF ReuseInv, Next

(* It holds of empty cells.                                                *)
LEMMA CellInit == Init => CellInv
  <1> SUFFICES ASSUME Init PROVE CellInv
    OBVIOUS
  <1>1. Distinct
    BY KeyIndexAssumption DEF Init, Distinct, NoCall, Writing, Holding, Nowhere
  <1>2. Apart /\ OwnWords /\ CellsWhole
    BY DEF Init, Apart, OwnWords, CellsWhole, Writing, Inside
  <1> QED BY TypeInit, <1>1, <1>2 DEF CellInv

(* index.go:318-322 and 379-380: for every number of producers and readers *)
(* and every size of ring, with cells recycled under the reader, a lookup  *)
(* returns one record of its key, unless a producer is inside the cell at  *)
(* the second comparison, or the cell has held the key twice.              *)
THEOREM ReuseNoticed == Spec => ReuseIsNoticed
  <1> DEFINE Told ==
        \A r \in Readers : rpc[r] = "again" /\ rpc'[r] = "found" =>
          LET k == look[r].key
              s == look[r].slot
          IN  \/ look[r].ticket = look[r].pay /\ Filled(look[r].ticket, k, s)
              \/ Rewriting(s)
              \/ \E t, u \in Tickets : t # u /\ Filled(t, k, s) /\ Filled(u, k, s)
  <1>1. Init => ReuseInv
    BY CellInit DEF Init, ReuseInv, Copies, Honest
  <1>2. ReuseInv /\ [Next]_vars => ReuseInv'
    BY ReuseStep
  <1>3. ASSUME ReuseInv, [Next]_vars PROVE [Told]_vars
    <2> SUFFICES ASSUME NEW r \in Readers, rpc[r] = "again", rpc'[r] = "found"
                 PROVE  \/ look[r].ticket = look[r].pay /\ Filled(look[r].ticket, look[r].key, look[r].slot)
                        \/ Rewriting(look[r].slot)
                        \/ Twice(look[r].key, look[r].slot)
      BY DEF Twice
    <2>1. TypeOK /\ Copies
      BY <1>3 DEF ReuseInv, CellInv
    <2>2. LookupStep(r)
      <3>1. \A p \in Producers : PublishStep(p) => rpc' = rpc
        BY DEF PublishStep, readVars
      <3>2. \A q \in Readers : LookupStep(q) /\ q # r => rpc'[r] = rpc[r]
        BY <2>1, OwnLookOnly
      <3> QED BY <1>3, <3>1, <3>2 DEF Next, vars, readVars
    <2>3. CheckAgain(r)
      BY <2>2 DEF LookupStep, Lookup, ProbeKey, ProbeTicket, ProbeSlot, CheckKey, CheckFlags,
                  CopyTicket, CopyPayload, LookupDone
    <2>4. cell[look[r].slot].key = look[r].key
      BY <2>1, <2>3, LookMoves DEF CheckAgain, RCell
    <2>5. Honest("again", look[r].key, look[r].slot, look[r].ticket, look[r].pay)
      BY <2>1 DEF Copies
    <2>6. CASE Reused(look[r].key, look[r].slot)
      BY <2>4, <2>6 DEF Reused
    <2>7. CASE ~Reused(look[r].key, look[r].slot)
      <3>1. /\ look[r].ticket \in Tickets /\ Filled(look[r].ticket, look[r].key, look[r].slot)
            /\ look[r].pay \in Tickets /\ Filled(look[r].pay, look[r].key, look[r].slot)
        BY <2>5, <2>7 DEF Honest
      <3> QED BY <3>1 DEF Twice
    <2> QED BY <2>6, <2>7
  <1> QED BY <1>1, <1>2, <1>3, PTL DEF Spec, ReuseIsNoticed
-----------------------------------------------------------------------------
(* A record of k with ticket t or a later one was published in cell s.     *)
Good(s, k, t) == \E u \in Tickets : u >= t /\ record[u] = [key |-> k, slot |-> s]

(* Bucket b leads a lookup of k to such a cell.                            *)
Serves(b, k, t) == bucket[b].key = k /\ bucket[b].ticket > 0 /\ Good(bucket[b].slot, k, t)

(* Producers in an upsert that needs no second pass: those that have a     *)
(* bucket, and all of them.                                                *)
Seated == {"insertSlot", "insertTicket", "count", "update", "updateCas", "updateSlot"}
Upserting == Seated \cup Pass1

(* From the release store on, a call's record is published in its cell.    *)
Recorded ==
    \A p \in Producers :
        /\ pc[p] \in Upserting => record[call[p].ticket] = [key |-> call[p].key, slot |-> MySlot(p)]
        /\ pc[p] = "idle" => call[p].ticket = 0

(* A call at a bucket finds its key there, and what it has stored.         *)
OwnBucket ==
    \A p \in Producers :
        /\ pc[p] \notin {"reclaimSlot", "reclaimTicket"}
        /\ pc[p] \in Seated => bucket[MyBucket(p)].key = call[p].key
        /\ pc[p] \in {"insertTicket", "count"} => bucket[MyBucket(p)].slot = MySlot(p)
        /\ pc[p] \in {"count", "updateSlot"} => bucket[MyBucket(p)].ticket > 0

(* The tickets of a key's one writer increase: what is published of its    *)
(* key is no newer than its call, and until it stores the ticket into a    *)
(* bucket the one there is older.                                          *)
Newest ==
    /\ \A b \in BucketIds : /\ bucket[b].ticket <= issued
                            /\ bucket[b].key = NoKey => bucket[b].ticket = 0
    /\ \A p \in Producers : pc[p] # "idle" =>
          /\ \A t \in Tickets : record[t].key = call[p].key => t <= call[p].ticket
          /\ pc[p] \notin {"count", "updateSlot"} =>
                \A b \in BucketIds :
                    bucket[b].key = call[p].key => bucket[b].ticket < call[p].ticket

(* Once a Publish has returned, its key's bucket leads to its record or to *)
(* a newer one.                                                            *)
Served == \A k \in Keys : \A t \in Completed(k) : \E b \in BucketIds : Serves(b, k, t)

(* A lookup of k that has to find ticket t is on its way to it: from the   *)
(* probe it is at, through no empty bucket, or it is at the bucket, or it  *)
(* has the cell.                                                           *)
OnTheWay(label, k, t, probe, slot) ==
    /\ label # "idle" /\ k \in Keys /\ t \in Tickets /\ record[t].key = k
    /\ label = "key" =>
          \E n \in probe .. MaxProbe - 1 : /\ Serves(Bucket(k, n), k, t)
                                           /\ \A i \in 0 .. n : KeyAt(k, i) # NoKey
    /\ label \in {"ticket", "slot"} => Serves(Bucket(k, probe), k, t)
    /\ label \notin {"key", "ticket", "slot"} => Good(slot, k, t)
Seeking ==
    \A r \in Readers :
        /\ rpc[r] = "idle" => look[r].probe = 0
        /\ floor[r] > 0 => OnTheWay(rpc[r], look[r].key, floor[r], look[r].probe, look[r].slot)

(* Ticket v belongs to a record of k, published or on its way.             *)
OfKey(v, k) ==
    \/ \E t \in Tickets : t = v /\ record[t].key = k
    \/ \E p \in Producers : pc[p] \in Holding /\ call[p].ticket = v /\ call[p].key = k

(* A cell where a record was published says so for as long as it holds the *)
(* record's ticket, and it never holds an older one of the same key.       *)
CellTickets ==
    /\ \A s \in Slots : cell[s].ticket <= issued
    /\ \A t \in Tickets, s \in Slots, k \in Keys : record[t] = [key |-> k, slot |-> s] =>
          /\ cell[s].flag
          /\ cell[s].ticket = t => cell[s].key = k
          /\ OfKey(cell[s].ticket, k) => cell[s].ticket >= t

(* Nor does a lookup copy an older one than it has to find.                *)
ReadTickets ==
    \A r \in Readers :
        /\ look[r].ticket <= issued
        /\ rpc[r] \in {"payload", "again"} /\ OfKey(look[r].ticket, look[r].key) =>
              look[r].ticket >= floor[r]

(* The inductive invariant behind LookupFresh, with what the earlier       *)
(* sections found.                                                         *)
FreshInv == Recorded /\ OwnBucket /\ Newest /\ Served /\ Seeking /\ CellTickets /\ ReadTickets
Fresh == EntryInv /\ CellInv /\ FreshInv

(* Between the release store and a return, in an upsert without a second   *)
(* pass: what a step does to the call and to its bucket.                   *)
LEMMA UpsertSteps ==
  ASSUME TypeOK, Keyed, NEW p \in Producers, PublishStep(p), pc[p] \in Upserting
  PROVE  /\ UNCHANGED <<cell, tail, issued, record>>
         /\ \/ /\ bucket' = bucket /\ pc[p] \in Pass1
               /\ \E label \in Pass1 \cup {"scan"} : Moved(p, label)
            \/ /\ bucket' = bucket /\ pc[p] \in Pass1 /\ Moved(p, "update")
               /\ call'[p] = call[p] /\ bucket[MyBucket(p)].key = call[p].key
            \/ /\ StoreBucket(p, "key", call[p].key) /\ pc[p] = "insert" /\ Moved(p, "insertSlot")
               /\ call'[p] = call[p] /\ bucket[MyBucket(p)].key = NoKey
            \/ /\ StoreBucket(p, "slot", MySlot(p)) /\ pc[p] = "insertSlot"
               /\ Moved(p, "insertTicket") /\ call'[p] = call[p]
            \/ /\ StoreBucket(p, "ticket", call[p].ticket) /\ pc[p] = "insertTicket"
               /\ Moved(p, "count") /\ call'[p] = call[p]
            \/ bucket' = bucket /\ pc[p] = "count" /\ Returned(p)
            \/ /\ bucket' = bucket /\ pc[p] = "update" /\ Returned(p)
               /\ bucket[MyBucket(p)].ticket >= call[p].ticket
            \/ /\ bucket' = bucket /\ pc[p] \in {"update", "updateCas"}
               /\ \E label \in {"update", "updateCas"} : Moved(p, label)
               /\ call'[p].probe = call[p].probe
            \/ /\ StoreBucket(p, "ticket", call[p].ticket) /\ pc[p] = "updateCas"
               /\ Moved(p, "updateSlot") /\ call'[p].probe = call[p].probe
            \/ StoreBucket(p, "slot", MySlot(p)) /\ pc[p] = "updateSlot" /\ Returned(p)
  <1> USE DEF Pass1, matrix
  <1>1. CASE FindLoad(p)
    <2>1. pc[p] = "find" /\ bucket' = bucket /\ UNCHANGED <<cell, tail, issued, record>>
      BY <1>1 DEF FindLoad
    <2>2. \/ Jump(p, "insert") \/ NextOfFind(p)
          \/ Jump(p, "update") /\ bucket[MyBucket(p)].key = call[p].key
      BY <1>1 DEF FindLoad
    <2> QED BY <2>1, <2>2, Moves, PassMoves
  <1>2. CASE InsertCas(p)
    BY <1>2, Moves DEF InsertCas, BucketCas, StoreBucket
  <1>3. CASE LostReload(p)
    BY <1>3, Moves, PassMoves DEF LostReload
  <1>4. CASE InsertSlot(p) \/ InsertTicket(p) \/ UpdateSlot(p)
    BY <1>4, Moves DEF InsertSlot, InsertTicket, UpdateSlot, StoreBucket
  <1>5. CASE CountLive(p)
    BY <1>5, Moves DEF CountLive
  <1>6. CASE UpdateLoad(p)
    BY <1>6, Moves DEF UpdateLoad
  <1>7. CASE UpdateCas(p)
    BY <1>7, Moves DEF UpdateCas, BucketCas, StoreBucket
  <1>8. \/ FindLoad(p) \/ InsertCas(p) \/ LostReload(p) \/ InsertSlot(p) \/ InsertTicket(p)
        \/ CountLive(p) \/ UpdateLoad(p) \/ UpdateCas(p) \/ UpdateSlot(p)
    <2>1. pc[p] \notin {"idle", "claim", "payload", "ticket", "key", "flags", "store"} \cup Pass2
          /\ pc[p] \notin {"reclaimSlot", "reclaimTicket"}
      BY DEF Upserting, Seated, Pass2
    <2> QED
      BY <2>1
         DEF PublishStep, TakeTicket, ClaimCell, ClaimFull, WritePayload, WriteTicket, WriteKey,
             WriteFlags, StoreSeq, ScanLoad, DeadSlot, DeadKey, ReclaimCas, ReclaimSlot,
             ReclaimTicket, Pass2
  <1> QED BY <1>1, <1>2, <1>3, <1>4, <1>5, <1>6, <1>7, <1>8

(* With one writer per key, calls under way are about different keys.      *)
LEMMA OwnKey ==
  ASSUME OneWriter, Keyed, NEW p \in Producers, NEW q \in Producers, p # q,
         pc[p] # "idle", pc[q] # "idle"
  PROVE  call[p].key # call[q].key
  BY DEF OneWriter, Keyed

(* Where a call can be that never needs a second pass.                     *)
LEMMA OnePass ==
  ASSUME Roomy, EntryInv, OwnBucket, NEW p \in Producers
  PROVE  pc[p] \in {"idle", "claim", "payload", "ticket", "key", "flags", "store"} \cup Upserting
  <1>1. pc[p] \in ProducerPc /\ pc[p] \notin Pass2
    BY NoSecondPass DEF EntryInv, ChainInv, TypeOK
  <1> QED BY <1>1 DEF ProducerPc, Pass2, OwnBucket, Upserting, Seated, Pass1

(* What a step outside of an upsert can be.                                *)
LEMMA EarlySteps ==
  ASSUME Roomy, EntryInv, OwnBucket, NEW p \in Producers, PublishStep(p), pc[p] \notin Upserting
  PROVE  \/ \E k \in Keys : TakeTicket(p, k)
         \/ ClaimCell(p) \/ ClaimFull(p) \/ WritePayload(p) \/ WriteTicket(p) \/ WriteKey(p)
         \/ WriteFlags(p) \/ StoreSeq(p)
  <1>1. pc[p] \in {"idle", "claim", "payload", "ticket", "key", "flags", "store"}
    BY OnePass
  <1> QED
    BY <1>1
       DEF PublishStep, ScanLoad, DeadSlot, DeadKey, ReclaimCas, ReclaimSlot, ReclaimTicket, FindLoad,
           InsertCas, LostReload, InsertSlot, InsertTicket, CountLive, UpdateLoad, UpdateCas, UpdateSlot

(* A step changes a bucket only if it is the caller's own: one that holds  *)
(* its key, or an empty one that gets it.                                  *)
Touched(p, b) ==
    /\ b = MyBucket(p) /\ pc[p] \in Upserting
    /\ bucket'[b].key = call[p].key /\ bucket[b].key \in {NoKey, call[p].key}
    /\ \/ bucket'[b].ticket = bucket[b].ticket
       \/ /\ bucket[b].key # NoKey /\ bucket'[b].ticket = call[p].ticket
          /\ pc'[p] \in {"count", "updateSlot"}
    /\ bucket'[b].slot \in {bucket[b].slot, MySlot(p)}

(* See Touched.                                                            *)
LEMMA BucketSteps ==
  ASSUME Roomy, EntryInv, OwnBucket, NEW p \in Producers, PublishStep(p), NEW b \in BucketIds
  PROVE  bucket'[b] = bucket[b] \/ Touched(p, b)
  <1>1. TypeOK /\ Keyed /\ bucket \in [BucketIds -> BucketWords]
    BY DEF EntryInv, ChainInv, TypeOK
  <1>2. CASE pc[p] \notin Upserting
    <2>1. bucket' = bucket
      BY <1>2, EarlySteps
         DEF TakeTicket, ClaimCell, ClaimFull, WritePayload, WriteTicket, WriteKey, WriteFlags, StoreSeq,
             StoreCell
    <2> QED BY <2>1
  <1>3. CASE pc[p] \in Upserting
    <2>1. b # MyBucket(p) => \A w, v : StoreBucket(p, w, v) => bucket'[b] = bucket[b]
      BY <1>1 DEF StoreBucket
    <2>2. /\ b = MyBucket(p) /\ StoreBucket(p, "key", call[p].key) =>
                /\ bucket'[b].key = call[p].key /\ bucket'[b].ticket = bucket[b].ticket
                /\ bucket'[b].slot = bucket[b].slot
          /\ b = MyBucket(p) /\ StoreBucket(p, "slot", MySlot(p)) =>
                /\ bucket'[b].key = bucket[b].key /\ bucket'[b].ticket = bucket[b].ticket
                /\ bucket'[b].slot = MySlot(p)
          /\ b = MyBucket(p) /\ StoreBucket(p, "ticket", call[p].ticket) =>
                /\ bucket'[b].key = bucket[b].key /\ bucket'[b].ticket = call[p].ticket
                /\ bucket'[b].slot = bucket[b].slot
      BY <1>1 DEF StoreBucket, BucketWords
    <2>3. pc[p] \in Seated /\ b = MyBucket(p) => bucket[b].key = call[p].key /\ call[p].key # NoKey
      BY <1>1, KeyNotEmpty DEF OwnBucket, Keyed, Seated
    <2>4. \/ bucket' = bucket
          \/ StoreBucket(p, "key", call[p].key) /\ bucket[MyBucket(p)].key = NoKey
          \/ StoreBucket(p, "slot", MySlot(p)) /\ pc[p] \in Seated
          \/ /\ StoreBucket(p, "ticket", call[p].ticket) /\ pc[p] \in Seated
             /\ pc'[p] \in {"count", "updateSlot"}
      BY <1>1, <1>3, UpsertSteps DEF Moved, Carried, Seated
    <2>5. CASE b # MyBucket(p)
      BY <2>1, <2>4, <2>5
    <2>6. CASE b = MyBucket(p)
      BY <1>3, <2>2, <2>3, <2>4, <2>6 DEF Touched
    <2> QED BY <2>5, <2>6
  <1> QED BY <1>2, <1>3

(* Nobody else touches the bucket that a call is at: it holds the call's   *)
(* key, and every key has one writer.                                      *)
LEMMA OwnBucketStep ==
  ASSUME OneWriter, Roomy, EntryInv, OwnBucket, NEW p \in Producers, PublishStep(p)
  PROVE  OwnBucket'
  <1>1. TypeOK /\ Keyed /\ Others(p) /\ bucket \in [BucketIds -> BucketWords]
    BY OwnCallOnly DEF EntryInv, ChainInv, TypeOK
  <1> DEFINE Mine(q) ==
        /\ pc'[q] \notin {"reclaimSlot", "reclaimTicket"}
        /\ pc'[q] \in Seated => bucket'[MyBucket(q)'].key = call'[q].key
        /\ pc'[q] \in {"insertTicket", "count"} => bucket'[MyBucket(q)'].slot = MySlot(q)'
        /\ pc'[q] \in {"count", "updateSlot"} => bucket'[MyBucket(q)'].ticket > 0
  <1>2. ASSUME NEW q \in Producers, q # p PROVE Mine(q)
    <2>1. pc'[q] = pc[q] /\ call'[q] = call[q] /\ MySlot(q)' = MySlot(q) /\ MyBucket(q)' = MyBucket(q)
      BY <1>1, <1>2 DEF Others, MySlot, MyBucket, Bucket
    <2>2. ASSUME pc[q] \in Seated PROVE bucket'[MyBucket(q)] = bucket[MyBucket(q)]
      <3>1. pc[q] # "idle" /\ bucket[MyBucket(q)].key = call[q].key /\ call[q].key # NoKey
        BY <1>1, <2>2, KeyNotEmpty DEF Seated, OwnBucket, Keyed
      <3>2. MyBucket(q) \in BucketIds
        BY <1>1, <3>1, MyBucketInRange
      <3>3. pc[p] \in Upserting => pc[p] # "idle"
        BY DEF Upserting, Seated, Pass1
      <3>4. ~Touched(p, MyBucket(q))
        BY <1>1, <1>2, <3>1, <3>3, OwnKey DEF Touched
      <3> QED BY <3>2, <3>4, BucketSteps
    <2> QED BY <2>1, <2>2 DEF OwnBucket, Seated
  <1>3. Mine(p)
    <2>1. CASE pc[p] \notin Upserting
      <3>1. ClaimFull(p) => pc'[p] = "idle"
        BY <1>1, Moves DEF ClaimFull, Returned
      <3>2. pc'[p] \in {"idle", "claim", "payload", "ticket", "key", "flags", "store", "find"}
        BY <1>1, <2>1, <3>1, EarlySteps, PublishMoves DEF Moved, Carried
      <3> QED BY <3>2 DEF Seated
    <2>2. CASE pc[p] \in Upserting
      <3> DEFINE b == MyBucket(p)
      <3>1. b \in BucketIds /\ call[p].ticket \in Nat /\ call[p].ticket > 0
        <4>1. pc[p] # "idle"
          BY <2>2 DEF Upserting, Seated, Pass1
        <4> QED BY <1>1, <4>1, MyBucketInRange DEF Keyed, Tickets
      <3>2. call'[p].key = call[p].key /\ call'[p].probe = call[p].probe => MyBucket(p)' = b
        BY DEF MyBucket, Bucket
      <3>3. call'[p].pos = call[p].pos => MySlot(p)' = MySlot(p)
        BY DEF MySlot
      <3>4. /\ StoreBucket(p, "key", call[p].key) => bucket'[b].key = call[p].key
            /\ StoreBucket(p, "slot", MySlot(p)) =>
                  bucket'[b].key = bucket[b].key /\ bucket'[b].slot = MySlot(p)
            /\ StoreBucket(p, "ticket", call[p].ticket) =>
                  /\ bucket'[b].key = bucket[b].key /\ bucket'[b].slot = bucket[b].slot
                  /\ bucket'[b].ticket = call[p].ticket
        BY <1>1, <3>1 DEF StoreBucket, BucketWords
      <3>5. /\ pc[p] \in Seated => bucket[b].key = call[p].key
            /\ pc[p] \in {"insertTicket", "count"} => bucket[b].slot = MySlot(p)
            /\ pc[p] \in {"count", "updateSlot"} => bucket[b].ticket > 0
        BY DEF OwnBucket
      <3> HIDE DEF b
      <3>6. \/ pc'[p] \in {"find", "insert", "lost", "scan", "idle"}
            \/ /\ pc'[p] = "update" /\ MyBucket(p)' = b /\ bucket' = bucket
               /\ call'[p].key = call[p].key /\ bucket[b].key = call[p].key
            \/ /\ pc'[p] \in {"update", "updateCas"} /\ MyBucket(p)' = b /\ bucket' = bucket
               /\ call'[p].key = call[p].key /\ pc[p] \in Seated
            \/ /\ pc'[p] = "insertSlot" /\ StoreBucket(p, "key", call[p].key)
               /\ MyBucket(p)' = b /\ call'[p].key = call[p].key
            \/ /\ pc'[p] = "insertTicket" /\ StoreBucket(p, "slot", MySlot(p)) /\ pc[p] \in Seated
               /\ MyBucket(p)' = b /\ call'[p].key = call[p].key /\ MySlot(p)' = MySlot(p)
            \/ /\ pc'[p] = "count" /\ StoreBucket(p, "ticket", call[p].ticket) /\ pc[p] = "insertTicket"
               /\ MyBucket(p)' = b /\ call'[p].key = call[p].key /\ MySlot(p)' = MySlot(p)
            \/ /\ pc'[p] = "updateSlot" /\ StoreBucket(p, "ticket", call[p].ticket) /\ pc[p] \in Seated
               /\ MyBucket(p)' = b /\ call'[p].key = call[p].key
        BY <1>1, <2>2, <3>2, <3>3, UpsertSteps DEF Moved, Carried, Returned, Seated, Pass1, b
      <3> QED BY <3>1, <3>4, <3>5, <3>6 DEF Seated
    <2> QED BY <2>1, <2>2
  <1>4. \A q \in Producers : Mine(q)
    BY <1>2, <1>3
  <1> QED BY <1>4 DEF OwnBucket, Seated

(* Tickets and records outside of an upsert.                               *)
LEMMA RecordSteps ==
  ASSUME Roomy, EntryInv, OwnBucket, NEW p \in Producers, PublishStep(p)
  PROVE  \/ \E k \in Keys : TakeTicket(p, k)
         \/ /\ StoreSeq(p) /\ pc[p] = "store" /\ call'[p] = call[p] /\ issued' = issued
         \/ /\ record' = record /\ issued' = issued /\ pc[p] # "idle"
            /\ \/ Returned(p) /\ pc[p] \in {"claim"} \cup Upserting
               \/ \E label \in ProducerPc : Carried(p, label)
  <1>1. TypeOK /\ Keyed
    BY DEF EntryInv, ChainInv
  <1>2. CASE pc[p] \in Upserting
    <2>1. record' = record /\ issued' = issued
      BY <1>1, <1>2, UpsertSteps
    <2>2. pc[p] # "idle" /\ ~\E k \in Keys : TakeTicket(p, k)
      BY <1>2 DEF Upserting, Seated, Pass1, TakeTicket
    <2> QED BY <1>1, <1>2, <2>1, <2>2, RecordKept
  <1>3. CASE pc[p] \notin Upserting
    <2>1. CASE ClaimFull(p)
      BY <1>1, <2>1, Moves DEF ClaimFull, matrix
    <2>2. CASE ClaimCell(p)
      BY <1>1, <2>2, PublishMoves DEF ClaimCell, ProducerPc
    <2>3. CASE WritePayload(p) \/ WriteTicket(p) \/ WriteKey(p) \/ WriteFlags(p)
      <3>1. record' = record /\ issued' = issued
        BY <2>3 DEF WritePayload, WriteTicket, WriteKey, WriteFlags, StoreCell
      <3> QED BY <1>1, <2>3, <3>1, PublishMoves DEF Moved, ProducerPc
    <2>4. CASE StoreSeq(p)
      BY <1>1, <2>4, PublishMoves DEF StoreSeq
    <2> QED BY <1>3, <2>1, <2>2, <2>3, <2>4, EarlySteps
  <1> QED BY <1>2, <1>3

(* A key's one writer draws increasing tickets.                            *)
LEMMA NewestStep ==
  ASSUME OneWriter, Roomy, EntryInv, Distinct, OwnBucket, Newest, NEW p \in Producers, PublishStep(p)
  PROVE  Newest'
  <1>1. TypeOK /\ Keyed /\ Others(p)
    BY OwnCallOnly DEF EntryInv, ChainInv
  <1>2. /\ issued \in Nat /\ record \in [Tickets -> Places] /\ \A t \in Tickets : t \in Nat
        /\ \A b \in BucketIds : bucket[b].ticket \in Nat
        /\ \A q \in Producers : call[q].ticket \in Nat /\ call[q].ticket <= issued
    <2>1. \A b \in BucketIds : bucket[b] \in BucketWords
      BY <1>1 DEF TypeOK
    <2> QED BY <1>1, <2>1, KeyIndexAssumption
            DEF TypeOK, TicketWords, Tickets, BucketWords, Calls, Distinct
  <1>3. issued' = issued \/ issued' = issued + 1
    BY RecordSteps DEF TakeTicket
  <1>4. ASSUME NEW b \in BucketIds
        PROVE  bucket'[b].ticket <= issued' /\ (bucket'[b].key = NoKey => bucket'[b].ticket = 0)
    <2>1. bucket[b].ticket <= issued /\ (bucket[b].key = NoKey => bucket[b].ticket = 0)
      BY DEF Newest
    <2>2. Touched(p, b) => bucket'[b].key # NoKey
      <3>1. pc[p] \in Upserting => pc[p] # "idle"
        BY DEF Upserting, Seated, Pass1
      <3> QED BY <1>1, <3>1, KeyNotEmpty DEF Touched, Keyed
    <2>3. bucket'[b].ticket <= issued /\ bucket'[b].ticket \in Nat
      BY <1>2, <2>1, BucketSteps DEF Touched
    <2>4. bucket'[b].key = NoKey => bucket'[b].ticket = 0
      BY <2>1, <2>2, BucketSteps
    <2> QED BY <1>2, <1>3, <2>3, <2>4
  <1>5. ASSUME NEW q \in Producers, pc'[q] # "idle", NEW t \in Tickets, record'[t].key = call'[q].key
        PROVE  t <= call'[q].ticket
    <2>1. ASSUME NEW k \in Keys, TakeTicket(p, k) PROVE t <= call'[q].ticket
      <3>1. record' = record /\ call'[p].ticket = issued + 1
        BY <1>1, <2>1, PublishMoves DEF TakeTicket
      <3>2. CASE q = p
        <4>1. call'[q].key # NoKey
          BY <1>1, <2>1, <3>2, PublishMoves, KeyNotEmpty
        <4>2. t <= issued
          BY <1>5, <3>1, <4>1 DEF Distinct
        <4> QED BY <1>2, <3>1, <3>2, <4>2
      <3>3. CASE q # p
        BY <1>1, <1>5, <3>1, <3>3 DEF Newest, Others
      <3> QED BY <3>2, <3>3
    <2>2. CASE StoreSeq(p) /\ pc[p] = "store" /\ call'[p] = call[p]
      <3>1. pc[q] # "idle" /\ call'[q] = call[q]
        BY <1>1, <1>5, <2>2 DEF Others
      <3>2. CASE t = call[p].ticket
        <4>1. record'[t].key = call[p].key
          BY <1>2, <2>2, <3>2 DEF StoreSeq
        <4>2. q = p
          BY <1>1, <1>5, <2>2, <3>1, <4>1, OwnKey
        <4> QED BY <1>2, <3>1, <3>2, <4>2
      <3>3. CASE t # call[p].ticket
        <4>1. record'[t] = record[t]
          BY <1>2, <2>2, <3>3 DEF StoreSeq
        <4> QED BY <1>5, <3>1, <4>1 DEF Newest
      <3> QED BY <3>2, <3>3
    <2>3. CASE /\ record' = record /\ pc[p] # "idle"
               /\ Returned(p) \/ \E label \in ProducerPc : Carried(p, label)
      <3>1. pc[q] # "idle" /\ call'[q].key = call[q].key /\ call'[q].ticket = call[q].ticket
        BY <1>1, <1>5, <2>3 DEF Others, Returned, Carried
      <3> QED BY <1>5, <2>3, <3>1 DEF Newest
    <2> QED BY <2>1, <2>2, <2>3, RecordSteps
  <1>6. ASSUME NEW q \in Producers, pc'[q] \notin {"idle", "count", "updateSlot"}, NEW b \in BucketIds,
               bucket'[b].key = call'[q].key
        PROVE  bucket'[b].ticket < call'[q].ticket
    <2>1. CASE q # p
      <3>1. pc[q] = pc'[q] /\ call'[q] = call[q]
        BY <1>1, <2>1 DEF Others
      <3>2. ~Touched(p, b)
        <4>1. pc[p] \in Upserting => pc[p] # "idle"
          BY DEF Upserting, Seated, Pass1
        <4> QED BY <1>1, <1>6, <2>1, <3>1, <4>1, OwnKey DEF Touched
      <3>3. bucket'[b] = bucket[b]
        BY <3>2, BucketSteps
      <3> QED BY <1>6, <3>1, <3>3 DEF Newest
    <2>2. ASSUME q = p, NEW k \in Keys, TakeTicket(p, k) PROVE bucket'[b].ticket < call'[q].ticket
      <3>1. bucket' = bucket /\ call'[p].ticket = issued + 1
        BY <1>1, <2>2, PublishMoves DEF TakeTicket
      <3>2. bucket[b].ticket <= issued
        BY DEF Newest
      <3> QED BY <1>2, <2>2, <3>1, <3>2
    <2>3. CASE q = p /\ pc[p] # "idle"
      <3>1. call'[p].key = call[p].key /\ call'[p].ticket = call[p].ticket
        BY <1>6, <2>3, RecordSteps DEF Returned, Carried, TakeTicket
      <3>2. pc[p] \notin {"count", "updateSlot"}
        <4>1. pc[p] \in {"count", "updateSlot"} => pc'[p] = "idle"
          BY <1>1, UpsertSteps DEF Upserting, Seated, Pass1, Returned
        <4> QED BY <1>6, <2>3, <4>1
      <3>3. bucket'[b].ticket = bucket[b].ticket /\ bucket[b].key \in {NoKey, call[p].key}
        BY <1>6, <2>3, <3>1, BucketSteps DEF Touched
      <3>4. call[p].ticket > 0
        BY <1>1, <2>3 DEF Keyed, Tickets
      <3> QED BY <1>2, <2>3, <3>1, <3>2, <3>3, <3>4 DEF Newest
    <2> QED
      <3>1. pc[p] = "idle" => \E k \in Keys : TakeTicket(p, k)
        BY <1>1, RecordKept
      <3> QED BY <2>1, <2>2, <2>3, <3>1
  <1> QED BY <1>4, <1>5, <1>6 DEF Newest, BucketIds, Tickets

(* What is on record stays on record.                                      *)
LEMMA RecordStays ==
  ASSUME TypeOK, Keyed, Distinct, NEW p \in Producers, PublishStep(p),
         NEW t \in Tickets, record[t].key # NoKey
  PROVE  record'[t] = record[t]
  <1>1. StoreSeq(p) => t # call[p].ticket
    BY DEF Distinct, StoreSeq, Holding, Writing
  <1> QED BY <1>1, CellSteps DEF CellStep

(* A published record stays one, wherever its cell is claimed again.       *)
LEMMA GoodStays ==
  ASSUME TypeOK, Keyed, Distinct, NEW p \in Producers, PublishStep(p),
         NEW s, NEW k \in Keys, NEW t, Good(s, k, t)
  PROVE  Good(s, k, t)'
  <1>1. PICK u \in Tickets : u >= t /\ record[u] = [key |-> k, slot |-> s]
    BY DEF Good
  <1>2. record[u].key # NoKey
    BY <1>1, KeyNotEmpty
  <1>3. record'[u] = record[u]
    BY <1>2, RecordStays
  <1> QED BY <1>1, <1>3 DEF Good, Tickets

(* A call puts itself on record when it publishes.                         *)
LEMMA RecordedStep ==
  ASSUME Roomy, EntryInv, Distinct, OwnBucket, Recorded, NEW p \in Producers, PublishStep(p)
  PROVE  Recorded'
  <1>1. TypeOK /\ Keyed /\ Others(p)
    BY OwnCallOnly DEF EntryInv, ChainInv
  <1>2. ASSUME NEW q \in Producers, pc[q] \in Upserting
        PROVE  record'[call[q].ticket] = [key |-> call[q].key, slot |-> MySlot(q)]
    <2>1. pc[q] # "idle"
      BY <1>2 DEF Upserting, Seated, Pass1
    <2>2. /\ call[q].ticket \in Tickets /\ call[q].key # NoKey
          /\ record[call[q].ticket] = [key |-> call[q].key, slot |-> MySlot(q)]
      BY <1>1, <1>2, <2>1, KeyNotEmpty DEF Keyed, Recorded
    <2> QED BY <1>1, <2>2, RecordStays
  <1>3. ASSUME NEW q \in Producers
        PROVE  /\ pc'[q] \in Upserting =>
                     record'[call'[q].ticket] = [key |-> call'[q].key, slot |-> MySlot(q)']
               /\ pc'[q] = "idle" => call'[q].ticket = 0
    <2>1. CASE q # p
      <3>1. pc'[q] = pc[q] /\ call'[q] = call[q] /\ MySlot(q)' = MySlot(q)
        BY <1>1, <2>1 DEF Others, MySlot
      <3> QED BY <1>2, <3>1 DEF Recorded
    <2>2. CASE q = p /\ pc[p] \in Upserting
      <3>1. \/ pc'[p] = "idle" /\ call'[p] = NoCall
            \/ /\ pc'[p] # "idle" /\ call'[p].key = call[p].key /\ call'[p].ticket = call[p].ticket
               /\ call'[p].pos = call[p].pos
        BY <1>1, <2>2, UpsertSteps DEF Returned, Moved, Carried, Pass1
      <3>2. pc'[p] = "idle" => pc'[p] \notin Upserting
        BY DEF Upserting, Seated, Pass1
      <3>3. pc'[p] # "idle" => MySlot(p)' = MySlot(p)
        BY <3>1 DEF MySlot
      <3> QED BY <1>2, <2>2, <3>1, <3>2, <3>3 DEF NoCall
    <2>3. CASE q = p /\ StoreSeq(p)
      <3>1. pc'[p] = "find" /\ call'[p] = call[p] /\ call[p].ticket \in Tickets
        BY <1>1, <2>3, PublishMoves DEF Moved, Carried, Keyed, StoreSeq
      <3>2. record'[call[p].ticket] = [key |-> call[p].key, slot |-> MySlot(p)]
        BY <1>1, <2>3, <3>1 DEF StoreSeq, TypeOK
      <3>3. MySlot(p)' = MySlot(p)
        BY <3>1 DEF MySlot
      <3> QED BY <2>3, <3>1, <3>2, <3>3
    <2>4. CASE q = p /\ pc[p] \notin Upserting /\ ~StoreSeq(p)
      <3>1. ClaimFull(p) => Returned(p)
        BY <1>1, Moves DEF ClaimFull
      <3>2. \/ pc'[p] \in {"claim", "payload", "ticket", "key", "flags", "store"}
            \/ pc'[p] = "idle" /\ call'[p] = NoCall
        BY <1>1, <2>4, <3>1, EarlySteps, PublishMoves DEF Moved, Carried, Returned
      <3> QED BY <2>4, <3>2 DEF Upserting, Seated, Pass1, NoCall
    <2> QED BY <2>1, <2>2, <2>3, <2>4
  <1> QED BY <1>3 DEF Recorded, Upserting, Seated, Pass1

(* A bucket that leads to a record of its key leads to it, or to a newer   *)
(* one, from then on.                                                      *)
LEMMA ServesStays ==
  ASSUME OneWriter, Roomy, EntryInv, CellInv, FreshInv, NEW p \in Producers, PublishStep(p),
         NEW b \in BucketIds, NEW k \in Keys, NEW t \in Tickets, record[t].key = k, Serves(b, k, t)
  PROVE  Serves(b, k, t)'
  <1>1. TypeOK /\ Keyed /\ Distinct /\ OwnBucket /\ bucket[b] \in BucketWords /\ t \in Nat
    BY KeyIndexAssumption DEF CellInv, FreshInv, TypeOK, Tickets
  <1>2. bucket[b].key = k /\ bucket[b].ticket > 0 /\ Good(bucket[b].slot, k, t) /\ k # NoKey
    BY KeyNotEmpty DEF Serves
  <1>3. ASSUME NEW s, Good(s, k, t) PROVE Good(s, k, t)'
    BY <1>1, <1>3, GoodStays
  <1>4. CASE bucket'[b] = bucket[b]
    <2>1. Good(bucket[b].slot, k, t)'
      <3>1. ASSUME NEW s, s = bucket'[b].slot PROVE Good(s, k, t)'
        BY <1>2, <1>3, <1>4, <3>1
      <3> QED BY <3>1 DEF Good
    <2> QED BY <1>2, <1>4, <2>1 DEF Serves
  <1>5. CASE Touched(p, b)
    <2>1. pc[p] \in Upserting /\ pc[p] # "idle"
      BY <1>5 DEF Touched, Upserting, Seated, Pass1
    <2>2. call[p].key = k /\ bucket'[b].key = k /\ bucket'[b].ticket > 0 /\ call[p].ticket \in Tickets
      BY <1>1, <1>2, <1>5, <2>1 DEF Touched, Keyed, Tickets
    <2>3. t <= call[p].ticket
      BY <2>1, <2>2 DEF FreshInv, Newest
    <2>4. call[p].ticket \in Nat
      BY <2>2, KeyIndexAssumption DEF Tickets
    <2>5. Good(MySlot(p), k, t)
      BY <1>1, <2>1, <2>2, <2>3, <2>4 DEF Good, FreshInv, Recorded
    <2>6. bucket'[b].slot \in {bucket[b].slot, MySlot(p)}
      BY <1>5 DEF Touched
    <2>7. ASSUME NEW s, s = bucket'[b].slot PROVE Good(s, k, t)'
      BY <1>2, <1>3, <2>5, <2>6, <2>7
    <2>8. Good(bucket[b].slot, k, t)'
      BY <2>7 DEF Good
    <2> QED BY <2>2, <2>8 DEF Serves
  <1> QED BY <1>1, <1>4, <1>5, BucketSteps

(* A Publish that returns leaves its key's bucket pointing at its record.  *)
LEMMA ReturnServes ==
  ASSUME EntryInv, FreshInv, NEW p \in Producers, PublishStep(p),
         Returned(p), pc[p] \in Upserting,
         NEW b, b = MyBucket(p), NEW k, k = call[p].key, NEW t, t = call[p].ticket
  PROVE  Serves(b, k, t)'
  <1> DEFINE s == MySlot(p)
  <1>1. TypeOK /\ Keyed /\ pc[p] # "idle"
    BY DEF EntryInv, ChainInv, Upserting, Seated, Pass1
  <1>2. /\ b \in BucketIds /\ bucket[b] \in BucketWords /\ bucket \in [BucketIds -> BucketWords]
        /\ t \in Nat /\ bucket[b].ticket \in Nat
    BY <1>1, MyBucketInRange, KeyIndexAssumption DEF Keyed, Tickets, TypeOK, BucketWords, TicketWords
  <1>3. t \in Tickets /\ record[t] = [key |-> k, slot |-> s]
    BY <1>1 DEF FreshInv, Recorded, Keyed
  <1>4. /\ record' = record
        /\ \/ bucket' = bucket /\ pc[p] = "count"
           \/ pc[p] = "update" /\ bucket[b].ticket >= t
           \/ StoreBucket(p, "slot", s) /\ pc[p] = "updateSlot"
    BY <1>1, UpsertSteps DEF Moved, Carried, Returned, Pass1
  <1>5. pc[p] \in Seated /\ bucket[b].key = k
    <2>1. pc[p] \in Seated
      BY <1>4 DEF Seated
    <2> QED BY <2>1 DEF FreshInv, OwnBucket
  <1>6. pc[p] = "update" => bucket[b].ticket < t
    BY <1>1, <1>2, <1>5 DEF FreshInv, Newest
  <1>7. /\ pc[p] \in {"count", "updateSlot"} => bucket[b].ticket > 0
        /\ pc[p] = "count" => bucket[b].slot = s
    BY DEF FreshInv, OwnBucket
  <1>8. StoreBucket(p, "slot", s) =>
           /\ bucket'[b].key = bucket[b].key /\ bucket'[b].ticket = bucket[b].ticket
           /\ bucket'[b].slot = s
    BY <1>2 DEF StoreBucket, BucketWords
  <1> HIDE DEF s
  <1>9. bucket'[b].key = k /\ bucket'[b].ticket > 0 /\ bucket'[b].slot = s
    BY <1>2, <1>4, <1>5, <1>6, <1>7, <1>8
  <1>10. \E u \in Tickets : u >= t /\ record'[u] = [key |-> k, slot |-> bucket'[b].slot]
    BY <1>2, <1>3, <1>4, <1>9
  <1> QED BY <1>9, <1>10 DEF Serves, Good, Tickets

(* Every Publish that has returned is served.                              *)
LEMMA ServedStep ==
  ASSUME OneWriter, Roomy, EntryInv, CellInv, FreshInv, NEW p \in Producers, PublishStep(p)
  PROVE  Served'
  <1>1. /\ TypeOK /\ Keyed /\ Distinct /\ OwnBucket /\ Recorded /\ Others(p)
        /\ record \in [Tickets -> Places]
    BY OwnCallOnly DEF CellInv, FreshInv, TypeOK
  <1>2. SUFFICES ASSUME NEW k \in Keys, NEW t \in Completed(k)'
                 PROVE  \E b \in BucketIds : Serves(b, k, t)'
    BY DEF Served, BucketIds
  <1>3. t \in Tickets /\ record'[t].key = k /\ \A q \in Producers : call'[q].ticket # t
    BY DEF Completed, Published, Tickets
  <1>4. record[t].key = k
    <2>1. StoreSeq(p) => record'[t] = record[t]
      <3>1. StoreSeq(p) => call'[p] = call[p]
        BY <1>1, PublishMoves
      <3> QED BY <1>1, <1>3, <3>1 DEF StoreSeq
    <2>2. record'[t] = record[t]
      BY <2>1, <1>1, RecordSteps DEF TakeTicket
    <2> QED BY <1>3, <2>2
  <1>5. CASE t \in Completed(k)
    <2>1. PICK b \in BucketIds : Serves(b, k, t)
      BY <1>5 DEF FreshInv, Served
    <2> QED BY <1>3, <1>4, <2>1, ServesStays
  <1>6. CASE t \notin Completed(k)
    <2>1. PICK q \in Producers : call[q].ticket = t
      BY <1>3, <1>4, <1>6 DEF Completed, Published
    <2>2. q = p
      BY <1>1, <1>3, <2>1 DEF Others
    <2>3. pc[p] # "idle"
      <3>1. t # 0
        BY <1>3 DEF Tickets
      <3> QED BY <1>1, <2>1, <2>2, <3>1 DEF Recorded
    <2>4. Returned(p) /\ pc[p] \in {"claim"} \cup Upserting
      BY <1>1, <1>3, <2>1, <2>2, <2>3, RecordSteps DEF Carried, TakeTicket
    <2>5. k # NoKey
      BY KeyNotEmpty
    <2>6. pc[p] # "claim"
      BY <1>1, <1>3, <1>4, <2>1, <2>2, <2>5 DEF Distinct, Holding
    <2>7. call[p].key = k
      <3>1. record[t] = [key |-> call[p].key, slot |-> MySlot(p)]
        BY <1>1, <2>1, <2>2, <2>4, <2>6 DEF Recorded
      <3> QED BY <1>4, <3>1
    <2>8. MyBucket(p) \in BucketIds
      BY <1>1, <2>3, MyBucketInRange
    <2>9. ASSUME NEW b, b = MyBucket(p) PROVE Serves(b, k, t)'
      BY <2>1, <2>2, <2>4, <2>6, <2>7, <2>9, ReturnServes
    <2> QED BY <2>8, <2>9
  <1> QED BY <1>5, <1>6

(* Whoever publishes, a lookup that was on its way still is.               *)
LEMMA SeekingPublish ==
  ASSUME OneWriter, Roomy, EntryInv, CellInv, FreshInv, NEW p \in Producers, PublishStep(p)
  PROVE  Seeking'
  <1>1. TypeOK /\ Keyed /\ Distinct /\ OwnBucket /\ Seeking /\ [Next]_vars
    BY DEF CellInv, FreshInv, Next
  <1>2. rpc' = rpc /\ look' = look /\ floor' = floor
    BY DEF PublishStep, readVars
  <1>3. ASSUME NEW label, NEW k, NEW t, NEW probe \in 0 .. MaxProbe - 1, NEW slot \in Slots,
               OnTheWay(label, k, t, probe, slot)
        PROVE  OnTheWay(label, k, t, probe, slot)'
    <2>1. label # "idle" /\ k \in Keys /\ t \in Tickets /\ record[t].key = k /\ k # NoKey
      BY <1>3, KeyNotEmpty DEF OnTheWay
    <2>2. record'[t].key = k
      BY <1>1, <2>1, RecordStays
    <2>3. ASSUME label = "key"
          PROVE  \E n \in probe .. MaxProbe - 1 : /\ Serves(Bucket(k, n), k, t)'
                                                  /\ \A i \in 0 .. n : KeyNext(k, i) # NoKey
      <3>1. PICK n \in probe .. MaxProbe - 1 : /\ Serves(Bucket(k, n), k, t)
                                               /\ \A i \in 0 .. n : KeyAt(k, i) # NoKey
        BY <1>3, <2>3 DEF OnTheWay
      <3>2. n \in Nat /\ n \in Int
        BY KeyIndexAssumption
      <3>3. Bucket(k, n) \in BucketIds
        BY <2>1, <3>2, BucketInRange
      <3>4. Serves(Bucket(k, n), k, t)'
        BY <2>1, <3>1, <3>3, ServesStays
      <3>5. \A i \in 0 .. n : KeyNext(k, i) # NoKey
        BY <1>1, <2>1, <3>1, <3>2, WalkStays
      <3> QED BY <3>4, <3>5
    <2>4. ASSUME label \in {"ticket", "slot"} PROVE Serves(Bucket(k, probe), k, t)'
      <3>1. Bucket(k, probe) \in BucketIds
        BY <2>1, BucketInRange, KeyIndexAssumption
      <3>2. Serves(Bucket(k, probe), k, t)
        BY <1>3, <2>4 DEF OnTheWay
      <3> QED BY <2>1, <3>1, <3>2, ServesStays
    <2>5. ASSUME label \notin {"key", "ticket", "slot"} PROVE Good(slot, k, t)'
      <3>1. Good(slot, k, t)
        BY <1>3, <2>5 DEF OnTheWay
      <3> QED BY <1>1, <2>1, <3>1, GoodStays
    <2> QED BY <2>1, <2>2, <2>3, <2>4, <2>5 DEF OnTheWay, KeyNext, KeyAt
  <1>4. ASSUME NEW r \in Readers, floor[r] > 0,
               NEW label, label = rpc[r], NEW k, k = look[r].key, NEW t, t = floor[r],
               NEW probe, probe = look[r].probe, NEW slot, slot = look[r].slot
        PROVE  OnTheWay(label, k, t, probe, slot)'
    <2>1. probe \in 0 .. MaxProbe - 1 /\ slot \in Slots
      BY <1>1, <1>4 DEF TypeOK, Looks
    <2>2. OnTheWay(label, k, t, probe, slot)
      BY <1>1, <1>4 DEF Seeking
    <2> QED BY <1>3, <2>1, <2>2
  <1>5. ASSUME NEW r \in Readers, floor'[r] > 0
        PROVE  OnTheWay(rpc[r], look[r].key, floor[r], look[r].probe, look[r].slot)'
    <2>1. floor[r] > 0
      BY <1>2, <1>5
    <2> QED BY <1>2, <1>4, <2>1 DEF OnTheWay
  <1>6. \A r \in Readers : rpc'[r] = "idle" => look'[r].probe = 0
    BY <1>1, <1>2 DEF Seeking
  <1> QED BY <1>5, <1>6 DEF Seeking

(* A lookup starts at the home of its key, and the newest record completed *)
(* by then is served from somewhere along the chain.                       *)
LEMMA LookupStarts ==
  ASSUME EntryInv, FreshInv, NEW r \in Readers, NEW k \in Keys, Lookup(r, k),
         NEW t, t = floor'[r], t > 0, NEW slot
  PROVE  OnTheWay("key", k, t, 0, slot)
  <1>1. TypeOK /\ Rooted /\ Placed
    BY DEF EntryInv, ChainInv
  <1>2. t = Max({0} \cup Completed(k))
    BY <1>1, LookMoves
  <1>3. Max({0} \cup Completed(k)) \in {0} \cup Completed(k)
    <2>1. {0} \cup Completed(k) \subseteq 0 .. MaxTickets /\ {0} \cup Completed(k) # {}
      BY KeyIndexAssumption DEF Completed, Published, Tickets
    <2>2. MaxTickets \in Nat
      BY KeyIndexAssumption
    <2> DEFINE S == {0} \cup Completed(k)
    <2>3. S \subseteq 0 .. MaxTickets /\ S # {}
      BY <2>1
    <2> HIDE DEF S
    <2>4. Max(S) \in S
      BY <2>2, <2>3, MaxInBounded
    <2> QED BY <2>4 DEF S
  <1>4. t \in Completed(k)
    BY <1>2, <1>3
  <1>5. t \in Tickets /\ record[t].key = k
    BY <1>4 DEF Completed, Published
  <1>6. PICK b \in BucketIds : Serves(b, k, t)
    BY <1>4 DEF FreshInv, Served
  <1>7. bucket[b].key = k /\ k # NoKey
    BY <1>6, KeyNotEmpty DEF Serves
  <1>8. PICK n \in 0 .. MaxProbe - 1 : b = Bucket(k, n)
    BY <1>1, <1>7 DEF Placed
  <1>9. PICK m \in 0 .. n : Bucket(k, m) = b /\ \A i \in 0 .. m : KeyAt(k, i) # NoKey
    BY <1>1, <1>7, <1>8 DEF Rooted, KeyAt
  <1>10. m \in 0 .. MaxProbe - 1
    BY <1>8, <1>9, KeyIndexAssumption
  <1> QED BY <1>5, <1>6, <1>9, <1>10 DEF OnTheWay

(* A lookup on its way takes the next step of it, or finds that a record   *)
(* at least as new as the one it has to find was overwritten.              *)
Overwritten(k, t) == \E u \in Published(k) : u >= t /\ cell[record[u].slot].ticket # u
LEMMA LookupGoesOn ==
  ASSUME Roomy, EntryInv, FreshInv, NEW r \in Readers, LookupStep(r), floor[r] > 0,
         NEW k, k = look[r].key, NEW t, t = floor[r], NEW probe, probe = look[r].probe,
         NEW slot, slot = look[r].slot, rpc[r] # "found"
  PROVE  \/ Reset(r) /\ Overwritten(k, t)
         \/ /\ floor'[r] = t /\ look'[r].key = k
            /\ OnTheWay(rpc'[r], k, t, look'[r].probe, look'[r].slot)
  <1>1. /\ TypeOK /\ OneEntryPerKey /\ look[r].probe \in 0 .. MaxProbe - 1 /\ slot \in Slots
    BY DEF EntryInv, ChainInv, TypeOK, Looks
  <1>2. OnTheWay(rpc[r], k, t, probe, slot) /\ probe \in Nat /\ MaxProbe \in Nat
    BY <1>1, KeyIndexAssumption DEF FreshInv, Seeking
  <1>3. rpc[r] # "idle" /\ k \in Keys /\ t \in Tickets /\ record[t].key = k /\ k # NoKey
    BY <1>2, KeyNotEmpty DEF OnTheWay
  <1>4. RBucket(r) = bucket[Bucket(k, probe)] /\ RCell(r) = cell[slot]
    BY DEF RBucket, RCell
  <1>6. ASSUME rpc[r] \notin {"key", "ticket", "slot"}
        PROVE  RCell(r).flag /\ (RCell(r).key # k => Overwritten(k, t))
    <2>1. PICK u \in Tickets : u >= t /\ record[u] = [key |-> k, slot |-> slot]
      BY <1>2, <1>6 DEF OnTheWay, Good
    <2>2. cell[slot].flag /\ (cell[slot].ticket = u => cell[slot].key = k)
      BY <1>1, <1>3, <2>1 DEF FreshInv, CellTickets
    <2>3. u \in Published(k) /\ record[u].slot = slot
      BY <2>1 DEF Published
    <2> QED BY <1>4, <2>1, <2>2, <2>3 DEF Overwritten
  <1>7. \A label : RJump(r, label) =>
           /\ floor'[r] = t /\ look'[r].key = k /\ rpc'[r] = label
           /\ look'[r].probe = probe /\ look'[r].slot = slot
    BY <1>1, LookMoves
  <1>8. CASE ProbeKey(r)
    <2>1. rpc[r] = "key"
      BY <1>8 DEF ProbeKey
    <2>2. PICK n \in probe .. MaxProbe - 1 : /\ Serves(Bucket(k, n), k, t)
                                             /\ \A i \in 0 .. n : KeyAt(k, i) # NoKey
      BY <1>2, <2>1 DEF OnTheWay
    <2>3. n \in Nat /\ probe <= n /\ n < MaxProbe /\ KeyAt(k, probe) # NoKey
      BY <1>2, <2>2
    <2>4. Bucket(k, n) \in BucketIds /\ Bucket(k, probe) \in BucketIds
      BY <1>2, <1>3, <2>3, BucketInRange
    <2>5. CASE KeyAt(k, probe) = k
      <3>1. Bucket(k, probe) = Bucket(k, n)
        BY <1>1, <1>3, <2>2, <2>4, <2>5 DEF OneEntryPerKey, Sole, Serves, KeyAt
      <3>2. RJump(r, "ticket")
        BY <1>4, <1>8, <2>5 DEF ProbeKey, KeyAt
      <3>3. OnTheWay("ticket", k, t, probe, slot)
        BY <1>3, <2>2, <3>1 DEF OnTheWay
      <3> QED BY <1>7, <3>2, <3>3
    <2>6. CASE KeyAt(k, probe) # k
      <3>1. n # probe
        BY <2>2, <2>6 DEF Serves, KeyAt
      <3>2. n \in probe + 1 .. MaxProbe - 1 /\ probe + 1 < MaxProbe
        BY <1>2, <2>3, <3>1
      <3>3. Keep(r, "key", "probe", probe + 1)
        BY <1>4, <1>8, <2>3, <2>6, <3>2 DEF ProbeKey, KeyAt
      <3>4. OnTheWay("key", k, t, probe + 1, slot)
        BY <1>3, <2>2, <3>2 DEF OnTheWay
      <3> QED BY <1>1, <3>3, <3>4, LookMoves
    <2> QED BY <2>5, <2>6
  <1>9. CASE ProbeTicket(r)
    <2>1. rpc[r] = "ticket" /\ Serves(Bucket(k, probe), k, t)
      BY <1>2, <1>9 DEF ProbeTicket, OnTheWay
    <2>2. RJump(r, "slot")
      BY <1>4, <1>9, <2>1 DEF ProbeTicket, Serves
    <2>3. OnTheWay("slot", k, t, probe, slot)
      BY <1>3, <2>1 DEF OnTheWay
    <2> QED BY <1>7, <2>2, <2>3
  <1>10. CASE ProbeSlot(r)
    <2> DEFINE s == RBucket(r).slot
    <2>1. rpc[r] = "slot" /\ Serves(Bucket(k, probe), k, t)
      BY <1>2, <1>10 DEF ProbeSlot, OnTheWay
    <2>2. Keep(r, "check", "slot", s)
      BY <1>10 DEF ProbeSlot
    <2>3. OnTheWay("check", k, t, probe, s)
      BY <1>3, <1>4, <2>1 DEF OnTheWay, Serves
    <2>4. /\ rpc'[r] = "check" /\ floor'[r] = t /\ look'[r].key = k
          /\ look'[r].probe = probe /\ look'[r].slot = s
      BY <1>1, <2>2, LookMoves
    <2> QED BY <2>3, <2>4
  <1>11. CASE CheckKey(r) \/ CheckFlags(r) \/ CheckAgain(r)
    <2>1. rpc[r] \in {"check", "flags", "again"}
      BY <1>11 DEF CheckKey, CheckFlags, CheckAgain
    <2>2. \/ Reset(r) /\ Overwritten(k, t)
          \/ \E label \in {"flags", "copy", "found"} : RJump(r, label)
      BY <1>6, <1>11, <2>1 DEF CheckKey, CheckFlags, CheckAgain
    <2>3. ASSUME NEW label \in {"flags", "copy", "found"} PROVE OnTheWay(label, k, t, probe, slot)
      BY <1>2, <1>3, <2>1 DEF OnTheWay
    <2> QED BY <1>7, <2>2, <2>3
  <1>12. CASE CopyTicket(r) \/ CopyPayload(r)
    <2>1. rpc[r] \in {"copy", "payload"}
      BY <1>12 DEF CopyTicket, CopyPayload
    <2>2. /\ rpc'[r] \in {"payload", "again"} /\ floor'[r] = t /\ look'[r].key = k
          /\ look'[r].probe = probe /\ look'[r].slot = slot
      BY <1>1, <1>12, LookMoves DEF CopyTicket, CopyPayload
    <2>3. OnTheWay(rpc'[r], k, t, probe, slot)
      BY <1>2, <1>3, <2>1, <2>2 DEF OnTheWay
    <2> QED BY <2>2, <2>3
  <1> QED BY <1>3, <1>8, <1>9, <1>10, <1>11, <1>12 DEF LookupStep, Lookup, LookupDone

(* It depends on the words of the index and the records only.              *)
LEMMA SameWay ==
  ASSUME UNCHANGED <<bucket, record>>,
         NEW label, NEW k, NEW t, NEW probe, NEW slot, OnTheWay(label, k, t, probe, slot)
  PROVE  OnTheWay(label, k, t, probe, slot)'
  BY DEF OnTheWay, Serves, Good, KeyAt, Bucket, Tickets

(* What it takes to be on the way after a step that reads.                 *)
LEMMA StillSeeking ==
  ASSUME UNCHANGED <<bucket, record>>,
         \A r \in Readers :
            /\ rpc'[r] = "idle" => look'[r].probe = 0
            /\ floor'[r] > 0 => OnTheWay(rpc'[r], look'[r].key, floor'[r], look'[r].probe, look'[r].slot)
  PROVE  Seeking'
  <1>1. ASSUME NEW r \in Readers, floor'[r] > 0,
               NEW label, label = rpc'[r], NEW k, k = look'[r].key, NEW t, t = floor'[r],
               NEW probe, probe = look'[r].probe, NEW slot, slot = look'[r].slot
        PROVE  OnTheWay(label, k, t, probe, slot)'
    <2>1. OnTheWay(label, k, t, probe, slot)
      BY <1>1
    <2> QED BY <2>1, SameWay
  <1>2. ASSUME NEW r \in Readers, floor'[r] > 0
        PROVE  OnTheWay(rpc[r], look[r].key, floor[r], look[r].probe, look[r].slot)'
    BY <1>1, <1>2 DEF OnTheWay
  <1> QED BY <1>2 DEF Seeking

(* A lookup's own steps keep it on its way.                                *)
LEMMA SeekingLookup ==
  ASSUME Roomy, EntryInv, FreshInv, NEW r \in Readers, LookupStep(r)
  PROVE  Seeking'
  <1>1. TypeOK /\ Seeking /\ UNCHANGED <<bucket, record>>
    BY DEF EntryInv, ChainInv, FreshInv, LookupStep, pubVars, matrix
  <1> DEFINE After(q) ==
        /\ rpc'[q] = "idle" => look'[q].probe = 0
        /\ floor'[q] > 0 => OnTheWay(rpc'[q], look'[q].key, floor'[q], look'[q].probe, look'[q].slot)
  <1>2. ASSUME NEW q \in Readers, q # r PROVE After(q)
    <2>1. rpc'[q] = rpc[q] /\ look'[q] = look[q] /\ floor'[q] = floor[q]
      BY <1>1, <1>2, OwnLookOnly
    <2> QED BY <1>1, <2>1 DEF Seeking
  <1>3. After(r)
    <2>1. ASSUME NEW k \in Keys, Lookup(r, k) PROVE After(r)
      <3>1. rpc'[r] = "key" /\ look'[r].key = k /\ look'[r].probe = 0
        BY <1>1, <2>1, LookMoves DEF Seeking
      <3>2. ASSUME NEW t, t = floor'[r], t > 0, NEW slot PROVE OnTheWay("key", k, t, 0, slot)
        BY <2>1, <3>2, LookupStarts
      <3> QED BY <3>1, <3>2
    <2>2. CASE Reset(r)
      BY <1>1, <2>2, LookMoves
    <2>3. ASSUME ~Reset(r), \A k \in Keys : ~Lookup(r, k) PROVE After(r)
      <3>1. rpc'[r] # "idle" /\ floor'[r] = floor[r] /\ rpc[r] # "found"
        <4>1. \/ ProbeKey(r) \/ ProbeTicket(r) \/ ProbeSlot(r) \/ CheckKey(r) \/ CheckFlags(r)
              \/ CopyTicket(r) \/ CopyPayload(r) \/ CheckAgain(r)
          BY <2>3 DEF LookupStep, LookupDone
        <4>2. rpc[r] # "found"
          BY <4>1 DEF ProbeKey, ProbeTicket, ProbeSlot, CheckKey, CheckFlags, CopyTicket, CopyPayload,
                      CheckAgain
        <4>3. \/ \E label \in ReaderPc \ {"idle"} : RJump(r, label)
              \/ \E v : Keep(r, "key", "probe", v) \/ Keep(r, "check", "slot", v)
              \/ \E v : Keep(r, "payload", "ticket", v) \/ Keep(r, "again", "pay", v)
          <5>1. CASE ProbeKey(r)
            BY <2>3, <5>1 DEF ProbeKey, ReaderPc
          <5>2. CASE ProbeTicket(r) \/ CheckKey(r) \/ CheckFlags(r) \/ CheckAgain(r)
            BY <2>3, <5>2 DEF ProbeTicket, CheckKey, CheckFlags, CheckAgain, ReaderPc
          <5>3. CASE ProbeSlot(r) \/ CopyTicket(r) \/ CopyPayload(r)
            BY <5>3 DEF ProbeSlot, CopyTicket, CopyPayload
          <5> QED BY <4>1, <5>1, <5>2, <5>3
        <4> QED BY <1>1, <4>2, <4>3, LookMoves
      <3>2. ASSUME floor[r] > 0, NEW k, k = look[r].key, NEW t, t = floor[r],
                   NEW probe, probe = look[r].probe, NEW slot, slot = look[r].slot
            PROVE  /\ look'[r].key = k
                   /\ OnTheWay(rpc'[r], k, t, look'[r].probe, look'[r].slot)
        BY <2>3, <3>1, <3>2, LookupGoesOn
      <3> QED BY <3>1, <3>2
    <2> QED BY <2>1, <2>2, <2>3
  <1>4. \A q \in Readers : After(q)
    BY <1>2, <1>3
  <1> QED BY <1>1, <1>4, StillSeeking

(* No ticket that was issued becomes one of k's later.                     *)
LEMMA OfKeyBefore ==
  ASSUME TypeOK, Keyed, NEW p \in Producers, PublishStep(p),
         NEW v \in Nat, v <= issued, NEW k, OfKey(v, k)'
  PROVE  OfKey(v, k)
  <1>1. issued \in Nat /\ CellStep(p) /\ Others(p)
    BY CellSteps, OwnCallOnly, KeyIndexAssumption DEF TypeOK, TicketWords
  <1>2. ASSUME NEW t \in Tickets, t = v, record'[t].key = k PROVE OfKey(v, k)
    <2>1. CASE record'[t] = record[t]
      BY <1>2, <2>1 DEF OfKey
    <2>2. CASE record'[t] # record[t]
      <3>1. pc[p] = "store" /\ t = call[p].ticket /\ record'[t] = [key |-> call[p].key, slot |-> MySlot(p)]
        BY <1>1, <1>2, <2>2 DEF CellStep
      <3> QED BY <1>2, <3>1 DEF OfKey, Holding, Writing
    <2> QED BY <2>1, <2>2
  <1>3. ASSUME NEW q \in Producers, pc'[q] \in Holding, call'[q].ticket = v, call'[q].key = k
        PROVE  OfKey(v, k)
    <2>1. CASE q # p
      BY <1>1, <1>3, <2>1 DEF Others, OfKey
    <2>2. CASE q = p
      <3>1. \A j : ~TakeTicket(p, j)
        BY <1>1, <1>3, <2>2, PublishMoves
      <3>2. pc[p] \in Holding /\ call'[p].key = call[p].key /\ call'[p].ticket = call[p].ticket
        BY <1>3, <2>2, <3>1, MatrixSteps, PublishMoves DEF Holding, Writing, Moved, Carried
      <3> QED BY <1>3, <2>2, <3>2 DEF OfKey
    <2> QED BY <2>1, <2>2
  <1> QED BY <1>2, <1>3 DEF OfKey, Tickets, Holding, Writing

(* Tickets are issued, never taken back.                                   *)
LEMMA IssuedGrows ==
  ASSUME TypeOK, NEW p \in Producers, PublishStep(p)
  PROVE  issued \in Nat /\ issued' \in Nat /\ issued <= issued'
  <1>1. issued \in Nat
    BY KeyIndexAssumption DEF TypeOK, TicketWords
  <1>2. issued' = issued \/ issued' = issued + 1
    BY MatrixSteps DEF TakeTicket, ClaimCell, WritePayload, WriteTicket, WriteKey, WriteFlags,
                       StoreSeq, StoreCell, matrix
  <1> QED BY <1>1, <1>2

(* A key's one writer brings newer tickets to its cells.                   *)
LEMMA CellTicketsStep ==
  ASSUME CellInv, Newest, CellTickets, NEW p \in Producers, PublishStep(p)
  PROVE  CellTickets'
  <1>1. TypeOK /\ Keyed /\ Distinct /\ OwnWords /\ CellStep(p)
    BY CellSteps DEF CellInv
  <1>2. /\ issued \in Nat /\ issued' \in Nat /\ issued <= issued' /\ \A t \in Tickets : t \in Nat
        /\ call[p].ticket \in Nat /\ call[p].ticket <= issued
        /\ \A s \in Slots : cell[s].ticket \in Nat
    <2>1. issued \in Nat /\ issued' \in Nat /\ issued <= issued'
      BY <1>1, IssuedGrows
    <2>2. \A s \in Slots : cell[s].ticket \in Nat
      <3>1. \A s \in Slots : cell[s] \in CellWords
        BY <1>1 DEF TypeOK
      <3> QED BY <3>1, KeyIndexAssumption DEF CellWords, TicketWords
    <2>3. \A t \in Tickets : t \in Nat
      BY KeyIndexAssumption DEF Tickets
    <2>4. call[p].ticket \in Nat /\ call[p].ticket <= issued
      BY <1>1, KeyIndexAssumption DEF TypeOK, TicketWords, Calls, Distinct
    <2> QED BY <2>1, <2>2, <2>3, <2>4
  <1>3. ASSUME NEW s \in Slots
        PROVE  /\ cell'[s].ticket <= issued' /\ cell'[s].ticket \in Nat
               /\ cell[s].flag => cell'[s].flag
               /\ \/ cell'[s].ticket = cell[s].ticket /\ cell'[s].key = cell[s].key
                  \/ WriteTicket(p) /\ MySlot(p) = s /\ cell'[s].ticket = call[p].ticket
                  \/ WriteKey(p) /\ MySlot(p) = s /\ cell'[s].ticket = cell[s].ticket
    <2>1. cell[s].ticket <= issued
      BY DEF CellTickets
    <2> QED BY <1>1, <1>2, <2>1 DEF CellStep, OnlyMine
  <1>4. ASSUME NEW t \in Tickets, NEW s \in Slots, NEW k \in Keys,
               record'[t] = [key |-> k, slot |-> s], NEW v, v = cell'[s].ticket
        PROVE  /\ cell'[s].flag
               /\ v = t => cell'[s].key = k
               /\ OfKey(v, k)' => v >= t
    <2>1. CASE StoreSeq(p) /\ t = call[p].ticket
      <3>1. pc[p] = "store" /\ cell' = cell /\ record'[t] = [key |-> call[p].key, slot |-> MySlot(p)]
        BY <1>1, <2>1 DEF CellStep, WritePayload, WriteTicket, WriteKey, WriteFlags, StoreSeq, Inside
      <3>2. s = MySlot(p) /\ k = call[p].key
        BY <1>4, <3>1
      <3>3. cell[s].flag /\ cell[s].ticket = t /\ cell[s].key = k
        BY <1>1, <2>1, <3>1, <3>2 DEF OwnWords, Inside
      <3> QED BY <1>2, <1>4, <3>1, <3>3
    <2>2. CASE ~(StoreSeq(p) /\ t = call[p].ticket)
      <3>1. record[t] = [key |-> k, slot |-> s] /\ record[t].key # NoKey
        BY <1>1, <1>4, <2>2, KeyNotEmpty DEF CellStep
      <3>2. /\ cell[s].flag
            /\ cell[s].ticket = t => cell[s].key = k
            /\ OfKey(cell[s].ticket, k) => cell[s].ticket >= t
        BY <3>1 DEF CellTickets
      <3>3. v \in Nat /\ (v <= issued /\ OfKey(v, k)' => OfKey(v, k))
        BY <1>1, <1>3, <1>4, OfKeyBefore
      <3>4. cell[s].ticket <= issued
        BY DEF CellTickets
      <3>5. CASE cell'[s].ticket = cell[s].ticket /\ cell'[s].key = cell[s].key
        BY <1>3, <1>4, <3>2, <3>3, <3>4, <3>5
      <3>6. CASE WriteTicket(p) /\ MySlot(p) = s /\ cell'[s].ticket = call[p].ticket
        <4>1. pc[p] = "ticket"
          BY <3>6 DEF WriteTicket
        <4>2. v # t /\ v = call[p].ticket /\ v <= issued
          BY <1>1, <1>2, <1>4, <3>1, <3>6, <4>1 DEF Distinct, Holding, Writing
        <4>3. ASSUME OfKey(v, k)' PROVE v >= t
          <5>1. OfKey(v, k)
            BY <3>3, <4>2, <4>3
          <5>2. call[p].key = k
            <6>1. ASSUME NEW u \in Tickets, u = v, record[u].key = k PROVE FALSE
              BY <1>1, <4>1, <4>2, <6>1, KeyNotEmpty DEF Distinct, Holding, Writing
            <6>2. ASSUME NEW q \in Producers, pc[q] \in Holding, call[q].ticket = v PROVE q = p
              BY <1>1, <4>1, <4>2, <6>2 DEF Distinct, Holding, Writing
            <6> QED BY <5>1, <6>1, <6>2 DEF OfKey
          <5>3. t <= call[p].ticket
            BY <3>1, <4>1, <5>2 DEF Newest
          <5> QED BY <1>2, <4>2, <5>3
        <4> QED BY <1>3, <3>2, <4>2, <4>3
      <3>7. CASE WriteKey(p) /\ MySlot(p) = s /\ cell'[s].ticket = cell[s].ticket
        <4>1. pc[p] = "key"
          BY <3>7 DEF WriteKey
        <4>2. cell[s].ticket = call[p].ticket
          BY <1>1, <3>7, <4>1 DEF OwnWords, Inside
        <4>3. v # t
          BY <1>1, <1>4, <3>1, <3>7, <4>1, <4>2 DEF Distinct, Holding, Writing
        <4> QED BY <1>3, <1>4, <3>2, <3>3, <3>4, <3>7, <4>3
      <3> QED BY <1>3, <3>5, <3>6, <3>7
    <2> QED BY <2>1, <2>2
  <1>5. ASSUME NEW t \in Tickets, NEW s \in Slots, NEW k \in Keys,
               record'[t] = [key |-> k, slot |-> s]
        PROVE  /\ cell'[s].flag
               /\ cell'[s].ticket = t => cell'[s].key = k
               /\ OfKey(cell[s].ticket, k)' => cell'[s].ticket >= t
    BY <1>4, <1>5 DEF OfKey
  <1> QED BY <1>3, <1>5 DEF CellTickets, Slots, Tickets

(* The ticket that a lookup copies, and keeps.                             *)
LEMMA TicketMoves ==
  ASSUME TypeOK, NEW r \in Readers, LookupStep(r)
  PROVE  \/ rpc'[r] \notin {"payload", "again"} /\ look'[r].ticket \in {0, look[r].ticket}
         \/ /\ rpc[r] = "copy" /\ look'[r].ticket = cell[look[r].slot].ticket
            /\ look'[r].key = look[r].key /\ floor'[r] = floor[r]
         \/ /\ rpc[r] = "payload" /\ look'[r].ticket = look[r].ticket
            /\ look'[r].key = look[r].key /\ floor'[r] = floor[r]
  <1>1. /\ rpc \in [Readers -> ReaderPc] /\ look \in [Readers -> Looks] /\ look[r] \in Looks
        /\ floor \in [Readers -> TicketWords]
    BY DEF TypeOK
  <1>2. Reset(r) => rpc'[r] = "idle" /\ look'[r].ticket = 0
    BY <1>1 DEF Reset, RGoto, NoLook
  <1>3. \A label : RJump(r, label) => rpc'[r] = label /\ look'[r] = look[r]
    BY LookMoves
  <1>4. ASSUME NEW label, NEW v, Keep(r, label, "probe", v) \/ Keep(r, label, "slot", v)
        PROVE  rpc'[r] = label /\ look'[r].ticket = look[r].ticket
    BY <1>1, <1>4 DEF Keep, RGoto, Looks
  <1>5. CASE ProbeKey(r)
    BY <1>2, <1>3, <1>4, <1>5 DEF ProbeKey
  <1>6. CASE ProbeTicket(r) \/ CheckKey(r) \/ CheckFlags(r) \/ CheckAgain(r) \/ LookupDone(r)
    BY <1>2, <1>3, <1>6 DEF ProbeTicket, CheckKey, CheckFlags, CheckAgain, LookupDone
  <1>7. CASE ProbeSlot(r)
    BY <1>4, <1>7 DEF ProbeSlot
  <1>8. CASE CopyTicket(r)
    BY <1>1, <1>8 DEF CopyTicket, Keep, RGoto, Looks, RCell
  <1>9. CASE CopyPayload(r)
    BY <1>1, <1>9 DEF CopyPayload, Keep, RGoto, Looks
  <1>10. ASSUME NEW k \in Keys, Lookup(r, k) PROVE rpc'[r] = "key" /\ look'[r].ticket = look[r].ticket
    BY <1>1, <1>10 DEF Lookup, RGoto, Looks
  <1> QED BY <1>5, <1>6, <1>7, <1>8, <1>9, <1>10 DEF LookupStep

(* Whoever publishes, what a lookup has copied is new enough.              *)
LEMMA ReadTicketsPublish ==
  ASSUME TypeOK, Keyed, ReadTickets, NEW p \in Producers, PublishStep(p)
  PROVE  ReadTickets'
  <1>1. /\ rpc' = rpc /\ look' = look /\ floor' = floor
        /\ issued \in Nat /\ issued' \in Nat /\ issued <= issued'
        /\ \A r \in Readers : look[r].ticket \in Nat
    BY IssuedGrows, KeyIndexAssumption DEF PublishStep, readVars, TypeOK, Looks, TicketWords
  <1>2. ASSUME NEW r \in Readers, NEW v, v = look[r].ticket, NEW k, k = look[r].key
        PROVE  v <= issued' /\ (OfKey(v, k)' => OfKey(v, k))
    <2>1. v \in Nat /\ v <= issued
      BY <1>1, <1>2 DEF ReadTickets
    <2> QED BY <1>1, <2>1, OfKeyBefore
  <1>3. ASSUME NEW r \in Readers
        PROVE  look'[r].ticket <= issued' /\ (OfKey(look[r].ticket, look[r].key)' =>
                                                OfKey(look[r].ticket, look[r].key))
    BY <1>1, <1>2 DEF OfKey
  <1> QED BY <1>1, <1>3 DEF ReadTickets

(* What a lookup copies is new enough, for the cell it was led to has      *)
(* nothing older.                                                          *)
LEMMA ReadTicketsLookup ==
  ASSUME EntryInv, FreshInv, NEW r \in Readers, LookupStep(r)
  PROVE  ReadTickets'
  <1>1. /\ TypeOK /\ Keyed /\ ReadTickets /\ CellTickets /\ Seeking
        /\ UNCHANGED <<cell, record, pc, call, issued>>
    BY DEF EntryInv, ChainInv, FreshInv, LookupStep, pubVars, matrix
  <1>2. /\ issued \in Nat /\ look[r] \in Looks /\ floor[r] \in Nat /\ look[r].slot \in Slots
        /\ cell[look[r].slot].ticket \in Nat /\ look[r].ticket \in Nat
        /\ \A t \in Tickets : t \in Nat
    <2>1. look[r] \in Looks /\ \A s \in Slots : cell[s] \in CellWords
      BY <1>1 DEF TypeOK
    <2> QED BY <1>1, <2>1, KeyIndexAssumption DEF TypeOK, TicketWords, Looks, CellWords, Tickets
  <1>3. \A v, k : OfKey(v, k)' => OfKey(v, k)
    BY <1>1 DEF OfKey, Tickets
  <1> DEFINE After(q) ==
        /\ look'[q].ticket <= issued
        /\ rpc'[q] \in {"payload", "again"} /\ OfKey(look'[q].ticket, look'[q].key) =>
              look'[q].ticket >= floor'[q]
  <1>4. ASSUME NEW q \in Readers, q # r PROVE After(q)
    <2>1. rpc'[q] = rpc[q] /\ look'[q] = look[q] /\ floor'[q] = floor[q]
      BY <1>1, <1>4, OwnLookOnly
    <2> QED BY <1>1, <2>1 DEF ReadTickets
  <1>5. After(r)
    <2>1. look[r].ticket <= issued /\ cell[look[r].slot].ticket <= issued
      BY <1>1, <1>2 DEF ReadTickets, CellTickets
    <2>2. CASE rpc'[r] \notin {"payload", "again"} /\ look'[r].ticket \in {0, look[r].ticket}
      BY <1>2, <2>1, <2>2
    <2>3. CASE /\ rpc[r] = "payload" /\ look'[r].ticket = look[r].ticket
               /\ look'[r].key = look[r].key /\ floor'[r] = floor[r]
      BY <1>1, <2>1, <2>3 DEF ReadTickets
    <2>4. CASE /\ rpc[r] = "copy" /\ look'[r].ticket = cell[look[r].slot].ticket
               /\ look'[r].key = look[r].key /\ floor'[r] = floor[r]
      <3>1. ASSUME floor[r] > 0, OfKey(cell[look[r].slot].ticket, look[r].key)
            PROVE  cell[look[r].slot].ticket >= floor[r]
        <4>1. look[r].key \in Keys /\ Good(look[r].slot, look[r].key, floor[r])
          BY <1>1, <2>4, <3>1 DEF Seeking, OnTheWay
        <4>2. PICK u \in Tickets : u >= floor[r] /\ record[u] = [key |-> look[r].key, slot |-> look[r].slot]
          BY <4>1 DEF Good
        <4>3. cell[look[r].slot].ticket >= u
          BY <1>1, <1>2, <3>1, <4>1, <4>2 DEF CellTickets
        <4> QED BY <1>2, <4>2, <4>3
      <3> QED BY <1>2, <2>1, <2>4, <3>1
    <2> QED BY <1>1, <2>2, <2>3, <2>4, TicketMoves
  <1>6. \A q \in Readers : After(q)
    BY <1>4, <1>5
  <1>7. \A q \in Readers :
           OfKey(look[q].ticket, look[q].key)' => OfKey(look'[q].ticket, look'[q].key)
    BY <1>1 DEF OfKey, Tickets
  <1> QED BY <1>1, <1>6, <1>7 DEF ReadTickets

(* The invariant is kept by every step.                                    *)
LEMMA FreshStep ==
  ASSUME OneWriter, Roomy, Fresh, [Next]_vars
  PROVE  Fresh'
  <1>1. EntryInv /\ CellInv /\ FreshInv /\ TypeOK /\ Keyed /\ Distinct
    BY DEF Fresh, CellInv
  <1>2. EntryInv' /\ CellInv'
    BY <1>1, EntryStep, CellInvStep
  <1>3. ASSUME NEW p \in Producers, PublishStep(p) PROVE FreshInv'
    <2>1. Recorded /\ OwnBucket /\ Newest /\ CellTickets /\ ReadTickets
      BY <1>1 DEF FreshInv
    <2>2. Recorded' /\ OwnBucket'
      BY <1>1, <1>3, <2>1, RecordedStep, OwnBucketStep
    <2>3. Newest' /\ Served' /\ Seeking'
      BY <1>1, <1>3, <2>1, NewestStep, ServedStep, SeekingPublish
    <2>4. CellTickets' /\ ReadTickets'
      BY <1>1, <1>3, <2>1, CellTicketsStep, ReadTicketsPublish
    <2> QED BY <2>2, <2>3, <2>4 DEF FreshInv
  <1>4. ASSUME UNCHANGED pubVars
        PROVE  Recorded' /\ OwnBucket' /\ Newest' /\ Served' /\ CellTickets'
    <2>1. UNCHANGED <<bucket, cell, record, issued, tail, pc, call>>
      BY <1>4 DEF pubVars, matrix
    <2>2. Recorded' /\ OwnBucket' /\ Newest'
      BY <1>1, <2>1
         DEF FreshInv, Recorded, OwnBucket, Newest, MySlot, MyBucket, Bucket, BucketIds, Tickets,
             Upserting, Seated, Pass1
    <2>3. Served'
      BY <1>1, <2>1 DEF FreshInv, Served, Completed, Published, Serves, Good, BucketIds, Tickets
    <2>4. CellTickets'
      BY <1>1, <2>1 DEF FreshInv, CellTickets, OfKey, Slots, Tickets, Holding, Writing
    <2> QED BY <2>2, <2>3, <2>4
  <1>5. ASSUME NEW r \in Readers, LookupStep(r) PROVE FreshInv'
    <2>1. UNCHANGED pubVars
      BY <1>5 DEF LookupStep
    <2> QED BY <1>1, <1>4, <1>5, <2>1, SeekingLookup, ReadTicketsLookup DEF FreshInv
  <1>6. ASSUME UNCHANGED vars PROVE FreshInv'
    <2>1. /\ UNCHANGED pubVars
          /\ UNCHANGED <<rpc, look, floor, bucket, cell, record, issued, pc, call>>
      BY <1>6 DEF vars, readVars, pubVars, matrix
    <2>2. Seeking /\ ReadTickets
      BY <1>1 DEF FreshInv
    <2>3. Seeking'
      <3>1. \A r \in Readers :
               /\ rpc'[r] = "idle" => look'[r].probe = 0
               /\ floor'[r] > 0 =>
                     OnTheWay(rpc'[r], look'[r].key, floor'[r], look'[r].probe, look'[r].slot)
        BY <2>1, <2>2 DEF Seeking
      <3> QED BY <2>1, <3>1, StillSeeking
    <2>4. ReadTickets'
      BY <2>1, <2>2 DEF ReadTickets, OfKey, Tickets, Holding, Writing
    <2> QED BY <1>4, <2>1, <2>3, <2>4 DEF FreshInv
  <1> QED BY <1>2, <1>3, <1>5, <1>6 DEF Fresh, Next

(* Read your writes, index.go:316: as long as every key has one writer and *)
(* the table has a bucket for every key within the probe limit, with cells *)
(* recycled by any number of laps, a lookup returns no record of its key   *)
(* that is older than the newest one whose Publish had returned when the   *)
(* lookup was called, and misses only if there was none or one at least as *)
(* new has been overwritten.                                               *)
THEOREM LookupsAreFresh ==
  ASSUME OneWriter, Roomy
  PROVE  Spec => LookupFresh
  <1> DEFINE New ==
        \A r \in Readers :
          /\ rpc[r] = "again" /\ rpc'[r] = "found" /\ look[r].ticket \in Published(look[r].key)
                => look[r].ticket >= floor[r]
          /\ rpc[r] \notin {"idle", "found"} /\ rpc'[r] = "idle" /\ floor[r] # 0
                => \E t \in Published(look[r].key) :
                      t >= floor[r] /\ cell[record[t].slot].ticket # t
  <1>1. Init => Fresh
    <2> SUFFICES ASSUME Init PROVE Fresh
      OBVIOUS
    <2>1. EntryInv /\ CellInv
      BY EntryInit, CellInit
    <2>2. Recorded /\ OwnBucket
      BY DEF Init, Recorded, OwnBucket, NoCall, Upserting, Seated, Pass1
    <2>3. Newest
      BY DEF Init, Newest
    <2>4. Served
      BY KeyNotEmpty DEF Init, Served, Completed, Published, Nowhere
    <2>5. Seeking
      BY DEF Init, Seeking, NoLook
    <2>6. CellTickets /\ ReadTickets
      BY KeyNotEmpty DEF Init, CellTickets, ReadTickets, NoLook, Nowhere
    <2> QED BY <2>1, <2>2, <2>3, <2>4, <2>5, <2>6 DEF Fresh, FreshInv
  <1>2. Fresh /\ [Next]_vars => Fresh'
    BY FreshStep
  <1>3. ASSUME Fresh, [Next]_vars PROVE [New]_vars
    <2>1. EntryInv /\ FreshInv /\ TypeOK
      BY <1>3 DEF Fresh, CellInv
    <2>2. ASSUME NEW p \in Producers, PublishStep(p) PROVE New
      BY <2>2 DEF PublishStep, readVars
    <2>3. ASSUME NEW r \in Readers, LookupStep(r) PROVE New
      <3> SUFFICES ASSUME NEW q \in Readers, rpc'[q] # rpc[q], rpc[q] # "idle", rpc[q] # "found",
                          rpc'[q] = "found" => rpc[q] = "again"
                   PROVE  /\ rpc'[q] = "found" /\ look[q].ticket \in Published(look[q].key) =>
                                look[q].ticket >= floor[q]
                          /\ rpc'[q] = "idle" /\ floor[q] # 0 => Overwritten(look[q].key, floor[q])
        BY <2>3 DEF Overwritten
      <3>1. q = r
        BY <2>1, <2>3, OwnLookOnly
      <3>2. floor[q] \in Nat
        BY <2>1, KeyIndexAssumption DEF TypeOK, TicketWords
      <3>3. rpc'[q] = "found" /\ look[q].ticket \in Published(look[q].key) => look[q].ticket >= floor[q]
        BY <2>1 DEF FreshInv, ReadTickets, OfKey, Published
      <3>4. ASSUME rpc'[q] = "idle", floor[q] # 0 PROVE Overwritten(look[q].key, floor[q])
        <4>1. floor[r] > 0
          BY <3>1, <3>2, <3>4
        <4>2. ASSUME NEW k, k = look[r].key, NEW t, t = floor[r],
                     NEW probe, probe = look[r].probe, NEW slot, slot = look[r].slot
              PROVE  Overwritten(k, t)
          BY <2>1, <2>3, <3>1, <3>4, <4>1, <4>2, LookupGoesOn DEF OnTheWay
        <4> QED BY <3>1, <4>2
      <3> QED BY <3>3, <3>4
    <2> QED BY <1>3, <2>2, <2>3 DEF Next
  <1> QED BY <1>1, <1>2, <1>3, PTL DEF Spec, LookupFresh
=============================================================================
