----------------------------- MODULE RingProofs -----------------------------
(***************************************************************************)
(* Proofs about the ring for every number of producers and consumers,      *)
(* every capacity of at least two cells and every bound on the records.    *)
(*                                                                         *)
(* Slot is expanded in the first lemmas only; the rest of the module knows *)
(* of pos & mask that it maps into the cells, that one lap leads back to   *)
(* the same cell, and that two positions of one cell are a lap apart.      *)
(***************************************************************************)
EXTENDS Ring, TLAPS

(* cell(pos) addresses one of the ring's cells.                            *)
LEMMA SlotInRange == \A w \in Nat : Slot(w) \in Slots
  BY RingAssumption DEF Slot, Slots

(* On the first lap position i is served by cell i, as initRing primes it. *)
LEMMA SlotOfCell == \A i \in Slots : Slot(i) = i
  BY RingAssumption DEF Slot, Slots

(* Division with remainder by the capacity.                                *)
LEMMA DivMod ==
  ASSUME NEW w \in Nat
  PROVE  /\ w \div Capacity \in Nat
         /\ w % Capacity \in 0 .. Capacity - 1
         /\ w = Capacity * (w \div Capacity) + (w % Capacity)
  BY RingAssumption

(* Two numbers in one lap have one quotient, so a remainder in range is    *)
(* the remainder.                                                          *)
LEMMA ModUnique ==
  ASSUME NEW q \in Nat, NEW r \in 0 .. Capacity - 1
  PROVE  (Capacity * q + r) % Capacity = r
  BY RingAssumption

(* release(pos) frees the cell for position pos + capacity: the same cell. *)
LEMMA SlotNextLap == \A w \in Nat : Slot(w + Capacity) = Slot(w)
  <1> SUFFICES ASSUME NEW w \in Nat PROVE Slot(w + Capacity) = Slot(w)
    OBVIOUS
  <1> DEFINE a == w \div Capacity
             r == w % Capacity
  <1>1. a \in Nat /\ r \in 0 .. Capacity - 1 /\ w = Capacity * a + r
    BY DivMod
  <1>2. w + Capacity = Capacity * (a + 1) + r
    BY <1>1, RingAssumption
  <1>3. (Capacity * (a + 1) + r) % Capacity = r
    BY <1>1, ModUnique
  <1> QED BY <1>2, <1>3 DEF Slot

(* Two different positions served by one cell are at least one lap apart.  *)
LEMMA SlotGap ==
  ASSUME NEW v \in Nat, NEW w \in Nat, Slot(v) = Slot(w), v < w
  PROVE  v + Capacity <= w
  <1> DEFINE a == v \div Capacity
             b == w \div Capacity
  <1>1. a \in Nat /\ b \in Nat /\ v % Capacity = w % Capacity /\ Capacity \in Nat \ {0}
    BY DivMod, RingAssumption DEF Slot
  <1>2. v = Capacity * a + (v % Capacity) /\ w = Capacity * b + (w % Capacity)
    BY DivMod
  <1> HIDE DEF a, b
  <1>3. w - v = Capacity * (b - a)
    BY <1>1, <1>2
  <1>4. b - a >= 1
    BY <1>1, <1>3
  <1>5. Capacity * (b - a) >= Capacity
    BY <1>1, <1>4
  <1> QED BY <1>3, <1>5, <1>1
-----------------------------------------------------------------------------
(* initRing establishes the types.                                         *)
LEMMA TypeInit == Init => TypeOK
  BY RingAssumption DEF Init, TypeOK, Slots, Positions, None, ProducerPc, ConsumerPc

(* Every step of claim, publish, dequeue and release keeps the types.      *)
LEMMA TypeStep ==
  ASSUME TypeOK, [Next]_vars
  PROVE  TypeOK'
  <1> USE SlotInRange, RingAssumption DEF PGoto, CGoto, cells, prodVars, consVars
  <1>1. ASSUME NEW p \in Producers, ClaimLoadTail(p) PROVE TypeOK'
    BY <1>1 DEF TypeOK, ProducerPc, ClaimLoadTail
  <1>2. ASSUME NEW p \in Producers, ClaimLoadSeq(p) PROVE TypeOK'
    BY <1>2 DEF TypeOK, ProducerPc, ClaimLoadSeq
  <1>3. ASSUME NEW p \in Producers, ClaimCas(p) PROVE TypeOK'
    BY <1>3 DEF TypeOK, ProducerPc, ClaimCas
  <1>4. ASSUME NEW p \in Producers, WritePayload(p) PROVE TypeOK'
    BY <1>4 DEF TypeOK, ProducerPc, WritePayload
  <1>5. ASSUME NEW p \in Producers, WriteHeader(p) PROVE TypeOK'
    BY <1>5 DEF TypeOK, ProducerPc, WriteHeader
  <1>6. ASSUME NEW p \in Producers, StoreSeq(p) PROVE TypeOK'
    BY <1>6 DEF TypeOK, ProducerPc, StoreSeq
  <1>7. ASSUME NEW p \in Producers, AdvanceLoadCommit(p) PROVE TypeOK'
    BY <1>7 DEF TypeOK, ProducerPc, AdvanceLoadCommit
  <1>8. ASSUME NEW p \in Producers, AdvanceLoadTail(p) PROVE TypeOK'
    BY <1>8 DEF TypeOK, ProducerPc, AdvanceLoadTail
  <1>9. ASSUME NEW p \in Producers, AdvanceLoadSeq(p) PROVE TypeOK'
    BY <1>9 DEF TypeOK, ProducerPc, AdvanceLoadSeq
  <1>10. ASSUME NEW p \in Producers, AdvanceCas(p) PROVE TypeOK'
    BY <1>10 DEF TypeOK, ProducerPc, AdvanceCas
  <1>11. ASSUME NEW c \in Consumers, DequeueLoadHead(c) PROVE TypeOK'
    BY <1>11 DEF TypeOK, ConsumerPc, DequeueLoadHead
  <1>12. ASSUME NEW c \in Consumers, DequeueLoadCommit(c) PROVE TypeOK'
    BY <1>12 DEF TypeOK, ConsumerPc, DequeueLoadCommit
  <1>13. ASSUME NEW c \in Consumers, DequeueCas(c) PROVE TypeOK'
    BY <1>13 DEF TypeOK, ConsumerPc, DequeueCas
  <1>14. ASSUME NEW c \in Consumers, DequeueConfirm(c) PROVE TypeOK'
    BY <1>14 DEF TypeOK, ConsumerPc, DequeueConfirm
  <1>15. ASSUME NEW c \in Consumers, DequeueReadFields(c) PROVE TypeOK'
    BY <1>15 DEF TypeOK, ConsumerPc, DequeueReadFields
  <1>16. ASSUME NEW c \in Consumers, Handle(c) PROVE TypeOK'
    BY <1>16 DEF TypeOK, ConsumerPc, Handle
  <1>17. ASSUME NEW c \in Consumers, Release(c) PROVE TypeOK'
    BY <1>17 DEF TypeOK, ConsumerPc, Release
  <1>18. CASE UNCHANGED vars
    BY <1>18 DEF TypeOK, vars
  <1> QED
    BY <1>1, <1>2, <1>3, <1>4, <1>5, <1>6, <1>7, <1>8, <1>9, <1>10, <1>11,
       <1>12, <1>13, <1>14, <1>15, <1>16, <1>17, <1>18
       DEF Next, ProducerStep, ConsumerStep

(* Only a publish or a release store moves a sequence word, by the thread  *)
(* that owns the cell; the cursors follow the words.                       *)
LEMMA SeqBoundsStep ==
  ASSUME Capacity >= 2, RingInv, [Next]_vars
  PROVE  SeqBounds'
  <1> USE SlotInRange, RingAssumption DEF RingInv, CursorOrder, PGoto, CGoto, cells, prodVars, consVars
  <1>1. CASE UNCHANGED <<tail, commit, head, seq>>
    BY <1>1 DEF SeqBounds
  <1>2. ASSUME NEW p \in Producers, ClaimCas(p) PROVE SeqBounds'
    BY <1>2 DEF SeqBounds, ClaimCas, StaleViews, TypeOK
  <1>3. ASSUME NEW p \in Producers, StoreSeq(p) PROVE SeqBounds'
    BY <1>3, SlotGap DEF SeqBounds, StoreSeq, Ownership, Owns, TypeOK
  <1>4. ASSUME NEW p \in Producers, AdvanceCas(p) PROVE SeqBounds'
    BY <1>4 DEF SeqBounds, AdvanceCas, StaleViews, TypeOK
  <1>5. ASSUME NEW c \in Consumers, DequeueCas(c) PROVE SeqBounds'
    BY <1>5 DEF SeqBounds, DequeueCas, TypeOK
  <1>6. ASSUME NEW c \in Consumers, Release(c) PROVE SeqBounds'
    BY <1>6, SlotGap, SlotNextLap DEF SeqBounds, Release, Ownership, Holds, TypeOK
  <1> QED
    BY <1>1, <1>2, <1>3, <1>4, <1>5, <1>6
       DEF Next, vars, ProducerStep, ConsumerStep, ClaimLoadTail, ClaimLoadSeq, WritePayload,
           WriteHeader, AdvanceLoadCommit, AdvanceLoadTail, AdvanceLoadSeq, DequeueLoadHead,
           DequeueLoadCommit, DequeueConfirm, DequeueReadFields, Handle
(* The CAS on tail in claim, and the one on head in dequeue, hand a position *)
(* to one thread although its sequence word was loaded before.             *)
LEMMA OwnershipStep ==
  ASSUME Capacity >= 2, RingInv, [Next]_vars
  PROVE  Ownership'
  <1> USE SlotInRange, RingAssumption DEF RingInv, CursorOrder, PGoto, CGoto, cells, prodVars, consVars
  <1>1. ASSUME NEW p \in Producers, ClaimLoadTail(p) PROVE Ownership'
    BY <1>1 DEF Ownership, Owns, Holds, SeqBounds, DequeueNeverMisses, ClaimLoadTail, TypeOK
  <1>2. ASSUME NEW p \in Producers, ClaimLoadSeq(p) PROVE Ownership'
    BY <1>2 DEF Ownership, Owns, Holds, SeqBounds, DequeueNeverMisses, ClaimLoadSeq, TypeOK
  <1>3. ASSUME NEW p \in Producers, ClaimCas(p) PROVE Ownership'
    <2>1. CASE tail # ppos[p]
      BY <1>3, <2>1 DEF Ownership, Owns, Holds, ClaimCas, TypeOK
    <2>2. CASE tail = ppos[p]
      <3>1. seq[Slot(ppos[p])] = ppos[p]
        <4>1. ppos[p] \in Nat /\ Slot(ppos[p]) \in Slots /\ seq[Slot(ppos[p])] \in Nat
          BY DEF TypeOK
        <4>2. seq[Slot(ppos[p])] >= ppos[p]
          BY <1>3 DEF StaleViews, ClaimCas
        <4>3. seq[Slot(ppos[p])] <= ppos[p]
          BY <2>2, <4>1 DEF SeqBounds
        <4> QED BY <4>1, <4>2, <4>3
      <3>2. tail' = tail + 1 /\ ppos' = ppos /\ \A q \in Producers : q # p => ppc'[q] = ppc[q]
        BY <1>3, <2>2 DEF ClaimCas, TypeOK
      <3>3. \A q \in Producers : q # p /\ Owns(q) => ppos[q] # ppos[p]
        BY <2>2 DEF Ownership, TypeOK
      <3> QED
        BY <1>3, <2>2, <3>1, <3>2, <3>3 DEF Ownership, Owns, Holds, ClaimCas, TypeOK
    <2> QED BY <2>1, <2>2
  <1>4. ASSUME NEW p \in Producers, WritePayload(p) PROVE Ownership'
    BY <1>4 DEF Ownership, Owns, Holds, SeqBounds, DequeueNeverMisses, WritePayload, TypeOK
  <1>5. ASSUME NEW p \in Producers, WriteHeader(p) PROVE Ownership'
    BY <1>5 DEF Ownership, Owns, Holds, SeqBounds, DequeueNeverMisses, WriteHeader, TypeOK
  <1>6. ASSUME NEW p \in Producers, StoreSeq(p) PROVE Ownership'
    BY <1>6, SlotGap DEF Ownership, Owns, Holds, SeqBounds, DequeueNeverMisses, StoreSeq, TypeOK
  <1>7. ASSUME NEW p \in Producers, AdvanceLoadCommit(p) PROVE Ownership'
    BY <1>7 DEF Ownership, Owns, Holds, SeqBounds, DequeueNeverMisses, AdvanceLoadCommit, TypeOK
  <1>8. ASSUME NEW p \in Producers, AdvanceLoadTail(p) PROVE Ownership'
    BY <1>8 DEF Ownership, Owns, Holds, SeqBounds, DequeueNeverMisses, AdvanceLoadTail, TypeOK
  <1>9. ASSUME NEW p \in Producers, AdvanceLoadSeq(p) PROVE Ownership'
    BY <1>9, SMTT(30) DEF Ownership, Owns, Holds, SeqBounds, DequeueNeverMisses, AdvanceLoadSeq, TypeOK
  <1>10. ASSUME NEW p \in Producers, AdvanceCas(p) PROVE Ownership'
    BY <1>10, SMTT(30) DEF Ownership, Owns, Holds, SeqBounds, DequeueNeverMisses, AdvanceCas, TypeOK, StaleViews
  <1>11. ASSUME NEW c \in Consumers, DequeueLoadHead(c) PROVE Ownership'
    BY <1>11 DEF Ownership, Owns, Holds, SeqBounds, DequeueNeverMisses, DequeueLoadHead, TypeOK
  <1>12. ASSUME NEW c \in Consumers, DequeueLoadCommit(c) PROVE Ownership'
    BY <1>12, SMTT(30) DEF Ownership, Owns, Holds, SeqBounds, DequeueNeverMisses, DequeueLoadCommit, TypeOK
  <1>13. ASSUME NEW c \in Consumers, DequeueCas(c) PROVE Ownership'
    <2>1. CASE head # cpos[c]
      BY <1>13, <2>1, SMTT(30) DEF Ownership, Owns, Holds, DequeueCas, TypeOK
    <2>2. CASE head = cpos[c]
      <3>1. seq[Slot(cpos[c])] = cpos[c] + 1
        <4>1. cpos[c] \in Nat /\ Slot(cpos[c]) \in Slots /\ seq[Slot(cpos[c])] \in Nat
          BY DEF TypeOK
        <4>2. seq[Slot(cpos[c])] > cpos[c]
          BY <1>13, <4>1 DEF StaleViews, SeqBounds, DequeueCas
        <4>3. seq[Slot(cpos[c])] <= cpos[c] + 1
          BY <2>2, <4>1 DEF SeqBounds
        <4> QED BY <4>1, <4>2, <4>3
      <3>2. head' = head + 1 /\ cpos' = cpos /\ \A d \in Consumers : d # c => cpc'[d] = cpc[d]
        BY <1>13, <2>2 DEF DequeueCas, TypeOK
      <3>3. \A d \in Consumers : d # c /\ Holds(d) => cpos[d] # cpos[c]
        BY <2>2 DEF Ownership, TypeOK
      <3> QED
        BY <1>13, <2>2, <3>1, <3>2, <3>3 DEF Ownership, Owns, Holds, DequeueCas, TypeOK
    <2> QED BY <2>1, <2>2
  <1>14. ASSUME NEW c \in Consumers, DequeueConfirm(c) PROVE Ownership'
    BY <1>14 DEF Ownership, Owns, Holds, SeqBounds, DequeueNeverMisses, DequeueConfirm, TypeOK
  <1>15. ASSUME NEW c \in Consumers, DequeueReadFields(c) PROVE Ownership'
    BY <1>15 DEF Ownership, Owns, Holds, SeqBounds, DequeueNeverMisses, DequeueReadFields, TypeOK
  <1>16. ASSUME NEW c \in Consumers, Handle(c) PROVE Ownership'
    BY <1>16 DEF Ownership, Owns, Holds, SeqBounds, DequeueNeverMisses, Handle, TypeOK
  <1>17. ASSUME NEW c \in Consumers, Release(c) PROVE Ownership'
    BY <1>17, SlotGap, SMTT(30) DEF Ownership, Owns, Holds, SeqBounds, DequeueNeverMisses, Release, TypeOK
  <1>18. CASE UNCHANGED vars
    BY <1>18 DEF Ownership, Owns, Holds, SeqBounds, DequeueNeverMisses, TypeOK, vars
  <1> QED
    BY <1>1, <1>2, <1>3, <1>4, <1>5, <1>6, <1>7, <1>8, <1>9, <1>10, <1>11,
       <1>12, <1>13, <1>14, <1>15, <1>16, <1>17, <1>18
       DEF Next, ProducerStep, ConsumerStep

(* What a thread loaded before its CAS stays true enough: sequence words   *)
(* and cursors only move forward.                                          *)
LEMMA StaleViewsStep ==
  ASSUME Capacity >= 2, RingInv, [Next]_vars
  PROVE  StaleViews'
  <1> USE SlotInRange, RingAssumption DEF RingInv, CursorOrder, PGoto, CGoto, cells, prodVars, consVars
  <1>1. ASSUME NEW p \in Producers, ClaimLoadTail(p) PROVE StaleViews'
    BY <1>1 DEF StaleViews, SeqBounds, ClaimLoadTail, TypeOK
  <1>2. ASSUME NEW p \in Producers, ClaimLoadSeq(p) PROVE StaleViews'
    BY <1>2 DEF StaleViews, SeqBounds, ClaimLoadSeq, TypeOK
  <1>3. ASSUME NEW p \in Producers, ClaimCas(p) PROVE StaleViews'
    BY <1>3 DEF StaleViews, SeqBounds, ClaimCas, TypeOK
  <1>4. ASSUME NEW p \in Producers, WritePayload(p) PROVE StaleViews'
    BY <1>4 DEF StaleViews, SeqBounds, WritePayload, TypeOK
  <1>5. ASSUME NEW p \in Producers, WriteHeader(p) PROVE StaleViews'
    BY <1>5 DEF StaleViews, SeqBounds, WriteHeader, TypeOK
  <1>6. ASSUME NEW p \in Producers, StoreSeq(p) PROVE StaleViews'
    BY <1>6 DEF StaleViews, SeqBounds, StoreSeq, TypeOK, Ownership, Owns
  <1>7. ASSUME NEW p \in Producers, AdvanceLoadCommit(p) PROVE StaleViews'
    BY <1>7 DEF StaleViews, SeqBounds, AdvanceLoadCommit, TypeOK
  <1>8. ASSUME NEW p \in Producers, AdvanceLoadTail(p) PROVE StaleViews'
    BY <1>8 DEF StaleViews, SeqBounds, AdvanceLoadTail, TypeOK
  <1>9. ASSUME NEW p \in Producers, AdvanceLoadSeq(p) PROVE StaleViews'
    BY <1>9 DEF StaleViews, SeqBounds, AdvanceLoadSeq, TypeOK
  <1>10. ASSUME NEW p \in Producers, AdvanceCas(p) PROVE StaleViews'
    BY <1>10 DEF StaleViews, SeqBounds, AdvanceCas, TypeOK
  <1>11. ASSUME NEW c \in Consumers, DequeueLoadHead(c) PROVE StaleViews'
    BY <1>11 DEF StaleViews, SeqBounds, DequeueLoadHead, TypeOK
  <1>12. ASSUME NEW c \in Consumers, DequeueLoadCommit(c) PROVE StaleViews'
    BY <1>12 DEF StaleViews, SeqBounds, DequeueLoadCommit, TypeOK
  <1>13. ASSUME NEW c \in Consumers, DequeueCas(c) PROVE StaleViews'
    BY <1>13 DEF StaleViews, SeqBounds, DequeueCas, TypeOK
  <1>14. ASSUME NEW c \in Consumers, DequeueConfirm(c) PROVE StaleViews'
    BY <1>14 DEF StaleViews, SeqBounds, DequeueConfirm, TypeOK
  <1>15. ASSUME NEW c \in Consumers, DequeueReadFields(c) PROVE StaleViews'
    BY <1>15 DEF StaleViews, SeqBounds, DequeueReadFields, TypeOK
  <1>16. ASSUME NEW c \in Consumers, Handle(c) PROVE StaleViews'
    BY <1>16 DEF StaleViews, SeqBounds, Handle, TypeOK
  <1>17. ASSUME NEW c \in Consumers, Release(c) PROVE StaleViews'
    BY <1>17 DEF StaleViews, SeqBounds, Release, TypeOK, Ownership, Holds
  <1>18. CASE UNCHANGED vars
    BY <1>18 DEF StaleViews, SeqBounds, TypeOK, vars
  <1> QED
    BY <1>1, <1>2, <1>3, <1>4, <1>5, <1>6, <1>7, <1>8, <1>9, <1>10, <1>11,
       <1>12, <1>13, <1>14, <1>15, <1>16, <1>17, <1>18
       DEF Next, ProducerStep, ConsumerStep

(* dequeue's check of the sequence word succeeds (ring.go:265).            *)
LEMMA MissStep ==
  ASSUME Capacity >= 2, RingInv, [Next]_vars
  PROVE  DequeueNeverMisses'
  <1> USE SlotInRange, RingAssumption DEF RingInv, CursorOrder, PGoto, CGoto, cells, prodVars, consVars
  <1>1. ASSUME NEW p \in Producers, ClaimLoadTail(p) PROVE DequeueNeverMisses'
    BY <1>1 DEF DequeueNeverMisses, ClaimLoadTail, TypeOK
  <1>2. ASSUME NEW p \in Producers, ClaimLoadSeq(p) PROVE DequeueNeverMisses'
    BY <1>2 DEF DequeueNeverMisses, ClaimLoadSeq, TypeOK
  <1>3. ASSUME NEW p \in Producers, ClaimCas(p) PROVE DequeueNeverMisses'
    BY <1>3 DEF DequeueNeverMisses, ClaimCas, TypeOK
  <1>4. ASSUME NEW p \in Producers, WritePayload(p) PROVE DequeueNeverMisses'
    BY <1>4 DEF DequeueNeverMisses, WritePayload, TypeOK
  <1>5. ASSUME NEW p \in Producers, WriteHeader(p) PROVE DequeueNeverMisses'
    BY <1>5 DEF DequeueNeverMisses, WriteHeader, TypeOK
  <1>6. ASSUME NEW p \in Producers, StoreSeq(p) PROVE DequeueNeverMisses'
    BY <1>6 DEF DequeueNeverMisses, StoreSeq, TypeOK
  <1>7. ASSUME NEW p \in Producers, AdvanceLoadCommit(p) PROVE DequeueNeverMisses'
    BY <1>7 DEF DequeueNeverMisses, AdvanceLoadCommit, TypeOK
  <1>8. ASSUME NEW p \in Producers, AdvanceLoadTail(p) PROVE DequeueNeverMisses'
    BY <1>8 DEF DequeueNeverMisses, AdvanceLoadTail, TypeOK
  <1>9. ASSUME NEW p \in Producers, AdvanceLoadSeq(p) PROVE DequeueNeverMisses'
    BY <1>9 DEF DequeueNeverMisses, AdvanceLoadSeq, TypeOK
  <1>10. ASSUME NEW p \in Producers, AdvanceCas(p) PROVE DequeueNeverMisses'
    BY <1>10 DEF DequeueNeverMisses, AdvanceCas, TypeOK
  <1>11. ASSUME NEW c \in Consumers, DequeueLoadHead(c) PROVE DequeueNeverMisses'
    BY <1>11 DEF DequeueNeverMisses, DequeueLoadHead, TypeOK
  <1>12. ASSUME NEW c \in Consumers, DequeueLoadCommit(c) PROVE DequeueNeverMisses'
    BY <1>12 DEF DequeueNeverMisses, DequeueLoadCommit, TypeOK
  <1>13. ASSUME NEW c \in Consumers, DequeueCas(c) PROVE DequeueNeverMisses'
    BY <1>13 DEF DequeueNeverMisses, DequeueCas, TypeOK
  <1>14. ASSUME NEW c \in Consumers, DequeueConfirm(c) PROVE DequeueNeverMisses'
    BY <1>14 DEF DequeueNeverMisses, DequeueConfirm, TypeOK, Ownership, Holds
  <1>15. ASSUME NEW c \in Consumers, DequeueReadFields(c) PROVE DequeueNeverMisses'
    BY <1>15 DEF DequeueNeverMisses, DequeueReadFields, TypeOK
  <1>16. ASSUME NEW c \in Consumers, Handle(c) PROVE DequeueNeverMisses'
    BY <1>16 DEF DequeueNeverMisses, Handle, TypeOK
  <1>17. ASSUME NEW c \in Consumers, Release(c) PROVE DequeueNeverMisses'
    BY <1>17 DEF DequeueNeverMisses, Release, TypeOK
  <1>18. CASE UNCHANGED vars
    BY <1>18 DEF DequeueNeverMisses, TypeOK, vars
  <1> QED
    BY <1>1, <1>2, <1>3, <1>4, <1>5, <1>6, <1>7, <1>8, <1>9, <1>10, <1>11,
       <1>12, <1>13, <1>14, <1>15, <1>16, <1>17, <1>18
       DEF Next, ProducerStep, ConsumerStep

(* A position that is claimed and not published has a producer in publish. *)
LEMMA ClaimsOwnedStep ==
  ASSUME Capacity >= 2, RingInv, [Next]_vars
  PROVE  ClaimsOwned'
  <1> USE SlotInRange, RingAssumption DEF RingInv, CursorOrder, PGoto, CGoto, cells, prodVars, consVars
  <1>1. ASSUME NEW p \in Producers, ClaimLoadTail(p) PROVE ClaimsOwned'
    BY <1>1 DEF ClaimsOwned, Owns, SeqBounds, ClaimLoadTail, TypeOK
  <1>2. ASSUME NEW p \in Producers, ClaimLoadSeq(p) PROVE ClaimsOwned'
    BY <1>2 DEF ClaimsOwned, Owns, SeqBounds, ClaimLoadSeq, TypeOK
  <1>3. ASSUME NEW p \in Producers, ClaimCas(p) PROVE ClaimsOwned'
    BY <1>3, SMTT(30) DEF ClaimsOwned, Owns, SeqBounds, ClaimCas, TypeOK
  <1>4. ASSUME NEW p \in Producers, WritePayload(p) PROVE ClaimsOwned'
    BY <1>4 DEF ClaimsOwned, Owns, SeqBounds, WritePayload, TypeOK
  <1>5. ASSUME NEW p \in Producers, WriteHeader(p) PROVE ClaimsOwned'
    BY <1>5 DEF ClaimsOwned, Owns, SeqBounds, WriteHeader, TypeOK
  <1>6. ASSUME NEW p \in Producers, StoreSeq(p) PROVE ClaimsOwned'
    BY <1>6, SlotGap DEF ClaimsOwned, Owns, SeqBounds, StoreSeq, TypeOK, Ownership
  <1>7. ASSUME NEW p \in Producers, AdvanceLoadCommit(p) PROVE ClaimsOwned'
    BY <1>7 DEF ClaimsOwned, Owns, SeqBounds, AdvanceLoadCommit, TypeOK
  <1>8. ASSUME NEW p \in Producers, AdvanceLoadTail(p) PROVE ClaimsOwned'
    BY <1>8 DEF ClaimsOwned, Owns, SeqBounds, AdvanceLoadTail, TypeOK
  <1>9. ASSUME NEW p \in Producers, AdvanceLoadSeq(p) PROVE ClaimsOwned'
    BY <1>9 DEF ClaimsOwned, Owns, SeqBounds, AdvanceLoadSeq, TypeOK
  <1>10. ASSUME NEW p \in Producers, AdvanceCas(p) PROVE ClaimsOwned'
    BY <1>10 DEF ClaimsOwned, Owns, SeqBounds, AdvanceCas, TypeOK
  <1>11. ASSUME NEW c \in Consumers, DequeueLoadHead(c) PROVE ClaimsOwned'
    BY <1>11 DEF ClaimsOwned, Owns, SeqBounds, DequeueLoadHead, TypeOK
  <1>12. ASSUME NEW c \in Consumers, DequeueLoadCommit(c) PROVE ClaimsOwned'
    BY <1>12 DEF ClaimsOwned, Owns, SeqBounds, DequeueLoadCommit, TypeOK
  <1>13. ASSUME NEW c \in Consumers, DequeueCas(c) PROVE ClaimsOwned'
    BY <1>13 DEF ClaimsOwned, Owns, SeqBounds, DequeueCas, TypeOK
  <1>14. ASSUME NEW c \in Consumers, DequeueConfirm(c) PROVE ClaimsOwned'
    BY <1>14 DEF ClaimsOwned, Owns, SeqBounds, DequeueConfirm, TypeOK
  <1>15. ASSUME NEW c \in Consumers, DequeueReadFields(c) PROVE ClaimsOwned'
    BY <1>15 DEF ClaimsOwned, Owns, SeqBounds, DequeueReadFields, TypeOK
  <1>16. ASSUME NEW c \in Consumers, Handle(c) PROVE ClaimsOwned'
    BY <1>16 DEF ClaimsOwned, Owns, SeqBounds, Handle, TypeOK
  <1>17. ASSUME NEW c \in Consumers, Release(c) PROVE ClaimsOwned'
    BY <1>17, SlotGap DEF ClaimsOwned, Owns, SeqBounds, Release, TypeOK, Ownership, Holds
  <1>18. CASE UNCHANGED vars
    BY <1>18 DEF ClaimsOwned, Owns, SeqBounds, TypeOK, vars
  <1> QED
    BY <1>1, <1>2, <1>3, <1>4, <1>5, <1>6, <1>7, <1>8, <1>9, <1>10, <1>11,
       <1>12, <1>13, <1>14, <1>15, <1>16, <1>17, <1>18
       DEF Next, ProducerStep, ConsumerStep

(* A position that is dequeued and not released has a consumer holding it. *)
LEMMA TakesHeldStep ==
  ASSUME Capacity >= 2, RingInv, [Next]_vars
  PROVE  TakesHeld'
  <1> USE SlotInRange, RingAssumption DEF RingInv, CursorOrder, PGoto, CGoto, cells, prodVars, consVars
  <1>1. ASSUME NEW p \in Producers, ClaimLoadTail(p) PROVE TakesHeld'
    BY <1>1 DEF TakesHeld, Holds, SeqBounds, ClaimLoadTail, TypeOK
  <1>2. ASSUME NEW p \in Producers, ClaimLoadSeq(p) PROVE TakesHeld'
    BY <1>2 DEF TakesHeld, Holds, SeqBounds, ClaimLoadSeq, TypeOK
  <1>3. ASSUME NEW p \in Producers, ClaimCas(p) PROVE TakesHeld'
    BY <1>3 DEF TakesHeld, Holds, SeqBounds, ClaimCas, TypeOK
  <1>4. ASSUME NEW p \in Producers, WritePayload(p) PROVE TakesHeld'
    BY <1>4 DEF TakesHeld, Holds, SeqBounds, WritePayload, TypeOK
  <1>5. ASSUME NEW p \in Producers, WriteHeader(p) PROVE TakesHeld'
    BY <1>5 DEF TakesHeld, Holds, SeqBounds, WriteHeader, TypeOK
  <1>6. ASSUME NEW p \in Producers, StoreSeq(p) PROVE TakesHeld'
    <2> SUFFICES ASSUME NEW w \in Nat, w < head', seq'[Slot(w)] <= w + 1
                 PROVE  \E d \in Consumers : Holds(d)' /\ cpos'[d] = w
      BY DEF TakesHeld
    <2>1. seq[Slot(ppos[p])] = ppos[p] /\ ppos[p] \in Nat /\ commit <= ppos[p]
      BY <1>6 DEF Ownership, Owns, StoreSeq, TypeOK
    <2>2. seq[Slot(w)] <= w + 1
      BY <1>6, <2>1 DEF StoreSeq, TypeOK
    <2>3. PICK d \in Consumers : Holds(d) /\ cpos[d] = w
      BY <1>6, <2>2 DEF TakesHeld, StoreSeq
    <2> QED BY <1>6, <2>3 DEF Holds, StoreSeq
  <1>7. ASSUME NEW p \in Producers, AdvanceLoadCommit(p) PROVE TakesHeld'
    BY <1>7 DEF TakesHeld, Holds, SeqBounds, AdvanceLoadCommit, TypeOK
  <1>8. ASSUME NEW p \in Producers, AdvanceLoadTail(p) PROVE TakesHeld'
    BY <1>8 DEF TakesHeld, Holds, SeqBounds, AdvanceLoadTail, TypeOK
  <1>9. ASSUME NEW p \in Producers, AdvanceLoadSeq(p) PROVE TakesHeld'
    BY <1>9 DEF TakesHeld, Holds, SeqBounds, AdvanceLoadSeq, TypeOK
  <1>10. ASSUME NEW p \in Producers, AdvanceCas(p) PROVE TakesHeld'
    BY <1>10 DEF TakesHeld, Holds, SeqBounds, AdvanceCas, TypeOK
  <1>11. ASSUME NEW c \in Consumers, DequeueLoadHead(c) PROVE TakesHeld'
    BY <1>11 DEF TakesHeld, Holds, SeqBounds, DequeueLoadHead, TypeOK
  <1>12. ASSUME NEW c \in Consumers, DequeueLoadCommit(c) PROVE TakesHeld'
    BY <1>12 DEF TakesHeld, Holds, SeqBounds, DequeueLoadCommit, TypeOK
  <1>13. ASSUME NEW c \in Consumers, DequeueCas(c) PROVE TakesHeld'
    <2> SUFFICES ASSUME NEW w \in Nat, w < head', seq'[Slot(w)] <= w + 1
                 PROVE  \E d \in Consumers : Holds(d)' /\ cpos'[d] = w
      BY DEF TakesHeld
    <2>1. CASE w < head
      <3>1. PICK d \in Consumers : Holds(d) /\ cpos[d] = w
        BY <1>13, <2>1 DEF TakesHeld, DequeueCas
      <3> QED BY <1>13, <3>1 DEF Holds, DequeueCas, TypeOK
    <2>2. CASE w >= head
      <3>1. head = cpos[c] /\ w = cpos[c]
        BY <1>13, <2>2 DEF DequeueCas, TypeOK
      <3> QED BY <1>13, <3>1 DEF Holds, DequeueCas, TypeOK
    <2> QED BY <2>1, <2>2 DEF TypeOK
  <1>14. ASSUME NEW c \in Consumers, DequeueConfirm(c) PROVE TakesHeld'
    BY <1>14 DEF TakesHeld, Holds, SeqBounds, DequeueConfirm, TypeOK
  <1>15. ASSUME NEW c \in Consumers, DequeueReadFields(c) PROVE TakesHeld'
    BY <1>15 DEF TakesHeld, Holds, SeqBounds, DequeueReadFields, TypeOK
  <1>16. ASSUME NEW c \in Consumers, Handle(c) PROVE TakesHeld'
    BY <1>16 DEF TakesHeld, Holds, SeqBounds, Handle, TypeOK
  <1>17. ASSUME NEW c \in Consumers, Release(c) PROVE TakesHeld'
    <2> SUFFICES ASSUME NEW w \in Nat, w < head', seq'[Slot(w)] <= w + 1
                 PROVE  \E d \in Consumers : Holds(d)' /\ cpos'[d] = w
      BY DEF TakesHeld
    <2>1. seq[Slot(cpos[c])] = cpos[c] + 1 /\ cpos[c] \in Nat
      BY <1>17 DEF Ownership, Holds, Release, TypeOK
    <2>2. w # cpos[c]
      BY <1>17, <2>1 DEF Release, TypeOK
    <2>3. seq[Slot(w)] <= w + 1
      BY <1>17, <2>1 DEF Release, TypeOK
    <2>4. PICK d \in Consumers : Holds(d) /\ cpos[d] = w
      BY <1>17, <2>3 DEF TakesHeld, Release
    <2> QED BY <1>17, <2>2, <2>4 DEF Holds, Release, TypeOK
  <1>18. CASE UNCHANGED vars
    BY <1>18 DEF TakesHeld, Holds, SeqBounds, TypeOK, vars
  <1> QED
    BY <1>1, <1>2, <1>3, <1>4, <1>5, <1>6, <1>7, <1>8, <1>9, <1>10, <1>11,
       <1>12, <1>13, <1>14, <1>15, <1>16, <1>17, <1>18
       DEF Next, ProducerStep, ConsumerStep

(* A published position at the commit point has a producer in advanceCommit *)
(* that has not yet given up on it.                                        *)
LEMMA CommitHelpedStep ==
  ASSUME Capacity >= 2, RingInv, [Next]_vars
  PROVE  CommitHelped'
  <1> USE SlotInRange, RingAssumption DEF RingInv, CursorOrder, PGoto, CGoto, cells, prodVars, consVars
  <1>1. ASSUME NEW p \in Producers, ClaimLoadTail(p) PROVE CommitHelped'
    BY <1>1 DEF CommitHelped, Helps, SeqBounds, ClaimLoadTail, TypeOK
  <1>2. ASSUME NEW p \in Producers, ClaimLoadSeq(p) PROVE CommitHelped'
    BY <1>2 DEF CommitHelped, Helps, SeqBounds, ClaimLoadSeq, TypeOK
  <1>3. ASSUME NEW p \in Producers, ClaimCas(p) PROVE CommitHelped'
    BY <1>3 DEF CommitHelped, Helps, SeqBounds, ClaimCas, TypeOK, StaleViews
  <1>4. ASSUME NEW p \in Producers, WritePayload(p) PROVE CommitHelped'
    BY <1>4 DEF CommitHelped, Helps, SeqBounds, WritePayload, TypeOK
  <1>5. ASSUME NEW p \in Producers, WriteHeader(p) PROVE CommitHelped'
    BY <1>5 DEF CommitHelped, Helps, SeqBounds, WriteHeader, TypeOK
  <1>6. ASSUME NEW p \in Producers, StoreSeq(p) PROVE CommitHelped'
    BY <1>6, SlotGap DEF CommitHelped, Helps, SeqBounds, StoreSeq, TypeOK, Ownership, Owns
  <1>7. ASSUME NEW p \in Producers, AdvanceLoadCommit(p) PROVE CommitHelped'
    BY <1>7 DEF CommitHelped, Helps, SeqBounds, AdvanceLoadCommit, TypeOK
  <1>8. ASSUME NEW p \in Producers, AdvanceLoadTail(p) PROVE CommitHelped'
    BY <1>8 DEF CommitHelped, Helps, SeqBounds, AdvanceLoadTail, TypeOK
  <1>9. ASSUME NEW p \in Producers, AdvanceLoadSeq(p) PROVE CommitHelped'
    BY <1>9 DEF CommitHelped, Helps, SeqBounds, AdvanceLoadSeq, TypeOK
  <1>10. ASSUME NEW p \in Producers, AdvanceCas(p) PROVE CommitHelped'
    BY <1>10 DEF CommitHelped, Helps, SeqBounds, AdvanceCas, TypeOK
  <1>11. ASSUME NEW c \in Consumers, DequeueLoadHead(c) PROVE CommitHelped'
    BY <1>11 DEF CommitHelped, Helps, SeqBounds, DequeueLoadHead, TypeOK
  <1>12. ASSUME NEW c \in Consumers, DequeueLoadCommit(c) PROVE CommitHelped'
    BY <1>12 DEF CommitHelped, Helps, SeqBounds, DequeueLoadCommit, TypeOK
  <1>13. ASSUME NEW c \in Consumers, DequeueCas(c) PROVE CommitHelped'
    BY <1>13 DEF CommitHelped, Helps, SeqBounds, DequeueCas, TypeOK
  <1>14. ASSUME NEW c \in Consumers, DequeueConfirm(c) PROVE CommitHelped'
    BY <1>14 DEF CommitHelped, Helps, SeqBounds, DequeueConfirm, TypeOK
  <1>15. ASSUME NEW c \in Consumers, DequeueReadFields(c) PROVE CommitHelped'
    BY <1>15 DEF CommitHelped, Helps, SeqBounds, DequeueReadFields, TypeOK
  <1>16. ASSUME NEW c \in Consumers, Handle(c) PROVE CommitHelped'
    BY <1>16 DEF CommitHelped, Helps, SeqBounds, Handle, TypeOK
  <1>17. ASSUME NEW c \in Consumers, Release(c) PROVE CommitHelped'
    BY <1>17, SlotGap DEF CommitHelped, Helps, SeqBounds, Release, TypeOK, Ownership, Holds
  <1>18. CASE UNCHANGED vars
    BY <1>18 DEF CommitHelped, Helps, SeqBounds, TypeOK, vars
  <1> QED
    BY <1>1, <1>2, <1>3, <1>4, <1>5, <1>6, <1>7, <1>8, <1>9, <1>10, <1>11,
       <1>12, <1>13, <1>14, <1>15, <1>16, <1>17, <1>18
       DEF Next, ProducerStep, ConsumerStep

(* A published cell holds header and payload of its position: nobody else  *)
(* writes to it before it is released.                                     *)
LEMMA ContentsStep ==
  ASSUME Capacity >= 2, RingInv, [Next]_vars
  PROVE  Contents'
  <1> USE SlotInRange, RingAssumption DEF RingInv, CursorOrder, PGoto, CGoto, cells, prodVars, consVars
  <1>1. ASSUME NEW p \in Producers, ClaimLoadTail(p) PROVE Contents'
    BY <1>1 DEF Contents, Ownership, Owns, Holds, ClaimLoadTail, TypeOK
  <1>2. ASSUME NEW p \in Producers, ClaimLoadSeq(p) PROVE Contents'
    BY <1>2 DEF Contents, Ownership, Owns, Holds, ClaimLoadSeq, TypeOK
  <1>3. ASSUME NEW p \in Producers, ClaimCas(p) PROVE Contents'
    BY <1>3 DEF Contents, Ownership, Owns, Holds, ClaimCas, TypeOK
  <1>4. ASSUME NEW p \in Producers, WritePayload(p) PROVE Contents'
    BY <1>4, SlotGap DEF Contents, Ownership, Owns, Holds, WritePayload, TypeOK
  <1>5. ASSUME NEW p \in Producers, WriteHeader(p) PROVE Contents'
    BY <1>5, SlotGap DEF Contents, Ownership, Owns, Holds, WriteHeader, TypeOK
  <1>6. ASSUME NEW p \in Producers, StoreSeq(p) PROVE Contents'
    <2>1. seq[Slot(ppos[p])] = ppos[p] /\ payload[Slot(ppos[p])] = ppos[p]
            /\ header[Slot(ppos[p])] = ppos[p]
      BY <1>6 DEF Contents, Ownership, Owns, StoreSeq
    <2>2. ASSUME NEW w \in Nat, seq'[Slot(w)] = w + 1
          PROVE  payload'[Slot(w)] = w /\ header'[Slot(w)] = w
      BY <1>6, <2>1, <2>2 DEF Contents, StoreSeq, TypeOK
    <2> QED BY <1>6, <2>2 DEF Contents, StoreSeq, TypeOK
  <1>7. ASSUME NEW p \in Producers, AdvanceLoadCommit(p) PROVE Contents'
    BY <1>7 DEF Contents, Ownership, Owns, Holds, AdvanceLoadCommit, TypeOK
  <1>8. ASSUME NEW p \in Producers, AdvanceLoadTail(p) PROVE Contents'
    BY <1>8 DEF Contents, Ownership, Owns, Holds, AdvanceLoadTail, TypeOK
  <1>9. ASSUME NEW p \in Producers, AdvanceLoadSeq(p) PROVE Contents'
    BY <1>9 DEF Contents, Ownership, Owns, Holds, AdvanceLoadSeq, TypeOK
  <1>10. ASSUME NEW p \in Producers, AdvanceCas(p) PROVE Contents'
    BY <1>10 DEF Contents, Ownership, Owns, Holds, AdvanceCas, TypeOK
  <1>11. ASSUME NEW c \in Consumers, DequeueLoadHead(c) PROVE Contents'
    BY <1>11 DEF Contents, Ownership, Owns, Holds, DequeueLoadHead, TypeOK
  <1>12. ASSUME NEW c \in Consumers, DequeueLoadCommit(c) PROVE Contents'
    BY <1>12 DEF Contents, Ownership, Owns, Holds, DequeueLoadCommit, TypeOK
  <1>13. ASSUME NEW c \in Consumers, DequeueCas(c) PROVE Contents'
    BY <1>13 DEF Contents, Ownership, Owns, Holds, DequeueCas, TypeOK
  <1>14. ASSUME NEW c \in Consumers, DequeueConfirm(c) PROVE Contents'
    BY <1>14 DEF Contents, Ownership, Owns, Holds, DequeueConfirm, TypeOK
  <1>15. ASSUME NEW c \in Consumers, DequeueReadFields(c) PROVE Contents'
    BY <1>15 DEF Contents, Ownership, Owns, Holds, DequeueReadFields, TypeOK
  <1>16. ASSUME NEW c \in Consumers, Handle(c) PROVE Contents'
    BY <1>16 DEF Contents, Ownership, Owns, Holds, Handle, TypeOK
  <1>17. ASSUME NEW c \in Consumers, Release(c) PROVE Contents'
    BY <1>17, SlotGap DEF Contents, Ownership, Owns, Holds, Release, TypeOK
  <1>18. CASE UNCHANGED vars
    BY <1>18 DEF Contents, Ownership, Owns, Holds, TypeOK, vars
  <1> QED
    BY <1>1, <1>2, <1>3, <1>4, <1>5, <1>6, <1>7, <1>8, <1>9, <1>10, <1>11,
       <1>12, <1>13, <1>14, <1>15, <1>16, <1>17, <1>18
       DEF Next, ProducerStep, ConsumerStep

(* The history of deliveries changes with the handler only.                *)
LEMMA ExactlyOnceStep ==
  ASSUME Capacity >= 2, RingInv, [Next]_vars
  PROVE  ExactlyOnce'
  <1> USE SlotInRange, RingAssumption DEF RingInv, CursorOrder, PGoto, CGoto, cells, prodVars, consVars
  <1>1. ASSUME NEW p \in Producers, ClaimLoadTail(p) PROVE ExactlyOnce'
    BY <1>1 DEF ExactlyOnce, InHand, ClaimLoadTail, TypeOK
  <1>2. ASSUME NEW p \in Producers, ClaimLoadSeq(p) PROVE ExactlyOnce'
    BY <1>2 DEF ExactlyOnce, InHand, ClaimLoadSeq, TypeOK
  <1>3. ASSUME NEW p \in Producers, ClaimCas(p) PROVE ExactlyOnce'
    BY <1>3 DEF ExactlyOnce, InHand, ClaimCas, TypeOK
  <1>4. ASSUME NEW p \in Producers, WritePayload(p) PROVE ExactlyOnce'
    BY <1>4 DEF ExactlyOnce, InHand, WritePayload, TypeOK
  <1>5. ASSUME NEW p \in Producers, WriteHeader(p) PROVE ExactlyOnce'
    BY <1>5 DEF ExactlyOnce, InHand, WriteHeader, TypeOK
  <1>6. ASSUME NEW p \in Producers, StoreSeq(p) PROVE ExactlyOnce'
    BY <1>6 DEF ExactlyOnce, InHand, StoreSeq, TypeOK
  <1>7. ASSUME NEW p \in Producers, AdvanceLoadCommit(p) PROVE ExactlyOnce'
    BY <1>7 DEF ExactlyOnce, InHand, AdvanceLoadCommit, TypeOK
  <1>8. ASSUME NEW p \in Producers, AdvanceLoadTail(p) PROVE ExactlyOnce'
    BY <1>8 DEF ExactlyOnce, InHand, AdvanceLoadTail, TypeOK
  <1>9. ASSUME NEW p \in Producers, AdvanceLoadSeq(p) PROVE ExactlyOnce'
    <2>1. \A d \in Consumers, pos \in Positions : InHand(d, pos)' <=> InHand(d, pos)
      BY <1>9 DEF InHand, AdvanceLoadSeq, TypeOK
    <2> QED BY <1>9, <2>1 DEF ExactlyOnce, AdvanceLoadSeq
  <1>10. ASSUME NEW p \in Producers, AdvanceCas(p) PROVE ExactlyOnce'
    BY <1>10 DEF ExactlyOnce, InHand, AdvanceCas, TypeOK
  <1>11. ASSUME NEW c \in Consumers, DequeueLoadHead(c) PROVE ExactlyOnce'
    BY <1>11 DEF ExactlyOnce, InHand, DequeueLoadHead, TypeOK
  <1>12. ASSUME NEW c \in Consumers, DequeueLoadCommit(c) PROVE ExactlyOnce'
    <2>1. \A d \in Consumers, pos \in Positions : InHand(d, pos)' <=> InHand(d, pos)
      BY <1>12 DEF InHand, DequeueLoadCommit, TypeOK
    <2> QED BY <1>12, <2>1 DEF ExactlyOnce, DequeueLoadCommit
  <1>13. ASSUME NEW c \in Consumers, DequeueCas(c) PROVE ExactlyOnce'
    <2>1. CASE head # cpos[c]
      <3>1. \A d \in Consumers, pos \in Positions : InHand(d, pos)' <=> InHand(d, pos)
        BY <1>13, <2>1 DEF InHand, DequeueCas, TypeOK
      <3> QED BY <1>13, <2>1, <3>1 DEF ExactlyOnce, DequeueCas
    <2>2. CASE head = cpos[c]
      <3>0. PICK h \in Nat : h = head
        BY DEF TypeOK
      <3>1. InHand(c, h)'
        BY <1>13, <2>2, <3>0 DEF InHand, DequeueCas, TypeOK
      <3>2. \A d \in Consumers, pos \in Positions :
              pos # h => (InHand(d, pos)' <=> InHand(d, pos))
        BY <1>13, <2>2, <3>0 DEF InHand, DequeueCas, TypeOK
      <3>3. head' = h + 1 /\ delivered' = delivered
        BY <1>13, <2>2, <3>0 DEF DequeueCas
      <3>4. \A pos \in Positions : pos < head' => pos < head \/ pos = h
        BY <3>0, <3>3 DEF Positions
      <3>5. \A pos \in Positions : pos < head => pos < head' /\ pos # h
        BY <3>0, <3>3 DEF Positions
      <3> QED BY <3>0, <3>1, <3>2, <3>3, <3>4, <3>5 DEF ExactlyOnce
    <2> QED BY <2>1, <2>2
  <1>14. ASSUME NEW c \in Consumers, DequeueConfirm(c) PROVE ExactlyOnce'
    <2>1. \A d \in Consumers, pos \in Positions : InHand(d, pos)' <=> InHand(d, pos)
      BY <1>14 DEF InHand, DequeueConfirm, TypeOK, Ownership, Holds
    <2> QED BY <1>14, <2>1 DEF ExactlyOnce, DequeueConfirm
  <1>15. ASSUME NEW c \in Consumers, DequeueReadFields(c) PROVE ExactlyOnce'
    <2>1. \A d \in Consumers, pos \in Positions : InHand(d, pos)' <=> InHand(d, pos)
      BY <1>15 DEF InHand, DequeueReadFields, TypeOK
    <2> QED BY <1>15, <2>1 DEF ExactlyOnce, DequeueReadFields
  <1>16. ASSUME NEW c \in Consumers, Handle(c) PROVE ExactlyOnce'
    <2>1. chdr[c] = cpos[c] /\ cpos[c] < head /\ InHand(c, cpos[c])
      BY <1>16 DEF Contents, Ownership, Holds, Handle, InHand
    <2>2. \A d \in Consumers : ~InHand(d, cpos[c])'
      BY <1>16 DEF Ownership, Holds, Handle, InHand, TypeOK
    <2>3. \A d \in Consumers, pos \in Positions :
            pos # cpos[c] => (InHand(d, pos)' <=> InHand(d, pos))
      BY <1>16 DEF Handle, InHand, TypeOK
    <2>4. \A pos \in Positions :
            delivered'[pos] = delivered[pos] + (IF pos = cpos[c] THEN 1 ELSE 0)
      BY <1>16, <2>1 DEF Handle
    <2> QED BY <1>16, <2>1, <2>2, <2>3, <2>4 DEF ExactlyOnce, Handle, TypeOK
  <1>17. ASSUME NEW c \in Consumers, Release(c) PROVE ExactlyOnce'
    BY <1>17 DEF ExactlyOnce, InHand, Release, TypeOK
  <1>18. CASE UNCHANGED vars
    BY <1>18 DEF ExactlyOnce, InHand, TypeOK, vars
  <1> QED
    BY <1>1, <1>2, <1>3, <1>4, <1>5, <1>6, <1>7, <1>8, <1>9, <1>10, <1>11,
       <1>12, <1>13, <1>14, <1>15, <1>16, <1>17, <1>18
       DEF Next, ProducerStep, ConsumerStep
-----------------------------------------------------------------------------
(* Cursor order depends on the sequence words: commit and head advance     *)
(* only over positions whose sequence word says so.                        *)
LEMMA CursorStep ==
  ASSUME Capacity >= 2, RingInv, [Next]_vars
  PROVE  CursorOrder'
  <1> USE RingAssumption DEF RingInv, CursorOrder, cells, prodVars, consVars
  <1>1. CASE UNCHANGED <<tail, commit, head>>
    BY <1>1
  <1>2. ASSUME NEW p \in Producers, ClaimCas(p) PROVE CursorOrder'
    BY <1>2 DEF ClaimCas, TypeOK
  <1>3. ASSUME NEW p \in Producers, AdvanceCas(p) PROVE CursorOrder'
    BY <1>3, SlotInRange DEF AdvanceCas, TypeOK, StaleViews, SeqBounds
  <1>4. ASSUME NEW c \in Consumers, DequeueCas(c) PROVE CursorOrder'
    BY <1>4 DEF DequeueCas, TypeOK, StaleViews
  <1> QED
    BY <1>1, <1>2, <1>3, <1>4
       DEF Next, vars, ProducerStep, ConsumerStep, ClaimLoadTail, ClaimLoadSeq, WritePayload,
           WriteHeader, StoreSeq, AdvanceLoadCommit, AdvanceLoadTail, AdvanceLoadSeq,
           DequeueLoadHead, DequeueLoadCommit, DequeueConfirm, DequeueReadFields, Handle, Release

(* initRing establishes the invariant.                                     *)
LEMMA RingInvInit ==
  ASSUME Capacity >= 2, Init
  PROVE  RingInv
  <1> USE SlotInRange, RingAssumption
  <1>1. TypeOK /\ CursorOrder
    BY TypeInit DEF Init, CursorOrder
  <1>2. \A w \in Nat : seq[Slot(w)] = Slot(w) /\ Slot(w) <= w
    <2> SUFFICES ASSUME NEW w \in Nat PROVE seq[Slot(w)] = Slot(w) /\ Slot(w) <= w
      OBVIOUS
    <2>1. w \in Slots => Slot(w) = w
      BY SlotOfCell
    <2>2. w \notin Slots => w >= Capacity
      BY DEF Slots
    <2> QED BY <2>1, <2>2 DEF Init, Slots
  <1>3. SeqBounds
    <2>1. tail = 0 /\ commit = 0 /\ head = 0 /\ \A i \in Slots : seq[i] = i
      BY DEF Init
    <2>2. \A i \in Slots : Slot(seq[i]) = i
      BY <2>1, SlotOfCell
    <2>3. \A w \in Nat : Slot(w) \in Nat /\ seq[Slot(w)] <= w /\ seq[Slot(w)] <= w + 1
      BY <1>2 DEF Slots
    <2> QED BY <2>1, <2>2, <2>3 DEF SeqBounds
  <1>4. Ownership /\ StaleViews /\ DequeueNeverMisses
    BY DEF Init, Ownership, Owns, Holds, StaleViews, DequeueNeverMisses
  <1>5. ClaimsOwned /\ TakesHeld /\ CommitHelped
    BY DEF Init, ClaimsOwned, TakesHeld, CommitHelped
  <1>6. \A w \in Nat : seq[Slot(w)] # w + 1
    BY <1>2 DEF Slots
  <1>7. Contents
    BY <1>6 DEF Init, Contents
  <1>8. ExactlyOnce
    BY DEF Init, ExactlyOnce, Positions
  <1> QED BY <1>1, <1>3, <1>4, <1>5, <1>7, <1>8 DEF RingInv

(* Every step preserves the invariant.                                     *)
LEMMA RingInvStep ==
  ASSUME Capacity >= 2, RingInv, [Next]_vars
  PROVE  RingInv'
  BY TypeStep, CursorStep, SeqBoundsStep, OwnershipStep, StaleViewsStep, MissStep,
     ClaimsOwnedStep, TakesHeldStep, CommitHelpedStep, ContentsStep, ExactlyOnceStep
     DEF RingInv

(* The inductive invariant holds in every state the ring can reach.        *)
THEOREM RingInvariant ==
  ASSUME Capacity >= 2
  PROVE  Spec => []RingInv
  <1>1. Init => RingInv
    BY RingInvInit
  <1>2. RingInv /\ [Next]_vars => RingInv'
    BY RingInvStep
  <1> QED BY <1>1, <1>2, PTL DEF Spec

(* Type correctness needs no bound on the capacity. *)
THEOREM TypeCorrect == Spec => []TypeOK
  <1>1. TypeOK /\ [Next]_vars => TypeOK'
    BY TypeStep
  <1> QED BY TypeInit, <1>1, PTL DEF Spec

(* head <= commit <= tail at all times (ring.go:32).                       *)
THEOREM CursorsOrdered ==
  ASSUME Capacity >= 2
  PROVE  Spec => []CursorOrder
  <1>1. RingInv => CursorOrder
    BY DEF RingInv
  <1> QED BY RingInvariant, <1>1, PTL

(* No two threads use one cell's plain fields at the same time.            *)
THEOREM NoRaces ==
  ASSUME Capacity >= 2
  PROVE  Spec => []ExclusiveCells
  <1>1. RingInv => ExclusiveCells
    <2> SUFFICES ASSUME RingInv PROVE ExclusiveCells
      OBVIOUS
    <2> USE DEF RingInv, Ownership, TypeOK
    <2>1. ASSUME NEW p \in Producers, NEW q \in Producers, p # q, Owns(p), Owns(q)
          PROVE  Slot(ppos[p]) # Slot(ppos[q])
      BY <2>1
    <2>2. ASSUME NEW c \in Consumers, NEW d \in Consumers, c # d, Holds(c), Holds(d)
          PROVE  Slot(cpos[c]) # Slot(cpos[d])
      BY <2>2
    <2>3. ASSUME NEW p \in Producers, NEW c \in Consumers, Owns(p), Holds(c)
          PROVE  Slot(ppos[p]) # Slot(cpos[c])
      BY <2>3, SlotGap, RingAssumption
    <2> QED BY <2>1, <2>2, <2>3 DEF ExclusiveCells
  <1> QED BY RingInvariant, <1>1, PTL

(* The branch of dequeue the code calls structurally unreachable is (ring.go:266). *)
THEOREM NoMiss ==
  ASSUME Capacity >= 2
  PROVE  Spec => []DequeueNeverMisses
  <1>1. RingInv => DequeueNeverMisses
    BY DEF RingInv
  <1> QED BY RingInvariant, <1>1, PTL

(* A handler sees one complete record, the one at the position it took.    *)
THEOREM IntactDelivery ==
  ASSUME Capacity >= 2
  PROVE  Spec => []DeliveredIntact
  <1>1. RingInv => DeliveredIntact
    BY DEF RingInv, Contents, DeliveredIntact
  <1> QED BY RingInvariant, <1>1, PTL

(* Every dequeued position is handled once and no other position ever is.  *)
THEOREM ExactlyOnceDelivery ==
  ASSUME Capacity >= 2
  PROVE  Spec => []ExactlyOnce
  <1>1. RingInv => ExactlyOnce
    BY DEF RingInv
  <1> QED BY RingInvariant, <1>1, PTL

(* advanceCommit leaves no published position behind (ring.go:215-218).    *)
THEOREM CommitNotStranded ==
  ASSUME Capacity >= 2
  PROVE  Spec => []NoStrandedCommit
  <1>1. RingInv => NoStrandedCommit
    <2> SUFFICES ASSUME RingInv,
                        \A p \in Producers : ppc[p] \in {"idle", "retry", "turn", "cas"},
                        commit < tail
                 PROVE  FALSE
      BY DEF NoStrandedCommit, RingInv, CursorOrder, TypeOK
    <2>1. seq[Slot(commit)] \in Nat
      BY SlotInRange DEF RingInv, TypeOK
    <2>2. seq[Slot(commit)] = commit \/ seq[Slot(commit)] = commit + 1
      <3>1. seq[Slot(commit)] >= commit
        BY DEF RingInv, SeqBounds, TypeOK
      <3>2. seq[Slot(commit)] <= commit + 1
        BY DEF RingInv, SeqBounds, CursorOrder, TypeOK
      <3> QED BY <2>1, <3>1, <3>2 DEF RingInv, TypeOK
    <2>3. seq[Slot(commit)] # commit
      BY DEF RingInv, ClaimsOwned, Owns, TypeOK
    <2>4. seq[Slot(commit)] # commit + 1
      BY DEF RingInv, CommitHelped, Helps
    <2> QED BY <2>2, <2>3, <2>4
  <1> QED BY RingInvariant, <1>1, PTL

(* Sequence words never move backwards (ring.go:24).                       *)
THEOREM SeqOnlyForward ==
  ASSUME Capacity >= 2
  PROVE  Spec => SeqForward
  <1>1. RingInv /\ [Next]_vars => [\A i \in Slots : seq'[i] >= seq[i]]_vars
    <2> SUFFICES ASSUME RingInv, [Next]_vars PROVE \A i \in Slots : seq'[i] >= seq[i]
      OBVIOUS
    <2> USE DEF RingInv, TypeOK, cells, prodVars, consVars
    <2>1. CASE seq' = seq
      BY <2>1
    <2>2. ASSUME NEW p \in Producers, StoreSeq(p) PROVE \A i \in Slots : seq'[i] >= seq[i]
      BY <2>2 DEF StoreSeq, Ownership, Owns
    <2>3. ASSUME NEW c \in Consumers, Release(c) PROVE \A i \in Slots : seq'[i] >= seq[i]
      BY <2>3, RingAssumption DEF Release, Ownership, Holds
    <2> QED
      BY <2>1, <2>2, <2>3
         DEF Next, vars, ProducerStep, ConsumerStep, ClaimLoadTail, ClaimLoadSeq, ClaimCas,
             WritePayload, WriteHeader, AdvanceLoadCommit, AdvanceLoadTail, AdvanceLoadSeq,
             AdvanceCas, DequeueLoadHead, DequeueLoadCommit, DequeueCas, DequeueConfirm,
             DequeueReadFields, Handle
  <1> QED BY RingInvariant, <1>1, PTL DEF Spec, SeqForward
(* claim reports a full ring only when it is full (ring.go:141-143).       *)
THEOREM SaturationReal ==
  ASSUME Capacity >= 2
  PROVE  Spec => SaturationIsReal
  <1>1. RingInv /\ [Next]_vars =>
          [\A p \in Producers :
             ppc[p] = "turn" /\ ppc'[p] = "idle" => ppos[p] = tail /\ RingFull]_vars
    <2> SUFFICES ASSUME RingInv, [Next]_vars, NEW p \in Producers,
                        ppc[p] = "turn", ppc'[p] = "idle"
                 PROVE  ppos[p] = tail /\ RingFull
      OBVIOUS
    <2>1. seq[Slot(ppos[p])] < ppos[p]
      <3> USE DEF RingInv, TypeOK, PGoto, prodVars, consVars
      <3>1. ASSUME NEW q \in Producers, ProducerStep(q) PROVE q = p
        BY <3>1 DEF ProducerStep, ClaimLoadTail, ClaimLoadSeq, ClaimCas, WritePayload,
                    WriteHeader, StoreSeq, AdvanceLoadCommit, AdvanceLoadTail,
                    AdvanceLoadSeq, AdvanceCas
      <3>2. ASSUME NEW c \in Consumers, ConsumerStep(c) PROVE FALSE
        BY <3>2 DEF ConsumerStep, DequeueLoadHead, DequeueLoadCommit, DequeueCas,
                    DequeueConfirm, DequeueReadFields, Handle, Release
      <3>3. ProducerStep(p)
        BY <3>1, <3>2 DEF Next, vars
      <3>4. ClaimLoadSeq(p)
        BY <3>3 DEF ProducerStep, ClaimLoadTail, ClaimCas, WritePayload,
                    WriteHeader, StoreSeq, AdvanceLoadCommit, AdvanceLoadTail,
                    AdvanceLoadSeq, AdvanceCas
      <3>5. seq[Slot(ppos[p])] - ppos[p] < 0
        BY <3>4 DEF ClaimLoadSeq
      <3> QED BY <3>5, SlotInRange
    <2>2. ppos[p] \in Nat /\ Slot(ppos[p]) \in Slots /\ seq[Slot(ppos[p])] \in Nat
            /\ tail \in Nat /\ head \in Nat
      BY SlotInRange DEF RingInv, TypeOK
    <2>3. ppos[p] = tail
      <3>1. ppos[p] >= tail
        BY <2>1, <2>2 DEF RingInv, SeqBounds
      <3>2. ppos[p] <= tail
        BY DEF RingInv, StaleViews
      <3> QED BY <3>1, <3>2, <2>2
    (* The word of the cell stands at most one past the previous lap. *)
    <2>4. seq[Slot(tail)] < tail
      BY <2>1, <2>3
    <2>5. seq[Slot(tail)] <= tail - Capacity + 1 /\ tail - Capacity \in Nat
      <3>1. CASE Slot(seq[Slot(tail)]) = Slot(tail)
        <4>1. seq[Slot(tail)] + Capacity <= tail
          BY <2>2, <2>3, <2>4, <3>1, SlotGap
        <4> QED BY <4>1, <2>2, <2>3, RingAssumption
      <3>2. ASSUME NEW w \in Nat, seq[Slot(tail)] = w + 1, Slot(w) = Slot(tail)
            PROVE  seq[Slot(tail)] <= tail - Capacity + 1 /\ tail - Capacity \in Nat
        <4>1. w + Capacity <= tail
          BY <2>2, <2>3, <2>4, <3>2, SlotGap
        <4> QED BY <4>1, <3>2, <2>2, RingAssumption
      <3> QED BY <3>1, <3>2, <2>2, <2>3 DEF RingInv, SeqBounds
    <2>6. Slot(tail - Capacity) = Slot(tail)
      <3>1. Slot((tail - Capacity) + Capacity) = Slot(tail - Capacity)
        BY <2>5, SlotNextLap
      <3> QED BY <3>1, <2>2, RingAssumption
    <2>7. RingFull
      BY <2>2, <2>5, <2>6, RingAssumption DEF RingFull, RingInv, TakesHeld
    <2> QED BY <2>3, <2>7
  <1> QED BY RingInvariant, <1>1, PTL DEF Spec, SaturationIsReal
-----------------------------------------------------------------------------
(* Refinement *)

(* A fresh ring is an empty log.                                           *)
LEMMA LogInitially ==
  ASSUME Init PROVE Log!LogInit
  <1>1. tail = 0 /\ commit = 0 /\ head = 0
    BY DEF Init
  <1>2. 0 .. tail - 1 = {}
    BY <1>1
  <1> QED BY <1>1, <1>2 DEF Log!LogInit, Published, Freed

(* The CAS in claim hands out a position whose cell was freed.             *)
LEMMA LogClaimStep ==
  ASSUME Capacity >= 2, RingInv, NEW p \in Producers, ClaimCas(p)
  PROVE  Log!Claim \/ UNCHANGED Log!logVars
  <1> USE RingAssumption DEF RingInv, TypeOK, CursorOrder, cells, prodVars, consVars
  <1>1. CASE tail # ppos[p]
    BY <1>1 DEF ClaimCas, Log!logVars, Published, Freed
  <1>2. CASE tail = ppos[p]
    <2>1. tail' = tail + 1 /\ commit' = commit /\ head' = head /\ seq' = seq
      BY <1>2 DEF ClaimCas
    <2>2. seq[Slot(tail)] = tail
      <3>1. seq[Slot(tail)] \in Nat
        BY SlotInRange
      <3>2. seq[Slot(tail)] >= tail
        BY <1>2 DEF ClaimCas, StaleViews
      <3>3. seq[Slot(tail)] <= tail
        BY DEF SeqBounds
      <3> QED BY <3>1, <3>2, <3>3
    <2>3. Published' = Published /\ Freed' = Freed
      <3>1. 0 .. tail' - 1 = (0 .. tail - 1) \cup {tail}
        BY <2>1
      <3>2. ~(seq[Slot(tail)] > tail) /\ ~(seq[Slot(tail)] >= tail + Capacity)
        BY <2>2
      <3> QED BY <2>1, <3>1, <3>2 DEF Published, Freed
    <2>4. ASSUME tail >= Capacity PROVE tail - Capacity \in Freed
      <3>1. tail - Capacity \in Nat /\ tail - Capacity \in 0 .. tail - 1
              /\ (tail - Capacity) + Capacity = tail
        BY <2>4
      <3>2. Slot(tail - Capacity) = Slot(tail)
        BY <3>1, SlotNextLap
      <3> QED BY <3>1, <3>2, <2>2 DEF Freed
    <2> QED BY <2>1, <2>3, <2>4 DEF Log!Claim
  <1> QED BY <1>1, <1>2

(* The release store of publish publishes the producer's own position.     *)
LEMMA LogPublishStep ==
  ASSUME Capacity >= 2, RingInv, NEW p \in Producers, StoreSeq(p)
  PROVE  Log!Publish(ppos[p]) /\ ppos[p] \in 0 .. tail - 1
  <1> USE RingAssumption DEF RingInv, TypeOK, CursorOrder, cells, prodVars, consVars
  <1>1. commit <= ppos[p] /\ ppos[p] < tail /\ seq[Slot(ppos[p])] = ppos[p] /\ ppos[p] \in Nat
    BY DEF StoreSeq, Ownership, Owns
  <1>2. tail' = tail /\ commit' = commit /\ head' = head
          /\ seq' = [seq EXCEPT ![Slot(ppos[p])] = ppos[p] + 1]
    BY DEF StoreSeq
  <1>3. ASSUME NEW w \in 0 .. tail - 1, Slot(w) = Slot(ppos[p])
        PROVE  w <= ppos[p]
    BY <1>1, <1>3 DEF SeqBounds
  <1>4. ASSUME NEW w \in 0 .. tail - 1
        PROVE  /\ seq'[Slot(w)] > w <=> seq[Slot(w)] > w \/ w = ppos[p]
               /\ seq'[Slot(w)] >= w + Capacity <=> seq[Slot(w)] >= w + Capacity
    <2>1. CASE Slot(w) # Slot(ppos[p])
      BY <1>2, <2>1, SlotInRange
    <2>2. CASE Slot(w) = Slot(ppos[p])
      <3>1. seq'[Slot(w)] = ppos[p] + 1 /\ seq[Slot(w)] = ppos[p]
        BY <1>1, <1>2, <2>2, SlotInRange
      <3>2. w = ppos[p] \/ w + Capacity <= ppos[p]
        <4>1. w \in Nat /\ w <= ppos[p]
          BY <1>3, <2>2
        <4>2. CASE w < ppos[p]
          BY <4>1, <4>2, <1>1, <2>2, SlotGap
        <4> QED BY <4>1, <4>2, <1>1
      <3> QED BY <3>1, <3>2, <1>1
    <2> QED BY <2>1, <2>2
  <1>5. ppos[p] \in (0 .. tail - 1) \ Published
    BY <1>1 DEF Published
  <1>6. Published' = Published \cup {ppos[p]} /\ Freed' = Freed
    BY <1>1, <1>2, <1>4 DEF Published, Freed
  <1> QED BY <1>2, <1>5, <1>6 DEF Log!Publish

(* The CAS in advanceCommit commits a published position.                  *)
LEMMA LogCommitStep ==
  ASSUME Capacity >= 2, RingInv, NEW p \in Producers, AdvanceCas(p)
  PROVE  Log!Commit \/ UNCHANGED Log!logVars
  <1> USE RingAssumption DEF RingInv, TypeOK, CursorOrder, cells, prodVars, consVars
  <1>1. CASE commit # pcom[p]
    BY <1>1 DEF AdvanceCas, Log!logVars, Published, Freed
  <1>2. CASE commit = pcom[p]
    <2>1. tail' = tail /\ commit' = commit + 1 /\ head' = head /\ seq' = seq
      BY <1>2 DEF AdvanceCas
    <2>2. seq[Slot(commit)] > commit /\ seq[Slot(commit)] \in Nat
      BY <1>2, SlotInRange DEF AdvanceCas, StaleViews
    <2>3. commit \in 0 .. tail - 1
      BY <2>2 DEF SeqBounds
    <2> QED BY <2>1, <2>2, <2>3 DEF Log!Commit, Published, Freed
  <1> QED BY <1>1, <1>2

(* The CAS in dequeue takes a committed position.                          *)
LEMMA LogTakeStep ==
  ASSUME Capacity >= 2, RingInv, NEW c \in Consumers, DequeueCas(c)
  PROVE  Log!Take \/ UNCHANGED Log!logVars
  <1> USE DEF RingInv, TypeOK, cells, prodVars, consVars
  <1>1. CASE head # cpos[c]
    BY <1>1 DEF DequeueCas, Log!logVars, Published, Freed
  <1>2. CASE head = cpos[c]
    BY <1>2 DEF DequeueCas, StaleViews, Log!Take, Published, Freed
  <1> QED BY <1>1, <1>2

(* release frees the position the consumer took.                           *)
LEMMA LogFreeStep ==
  ASSUME Capacity >= 2, RingInv, NEW c \in Consumers, Release(c)
  PROVE  Log!Free(cpos[c]) /\ cpos[c] \in 0 .. head - 1
  <1> USE RingAssumption DEF RingInv, TypeOK, CursorOrder, cells, prodVars, consVars
  <1>1. cpos[c] < head /\ seq[Slot(cpos[c])] = cpos[c] + 1 /\ cpos[c] \in Nat
    BY DEF Release, Ownership, Holds
  <1>2. tail' = tail /\ commit' = commit /\ head' = head
          /\ seq' = [seq EXCEPT ![Slot(cpos[c])] = cpos[c] + Capacity]
    BY DEF Release
  <1>3. ASSUME NEW w \in 0 .. tail - 1
        PROVE  /\ seq'[Slot(w)] > w <=> seq[Slot(w)] > w
               /\ seq'[Slot(w)] >= w + Capacity <=> seq[Slot(w)] >= w + Capacity \/ w = cpos[c]
    <2>1. CASE Slot(w) # Slot(cpos[c])
      BY <1>2, <2>1, SlotInRange, <1>1
    <2>2. CASE Slot(w) = Slot(cpos[c])
      <3>1. seq'[Slot(w)] = cpos[c] + Capacity /\ seq[Slot(w)] = cpos[c] + 1
        BY <1>1, <1>2, <2>2, SlotInRange
      <3>2. w <= cpos[c] + 1
        BY <3>1 DEF SeqBounds
      <3>3. w = cpos[c] \/ w + Capacity <= cpos[c]
        <4>1. w \in Nat
          OBVIOUS
        <4>2. CASE w < cpos[c]
          BY <4>1, <4>2, <1>1, <2>2, SlotGap
        <4>3. CASE w > cpos[c]
          <5>1. cpos[c] + Capacity <= w
            BY <4>1, <4>3, <1>1, <2>2, SlotGap
          <5> QED BY <5>1, <3>2, <4>1, <1>1
        <4> QED BY <4>1, <4>2, <4>3, <1>1
      <3> QED BY <3>1, <3>3, <1>1
    <2> QED BY <2>1, <2>2
  <1>4. cpos[c] \in (0 .. head - 1) \ Freed
    BY <1>1 DEF Freed
  <1>5. Published' = Published /\ Freed' = Freed \cup {cpos[c]}
    BY <1>1, <1>2, <1>3 DEF Published, Freed
  <1> QED BY <1>2, <1>4, <1>5 DEF Log!Free

(* Every step of the ring is a step of the log or leaves the log alone.    *)
LEMMA LogStep ==
  ASSUME Capacity >= 2, RingInv, [Next]_vars
  PROVE  [Log!LogNext]_Log!logVars
  <1>1. CASE UNCHANGED <<tail, commit, head, seq>>
    BY <1>1 DEF Log!logVars, Published, Freed
  <1>2. ASSUME NEW p \in Producers, ClaimCas(p) PROVE [Log!LogNext]_Log!logVars
    BY <1>2, LogClaimStep DEF Log!LogNext
  <1>3. ASSUME NEW p \in Producers, StoreSeq(p) PROVE [Log!LogNext]_Log!logVars
    BY <1>3, LogPublishStep DEF Log!LogNext
  <1>4. ASSUME NEW p \in Producers, AdvanceCas(p) PROVE [Log!LogNext]_Log!logVars
    BY <1>4, LogCommitStep DEF Log!LogNext
  <1>5. ASSUME NEW c \in Consumers, DequeueCas(c) PROVE [Log!LogNext]_Log!logVars
    BY <1>5, LogTakeStep DEF Log!LogNext
  <1>6. ASSUME NEW c \in Consumers, Release(c) PROVE [Log!LogNext]_Log!logVars
    BY <1>6, LogFreeStep DEF Log!LogNext
  <1> QED
    BY <1>1, <1>2, <1>3, <1>4, <1>5, <1>6
       DEF Next, vars, cells, ProducerStep, ConsumerStep, ClaimLoadTail, ClaimLoadSeq,
           WritePayload, WriteHeader, AdvanceLoadCommit, AdvanceLoadTail, AdvanceLoadSeq,
           DequeueLoadHead, DequeueLoadCommit, DequeueConfirm, DequeueReadFields, Handle

(* The ring implements the bounded commit log of CommitLog.                *)
THEOREM RingImplementsLog ==
  ASSUME Capacity >= 2
  PROVE  Spec => ImplementsLog
  <1>1. Init => Log!LogInit
    BY LogInitially
  <1>2. RingInv /\ [Next]_vars => [Log!LogNext]_Log!logVars
    BY LogStep
  <1> QED BY RingInvariant, <1>1, <1>2, PTL DEF Spec, ImplementsLog, Log!LogSafety
=============================================================================
