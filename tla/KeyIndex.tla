------------------------------ MODULE KeyIndex ------------------------------
(***************************************************************************)
(* The key index of one shard (Vautlage/index.go) with the part of publish *)
(* that fills a ring cell and then points the index at it.  Every atomic   *)
(* access of upsert, updateMonotonic, isDead and lookup is one action.     *)
(*                                                                         *)
(* A record is identified by its ticket: the payload word of a cell holds  *)
(* the ticket of the record whose bytes it carries.  The length, epoch,    *)
(* timestamp and checksum words are left out, and so are the counters of   *)
(* probe steps, overflows and reclaims; the live counter is kept.          *)
(***************************************************************************)
EXTENDS Integers, FiniteSets, FiniteSetsExt

CONSTANTS
    Producers,   \* goroutines calling Publish on this shard
    Readers,     \* goroutines calling Lookup on this shard
    Keys,        \* keys routed to this shard
    KeysOf,      \* KeysOf[p]: the keys producer p publishes
    Home,        \* Home[k] = hashKey(k) & mask
    Buckets,     \* number of buckets
    MaxProbe,    \* maxProbe
    Capacity,    \* cells of the shard's ring
    MaxTickets   \* bound: tickets issued in one behaviour

NoKey == 0

(* Key 0 is refused by Publish and Lookup: it marks an empty bucket. *)
ASSUME KeyIndexAssumption ==
    /\ IsFiniteSet(Producers)
    /\ Keys \subseteq Nat \ {NoKey}
    /\ KeysOf \in [Producers -> SUBSET Keys]
    /\ Buckets \in Nat \ {0}
    /\ Home \in [Keys -> 0 .. Buckets - 1]
    /\ MaxProbe \in Nat \ {0}
    /\ Capacity \in Nat \ {0, 1}
    /\ MaxTickets \in Nat

VARIABLES
    bucket,    \* key, ticket and slot words of every bucket
    live,      \* occupied buckets, as counted
    cell,      \* payload, ticket, key and flag words of every ring cell
    tail,      \* positions claimed
    issued,    \* tickets issued
    pc, call,  \* producer: next step, locals of publish and upsert
    rpc, look, \* reader: next step, locals of lookup
    record,    \* history: record[t] is where ticket t was published
    floor      \* history: the newest completed publish of the key when Lookup was called

readVars == <<rpc, look, floor>>
matrix == <<cell, tail, issued, record>>
pubVars == <<bucket, live, matrix, pc, call>>
vars == <<pubVars, readVars>>

BucketIds == 0 .. Buckets - 1
Slots == 0 .. Capacity - 1
Tickets == 1 .. MaxTickets
Nowhere == [key |-> NoKey, slot |-> 0]

(* The record being published; the loop counters of upsert; the word       *)
(* loaded before a CAS; the slot loaded by isDead.                         *)
NoCall == [key |-> NoKey, ticket |-> 0, pos |-> 0, probe |-> 0, attempt |-> 0, cur |-> 0, dead |-> 0]

(* The key asked for, the probe, its slot, rec.Ticket, rec.Payload's record *)
NoLook == [key |-> NoKey, probe |-> 0, slot |-> 0, ticket |-> 0, pay |-> 0]

(* The bucket that probe n of key k looks at. *)
Bucket(k, n) == (Home[k] + n) % Buckets
MyBucket(p) == Bucket(call[p].key, call[p].probe)
MySlot(p) == call[p].pos % Capacity

(* initIndex and initRing zero every word. *)
Init ==
    /\ bucket = [b \in BucketIds |-> [key |-> NoKey, ticket |-> 0, slot |-> 0]]
    /\ cell = [s \in Slots |-> [pay |-> 0, ticket |-> 0, key |-> NoKey, flag |-> FALSE]]
    /\ live = 0 /\ tail = 0 /\ issued = 0
    /\ pc = [p \in Producers |-> "idle"] /\ call = [p \in Producers |-> NoCall]
    /\ rpc = [r \in Readers |-> "idle"] /\ look = [r \in Readers |-> NoLook]
    /\ record = [t \in Tickets |-> Nowhere]
    /\ floor = [r \in Readers |-> 0]

-----------------------------------------------------------------------------
(* Steps of a call: it returns, jumps, loads a word, moves to a bucket,    *)
(* stores a word of its cell or of its bucket.                             *)

Goto(p, label) == pc' = [pc EXCEPT ![p] = label]
Return(p) == Goto(p, "idle") /\ call' = [call EXCEPT ![p] = NoCall]
Jump(p, label) == Goto(p, label) /\ UNCHANGED call
Load(p, label, v) == Goto(p, label) /\ call' = [call EXCEPT ![p].cur = v]
Probe(p, label, n) ==
    Goto(p, label) /\ call' = [call EXCEPT ![p].probe = n, ![p].cur = 0, ![p].dead = 0]
StoreCell(p, word, v) ==
    /\ cell' = [cell EXCEPT ![MySlot(p)][word] = v]
    /\ UNCHANGED <<bucket, live, tail, issued, record>>
StoreBucket(p, word, v) ==
    /\ bucket' = [bucket EXCEPT ![MyBucket(p)][word] = v]
    /\ UNCHANGED <<live, matrix>>

(* CAS of a bucket's word from old to new. *)
BucketCas(p, word, old, new, won, lost) ==
    IF bucket[MyBucket(p)][word] = old
    THEN StoreBucket(p, word, new) /\ won
    ELSE UNCHANGED <<bucket, live, matrix>> /\ lost

(* ErrIndexFull, which publish ignores, after the last bucket. *)
NextOfScan(p) ==
    IF call[p].probe + 1 < MaxProbe THEN Probe(p, "scan", call[p].probe + 1) ELSE Return(p)

(* The table changed: pass 1 runs once more, a second change gives up. *)
Retry(p) ==
    IF call[p].attempt = 0
    THEN Goto(p, "find") /\ call' = [call EXCEPT ![p].attempt = 1, ![p].probe = 0]
    ELSE Return(p)

(* The next bucket of pass 1, or what comes after its last one. *)
NextOfFind(p) ==
    IF call[p].probe + 1 < MaxProbe THEN Probe(p, "find", call[p].probe + 1)
                                    ELSE Probe(p, "scan", 0)

-----------------------------------------------------------------------------
(* Plausible mistakes: each stands in for the action it is named after.    *)

(* Reclamation folded into pass 1: the first dead bucket is taken. *)
BadFindReclaims(p) ==
    LET k == bucket[MyBucket(p)].key IN
    /\ pc[p] = "find"
    /\ CASE k = NoKey       -> Jump(p, "insert")
         [] k = call[p].key -> Jump(p, "update")
         [] OTHER           -> Load(p, "deadSlot", k)
    /\ UNCHANGED <<bucket, live, matrix>>

(* The position is stored where the slot belongs. *)
BadUpdatePos(p) == pc[p] = "updateSlot" /\ StoreBucket(p, "slot", call[p].pos) /\ Return(p)

(* The ticket moves on and the slot stays. *)
BadUpdateNoSlot(p) == pc[p] = "updateSlot" /\ Return(p) /\ UNCHANGED <<bucket, live, matrix>>

(* A dead bucket is emptied, and pass 1 runs again. *)
BadReclaimClear(p) ==
    /\ pc[p] = "reclaim"
    /\ BucketCas(p, "key", call[p].cur, NoKey, Retry(p), NextOfScan(p))

(* A reclaimed bucket is counted as a new one. *)
BadReclaimCounted(p) ==
    /\ pc[p] = "reclaimTicket"
    /\ bucket' = [bucket EXCEPT ![MyBucket(p)].ticket = call[p].ticket]
    /\ live' = live + 1
    /\ Return(p)
    /\ UNCHANGED matrix

(* The key word is not compared again after the copy. *)
BadCheckAgain(r) ==
    /\ rpc[r] = "again"
    /\ rpc' = [rpc EXCEPT ![r] = "found"]
    /\ UNCHANGED <<look, floor>>

-----------------------------------------------------------------------------
(* publish: ticket, claim, the stores into the cell, the release store.    *)

TakeTicket(p, k) ==
    /\ pc[p] = "idle"
    /\ issued < MaxTickets
    /\ k \in KeysOf[p]
    /\ issued' = issued + 1
    /\ call' = [call EXCEPT ![p].ticket = issued + 1, ![p].key = k]
    /\ Goto(p, "claim")
    /\ UNCHANGED <<bucket, live, cell, tail, record>>

(* A consumer may have taken and released every committed position, so a   *)
(* cell can be claimed again once all positions up to the one it served    *)
(* last are published (CommitLog).                                         *)
Claimable ==
    \A q \in Producers : pc[q] \in {"payload", "ticket", "key", "flags", "store"}
                            => call[q].pos > tail - Capacity

ClaimCell(p) ==
    /\ pc[p] = "claim"
    /\ Claimable
    /\ call' = [call EXCEPT ![p].pos = tail]
    /\ tail' = tail + 1
    /\ Goto(p, "payload")
    /\ UNCHANGED <<bucket, live, cell, issued, record>>

(* ErrShardFull: the ticket is lost.  Undrained, the ring is full. *)
ClaimFull(p) ==
    /\ pc[p] = "claim"
    /\ tail >= Capacity
    /\ Return(p)
    /\ UNCHANGED <<bucket, live, matrix>>

WritePayload(p) == pc[p] = "payload" /\ StoreCell(p, "pay", call[p].ticket) /\ Jump(p, "ticket")
WriteTicket(p) == pc[p] = "ticket" /\ StoreCell(p, "ticket", call[p].ticket) /\ Jump(p, "key")
WriteKey(p) == pc[p] = "key" /\ StoreCell(p, "key", call[p].key) /\ Jump(p, "flags")

(* FlagCommitted is set; no code ever clears it. *)
WriteFlags(p) == pc[p] = "flags" /\ StoreCell(p, "flag", TRUE) /\ Jump(p, "store")

StoreSeq(p) ==
    /\ pc[p] = "store"
    /\ record' = [record EXCEPT ![call[p].ticket] = [key |-> call[p].key, slot |-> MySlot(p)]]
    /\ Jump(p, "find")
    /\ UNCHANGED <<bucket, live, cell, tail, issued>>

-----------------------------------------------------------------------------
(* upsert, pass 1: find the key or an empty bucket.                        *)

FindLoad(p) ==
    LET k == bucket[MyBucket(p)].key IN
    /\ pc[p] = "find"
    /\ CASE k = NoKey       -> Jump(p, "insert")
         [] k = call[p].key -> Jump(p, "update")
         [] OTHER           -> NextOfFind(p)
    /\ UNCHANGED <<bucket, live, matrix>>

InsertCas(p) ==
    /\ pc[p] = "insert"
    /\ BucketCas(p, "key", NoKey, call[p].key, Jump(p, "insertSlot"), Jump(p, "lost"))

(* Lost the race: the winner may have inserted this very key. *)
LostReload(p) ==
    /\ pc[p] = "lost"
    /\ IF bucket[MyBucket(p)].key = call[p].key THEN Jump(p, "update") ELSE NextOfFind(p)
    /\ UNCHANGED <<bucket, live, matrix>>

(* Slot before ticket: a reader takes ticket 0 for a miss. *)
InsertSlot(p) ==
    pc[p] = "insertSlot" /\ StoreBucket(p, "slot", MySlot(p)) /\ Jump(p, "insertTicket")
InsertTicket(p) ==
    pc[p] = "insertTicket" /\ StoreBucket(p, "ticket", call[p].ticket) /\ Jump(p, "count")

CountLive(p) ==
    /\ pc[p] = "count"
    /\ live' = live + 1
    /\ Return(p)
    /\ UNCHANGED <<bucket, matrix>>

-----------------------------------------------------------------------------
(* updateMonotonic: the ticket by CAS, then the slot.                      *)

UpdateLoad(p) ==
    LET t == bucket[MyBucket(p)].ticket IN
    /\ pc[p] = "update"
    /\ IF t >= call[p].ticket THEN Return(p) ELSE Load(p, "updateCas", t)
    /\ UNCHANGED <<bucket, live, matrix>>

UpdateCas(p) ==
    /\ pc[p] = "updateCas"
    /\ BucketCas(p, "ticket", call[p].cur, call[p].ticket,
                 Load(p, "updateSlot", 0), Load(p, "update", 0))

UpdateSlot(p) == pc[p] = "updateSlot" /\ StoreBucket(p, "slot", MySlot(p)) /\ Return(p)

-----------------------------------------------------------------------------
(* upsert, pass 2: recycle the first dead bucket of the chain.             *)

ScanLoad(p) ==
    LET k == bucket[MyBucket(p)].key IN
    /\ pc[p] = "scan"
    /\ IF k \in {NoKey, call[p].key} THEN Retry(p) ELSE Load(p, "deadSlot", k)
    /\ UNCHANGED <<bucket, live, matrix>>

(* isDead: the bucket's slot, then that cell's key.  A slot is the low     *)
(* part of a position, always below the capacity.                          *)
DeadSlot(p) ==
    /\ pc[p] = "deadSlot"
    /\ call' = [call EXCEPT ![p].dead = bucket[MyBucket(p)].slot]
    /\ Goto(p, "deadKey")
    /\ UNCHANGED <<bucket, live, matrix>>

DeadKey(p) ==
    /\ pc[p] = "deadKey"
    /\ IF cell[call[p].dead].key # call[p].cur THEN Jump(p, "reclaim") ELSE NextOfScan(p)
    /\ UNCHANGED <<bucket, live, matrix>>

ReclaimCas(p) ==
    /\ pc[p] = "reclaim"
    /\ BucketCas(p, "key", call[p].cur, call[p].key, Jump(p, "reclaimSlot"), NextOfScan(p))

ReclaimSlot(p) ==
    pc[p] = "reclaimSlot" /\ StoreBucket(p, "slot", MySlot(p)) /\ Jump(p, "reclaimTicket")
ReclaimTicket(p) ==
    pc[p] = "reclaimTicket" /\ StoreBucket(p, "ticket", call[p].ticket) /\ Return(p)

-----------------------------------------------------------------------------
(* lookup                                                                  *)

RGoto(r, label) == rpc' = [rpc EXCEPT ![r] = label]
RJump(r, label) == RGoto(r, label) /\ UNCHANGED <<look, floor>>
Keep(r, label, word, v) ==
    RGoto(r, label) /\ look' = [look EXCEPT ![r][word] = v] /\ UNCHANGED floor
RBucket(r) == bucket[Bucket(look[r].key, look[r].probe)]
RCell(r) == cell[look[r].slot]

(* The tickets of k that were published, and those whose Publish returned. *)
Published(k) == {t \in Tickets : record[t].key = k}
Completed(k) == Published(k) \ {call[p].ticket : p \in Producers}

Lookup(r, k) ==
    /\ rpc[r] = "idle"
    /\ look' = [look EXCEPT ![r].key = k]
    /\ floor' = [floor EXCEPT ![r] = Max({0} \cup Completed(k))]
    /\ RGoto(r, "key")

(* ErrNotFound, and the caller's next call after either outcome. *)
Reset(r) ==
    /\ RGoto(r, "idle")
    /\ look' = [look EXCEPT ![r] = NoLook]
    /\ floor' = [floor EXCEPT ![r] = 0]

(* An empty bucket ends the chain; another key is passed over. *)
ProbeKey(r) ==
    LET k == RBucket(r).key IN
    /\ rpc[r] = "key"
    /\ CASE k = look[r].key -> RJump(r, "ticket")
         [] k \notin {NoKey, look[r].key} /\ look[r].probe + 1 < MaxProbe ->
               Keep(r, "key", "probe", look[r].probe + 1)
         [] OTHER -> Reset(r)

ProbeTicket(r) ==
    rpc[r] = "ticket" /\ IF RBucket(r).ticket = 0 THEN Reset(r) ELSE RJump(r, "slot")

ProbeSlot(r) == rpc[r] = "slot" /\ Keep(r, "check", "slot", RBucket(r).slot)

CheckKey(r) ==
    rpc[r] = "check" /\ IF RCell(r).key # look[r].key THEN Reset(r) ELSE RJump(r, "flags")

CheckFlags(r) == rpc[r] = "flags" /\ IF ~RCell(r).flag THEN Reset(r) ELSE RJump(r, "copy")

CopyTicket(r) == rpc[r] = "copy" /\ Keep(r, "payload", "ticket", RCell(r).ticket)

(* rec.Payload aliases the cell; its bytes are read through it here, at    *)
(* the earliest.                                                           *)
CopyPayload(r) == rpc[r] = "payload" /\ Keep(r, "again", "pay", RCell(r).pay)

CheckAgain(r) ==
    rpc[r] = "again" /\ IF RCell(r).key # look[r].key THEN Reset(r) ELSE RJump(r, "found")

LookupDone(r) == rpc[r] = "found" /\ Reset(r)

-----------------------------------------------------------------------------
PublishStep(p) ==
    /\ \/ \E k \in Keys : TakeTicket(p, k)
       \/ ClaimCell(p) \/ ClaimFull(p) \/ WritePayload(p) \/ WriteTicket(p) \/ WriteKey(p)
       \/ WriteFlags(p) \/ StoreSeq(p)
       \/ FindLoad(p) \/ InsertCas(p) \/ LostReload(p)
       \/ InsertSlot(p) \/ InsertTicket(p) \/ CountLive(p)
       \/ UpdateLoad(p) \/ UpdateCas(p) \/ UpdateSlot(p)
       \/ ScanLoad(p) \/ DeadSlot(p) \/ DeadKey(p)
       \/ ReclaimCas(p) \/ ReclaimSlot(p) \/ ReclaimTicket(p)
    /\ UNCHANGED readVars

LookupStep(r) ==
    /\ \/ \E k \in Keys : Lookup(r, k)
       \/ ProbeKey(r) \/ ProbeTicket(r) \/ ProbeSlot(r) \/ CheckKey(r) \/ CheckFlags(r)
       \/ CopyTicket(r) \/ CopyPayload(r) \/ CheckAgain(r) \/ LookupDone(r)
    /\ UNCHANGED pubVars

Next == (\E p \in Producers : PublishStep(p)) \/ (\E r \in Readers : LookupStep(r))

Spec == Init /\ [][Next]_vars

-----------------------------------------------------------------------------
(* Properties                                                              *)

ProducerPc == {"idle", "claim", "payload", "ticket", "key", "flags", "store", "find",
               "insert", "lost", "insertSlot", "insertTicket", "count", "update",
               "updateCas", "updateSlot", "scan", "deadSlot", "deadKey", "reclaim",
               "reclaimSlot", "reclaimTicket"}
ReaderPc == {"idle", "key", "ticket", "slot", "check", "flags", "copy", "payload",
             "again", "found"}

KeyWords == Keys \cup {NoKey}
TicketWords == 0 .. MaxTickets
BucketWords == [key : KeyWords, ticket : TicketWords, slot : Slots]
CellWords == [pay : TicketWords, ticket : TicketWords, key : KeyWords, flag : BOOLEAN]
Calls == [key : KeyWords, ticket : TicketWords, pos : Nat, probe : 0 .. MaxProbe - 1,
          attempt : 0 .. 1, cur : Nat, dead : Slots]
Looks == [key : KeyWords, probe : 0 .. MaxProbe - 1, slot : Slots,
          ticket : TicketWords, pay : TicketWords]
Places == [key : KeyWords, slot : Slots]

(* Type invariant of the buckets, the cells and the calls' locals.         *)
TypeOK ==
    /\ bucket \in [BucketIds -> BucketWords]
    /\ cell \in [Slots -> CellWords]
    /\ live \in Nat /\ tail \in Nat /\ issued \in TicketWords
    /\ pc \in [Producers -> ProducerPc] /\ call \in [Producers -> Calls]
    /\ rpc \in [Readers -> ReaderPc] /\ look \in [Readers -> Looks]
    /\ record \in [Tickets -> Places]
    /\ floor \in [Readers -> TicketWords]

(* index.go:237-240, "the chain is never broken": between a key's home and *)
(* the bucket that holds it no bucket is empty, so a lookup that stops at  *)
(* an empty bucket has not missed it, whatever upserts and reclaims race.  *)
ChainUnbroken ==
    \A k \in Keys, n \in 0 .. MaxProbe - 1 :
        bucket[Bucket(k, n)].key = k =>
            \E m \in 0 .. n : /\ bucket[Bucket(k, m)].key = k
                             /\ \A i \in 0 .. m : bucket[Bucket(k, i)].key # NoKey

(* The live counter counts the occupied buckets, up to producers between   *)
(* the CAS that took an empty bucket and the add; a reclaim, which keeps   *)
(* the bucket occupied, is not counted again.                              *)
LiveIsExact ==
    live = Cardinality({b \in BucketIds : bucket[b].key # NoKey})
             - Cardinality({p \in Producers : pc[p] \in {"insertSlot", "insertTicket", "count"}})

(* A bucket for every key within the probe limit: pass 2 is never needed.  *)
Roomy == IsFiniteSet(Keys) /\ Cardinality(Keys) <= MaxProbe /\ MaxProbe <= Buckets

(* Key k has one writer at most, or there is room for every key.           *)
Sole(k) == Roomy \/ \A p, q \in Producers : k \in KeysOf[p] \cap KeysOf[q] => p = q

(* index.go:198-201, upsert must not "create two entries for one key",     *)
(* neither by inserting beside a live entry nor by reclaiming a dead       *)
(* bucket in front of it: a key with one writer has one bucket, whatever   *)
(* the writers of other keys insert and reclaim around it.                 *)
OneEntryPerKey ==
    \A b, d \in BucketIds :
        bucket[b].key = bucket[d].key /\ bucket[b].key # NoKey /\ Sole(bucket[b].key) => b = d

(* The same claim for every key, those with several writers too.           *)
NeverTwoEntries ==
    \A b, d \in BucketIds : bucket[b].key = bucket[d].key /\ bucket[b].key # NoKey => b = d

(* index.go:168-171: "an older mutation arriving late on another core can  *)
(* never overwrite a newer one".  No upsert stores its ticket or its slot  *)
(* over the entry of a newer mutation of its key.                          *)
NewestWins ==
    [][\A p \in Producers :
          pc[p] # "idle" /\ pc'[p] # pc[p] =>
             LET entry == bucket[MyBucket(p)] IN
             /\ entry.key = call[p].key
             /\ entry.ticket \in Published(call[p].key)
             /\ entry.ticket > call[p].ticket
             => bucket'[MyBucket(p)] = entry]_vars

(* A reader's rec is one record of the key it asked for: index.go:379-380, *)
(* "If the key still matches, no producer republished this cell underneath *)
(* us and the record is coherent".                                         *)
LookupCoherent ==
    \A r \in Readers : rpc[r] = "found" =>
        /\ look[r].ticket = look[r].pay
        /\ \/ record[look[r].ticket].key = look[r].key
           \/ \E p \in Producers : pc[p] = "store" /\ call[p].ticket = look[r].ticket /\ call[p].key = look[r].key

(* Ticket t has been written to cell s under key k, down to the key word.  *)
Filled(t, k, s) ==
    \/ record[t] = [key |-> k, slot |-> s]
    \/ \E p \in Producers : /\ pc[p] \in {"flags", "store"} /\ MySlot(p) = s
                            /\ call[p].ticket = t /\ call[p].key = k

(* A producer has begun to overwrite cell s and not stored its key yet.    *)
Rewriting(s) == \E p \in Producers : pc[p] \in {"ticket", "key"} /\ MySlot(p) = s

(* index.go:318-322: comparing the cell's key word turns the reuse of a    *)
(* cell "from silent data corruption into an honest ErrNotFound".  What a  *)
(* lookup returns is one record of its key, whatever the cell was used for *)
(* since the bucket was read, unless a producer is inside the cell at the  *)
(* second comparison, or the cell has held the key twice.                  *)
ReuseIsNoticed ==
    [][\A r \in Readers : rpc[r] = "again" /\ rpc'[r] = "found" =>
          LET k == look[r].key
              s == look[r].slot
          IN  \/ look[r].ticket = look[r].pay /\ Filled(look[r].ticket, k, s)
              \/ Rewriting(s)
              \/ \E t, u \in Tickets : t # u /\ Filled(t, k, s) /\ Filled(u, k, s)]_vars

(* index.go:316, "lookup resolves a key to its most recent record".  While *)
(* the ring recycles cells, a lookup of k never returns a record of k that *)
(* is older than the newest one whose Publish had returned when the lookup *)
(* was called, and it misses only if there was none or one at least as new *)
(* has been overwritten in its cell.                                       *)
LookupFresh ==
    [][\A r \in Readers :
          /\ rpc[r] = "again" /\ rpc'[r] = "found" /\ look[r].ticket \in Published(look[r].key)
                => look[r].ticket >= floor[r]
          /\ rpc[r] \notin {"idle", "found"} /\ rpc'[r] = "idle" /\ floor[r] # 0
                => \E t \in Published(look[r].key) :
                      t >= floor[r] /\ cell[record[t].slot].ticket # t]_vars
=============================================================================
