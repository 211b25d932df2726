-------------------------------- MODULE Ring --------------------------------
(***************************************************************************)
(* The lock-free multi-producer/multi-consumer ring of Vautlage/ring.go.   *)
(* Every atomic load, store and compare-and-swap is one action; the plain  *)
(* stores of a record's payload, and those of its header, are one action   *)
(* each, so that a reader can catch a cell half written.                   *)
(*                                                                         *)
(* A record is identified by the position its producer claimed: payload[i] *)
(* and header[i] hold the position whose producer wrote that half of cell  *)
(* i last.  Positions are natural numbers; the wrap of a uint64 is not     *)
(* reached (README, "Not modelled").                                       *)
(***************************************************************************)
EXTENDS Integers, FiniteSets

CONSTANTS
    Producers,   \* goroutines calling claim and publish
    Consumers,   \* goroutines calling dequeue and release
    Capacity,    \* cells of the ring
    MaxRecords   \* bound: positions claimed in one behaviour

(* initRing refuses zero cells and accepts every power of two, 1 included. *)
(* Only pos & mask = pos % capacity needs the power of two.                *)
ASSUME RingAssumption ==
    /\ Capacity \in Nat \ {0}
    /\ MaxRecords \in Nat

VARIABLES
    tail,      \* next position to hand out to a producer
    commit,    \* every position below it is published
    head,      \* next position to hand out to a consumer
    seq,       \* sequence word of each cell
    payload,   \* who wrote the payload of each cell
    header,    \* who wrote the header of each cell
    ppc,       \* producer: next step
    ppos,      \* producer: pos in claim and publish
    pcom,      \* producer: c in advanceCommit
    cpc,       \* consumer: next step
    cpos,      \* consumer: pos in dequeue and release
    chdr,      \* consumer: the header fields copied into rec
    cpay,      \* consumer: the payload bytes its handler read
    delivered  \* history: how often each record was handed to a handler

cells == <<seq, payload, header>>
prodVars == <<ppc, ppos, pcom>>
consVars == <<cpc, cpos, chdr, cpay, delivered>>
vars == <<tail, commit, head, cells, prodVars, consVars>>

None == -1
Positions == 0 .. MaxRecords - 1

(* func (r *ring) cell *)
Slot(pos) == pos % Capacity
Slots == 0 .. Capacity - 1

(* initRing: cell i belongs to the producer at position i. *)
Init ==
    /\ tail = 0 /\ commit = 0 /\ head = 0
    /\ seq = [i \in Slots |-> i]
    /\ payload = [i \in Slots |-> None]
    /\ header = [i \in Slots |-> None]
    /\ ppc = [p \in Producers |-> "idle"]
    /\ ppos = [p \in Producers |-> 0]
    /\ pcom = [p \in Producers |-> 0]
    /\ cpc = [c \in Consumers |-> "idle"]
    /\ cpos = [c \in Consumers |-> 0]
    /\ chdr = [c \in Consumers |-> None]
    /\ cpay = [c \in Consumers |-> None]
    /\ delivered = [pos \in Positions |-> 0]

PGoto(p, pc) == ppc' = [ppc EXCEPT ![p] = pc]
CGoto(c, pc) == cpc' = [cpc EXCEPT ![c] = pc]

-----------------------------------------------------------------------------
(* Plausible mistakes in the operations below.  No specification uses      *)
(* them; each shows that a property would notice the mistake.              *)

(* claim takes the position with a plain store instead of a CAS. *)
BadClaimStore(p) ==
    /\ ppc[p] = "cas"
    /\ tail' = ppos[p] + 1
    /\ PGoto(p, "payload")
    /\ UNCHANGED <<commit, head, cells, ppos, pcom, consVars>>

(* claim takes every mismatch for saturation. *)
BadClaimVerdict(p) ==
    /\ ppc[p] = "turn"
    /\ PGoto(p, IF seq[Slot(ppos[p])] = ppos[p] THEN "cas" ELSE "idle")
    /\ UNCHANGED <<tail, commit, head, cells, ppos, pcom, consVars>>

(* advanceCommit does not look at the sequence word. *)
BadAdvanceBlind(p) ==
    /\ ppc[p] = "probe"
    /\ PGoto(p, "swing")
    /\ UNCHANGED <<tail, commit, head, cells, ppos, pcom, consVars>>

(* advanceCommit moves the index once instead of looping. *)
BadAdvanceOnce(p) ==
    /\ ppc[p] = "swing"
    /\ commit' = IF commit = pcom[p] THEN commit + 1 ELSE commit
    /\ PGoto(p, "idle")
    /\ UNCHANGED <<tail, head, cells, ppos, pcom, consVars>>

(* dequeue is gated on tail instead of commit. *)
BadDequeueGate(c) ==
    /\ cpc[c] = "gate"
    /\ CGoto(c, IF cpos[c] >= tail THEN "idle" ELSE "cas")
    /\ UNCHANGED <<tail, commit, head, cells, prodVars, cpos, chdr, cpay, delivered>>

(* dequeue advances head with a plain store instead of a CAS. *)
BadDequeueStore(c) ==
    /\ cpc[c] = "cas"
    /\ head' = cpos[c] + 1
    /\ CGoto(c, "confirm")
    /\ UNCHANGED <<tail, commit, cells, prodVars, cpos, chdr, cpay, delivered>>

(* The cell is released before the handler runs. *)
BadReadAndRelease(c) ==
    /\ cpc[c] = "fields"
    /\ chdr' = [chdr EXCEPT ![c] = header[Slot(cpos[c])]]
    /\ seq' = [seq EXCEPT ![Slot(cpos[c])] = cpos[c] + Capacity]
    /\ CGoto(c, "handler")
    /\ UNCHANGED <<tail, commit, head, payload, header, prodVars, cpos, cpay, delivered>>

(* release gives the cell back to its own lap, or to the lap before. *)
BadReleaseSameLap(c) ==
    /\ cpc[c] \in {"release", "miss"}
    /\ seq' = [seq EXCEPT ![Slot(cpos[c])] = cpos[c]]
    /\ CGoto(c, "idle")
    /\ UNCHANGED <<tail, commit, head, payload, header, prodVars, cpos, chdr, cpay, delivered>>
BadReleaseLapBack(c) ==
    /\ cpc[c] \in {"release", "miss"}
    /\ seq' = [seq EXCEPT ![Slot(cpos[c])] = cpos[c] - Capacity]
    /\ CGoto(c, "idle")
    /\ UNCHANGED <<tail, commit, head, payload, header, prodVars, cpos, chdr, cpay, delivered>>

-----------------------------------------------------------------------------
(* claim: the producers' turnstile.                                        *)

(* A caller enters claim, or its loop reloads the cursor. *)
ClaimLoadTail(p) ==
    /\ ppc[p] \in {"idle", "retry"}
    /\ tail < MaxRecords
    /\ ppos' = [ppos EXCEPT ![p] = tail]
    /\ PGoto(p, "turn")
    /\ UNCHANGED <<tail, commit, head, cells, pcom, consVars>>

(* The signed difference of the sequence word and the position decides. *)
ClaimLoadSeq(p) ==
    /\ ppc[p] = "turn"
    /\ LET dif == seq[Slot(ppos[p])] - ppos[p]
       IN  \/ dif = 0 /\ PGoto(p, "cas")
           \/ dif < 0 /\ PGoto(p, "idle")    \* ring saturated
           \/ dif > 0 /\ PGoto(p, "retry")   \* stale cursor
    /\ UNCHANGED <<tail, commit, head, cells, ppos, pcom, consVars>>

ClaimCas(p) ==
    /\ ppc[p] = "cas"
    /\ \/ tail = ppos[p] /\ tail' = tail + 1 /\ PGoto(p, "payload")
       \/ tail # ppos[p] /\ tail' = tail /\ PGoto(p, "retry")
    /\ UNCHANGED <<commit, head, cells, ppos, pcom, consVars>>

-----------------------------------------------------------------------------
(* publish: payload, header, sequence word, in this order.                 *)

WritePayload(p) ==
    /\ ppc[p] = "payload"
    /\ payload' = [payload EXCEPT ![Slot(ppos[p])] = ppos[p]]
    /\ PGoto(p, "header")
    /\ UNCHANGED <<tail, commit, head, seq, header, ppos, pcom, consVars>>

WriteHeader(p) ==
    /\ ppc[p] = "header"
    /\ header' = [header EXCEPT ![Slot(ppos[p])] = ppos[p]]
    /\ PGoto(p, "store")
    /\ UNCHANGED <<tail, commit, head, seq, payload, ppos, pcom, consVars>>

StoreSeq(p) ==
    /\ ppc[p] = "store"
    /\ seq' = [seq EXCEPT ![Slot(ppos[p])] = ppos[p] + 1]
    /\ PGoto(p, "advance")
    /\ UNCHANGED <<tail, commit, head, payload, header, ppos, pcom, consVars>>

-----------------------------------------------------------------------------
(* advanceCommit: every producer helps to move the committed prefix.       *)

AdvanceLoadCommit(p) ==
    /\ ppc[p] = "advance"
    /\ pcom' = [pcom EXCEPT ![p] = commit]
    /\ PGoto(p, "limit")
    /\ UNCHANGED <<tail, commit, head, cells, ppos, consVars>>

AdvanceLoadTail(p) ==
    /\ ppc[p] = "limit"
    /\ \/ pcom[p] = tail /\ PGoto(p, "idle")
       \/ pcom[p] # tail /\ PGoto(p, "probe")
    /\ UNCHANGED <<tail, commit, head, cells, ppos, pcom, consVars>>

AdvanceLoadSeq(p) ==
    /\ ppc[p] = "probe"
    /\ \/ seq[Slot(pcom[p])] # pcom[p] + 1 /\ PGoto(p, "idle")
       \/ seq[Slot(pcom[p])] = pcom[p] + 1 /\ PGoto(p, "swing")
    /\ UNCHANGED <<tail, commit, head, cells, ppos, pcom, consVars>>

(* Won or lost, the loop goes round again. *)
AdvanceCas(p) ==
    /\ ppc[p] = "swing"
    /\ commit' = IF commit = pcom[p] THEN commit + 1 ELSE commit
    /\ PGoto(p, "advance")
    /\ UNCHANGED <<tail, head, cells, ppos, pcom, consVars>>

-----------------------------------------------------------------------------
(* dequeue and release: the consumers' turnstile, as worker and Drain      *)
(* drive it.  A consumer that found nothing, or lost the race for head,    *)
(* starts over.                                                            *)

DequeueLoadHead(c) ==
    /\ cpc[c] = "idle"
    /\ cpos' = [cpos EXCEPT ![c] = head]
    /\ CGoto(c, "gate")
    /\ UNCHANGED <<tail, commit, head, cells, prodVars, chdr, cpay, delivered>>

DequeueLoadCommit(c) ==
    /\ cpc[c] = "gate"
    /\ \/ cpos[c] >= commit /\ CGoto(c, "idle")
       \/ cpos[c] < commit /\ CGoto(c, "cas")
    /\ UNCHANGED <<tail, commit, head, cells, prodVars, cpos, chdr, cpay, delivered>>

DequeueCas(c) ==
    /\ cpc[c] = "cas"
    /\ \/ head = cpos[c] /\ head' = head + 1 /\ CGoto(c, "confirm")
       \/ head # cpos[c] /\ head' = head /\ CGoto(c, "idle")
    /\ UNCHANGED <<tail, commit, cells, prodVars, cpos, chdr, cpay, delivered>>

(* The branch the code calls structurally unreachable leads to "miss". *)
DequeueConfirm(c) ==
    /\ cpc[c] = "confirm"
    /\ CGoto(c, IF seq[Slot(cpos[c])] = cpos[c] + 1 THEN "fields" ELSE "miss")
    /\ UNCHANGED <<tail, commit, head, cells, prodVars, cpos, chdr, cpay, delivered>>

DequeueReadFields(c) ==
    /\ cpc[c] = "fields"
    /\ chdr' = [chdr EXCEPT ![c] = header[Slot(cpos[c])]]
    /\ CGoto(c, "handler")
    /\ UNCHANGED <<tail, commit, head, cells, prodVars, cpos, cpay, delivered>>

(* The handler reads the payload, which aliases the cell. *)
Handle(c) ==
    /\ cpc[c] = "handler"
    /\ cpay' = [cpay EXCEPT ![c] = payload[Slot(cpos[c])]]
    /\ delivered' = [pos \in Positions |->
                       delivered[pos] + (IF pos = chdr[c] THEN 1 ELSE 0)]
    /\ CGoto(c, "release")
    /\ UNCHANGED <<tail, commit, head, cells, prodVars, cpos, chdr>>

Release(c) ==
    /\ cpc[c] \in {"release", "miss"}
    /\ seq' = [seq EXCEPT ![Slot(cpos[c])] = cpos[c] + Capacity]
    /\ CGoto(c, "idle")
    /\ UNCHANGED <<tail, commit, head, payload, header, prodVars, cpos, chdr, cpay, delivered>>

-----------------------------------------------------------------------------
ProducerStep(p) ==
    \/ ClaimLoadTail(p) \/ ClaimLoadSeq(p) \/ ClaimCas(p)
    \/ WritePayload(p) \/ WriteHeader(p) \/ StoreSeq(p)
    \/ AdvanceLoadCommit(p) \/ AdvanceLoadTail(p)
    \/ AdvanceLoadSeq(p) \/ AdvanceCas(p)

ConsumerStep(c) ==
    \/ DequeueLoadHead(c) \/ DequeueLoadCommit(c) \/ DequeueCas(c)
    \/ DequeueConfirm(c) \/ DequeueReadFields(c) \/ Handle(c) \/ Release(c)

Next ==
    \/ \E p \in Producers : ProducerStep(p)
    \/ \E c \in Consumers : ConsumerStep(c)

Spec == Init /\ [][Next]_vars

(* The Go scheduler lets every runnable goroutine go on: a call under way  *)
(* is finished and a consumer keeps polling.  Nobody has to call Publish.  *)
Fairness ==
    /\ \A p \in Producers : WF_vars(ppc[p] # "idle" /\ ProducerStep(p))
    /\ \A c \in Consumers : WF_vars(ConsumerStep(c))

FairSpec == Spec /\ Fairness
-----------------------------------------------------------------------------
(* Properties                                                              *)

ProducerPc == {"idle", "retry", "turn", "cas", "payload", "header", "store",
               "advance", "limit", "probe", "swing"}
ConsumerPc == {"idle", "gate", "cas", "confirm", "miss", "fields", "handler", "release"}

(* Between the CAS in claim and the release store in publish. *)
Owns(p) == ppc[p] \in {"payload", "header", "store"}
(* Between the CAS in dequeue and the store in release. *)
Holds(c) == cpc[c] \in {"confirm", "miss", "fields", "handler", "release"}

(* Type invariant of the cursors, the cells and the locals of the calls.   *)
TypeOK ==
    /\ tail \in Nat /\ commit \in Nat /\ head \in Nat
    /\ seq \in [Slots -> Nat]
    /\ payload \in [Slots -> Nat \cup {None}]
    /\ header \in [Slots -> Nat \cup {None}]
    /\ ppc \in [Producers -> ProducerPc]
    /\ ppos \in [Producers -> Nat]
    /\ pcom \in [Producers -> Nat]
    /\ cpc \in [Consumers -> ConsumerPc]
    /\ cpos \in [Consumers -> Nat]
    /\ chdr \in [Consumers -> Nat \cup {None}]
    /\ cpay \in [Consumers -> Nat \cup {None}]
    /\ delivered \in [Positions -> Nat]

(* ring.go:32, "The invariant head <= commit <= tail holds at all times",  *)
(* whatever the interleaving of claim, advanceCommit and dequeue.          *)
CursorOrder == head <= commit /\ commit <= tail

(* No data race on a cell: the plain stores of publish and the plain loads *)
(* of dequeue and of the handler never meet in one cell, although claim    *)
(* checks the sequence word and takes the position in two separate steps.  *)
ExclusiveCells ==
    /\ \A p, q \in Producers :
          p # q /\ Owns(p) /\ Owns(q) => Slot(ppos[p]) # Slot(ppos[q])
    /\ \A c, d \in Consumers :
          c # d /\ Holds(c) /\ Holds(d) => Slot(cpos[c]) # Slot(cpos[d])
    /\ \A p \in Producers, c \in Consumers :
          Owns(p) /\ Holds(c) => Slot(ppos[p]) # Slot(cpos[c])

(* ring.go:266: "Structurally unreachable: pos < commit implies the slot   *)
(* was published".  dequeue never takes the branch that drops a position.  *)
DequeueNeverMisses == \A c \in Consumers : cpc[c] # "miss"

(* A handler sees the header and the payload of the record at the position *)
(* it dequeued, both written completely and not overwritten while it runs. *)
DeliveredIntact ==
    \A c \in Consumers :
        cpc[c] = "release" => chdr[c] = cpos[c] /\ cpay[c] = cpos[c]

(* c won position pos and has not handled it yet. *)
InHand(c, pos) == cpc[c] \in {"confirm", "fields", "handler"} /\ cpos[c] = pos

(* Every position below head is handed to a handler exactly once, by the   *)
(* consumer that won it, and no position above head ever is.               *)
ExactlyOnce ==
    \A pos \in Positions :
        delivered[pos] = IF pos < head /\ ~\E c \in Consumers : InHand(c, pos)
                         THEN 1 ELSE 0

(* ring.go:215-218, "The index is never left behind by a sleeping thread": *)
(* once no producer is inside publish, everything claimed is committed,    *)
(* however the producers overlapped in advanceCommit.                      *)
NoStrandedCommit == (\A p \in Producers : ppc[p] \in {"idle", "retry", "turn", "cas"})
                        => commit = tail

(* ring.go:24, "seq only ever moves forward".                              *)
SeqForward == [][\A i \in Slots : seq'[i] >= seq[i]]_vars

(* The position one lap behind tail was not yet dequeued, or is still in   *)
(* the hands of a consumer: its cell cannot be given to the next producer. *)
RingFull ==
    \/ tail - Capacity >= head
    \/ \E c \in Consumers : Holds(c) /\ cpos[c] = tail - Capacity

(* claim reports saturation only when the ring is full at that instant,    *)
(* although it loaded tail earlier: a stale view leads to a retry.         *)
SaturationIsReal ==
    [][\A p \in Producers :
          ppc[p] = "turn" /\ ppc'[p] = "idle" => ppos[p] = tail /\ RingFull]_vars

(* Every claimed position is handed to a handler in the end, if calls      *)
(* under way are scheduled and consumers keep polling.                     *)
ClaimedIsDelivered ==
    \A pos \in Positions : (tail > pos) ~> (delivered[pos] = 1)

(* The ring implements the bounded commit log: which positions are         *)
(* published and which are freed is read off the sequence words.           *)
Published == {pos \in 0 .. tail - 1 : seq[Slot(pos)] > pos}
Freed == {pos \in 0 .. tail - 1 : seq[Slot(pos)] >= pos + Capacity}

Log == INSTANCE CommitLog WITH
    claimed <- tail, published <- Published, committed <- commit,
    taken <- head, freed <- Freed

(* ring.go's protocol implements CommitLog's steps: a cell is handed out   *)
(* again only after its release, and commit passes published cells only.   *)
ImplementsLog == Log!LogSafety
(* ... and its promise that a published prefix is committed and taken.     *)
ImplementsLiveLog == Log!LogSpec
-----------------------------------------------------------------------------
(* The inductive invariant behind the properties, for Capacity >= 2.       *)
(* w ranges over all positions; Slot(w) is the cell that serves w.         *)

(* Where the sequence word of a cell may stand relative to the cursors. *)
SeqBounds ==
    /\ \A w \in Nat : w < tail => seq[Slot(w)] >= w
    /\ \A w \in Nat : w >= tail => seq[Slot(w)] <= w
    /\ \A w \in Nat : w < commit => seq[Slot(w)] > w
    /\ \A w \in Nat : w >= head => seq[Slot(w)] <= w + 1
    /\ \A i \in Slots :
          Slot(seq[i]) = i \/ \E w \in Nat : seq[i] = w + 1 /\ Slot(w) = i

(* A position between claim and publish, or between dequeue and release,   *)
(* has one owner, and its cell's sequence word waits for that owner.       *)
Ownership ==
    /\ \A p \in Producers : Owns(p) =>
          commit <= ppos[p] /\ ppos[p] < tail /\ seq[Slot(ppos[p])] = ppos[p]
    /\ \A p, q \in Producers : p # q /\ Owns(p) /\ Owns(q) => ppos[p] # ppos[q]
    /\ \A c \in Consumers : Holds(c) =>
          cpos[c] < head /\ seq[Slot(cpos[c])] = cpos[c] + 1
    /\ \A c, d \in Consumers : c # d /\ Holds(c) /\ Holds(d) => cpos[c] # cpos[d]

(* What a thread still knows of the values it loaded before its CAS. *)
StaleViews ==
    /\ \A p \in Producers : ppc[p] \in {"turn", "cas"} => ppos[p] <= tail
    /\ \A p \in Producers : ppc[p] = "cas" => seq[Slot(ppos[p])] >= ppos[p]
    /\ \A p \in Producers : ppc[p] = "swing" => seq[Slot(pcom[p])] > pcom[p]
    /\ \A c \in Consumers : cpc[c] = "cas" => cpos[c] < commit

(* p is in advanceCommit and will still look at the commit point. *)
Helps(p) == \/ ppc[p] = "advance"
            \/ ppc[p] \in {"limit", "probe", "swing"} /\ pcom[p] = commit

(* Nobody drops a position: one that is claimed and unpublished, dequeued  *)
(* and unreleased, or published at the commit point has a thread for it.   *)
ClaimsOwned ==
    \A w \in Nat : w < tail /\ seq[Slot(w)] = w =>
        \E p \in Producers : Owns(p) /\ ppos[p] = w
TakesHeld ==
    \A w \in Nat : w < head /\ seq[Slot(w)] <= w + 1 =>
        \E c \in Consumers : Holds(c) /\ cpos[c] = w
CommitHelped ==
    commit < tail /\ seq[Slot(commit)] = commit + 1 => \E p \in Producers : Helps(p)

(* What the cells and the consumers' copies hold. *)
Contents ==
    /\ \A p \in Producers : ppc[p] \in {"header", "store"} => payload[Slot(ppos[p])] = ppos[p]
    /\ \A p \in Producers : ppc[p] = "store" => header[Slot(ppos[p])] = ppos[p]
    /\ \A w \in Nat : seq[Slot(w)] = w + 1 => payload[Slot(w)] = w /\ header[Slot(w)] = w
    /\ \A c \in Consumers : cpc[c] \in {"handler", "release"} => chdr[c] = cpos[c]
    /\ \A c \in Consumers : cpc[c] = "release" => cpay[c] = cpos[c]

(* The conjunction is preserved by every step; each part needs the others. *)
RingInv ==
    /\ TypeOK
    /\ CursorOrder
    /\ SeqBounds
    /\ Ownership
    /\ StaleViews
    /\ DequeueNeverMisses
    /\ ClaimsOwned
    /\ TakesHeld
    /\ CommitHelped
    /\ Contents
    /\ ExactlyOnce
=============================================================================
