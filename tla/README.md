# A TLA+ verification of Vaultage

Vaultage (`src/Vautlage`) is an in-process engine that takes keyed records from many goroutines,
keeps them in rings outside the Go heap, and hands them to one consumer thread per shard. It uses
no locks on its data path: its correctness rests on the order of single atomic loads, stores and
compare-and-swaps. This directory holds TLA+ models of that code, the TLC runs that check them on
small instances, and TLAPS proofs, for every size, of every safety property the runs check.

Source paths below are relative to `src/Vautlage`; `README.md` with a line number is `src/README.md`.

## The system

| component | state | operations | interacts with |
|---|---|---|---|
| ring (`ring.go`) | `head`, `tail`, `commit`; per cell a sequence word, header, payload | `claim`, `publish`, `advanceCommit`, `dequeue`, `release`, `pending` | called by `publish`, `worker`, `Drain`; cells are also read by `lookup` |
| gate (`gate.go`, `fabric.go`) | the valve, one `hot` latch per shard, the counter `saturated` | `isClosed`, `shut`, `release`, `markSaturated`, `markDrained` | reads the ring's occupancy; producers and consumers both write it |
| key index (`index.go`) | buckets of (key, ticket, slot), `live` | `upsert`, `updateMonotonic`, `isDead`, `lookup` | points into cells that the ring recycles |
| engine (`fabric.go`) | `running`, `closed`, `ticket`, counters, arenas | `New`, `Publish`, `Lookup`, `worker`, `Drain`, `clockTicker`, `Close` | owns all the others |
| statistics (`stats.go`) | none | `Stats` | loads the counters and cursors of every shard while they change |
| program (`cmd/vaultagectl`) | none | producers, a join, `Stats`, `Close` | calls the engine |
| arena (`arena.go`, `arena_linux.go`, `arena_darwin.go`, `arena_unsupported.go`) | a mapped span and its flags | `NewArena`, `prefault`, `Close` | maps the memory of rings and indexes |
| layout (`layout.go`, `Config`) | none | `normalize`, size arithmetic | decides the size of an arena |
| records, errors, atomics | copies | thin wrappers | |

What is hard in this code:

- **Concurrency.** Any number of producers, one worker per shard and any caller of `Drain`, `Lookup`
  and `Close` touch the same words. Values loaded before a CAS are stale when the CAS runs.
- **Order.** Producers publish out of order; the commit point must follow without a lock, by
  helping. The gate is opened and shut by several threads that each look at two or three words.
- **Recycled memory.** A cell is reused every lap, while the index still points at it and a reader
  may be copying it.
- **Shutdown.** `Close` unmaps memory that a late goroutine, or a call made after it, would still use.
- **Snapshots.** `Stats` loads a dozen words at a dozen instants.
- **Failure.** Each of the system calls of `New` may fail, and each has its own cleanup.

What makes each part correct: the ring never gives one cell to two threads, loses or duplicates no
record and delivers it whole; the gate is shut while a shard is hot and opens again; the index finds
the newest record of a key or none; the engine never touches unmapped memory, drains before it
unmaps, and its counters add up; an arena is aligned, large enough, resident, and not leaked.
Where the code falls short of that, TLC shows how (Findings and Further counterexamples).
`PROJECT.json` lists the hazards line by line with the properties that stand for them.

## Modules

`CommitLog` is the abstract specification of a ring: a bounded log whose positions are claimed in
order, published in any order, committed as a prefix, taken in order and freed in any order.

`Ring` is `ring.go`, one action per atomic access (`ClaimLoadTail`, `ClaimLoadSeq`, `ClaimCas`, ...).
The plain stores of payload and header are steps of their own, so an overlap would show. A record is
the position it was written for: intact means that header and payload name the position dequeued.
`delivered` counts how often a position reached a handler. The refinement mapping reads `published`
and `freed` off the sequence words.

`Backpressure` is the path from the ring's occupancy to the gate: the two loads of `pending`,
`markSaturated` and `markDrained` word by word. The ring inside it is the commit log, with `commit`
computed from the producers still writing. `saturated` is an integer that may pass below zero; in
the code it is unsigned and compared with zero only, which is the same test.

`KeyIndex` is `upsert` and `lookup` word by word, and those stores of `publish` that a lookup can
see. A ticket stands for the record's payload. The ring is abstract here as well: a cell may be
claimed again once everything up to its last position is published, because a consumer may have
taken and released all of it. The history variable `floor` remembers, for each lookup, the newest
ticket of its key whose `Publish` had returned when the lookup was called; `LookupFresh` compares it with
what the lookup returns. `record` remembers where each ticket was published; `ReuseIsNoticed` compares
what a lookup copied with it.

`Engine` is the life cycle: `New` maps arenas one by one and may fail at each and after the last, and then
gives back what it has, one arena a step (`TearDownShard`, `TearDownCtl`); producers go
through `running`, ticket, claim, write, count and index, or through the two counters of a refusal; workers
and `Drain` take, handle, release and count; `Close` takes its
mutex, clears `running`, signals, waits, unmaps the arenas one by one and clears the control pointers (`nilled`). `Lookup` is
a call that needs the control arena and its shard's arena until it returns. `Stats` loads its words one
by one in the order of the code (`LoadOrder`); `snap` is what it has loaded so far. The program around the
engine is that of `cmd/vaultagectl`: with `JoinFirst` all callers are joined, then `Stats` is taken
while the workers still run, then `Close` is called. Calls made after `Close` has returned are allowed
again: they start from a nil pointer and end as `"faulted"`. The totals of `Stats` are cardinalities
(`Total`), which the proofs can reason about. Each shard uses the commit log's steps, which
the run checks (`ShardIsLog`). A step that touches an arena is guarded by its being mapped, and
`MemorySafe` says that the guard never stops anyone.

`Layout` is the arithmetic of `normalize` and the sizes, with words that wrap at `2^Width`.
`Arena` extends it with `NewArena` and `Close`; the kernel is external and any of its calls fails, those
whose result the code ignores (`GiveBack`) as well. The
variable `platform` selects the wrappers: on darwin `sysAdviseHuge` asks for the pages and reports a
failure all the same, and on an unsupported platform every wrapper fails.

How they compose: `Ring` implements `CommitLog` (checked and proved); `Engine` uses `CommitLog` for
each shard; `Backpressure` and `KeyIndex` use the same abstraction for the ring below them; `Arena`
uses `Layout`. `MCRing`, `MCBackpressure`, `MCKeyIndex`, `MCEngine` and `MCArena` give the constants
values. Definitions named `Bad...` are mistakes one could make in the operation they are named
after; no specification uses them. They show that each property can fail.

The theorems are in modules of their own: `RingProofs`, `BackpressureProofs`, `KeyIndexProofs`,
`EngineProofs` and `ArenaProofs` extend the component they are about, and `LayoutProofs` holds the lemmas
on sizes, powers of two and alignment that `ArenaProofs` uses.

## Runs

| run | instance | shows |
|---|---|---|
| `ring_safety` | 2 producers, 2 consumers, 2 cells, 4 positions | cursor order, exclusive cells, intact and exactly-once delivery, no stranded commit, real saturation, refinement of `CommitLog` |
| `ring_liveness` | 2 producers, 1 worker, fair | every claimed position is delivered, refinement with the log's fairness |
| `gate_safety` | 2 shards with workers, 2 producers | the count of hot shards is exact, the gate is not left open over a hot shard, occupancy is never under-estimated |
| `gate_shared_shard` | no consumer: 1 shard, 2 callers of `Drain(1)`, 2 producers, fair | two sweepers of one shard keep the count exact; a latch is always cleared in the end |
| `index_roomy` | 2 colliding keys, 3 buckets, 2 cells, 4 tickets, 1 writer per key, 1 reader | while cells are recycled, a lookup notices the reuse of its cell, and returns nothing older than the last publish completed before it |
| `index_crowded` | 3 colliding keys, 2 buckets, 2 cells, 5 tickets, 2 writers of key 1 and 1 of each other key | reclaims keep chains unbroken and the live count exact; a key with one writer has one entry |
| `engine_close` | 2 shards, workers, ticker, `Drain`, 2 producers, 2 callers of `Close`, late calls | no access to unmapped memory, no leak, all drained, counters add up, shards behave as logs |
| `engine_live` | 1 shard, 2 producers, a reader, a snapshot, 2 callers of `Close`, late calls, fair | order per producer, a snapshot accounts for every ticket, no access to unmapped memory, delivery of accepted records, `Close` returns to both callers |
| `arena_shard` | 3 platforms, 2916 configurations, every address, every failing call | aligned and exactly trimmed window, no leak, every huge page touched, ring and index fit |
| `gate_stays_shut` | 1 shard and its worker, 2 producers, fair | violation, see findings |
| `index_late_mutation` | 1 key, 2 writers | violation, see findings |
| `engine_close_race` | 1 shard, 1 producer, `Close` during `Publish` | violation, see findings |

### Bounds

Two cells are the smallest ring whose protocol works, and four positions (`MaxRecords`) take every
cell through two laps, so every access meets a stale view of an earlier lap. Two producers are
enough for one to help, overtake or lose a CAS to the other; two consumers likewise. In
`Backpressure`, three records on two cells fill a shard, drain it and fill it again; with the
default marks of 90 and 70 percent a shard of two is hot when full and cold with one record. In
`KeyIndex` all keys hash to one bucket, so every probe collides; `MaxProbe` equals the number of
buckets. In `index_roomy` and `index_crowded` four and five tickets go through two cells, so
cells are republished under every step of a lookup. `index_crowded` has fewer buckets than keys, so pass 2 and
reclaims happen, next to live entries too; in `index_roomy` there is a bucket to spare and they do not. `engine_close` has three tickets on two shards of two cells.
`arena_shard` scales sizes (word of 8 bits, page of 4, huge page of 8, address space of 64); every
alignment of the returned range relative to a huge page occurs, and the space is small enough that
mapping also fails for lack of room. `MaxTickets`, `MaxRecords` and `Space` bound what would be
unbounded.

Deadlock is checked except where the program may end: after `Close` (`Engine`), after an error
return or `Close` (`Arena`), and in `index_crowded`, where the tickets run out and no reader is left.

### Fairness

`ring_liveness`: a call under way takes its next step (the Go scheduler is preemptive and no call
blocks), and the worker polls for ever. Nobody has to start a call. `gate_shared_shard`: the same,
and `Drain` is called again and again: there is no `Consumer`, the configuration `Drain` is documented for
(`fabric.go:655-656`), and its caller has no other way to get its records. `gate_stays_shut` is the other
configuration, workers and no `Drain`, under the fairness of the same specification.
`engine_live`: goroutines that can run do run, and handlers return; nobody has to call `Publish`,
`Drain` or `Close`. The commit step is fair because producers that published advance it
(`ClaimedIsDelivered` and `ImplementsLiveLog` on `Ring` show that they do). Only weak fairness is
used: under it a CAS loop might fail for ever, but the number of records is finite.

## Proofs

Every invariant, action property and refinement of a passing run that is not about fairness is a theorem,
for any sets of goroutines, any numbers of cells, buckets, shards and records and any configuration, from
the assumptions named below. The argument is the same each time: an inductive invariant, checked by TLC on
an instance before it is proved, one lemma per group of actions, and the property as a consequence. None of
the properties is inductive by itself.

### Ring

`TypeCorrect`, `CursorsOrdered`, `NoRaces`, `NoMiss`, `IntactDelivery`, `ExactlyOnceDelivery`,
`CommitNotStranded` are the invariants of `ring_safety`, `SeqOnlyForward` and `SaturationReal` its action
properties, and `RingImplementsLog` is `Spec => Log!LogSafety`.

All follow from `RingInvariant`, `Spec => []RingInv`. `RingInv` adds where a cell's sequence word may stand
relative to the three cursors (`SeqBounds`), who owns a cell between two cursors (`Ownership`,
`ClaimsOwned`, `TakesHeld`), what a thread still knows of values it loaded earlier (`StaleViews`), what the
cells hold (`Contents`) and who will advance the commit point (`CommitHelped`). For instance a claim's CAS
is safe because the tail has not moved and the sequence word of a position never falls, so the word that
was read as free is still the same; and a taken cell is not reclaimed because its word stays at `pos + 1`
until its one holder releases it. `CommitHelped` says that if the commit point is published then some
producer is in `advanceCommit` with a view of it that is not stale; every way of leaving that procedure
keeps it true.

Assumed: `RingAssumption` (`Capacity` is positive, which is all that `initRing` asks, and `MaxRecords` is a
natural number). Every theorem but `TypeCorrect` states `Capacity >= 2` as its hypothesis: with one cell
several of them are false (`RingOneCell.cfg`). Of `Slot` the proofs use only that it maps into the cells,
that a lap leads to the same cell, and that two positions of one cell are a lap apart.

### Backpressure

`TypeCorrect`, `CounterExact` (`CountIsExact`), `GateNotLeftOpen` (`NotLeftOpen`) and `PendingNeverLate`
(the action property of `pending`). The counter is compared with the cardinality of the hot latches, less
the threads between a won CAS on a latch and the add that follows; each step moves one thread or one latch
between those sets. `GateInv` adds to it that the gate may be open over a positive counter only while some
thread is on its way to `shut`, or to look at the counter again (`ShutPending`). `PendingNeverLate` rests on
`HeadSeen`: a head that `pending` loaded is never ahead of the shard's head. Assumed (`BackpressureAssumption`):
producers and drainers are finitely many, and the marks are as `normalize` leaves them.

### Key index

- `TypeCorrect`, `LiveExact`, and `ChainsUnbroken`: with `Walked` (pass 1 has seen no empty bucket before
  the one it is at, pass 2 runs only if there is none) and `Rooted` (a key's bucket is reached without an
  empty one). Buckets are never emptied, so a walked stretch stays walked.
- `OneEntry`: `Spec => []OneEntryPerKey`, without hypotheses. It is about the keys that have one writer, whatever the
  writers of other keys insert and reclaim around them, and about all keys if there is a bucket for every key
  within the probe limit (`Sole`, `Roomy`). The invariant adds that no bucket a call has passed holds its key
  (`NotMine`) and that a key sits in a bucket of its own chain (`Placed`). With `Roomy` a pigeonhole argument
  shows that pass 2 never starts. Two writers of a key in a full chain can make two entries (`IndexTwoEntries.cfg`).
- `ReuseNoticed`: `Spec => ReuseIsNoticed`, without hypotheses: any number of producers of a key, cells recycled
  without end, reclaims. The invariant `ReuseInv` says which words of a cell are there at each step of `publish`
  (`OwnWords`, `CellsWhole`), that the producers inside cells are in different cells (`Apart`), and that what a lookup has
  copied belongs to a record of its key or its cell has since been reused (`Copies`): once that is so it stays so, and
  the second comparison fails unless a producer is inside the cell or the key came back to it. These two
  exceptions are what `IndexTornLookup.cfg` is made of.
- `LookupsAreFresh`: `Spec => LookupFresh` for `OneWriter` and `Roomy`, with cells recycled without end; `index_roomy` is an
  instance. The invariant `Fresh` says that a call's cell and bucket hold what it stored, that a key's writer is ahead
  of everything published of the key, that every publish that returned is reached through its key's bucket
  unless its cell was overwritten, and that a lookup which has to find something is on its way to it: a bucket
  ahead of its probe, with no empty one before. Two writers of one key break it (`index_late_mutation`). Without `Roomy` a reclaim may evict a live entry, which the comment of `isDead`
  (`index.go:276-281`) admits, so a miss means less there.

### Engine

`TypeCorrect`, `ShardRefinesLog` (`ShardIsLog`), `NoArenaLeaks`, `BooksBalance` (`CountersBalance`) and
`StatsAddUp` (`StatsAccount`) hold for every program around the engine. `MemoryIsSafe` and `CloseDrains`
(`DrainedAtClose`) have the hypothesis `JoinFirst`: the callers are joined before `Close`, as in the tests and in
`vaultagectl`; `engine_close_race` shows that they fail without it. `ProducerOrderKept` has the
hypothesis `OneTaker`, that no `Drain` runs beside another consumer, so that one consumer takes from each shard:
with two, a handler may finish before that of an earlier record.

- `CoreInv` is types, the ownership of tickets (`TicketInv`) and the state of a shard (`ShardInv`: the
  cursors in order, one writer for each claimed position, one taker for each taken one). `LifeInv` is the life cycle: which arenas are
  mapped at which step of `New`, of its teardown after an error and of `Close`, one closer at a time, pointers cleared after
  the unmapping.
- For memory: at the point where `Close` unmaps, every worker and the ticker is joined and every caller has
  returned (`Joins`), so no step is at an arena.
- For draining: a worker that has left found `running` cleared and its shard empty, and nobody fills it any
  more (`FlagInv`, `Emptied`, `TakenIsHandled`).
- For order: the log's tickets of one producer increase (`LogOrdered`) and a shard is handled in log order
  (`InLogOrder`).
- For the counters: every ticket is in exactly one of a few disjoint sets, counted or about to be
  (`TicketsBalance`, `RecordsBalance`, `DropsBalance`). For `Stats`, after the join the producers' words no longer
  move, so what was loaded is what is there (`Watched`, `SnapInv`), up to one record per worker.

Assumed (`EngineAssumption`): producers and drainers are finitely many, drainers are not named like shards,
whose workers are named after them, and readers and observers are different calls.

The proof of type correctness found a fault of the model: the conditions of a `CASE` in `QNeeds` overlapped, so what it
stood for was left open in TLA+ although TLC took the first. It is an `IF` now.

### Arena and layout

`TypeCorrect`, `WindowIsExact`, `NoMappingLeaks`, `PrefaultReaches` (`PagesTouched`) and `AcceptedFits`
(`ShardFits`), on every platform, for every address the kernel returns and every failing call. `ArenaInv` says at
each step what is mapped, trimmed, held and given back (`FlagsInv`, `SizeInv`, `CleanInv`, `TrimInv`, `HoldInv`,
`EndInv`). `PrefaultReaches` claims a frame in every huge page of the window, and all of them only where the code
can have them: it says nothing more of advised and unpinned memory (`ArenaAdvised.cfg`). The window and leak theorems hold even where sizes wrap. `AcceptedFits` is about configurations
whose sizes a word can hold (`Representable`), because `cells * stride` is unchecked (`ring.go:75`); `MCArena` checks
that the run's configurations are such, and `ArenaWrapped.cfg` has one that is not. `LayoutProofs` shows that `alignUp` rounds to the next multiple,
that `RoundUp` finds the least power of two, and that the wrapped sizes are the exact ones when they fit.

Assumed: `LayoutAssumption` (the constants of `layout.go`), `ArenaAssumption` (the fields of `Config` have their Go
types), and `PowersAssumption`, `2^(i+1) = 2 * 2^i`, which is the definition of `^` and the one fact
the provers do not have. TLC evaluates all of them.

### Only model-checked

Liveness, and everything about fairness or `ENABLED`, which the prover does not cover: `ClaimedIsDelivered`,
`ImplementsLiveLog`, `HotIsCleared`, `AcceptedIsDelivered`, `CloseReturns`. The findings are
counterexamples, for which a run is enough.

## Findings

Each is a run that TLC ends with a counterexample to what a comment or the documentation says.

- `gate_stays_shut` (`GateReopens`): a producer between the CAS on its shard's latch and `shut` (`fabric.go:490-495`) is overtaken
  by the worker, which clears the latch and takes `saturated` below zero. The producer then shuts the gate
  over an empty shard. The worker sweeps only after a batch that was not empty (`fabric.go:607`) and the shut gate lets no
  record in, so ingestion stays frozen, against `errors.go:11-14` and `fabric.go:497-498`. A producer that latches
  after the worker's last sweep, on an occupancy it read before, freezes it as well. `Drain` always sweeps, and
  where it is the only consumer latches are always cleared (`gate_shared_shard`).
- `index_late_mutation` (`NewestWins`): the producer that inserted a key stores slot and ticket unconditionally
  (`index.go:213-214`), after a newer publish of the key has updated the bucket; `updateMonotonic` too stores its slot
  after its CAS whatever happened in between (`index.go:310`). `index.go:168-171` says that an older mutation never
  overwrites a newer one. With one writer per key it does not (`index_roomy`, `LookupsAreFresh`).
- `engine_close_race` (`DrainedAtClose`): `Publish` reads `running`, `Close` clears it, the worker finds the ring empty
  and leaves, and `Publish` goes on. The record is lost, or its producer writes to unmapped memory.
  With producers joined first (`engine_close`, and how the tests and `vaultagectl` use it) all is well.

## Further counterexamples

These configurations are kept beside the runs. Each checks one property on an instance that the passing runs and
the theorems exclude, and TLC finds it violated.

| configuration, module | property | what happens |
|---|---|---|
| `RingOneCell.cfg`, `MCRing` | `DequeueNeverMisses` | `initRing` and `normalize` accept one cell (`ring.go:84`), but "published" and "free for the next lap" are then the same value: a second claim takes the unread cell, and `dequeue` takes the branch that `ring.go:266` calls structurally unreachable |
| `GateStuckShut.cfg`, `MCBackpressure` | `NotLeftClosed` | the first half of `gate_stays_shut` by itself: no shard is hot, nobody is in `markSaturated` or `markDrained`, and the gate is shut |
| `GateStaleLatch.cfg`, `MCBackpressure` | `HotIsCleared` | the second half: a latch set after the worker's last sweep stays |
| `IndexTornLookup.cfg`, `MCKeyIndex` | `LookupCoherent` | `lookup` validates the key word only, and `publish` rewrites it after payload and ticket, so a returned record can be of two publishes, against `index.go:379-380` |
| `IndexTwoEntries.cfg`, `MCKeyIndex` | `NeverTwoEntries` | two writers of one key each reclaim a dead bucket for it (`index.go:257`), the outcome that `index.go:198-201` means to exclude |
| `EngineTicketOrder.cfg`, `MCEngine` | `TicketOrder` | `README.md:283` promises exact ticket order; ticket and position are two steps (`fabric.go:397-399`), so of two producers the later ticket may be first |
| `EngineLateCall.cfg`, `MCEngine` | `ClosedIsReported` | a `Publish` after `Close` dereferences nil (`fabric.go:383`, `725`) instead of returning the `ErrClosed` of `errors.go:24`; for shards after the first `v.shard(i)` is nil plus a few kilobytes, so a late `Drain` faults in a way that cannot be recovered |
| `ArenaAdvised.cfg`, `MCArena` | `FullyResident` | `prefault` touches one address per 2 MiB once `madvise` was accepted (`arena.go:208`), although the kernel may serve small pages; without `mlock` the rest is not resident, against `arena.go:180-183` |
| `ArenaWrapped.cfg`, `MCArena` | `ShardFits` | `cells * stride` is unchecked (`ring.go:75`) and `normalize` puts no bound on the payload; if it wraps, cells lie outside the mapping |

## Known limits

Cases the passing runs and the theorems exclude:

- **Readers and `Close`.** `Close` joins its workers and the ticker, not the callers of `Lookup`, `Stats`, `Drain` or
  `Publish`. `MemorySafe` is checked and proved for callers that are joined first.
- **`Close` inside a handler** waits for the worker the handler runs on (`fabric.go:709`), for ever.
- **Several consumers of one shard.** `dequeue` and the handler are two steps, so with a worker and a `Drain`, or two
  `Drain`s, consecutive records are handled in any order; `ProducerOrder` has one consumer per shard.
- **Snapshots during ingestion.** `StatsAccount` is about a snapshot after the producers have returned. Before
  that `Consumed` may exceed `Ingested`, which is loaded earlier, and `pending` may exceed the capacity,
  so `occupancyPct` may exceed the 100 of its comment (`ring.go:327`).
- **Refused unmappings.** What `munmap` refuses stays mapped: the tail slack (`arena.go:154`), a span that `Arena.Close`
  forgets all the same (`arena.go:281`), and whatever the error paths ignore. `NothingLeaks` is about all other memory.
  In `Engine` an arena that was closed is unmapped.

## Not modelled

- The wrap of 64-bit positions (2^64 records in one shard).
- Memory orders below sequential consistency: Go's atomics are sequentially consistent, and `Ring` shows
  that the plain accesses never overlap.
- `normalize`'s doubling loop for more than 2^62 shards, which never ends.
- Payload bytes and their checksum, timestamps and the value of the coarse clock, gate trip counts and
  probe counts; of a snapshot, repeated loads and constants. `saturation` has no caller, although its
  comment says that `Stats` is one.
- Core affinity (`sysPinThreadToCore`), padding, and the flags, timing and output of `vaultagectl`.
- `Close`'s `forceOpen` of the gate: no call that starts after `running` is cleared reads the gate.
- Handlers that keep a payload after they return; the documentation forbids it.

## Plan

1. Done: `CommitLog`, `Ring`; `Backpressure`, `KeyIndex` with the freshness of lookups, `Engine` with `Lookup`, `Stats`
   and calls after `Close`, `Layout`, `Arena` on every platform; the safety of all of them proved.
2. Left of the model: the gate inside `Engine`, so that refusal, draining and shutdown meet in one model; each
   of the two is close to what TLC can enumerate, so one of them must be made smaller first.
3. Left of the proofs: `LookupFresh` where a bucket may be reclaimed, for entries that `isDead` does not misjudge.
