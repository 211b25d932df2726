------------------------------- MODULE Engine -------------------------------
(***************************************************************************)
(* The life of an engine (Vautlage/fabric.go): New maps the arenas and     *)
(* starts the workers, Publish feeds the shards, workers and callers of    *)
(* Drain consume them, the ticker refreshes the coarse clock, and Close    *)
(* stops, joins and unmaps.  Lookup and Stats are calls that only read;    *)
(* the program around the engine is that of cmd/vaultagectl: producers,    *)
(* a join, Stats, Close.                                                   *)
(*                                                                         *)
(* A shard's ring is used through what CommitLog promises, which Ring      *)
(* implements; ShardIsLog checks that the engine stays within it.  The     *)
(* gate and the index have modules of their own: a refusal by the gate     *)
(* leaves nothing behind here, and of upsert and lookup only the memory    *)
(* they touch matters.                                                     *)
(***************************************************************************)
EXTENDS Integers, Sequences, FiniteSets, FiniteSetsExt

CONSTANTS
    NShards,      \* shards
    Capacity,     \* cells per shard
    Producers,    \* goroutines calling Publish
    Drainers,     \* goroutines calling Drain
    Closers,      \* goroutines calling Close
    Readers,      \* goroutines calling Lookup
    Observers,    \* goroutines calling Stats, once each
    HasConsumer,  \* Config.Consumer # nil
    CoarseClock,  \* Config.CoarseClock > 0
    JoinFirst,    \* the caller joins its own goroutines before Stats and Close
    MaxTickets    \* bound: tickets issued in one behaviour

(* Goroutines are finitely many at any time; a worker is named after its   *)
(* shard, and no caller of Drain is; Lookup and Stats have callers of      *)
(* their own.                                                              *)
ASSUME EngineAssumption ==
    /\ NShards \in Nat \ {0}
    /\ IsFiniteSet(Producers) /\ IsFiniteSet(Drainers) /\ Drainers \cap (1 .. NShards) = {}
    /\ Readers \cap Observers = {}
    /\ Capacity \in Nat \ {0, 1}
    /\ HasConsumer \in BOOLEAN /\ CoarseClock \in BOOLEAN /\ JoinFirst \in BOOLEAN
    /\ MaxTickets \in Nat

Shards == 1 .. NShards
Ctl == 0                      \* the control arena
Arenas == {Ctl} \cup Shards
Workers == IF HasConsumer THEN Shards ELSE {}
Consumers == Workers \cup Drainers
Queries == Readers \cup Observers
Tickets == 1 .. MaxTickets

VARIABLES
    phase,     \* New: "building", then "up", or "teardown" and "failed"
    mem,       \* arenas that are mapped
    nilled,    \* v.ctl and v.shardPtr are nil
    running,   \* ctl.running
    closed,    \* v.closed
    lock,      \* holders of closeMu
    stop,      \* stopCh is closed
    ticker,    \* the clock goroutine: "off", "run"
    issued,    \* ctl.ticket
    dropped,   \* ctl.dropped
    ingested, consumed, rejected,   \* per shard counters
    log,       \* log[s]: tickets in the order of the claimed positions
    written,   \* written[s]: published positions
    commit, head,  \* per shard cursors
    freed,     \* freed[s]: released positions
    pc, shard, ticket, pos,  \* producer: step, shard, ticket, position
    cpc, cshard, cpos,       \* consumer: step, shard, position
    xpc,       \* closer: step
    qpc, qshard,  \* Lookup and Stats: step, shard looked up
    snap,      \* Stats: the values loaded so far, in LoadOrder
    handled,   \* history: tickets in the order the handler saw them
    accepted,  \* history: tickets Publish returned without an error
    author     \* history: who published a ticket

ring == <<log, written, commit, head, freed>>
counters == <<dropped, ingested, consumed, rejected>>
pubVars == <<pc, shard, ticket, pos, issued, accepted, author>>
conVars == <<cpc, cshard, cpos, handled>>
queryVars == <<qpc, qshard, snap>>
lifeVars == <<phase, mem, nilled, running, closed, lock, stop, ticker, xpc>>
traffic == <<ring, counters, pubVars, conVars>>
vars == <<lifeVars, traffic, queryVars>>

Init ==
    /\ phase = "building" /\ mem = {} /\ nilled = FALSE /\ running = FALSE
    /\ closed = FALSE /\ lock = {} /\ stop = FALSE /\ ticker = "off"
    /\ issued = 0 /\ dropped = 0
    /\ ingested = [s \in Shards |-> 0]
    /\ consumed = [s \in Shards |-> 0]
    /\ rejected = [s \in Shards |-> 0]
    /\ log = [s \in Shards |-> <<>>]
    /\ written = [s \in Shards |-> {}]
    /\ commit = [s \in Shards |-> 0]
    /\ head = [s \in Shards |-> 0]
    /\ freed = [s \in Shards |-> {}]
    /\ pc = [p \in Producers |-> "idle"]
    /\ shard = [p \in Producers |-> 1]
    /\ ticket = [p \in Producers |-> 0]
    /\ pos = [p \in Producers |-> 0]
    /\ cpc = [c \in Consumers |-> "off"]
    /\ cshard = [c \in Consumers |-> IF c \in Drainers THEN 1 ELSE c]
    /\ cpos = [c \in Consumers |-> 0]
    /\ xpc = [k \in Closers |-> "out"]
    /\ qpc = [q \in Queries |-> "out"]
    /\ qshard = [q \in Queries |-> 1]
    /\ snap = [o \in Observers |-> <<>>]
    /\ handled = [s \in Shards |-> <<>>]
    /\ accepted = {}
    /\ author = [t \in Tickets |-> {}]

Goto(p, label) == pc' = [pc EXCEPT ![p] = label]
CGoto(c, label) == cpc' = [cpc EXCEPT ![c] = label]
Return(p) ==
    /\ Goto(p, "idle")
    /\ shard' = [shard EXCEPT ![p] = 1]
    /\ ticket' = [ticket EXCEPT ![p] = 0]
    /\ pos' = [pos EXCEPT ![p] = 0]
XGoto(k, label) == xpc' = [xpc EXCEPT ![k] = label]

tail(s) == Len(log[s])

(* The arenas that the next step of a thread reads or writes. *)
Needs(p) ==
    CASE pc[p] \in {"idle", "faulted"} -> {}
      [] pc[p] \in {"call", "ticket"}  -> {Ctl}
      [] OTHER                         -> {Ctl, shard[p]}
CNeeds(c) ==
    CASE cpc[c] \in {"off", "done", "faulted"} -> {}
      [] cpc[c] \in {"handle", "release"}      -> {Ctl, cshard[c]}
      [] OTHER                                 -> {Ctl}
QNeeds(q) ==
    IF qpc[q] # "in" THEN {} ELSE {Ctl} \cup {qshard[r] : r \in Readers \cap {q}}

(* A caller that joins its goroutines before Stats and Close starts no     *)
(* other call from then on, unless it is a late one: Close has returned.   *)
Late == \E k \in Closers : xpc[k] = "returned"
MayCall ==
    /\ phase = "up"
    /\ JoinFirst => \/ Late
                    \/ /\ \A k \in Closers : xpc[k] = "out"
                       /\ \A o \in Observers : qpc[o] = "out"
Joined == /\ \A p \in Producers : pc[p] = "idle"
          /\ \A d \in Drainers : cpc[d] = "off"
          /\ \A q \in Queries : qpc[q] # "in"

(* A call loads v.ctl or v.shardPtr first; nil faults. *)
Enter(label) == IF nilled THEN "faulted" ELSE label

-----------------------------------------------------------------------------
(* Plausible mistakes: each stands in for the operation it is named after. *)

(* One arena too many is mapped. *)
BadMapShard ==
    /\ phase = "building" /\ Ctl \in mem
    /\ Cardinality(mem) \in 1 .. NShards + 1
    /\ mem' = mem \cup {Cardinality(mem)}
    /\ UNCHANGED <<phase, nilled, running, closed, lock, stop, ticker, xpc, traffic>>

(* New returns the error of a data arena without giving the others back. *)
BadBuildFails ==
    /\ phase = "building"
    /\ phase' = "failed"
    /\ UNCHANGED <<mem, nilled, running, closed, lock, stop, ticker, xpc, traffic>>

(* A full shard is counted by the shard and not by the engine. *)
BadDrop(p) ==
    /\ pc[p] = "drop" /\ Needs(p) \subseteq mem
    /\ Goto(p, "mark")
    /\ UNCHANGED <<lifeVars, ring, counters, shard, ticket, pos, issued, accepted, author, conVars>>

(* The consumer is gated on the tail. *)
BadDequeueTail(c) ==
    LET s == cshard[c] IN
    /\ cpc[c] = "run" /\ CNeeds(c) \subseteq mem
    /\ head[s] < tail(s)
    /\ cpos' = [cpos EXCEPT ![c] = head[s]]
    /\ head' = [head EXCEPT ![s] = @ + 1]
    /\ CGoto(c, "handle")
    /\ UNCHANGED <<lifeVars, log, written, commit, freed, counters, pubVars, cshard, handled>>

(* The consumer takes the newest committed record. *)
BadDequeueNewest(c) ==
    LET s == cshard[c] IN
    /\ cpc[c] = "run" /\ CNeeds(c) \subseteq mem
    /\ head[s] < commit[s]
    /\ cpos' = [cpos EXCEPT ![c] = commit[s] - 1]
    /\ head' = [head EXCEPT ![s] = @ + 1]
    /\ CGoto(c, "handle")
    /\ UNCHANGED <<lifeVars, log, written, commit, freed, counters, pubVars, cshard, handled>>

(* An idle worker leaves while the engine runs. *)
BadIdleRunning(c) ==
    /\ cpc[c] = "running" /\ CNeeds(c) \subseteq mem
    /\ CGoto(c, "pending")
    /\ UNCHANGED <<lifeVars, ring, counters, pubVars, cshard, cpos, handled>>

(* A worker leaves without a last look at its ring. *)
BadIdlePending(c) ==
    /\ cpc[c] = "pending" /\ CNeeds(c) \subseteq mem
    /\ CGoto(c, "done")
    /\ UNCHANGED <<lifeVars, ring, counters, pubVars, cshard, cpos, handled>>

(* Close without the mutex. *)
BadLockClose(k) ==
    /\ xpc[k] = "lock"
    /\ IF closed THEN XGoto(k, "returned") /\ UNCHANGED <<lock, closed>>
                 ELSE XGoto(k, "stop") /\ lock' = {k} /\ closed' = TRUE
    /\ UNCHANGED <<phase, mem, nilled, running, stop, ticker, traffic>>

(* stopCh is never closed. *)
BadSignalStop(k) ==
    /\ xpc[k] = "signal"
    /\ XGoto(k, "wait")
    /\ UNCHANGED <<phase, mem, nilled, running, closed, lock, stop, ticker, traffic>>

(* The pointers into the control arena are left as they were. *)
BadClearPointers(k) ==
    /\ xpc[k] = "clear"
    /\ lock' = {}
    /\ XGoto(k, "returned")
    /\ UNCHANGED <<phase, mem, nilled, running, closed, stop, ticker, traffic>>

(* Stats loads the consumed counter of a shard before its cursors. *)
BadShardWords ==
    <<"consumed", "pendingHead", "pendingTail", "committedHead", "committedTo", "ingested", "rejected">>

(* Close does not wait for the goroutines it stopped. *)
BadWaitAll(k) ==
    /\ xpc[k] = "wait"
    /\ XGoto(k, "unmap")
    /\ UNCHANGED <<phase, mem, nilled, running, closed, lock, stop, ticker, traffic>>

-----------------------------------------------------------------------------
(* New: the control arena, the data arenas one by one, then the goroutines *)

MapCtl ==
    /\ phase = "building" /\ mem = {}
    /\ mem' = {Ctl}
    /\ running' = TRUE
    /\ UNCHANGED <<phase, nilled, closed, lock, stop, ticker, xpc, traffic>>

MapShard ==
    /\ phase = "building" /\ Ctl \in mem
    /\ Cardinality(mem) \in Shards
    /\ mem' = mem \cup {Cardinality(mem)}
    /\ UNCHANGED <<phase, nilled, running, closed, lock, stop, ticker, xpc, traffic>>

(* normalize, initGate or a NewArena fails, or initRing or initIndex of the *)
(* shard mapped last; with nothing mapped yet New returns at once.         *)
BuildFails ==
    /\ phase = "building"
    /\ phase' = IF mem = {} THEN "failed" ELSE "teardown"
    /\ UNCHANGED <<mem, nilled, running, closed, lock, stop, ticker, xpc, traffic>>

(* teardownArenas, in the order the arenas were mapped, then ctlArena.Close *)
TearDownShard ==
    /\ phase = "teardown" /\ mem \cap Shards # {}
    /\ mem' = mem \ {Min(mem \cap Shards)}
    /\ UNCHANGED <<phase, nilled, running, closed, lock, stop, ticker, xpc, traffic>>

TearDownCtl ==
    /\ phase = "teardown" /\ mem \cap Shards = {}
    /\ mem' = mem \ {Ctl}
    /\ phase' = "failed"
    /\ UNCHANGED <<nilled, running, closed, lock, stop, ticker, xpc, traffic>>

Start ==
    /\ phase = "building" /\ mem = Arenas
    /\ phase' = "up"
    /\ ticker' = IF CoarseClock THEN "run" ELSE "off"
    /\ cpc' = [c \in Consumers |-> IF c \in Workers THEN "run" ELSE "off"]
    /\ UNCHANGED <<mem, nilled, running, closed, lock, stop, xpc, ring, counters, pubVars, cshard, cpos, handled>>

(* clockTicker: a tick stores to ctl.clock, and stopCh ends it. *)
TickerStop ==
    /\ ticker = "run" /\ stop
    /\ ticker' = "off"
    /\ UNCHANGED <<phase, mem, nilled, running, closed, lock, stop, xpc, traffic>>

-----------------------------------------------------------------------------
(* publish.  A zero key, an oversized payload and a shut gate return at    *)
(* once and change nothing here.                                           *)

Publish(p, s) ==
    /\ pc[p] = "idle" /\ MayCall
    /\ issued + Cardinality({q \in Producers : pc[q] \in {"call", "ticket"}}) < MaxTickets
    /\ shard' = [shard EXCEPT ![p] = s]
    /\ Goto(p, Enter("call"))
    /\ UNCHANGED <<lifeVars, ring, counters, ticket, pos, issued, accepted, author, conVars>>

CheckRunning(p) ==
    /\ pc[p] = "call" /\ Needs(p) \subseteq mem
    /\ IF running THEN Goto(p, "ticket") /\ UNCHANGED <<shard, ticket, pos>> ELSE Return(p)
    /\ UNCHANGED <<lifeVars, ring, counters, issued, accepted, author, conVars>>

TakeTicket(p) ==
    /\ pc[p] = "ticket" /\ Needs(p) \subseteq mem
    /\ issued' = issued + 1
    /\ ticket' = [ticket EXCEPT ![p] = issued + 1]
    /\ author' = [author EXCEPT ![issued + 1] = {p}]
    /\ Goto(p, "claim")
    /\ UNCHANGED <<lifeVars, ring, counters, shard, pos, accepted, conVars>>

(* ring.claim succeeds when the cell of the next position is free. *)
HasRoom(s) == tail(s) < Capacity \/ tail(s) - Capacity \in freed[s]

Claim(p) ==
    LET s == shard[p] IN
    /\ pc[p] = "claim" /\ Needs(p) \subseteq mem
    /\ HasRoom(s)
    /\ log' = [log EXCEPT ![s] = Append(@, ticket[p])]
    /\ pos' = [pos EXCEPT ![p] = tail(s)]
    /\ Goto(p, "write")
    /\ UNCHANGED <<lifeVars, written, commit, head, freed, counters, shard, ticket, issued, accepted, author, conVars>>

(* ErrShardFull: the shard counts it, the engine counts it, markSaturated. *)
ClaimFull(p) ==
    /\ pc[p] = "claim" /\ Needs(p) \subseteq mem
    /\ ~HasRoom(shard[p])
    /\ rejected' = [rejected EXCEPT ![shard[p]] = @ + 1]
    /\ Goto(p, "drop")
    /\ UNCHANGED <<lifeVars, ring, dropped, ingested, consumed, shard, ticket, pos, issued, accepted, author, conVars>>

Drop(p) ==
    /\ pc[p] = "drop" /\ Needs(p) \subseteq mem
    /\ dropped' = dropped + 1
    /\ Goto(p, "mark")
    /\ UNCHANGED <<lifeVars, ring, ingested, consumed, rejected, shard, ticket, pos, issued, accepted, author, conVars>>

Refuse(p) ==
    /\ pc[p] = "mark" /\ Needs(p) \subseteq mem
    /\ Return(p)
    /\ UNCHANGED <<lifeVars, ring, counters, issued, accepted, author, conVars>>

Write(p) ==
    /\ pc[p] = "write" /\ Needs(p) \subseteq mem
    /\ written' = [written EXCEPT ![shard[p]] = @ \cup {pos[p]}]
    /\ Goto(p, "count")
    /\ UNCHANGED <<lifeVars, log, commit, head, freed, counters, shard, ticket, pos, issued, accepted, author, conVars>>

(* advanceCommit, by whichever producer helps. *)
Commit(s) ==
    /\ {Ctl, s} \subseteq mem
    /\ commit[s] \in written[s]
    /\ commit' = [commit EXCEPT ![s] = @ + 1]
    /\ UNCHANGED <<lifeVars, log, written, head, freed, counters, pubVars, conVars>>

CountIngested(p) ==
    /\ pc[p] = "count" /\ Needs(p) \subseteq mem
    /\ ingested' = [ingested EXCEPT ![shard[p]] = @ + 1]
    /\ Goto(p, "index")
    /\ UNCHANGED <<lifeVars, ring, dropped, consumed, rejected, shard, ticket, pos, issued, accepted, author, conVars>>

(* upsert, the test of the occupancy, markSaturated; the ticket is returned *)
Accept(p) ==
    /\ pc[p] = "index" /\ Needs(p) \subseteq mem
    /\ accepted' = accepted \cup {ticket[p]}
    /\ Return(p)
    /\ UNCHANGED <<lifeVars, ring, counters, issued, author, conVars>>

-----------------------------------------------------------------------------
(* worker and Drain                                                        *)

Dequeue(c) ==
    LET s == cshard[c] IN
    /\ cpc[c] = "run" /\ CNeeds(c) \subseteq mem
    /\ head[s] < commit[s]
    /\ cpos' = [cpos EXCEPT ![c] = head[s]]
    /\ head' = [head EXCEPT ![s] = @ + 1]
    /\ CGoto(c, "handle")
    /\ UNCHANGED <<lifeVars, log, written, commit, freed, counters, pubVars, cshard, handled>>

Handle(c) ==
    LET s == cshard[c] IN
    /\ cpc[c] = "handle" /\ CNeeds(c) \subseteq mem
    /\ handled' = [handled EXCEPT ![s] = Append(@, log[s][cpos[c] + 1])]
    /\ CGoto(c, "release")
    /\ UNCHANGED <<lifeVars, ring, counters, pubVars, cshard, cpos>>

Release(c) ==
    LET s == cshard[c] IN
    /\ cpc[c] = "release" /\ CNeeds(c) \subseteq mem
    /\ freed' = [freed EXCEPT ![s] = @ \cup {cpos[c]}]
    /\ CGoto(c, "consumed")
    /\ UNCHANGED <<lifeVars, log, written, commit, head, counters, pubVars, cshard, cpos, handled>>

(* A Drain has delivered max records, or goes on. *)
CountConsumed(c) ==
    /\ cpc[c] = "consumed" /\ CNeeds(c) \subseteq mem
    /\ consumed' = [consumed EXCEPT ![cshard[c]] = @ + 1]
    /\ CGoto(c, "run") \/ (c \in Drainers /\ CGoto(c, "sated"))
    /\ UNCHANGED <<lifeVars, ring, dropped, ingested, rejected, pubVars, cshard, cpos, handled>>

(* The ring is empty: the worker looks at running and, once it is clear,   *)
(* at pending; the caller of Drain goes on to the next shard.              *)
Empty(c) ==
    /\ cpc[c] = "run" /\ CNeeds(c) \subseteq mem
    /\ head[cshard[c]] >= commit[cshard[c]]

WorkerEmpty(c) ==
    /\ Empty(c) /\ c \in Workers
    /\ CGoto(c, "running")
    /\ UNCHANGED <<lifeVars, ring, counters, pubVars, cshard, cpos, handled>>

IdleRunning(c) ==
    /\ cpc[c] = "running" /\ CNeeds(c) \subseteq mem
    /\ CGoto(c, IF running THEN "run" ELSE "pending")
    /\ UNCHANGED <<lifeVars, ring, counters, pubVars, cshard, cpos, handled>>

IdlePending(c) ==
    /\ cpc[c] = "pending" /\ CNeeds(c) \subseteq mem
    /\ CGoto(c, IF head[cshard[c]] = tail(cshard[c]) THEN "done" ELSE "run")
    /\ UNCHANGED <<lifeVars, ring, counters, pubVars, cshard, cpos, handled>>

Drain(d) ==
    /\ cpc[d] = "off" /\ MayCall
    /\ CGoto(d, Enter("run"))
    /\ UNCHANGED <<lifeVars, ring, counters, pubVars, cshard, cpos, handled>>

DrainNext(d) ==
    /\ d \in Drainers /\ Empty(d) /\ cshard[d] < NShards
    /\ cshard' = [cshard EXCEPT ![d] = @ + 1]
    /\ UNCHANGED <<lifeVars, ring, counters, pubVars, cpc, cpos, handled>>

(* After the last shard; with max records delivered the other shards are   *)
(* only swept.                                                             *)
DrainReturn(d) ==
    /\ d \in Drainers /\ CNeeds(d) \subseteq mem
    /\ cpc[d] = "sated" \/ (Empty(d) /\ cshard[d] = NShards)
    /\ cshard' = [cshard EXCEPT ![d] = 1]
    /\ CGoto(d, "off")
    /\ UNCHANGED <<lifeVars, ring, counters, pubVars, cpos, handled>>

-----------------------------------------------------------------------------
(* Lookup and Stats                                                        *)

QGoto(q, label) == qpc' = [qpc EXCEPT ![q] = label]

Lookup(r, s) ==
    /\ qpc[r] = "out" /\ MayCall
    /\ QGoto(r, Enter("in"))
    /\ qshard' = [qshard EXCEPT ![r] = s]
    /\ UNCHANGED snap

LookupReturn(r) ==
    /\ qpc[r] = "in" /\ QNeeds(r) \subseteq mem
    /\ QGoto(r, "out")
    /\ qshard' = [qshard EXCEPT ![r] = 1]
    /\ UNCHANGED snap

(* The words that Stats loads, in the order of its loads; pending and      *)
(* committed are two loads each.  The rest of a snapshot repeats these or  *)
(* never changes.                                                          *)
ShardWords ==
    <<"pendingHead", "pendingTail", "committedHead", "committedTo", "ingested", "consumed", "rejected">>
LoadOrder ==
    [n \in 1 .. 7 * NShards + 2 |->
        CASE n = 1 -> <<"tickets", Ctl>>
          [] n = 2 -> <<"dropped", Ctl>>
          [] n > 2 -> <<ShardWords[((n - 3) % 7) + 1], ((n - 3) \div 7) + 1>>]

Word(w, s) ==
    CASE w = "tickets"                           -> issued
      [] w = "dropped"                           -> dropped
      [] w \in {"pendingHead", "committedHead"}  -> head[s]
      [] w = "pendingTail"                       -> tail(s)
      [] w = "committedTo"                       -> commit[s]
      [] w = "ingested"                          -> ingested[s]
      [] w = "consumed"                          -> consumed[s]
      [] w = "rejected"                          -> rejected[s]

Stats(o) ==
    /\ qpc[o] = "out" /\ phase = "up"
    /\ JoinFirst => Late \/ (Joined /\ \A k \in Closers : xpc[k] = "out")
    /\ QGoto(o, Enter("in"))
    /\ UNCHANGED <<qshard, snap>>

StatsLoad(o) ==
    LET n == Len(snap[o]) + 1 IN
    /\ qpc[o] = "in" /\ QNeeds(o) \subseteq mem
    /\ n <= Len(LoadOrder)
    /\ snap' = [snap EXCEPT ![o] = Append(@, Word(LoadOrder[n][1], LoadOrder[n][2]))]
    /\ UNCHANGED <<qpc, qshard>>

Complete(o) == Len(snap[o]) = Len(LoadOrder)

StatsReturn(o) ==
    /\ qpc[o] = "in" /\ Complete(o)
    /\ QGoto(o, "done")
    /\ snap' = [snap EXCEPT ![o] = <<>>]
    /\ UNCHANGED qshard

-----------------------------------------------------------------------------
(* Close                                                                   *)

CallClose(k) ==
    /\ xpc[k] = "out" /\ phase = "up"
    /\ JoinFirst => Joined
    /\ XGoto(k, "lock")
    /\ UNCHANGED <<phase, mem, nilled, running, closed, lock, stop, ticker, traffic>>

LockClose(k) ==
    /\ xpc[k] = "lock" /\ lock = {}
    /\ IF closed THEN XGoto(k, "returned") /\ UNCHANGED <<lock, closed>>
                 ELSE XGoto(k, "stop") /\ lock' = {k} /\ closed' = TRUE
    /\ UNCHANGED <<phase, mem, nilled, running, stop, ticker, traffic>>

StopRunning(k) ==
    /\ xpc[k] = "stop" /\ Ctl \in mem
    /\ running' = FALSE
    /\ XGoto(k, "signal")
    /\ UNCHANGED <<phase, mem, nilled, closed, lock, stop, ticker, traffic>>

SignalStop(k) ==
    /\ xpc[k] = "signal"
    /\ stop' = TRUE
    /\ XGoto(k, "wait")
    /\ UNCHANGED <<phase, mem, nilled, running, closed, lock, ticker, traffic>>

(* wg.Wait: the workers and the ticker. *)
WaitAll(k) ==
    /\ xpc[k] = "wait"
    /\ ticker = "off" /\ \A w \in Workers : cpc[w] = "done"
    /\ XGoto(k, "unmap")
    /\ UNCHANGED <<phase, mem, nilled, running, closed, lock, stop, ticker, traffic>>

UnmapShard(k) ==
    /\ xpc[k] = "unmap" /\ mem \cap Shards # {}
    /\ mem' = mem \ {Min(mem \cap Shards)}
    /\ UNCHANGED <<phase, nilled, running, closed, lock, stop, ticker, xpc, traffic>>

(* The control arena goes last; then its pointers are cleared, and closeMu *)
(* is unlocked on return.                                                  *)
UnmapCtl(k) ==
    /\ xpc[k] = "unmap" /\ mem = {Ctl}
    /\ mem' = {}
    /\ XGoto(k, "clear")
    /\ UNCHANGED <<phase, nilled, running, closed, lock, stop, ticker, traffic>>

ClearPointers(k) ==
    /\ xpc[k] = "clear"
    /\ nilled' = TRUE
    /\ lock' = {}
    /\ XGoto(k, "returned")
    /\ UNCHANGED <<phase, mem, running, closed, stop, ticker, traffic>>

-----------------------------------------------------------------------------
NewStep ==
    /\ MapCtl \/ MapShard \/ BuildFails \/ TearDownShard \/ TearDownCtl \/ Start
    /\ UNCHANGED queryVars

TickerStep == TickerStop /\ UNCHANGED queryVars

ProducerStep(p) ==
    /\ \/ CheckRunning(p) \/ TakeTicket(p) \/ Claim(p) \/ Write(p) \/ CountIngested(p) \/ Accept(p)
       \/ ClaimFull(p) \/ Drop(p) \/ Refuse(p)
    /\ UNCHANGED queryVars

CommitStep(s) == Commit(s) /\ UNCHANGED queryVars

ConsumerStep(c) ==
    /\ \/ Dequeue(c) \/ Handle(c) \/ Release(c) \/ CountConsumed(c)
       \/ WorkerEmpty(c) \/ IdleRunning(c) \/ IdlePending(c)
       \/ DrainNext(c) \/ DrainReturn(c)
    /\ UNCHANGED queryVars

CloserStep(k) ==
    /\ \/ LockClose(k) \/ StopRunning(k) \/ SignalStop(k) \/ WaitAll(k)
       \/ UnmapShard(k) \/ UnmapCtl(k) \/ ClearPointers(k)
    /\ UNCHANGED queryVars

(* Somebody calls Publish, Drain or Close. *)
Call ==
    /\ \/ \E p \in Producers, s \in Shards : Publish(p, s)
       \/ \E d \in Drainers : Drain(d)
       \/ \E k \in Closers : CallClose(k)
    /\ UNCHANGED queryVars

QueryStep ==
    /\ \/ \E r \in Readers : (\E s \in Shards : Lookup(r, s)) \/ LookupReturn(r)
       \/ \E o \in Observers : Stats(o) \/ StatsLoad(o) \/ StatsReturn(o)
    /\ UNCHANGED <<lifeVars, traffic>>

Next ==
    \/ NewStep \/ TickerStep \/ Call \/ QueryStep
    \/ \E p \in Producers : ProducerStep(p)
    \/ \E s \in Shards : CommitStep(s)
    \/ \E c \in Consumers : ConsumerStep(c)
    \/ \E k \in Closers : CloserStep(k)

Spec == Init /\ [][Next]_vars

(* Goroutines that can run do run, and handlers return.  Nobody has to     *)
(* call Publish, Drain or Close.                                           *)
FairSpec ==
    /\ Spec
    /\ WF_vars(TickerStep)
    /\ \A p \in Producers : WF_vars(ProducerStep(p))
    /\ \A s \in Shards : WF_vars(CommitStep(s))
    /\ \A c \in Consumers : WF_vars(ConsumerStep(c))
    /\ \A k \in Closers : WF_vars(CloserStep(k))

-----------------------------------------------------------------------------
(* Properties                                                              *)

LifeType ==
    /\ phase \in {"building", "teardown", "up", "failed"}
    /\ mem \in SUBSET Arenas /\ nilled \in BOOLEAN
    /\ running \in BOOLEAN /\ closed \in BOOLEAN /\ stop \in BOOLEAN
    /\ lock \in SUBSET Closers /\ ticker \in {"off", "run"}
    /\ xpc \in [Closers -> {"out", "lock", "stop", "signal", "wait", "unmap", "clear", "returned"}]
CounterType ==
    /\ dropped \in Nat
    /\ ingested \in [Shards -> Nat] /\ consumed \in [Shards -> Nat] /\ rejected \in [Shards -> Nat]
RingType ==
    /\ log \in [Shards -> Seq(Tickets)]
    /\ written \in [Shards -> SUBSET Nat] /\ freed \in [Shards -> SUBSET Nat]
    /\ commit \in [Shards -> Nat] /\ head \in [Shards -> Nat]
PublishType ==
    /\ pc \in [Producers -> {"idle", "call", "ticket", "claim", "write", "count", "index", "drop", "mark",
                         "faulted"}]
    /\ shard \in [Producers -> Shards] /\ ticket \in [Producers -> 0 .. MaxTickets]
    /\ pos \in [Producers -> Nat]
    /\ issued \in 0 .. MaxTickets
    /\ accepted \in SUBSET Tickets /\ author \in [Tickets -> SUBSET Producers]
ConsumeType ==
    /\ cpc \in [Consumers -> {"off", "run", "handle", "release", "consumed", "running", "pending",
                           "sated", "done", "faulted"}]
    /\ cshard \in [Consumers -> Shards] /\ cpos \in [Consumers -> Nat]
    /\ handled \in [Shards -> Seq(Tickets)]
QueryType ==
    /\ qpc \in [Queries -> {"out", "in", "done", "faulted"}] /\ qshard \in [Queries -> Shards]
    /\ snap \in [Observers -> Seq(Nat)]

(* Type invariant of the life cycle, the shards and the callers.           *)
TypeOK == LifeType /\ CounterType /\ RingType /\ PublishType /\ ConsumeType /\ QueryType

(* No goroutine is about to touch an arena that New has not mapped or that *)
(* Close has unmapped: "the mapping may only be torn down after the last   *)
(* worker has returned" (fabric.go:691-692).  It holds for calls made      *)
(* after Close too, which meet nil "rather than a read of unmapped memory" *)
(* (fabric.go:723-724).                                                    *)
MemorySafe ==
    /\ \A p \in Producers : Needs(p) \subseteq mem
    /\ \A c \in Consumers : CNeeds(c) \subseteq mem
    /\ \A q \in Queries : QNeeds(q) \subseteq mem
    /\ ticker = "run" => Ctl \in mem

(* A New that failed after any number of arenas leaves none mapped, and    *)
(* neither does a finished Close, whichever closer did the work.           *)
NothingLeaks ==
    phase = "failed" \/ (\E k \in Closers : xpc[k] = "returned") => mem = {}

(* "With a consumer, Close drains fully before unmapping" (README.md:524): *)
(* when a shard is unmapped its records have all been handled.             *)
DrainedAtClose ==
    \A s \in Shards \ mem :
        phase = "up" /\ HasConsumer =>
            \A i \in 1 .. tail(s) : log[s][i] \in {handled[s][j] : j \in 1 .. Len(handled[s])}

(* The records one producer publishes to one shard reach the shard's       *)
(* worker in the order of their tickets.                                   *)
ProducerOrder ==
    \A s \in Shards, p \in Producers :
        \A i, j \in 1 .. Len(handled[s]) :
            i < j /\ p \in author[handled[s][i]] /\ p \in author[handled[s][j]] =>
                handled[s][i] < handled[s][j]

(* README.md:283: "Records are therefore delivered in exact ticket order". *)
TicketOrder ==
    \A s \in Shards : \A i, j \in 1 .. Len(handled[s]) :
        i < j => handled[s][i] < handled[s][j]

(* errors.go:24: ErrClosed "is returned once Close has been called".  A    *)
(* Publish called after Close has returned does not fault instead.         *)
ClosedIsReported == \A p \in Producers : pc[p] # "faulted"

PublishersAt(steps, s) == {p \in Producers : pc[p] \in steps /\ shard[p] = s}
ConsumersAt(steps, s) == {c \in Consumers : cpc[c] \in steps /\ cshard[c] = s}

(* The sum of a counter over the shards: as many as it has units. *)
Units(f) == UNION {{s} \X (1 .. f[s]) : s \in Shards}
Total(f) == Cardinality(Units(f))

TicketsBalance ==
    issued = Total(ingested) + dropped
               + Cardinality({p \in Producers : pc[p] \in {"claim", "write", "count", "drop"}})

RecordsBalance ==
    \A s \in Shards :
        ingested[s] + Cardinality(PublishersAt({"write", "count"}, s))
          = consumed[s] + (tail(s) - head[s]) + Cardinality(ConsumersAt({"handle", "release", "consumed"}, s))

(* The counters of Stats account for every ticket: it was ingested,        *)
(* dropped with ErrShardFull, or its Publish is still under way; and every *)
(* ingested record is consumed, waiting, or in a consumer's hands.         *)
CountersBalance == TicketsBalance /\ RecordsBalance

(* A value of a complete snapshot. *)
Shown(o, w, s) == snap[o][CHOOSE i \in 1 .. Len(LoadOrder) : LoadOrder[i] = <<w, s>>]

(* stats.go:21-22: counters are "individually exact but mutually           *)
(* approximate".  How far apart they may be when the producers have        *)
(* returned and the workers have not (main.go:106-109): every ticket is    *)
(* ingested or dropped, every drop is some shard's, and no ingested record *)
(* is missing: it is consumed, pending, or in the hands of the worker.      *)
StatsAccount ==
    \A o \in Observers : Complete(o) /\ JoinFirst =>
        /\ Shown(o, "tickets", Ctl) = Shown(o, "dropped", Ctl)
              + Total([s \in Shards |-> Shown(o, "ingested", s)])
        /\ Shown(o, "dropped", Ctl) = Total([s \in Shards |-> Shown(o, "rejected", s)])
        /\ \A s \in Shards :
              LET pending == Shown(o, "pendingTail", s) - Shown(o, "pendingHead", s)
                  committed == Shown(o, "committedTo", s) - Shown(o, "committedHead", s)
                  missing == Shown(o, "ingested", s) - Shown(o, "consumed", s) - pending
              IN  committed <= pending /\ missing <= Cardinality(Workers \cap {s})

(* Every shard is used as the bounded commit log that Ring implements.     *)
Log(s) == INSTANCE CommitLog WITH
    claimed <- tail(s), published <- written[s], committed <- commit[s],
    taken <- head[s], freed <- freed[s]
ShardIsLog ==
    [][\A s \in Shards : Log(s)!LogNext \/ UNCHANGED Log(s)!logVars]_vars

(* Close returns, to every caller, once the workers have drained.          *)
CloseReturns == \A k \in Closers : (xpc[k] = "lock") ~> (xpc[k] = "returned")

(* A record that Publish accepted reaches the handler.                     *)
AcceptedIsDelivered ==
    \A t \in Tickets : (t \in accepted) ~>
        \E s \in Shards : \E i \in 1 .. Len(handled[s]) : handled[s][i] = t
=============================================================================
