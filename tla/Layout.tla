------------------------------- MODULE Layout -------------------------------
(***************************************************************************)
(* The arithmetic that turns a Config into the sizes of a shard's arena:   *)
(* Config.normalize and New (Vautlage/fabric.go), ringBytes (ring.go),     *)
(* indexBytes (index.go) and the helpers of layout.go.  Words wrap at      *)
(* 2^Width; all sizes are scaled down with it.                             *)
(***************************************************************************)
EXTENDS Integers

CONSTANTS
    Width,            \* bits of a word
    HeaderSize, CacheLineSize, IndexBucketSize,
    PageSize,         \* the host's page
    HugePageSize,
    Procs,            \* GOMAXPROCS
    DefaultCells, DefaultPayload

Word == 2 ^ Width
Powers == {2 ^ i : i \in 0 .. Width - 1}

(* A header fills whole lines, buckets tile a line, and lines and pages    *)
(* tile a huge page (layout.go and index.go assert the first two).         *)
ASSUME LayoutAssumption ==
    /\ Width \in Nat \ {0}
    /\ {CacheLineSize, IndexBucketSize, PageSize, HugePageSize} \subseteq Powers
    /\ HeaderSize \in Nat /\ HeaderSize % CacheLineSize = 0
    /\ CacheLineSize % IndexBucketSize = 0
    /\ HugePageSize % CacheLineSize = 0 /\ HugePageSize % PageSize = 0
    /\ Procs \in Nat \ {0}
    /\ DefaultCells \in Powers /\ DefaultPayload \in Nat \ {0}

(* How 2^i grows, for the provers, which do not know the exponential.      *)
ASSUME PowersAssumption == \A i \in 0 .. Width - 1 : 2 ^ (i + 1) = 2 * 2 ^ i

wrap(n) == n % Word
isPow2(n) == n \in Powers
isAligned(p, align) == p % align = 0

(* A plausible mistake: rounding down. *)
BadAlignUp(n, align) == (n \div align) * align

alignUp(n, align) == (wrap(n + align - 1) \div align) * align

(* The smallest power of two that is not below n. *)
RoundUp(n) == CHOOSE m \in Powers : m >= n /\ \A k \in Powers : k >= n => m <= k

(* A plausible mistake: the headers are left out. *)
BadRingBytes(cells, payload) == wrap(cells * alignUp(payload, CacheLineSize))

cellStrideFor(payload) == alignUp(wrap(HeaderSize + payload), CacheLineSize)
ringBytes(cells, payload) == wrap(cells * cellStrideFor(payload))

(* Addresses: a cell, its payload after the header, a bucket. *)
cellAt(base, i, stride) == base + i * stride
payloadAt(c) == c + HeaderSize
bucketAt(base, i) == base + i * IndexBucketSize

indexBytes(buckets) == wrap(buckets * IndexBucketSize)
Buckets(c) == wrap(c.cells * c.bpc)

(* The defaults that normalize fills in, and what it refuses. *)
Default(x, d) == IF x = 0 THEN d ELSE x
Defaulted(c) ==
    [c EXCEPT !.shards  = RoundUp(IF @ <= 0 THEN Procs ELSE @),
              !.cells   = Default(@, DefaultCells),
              !.payload = Default(@, DefaultPayload),
              !.high    = Default(@, 90),
              !.low     = Default(@, 70),
              !.bpc     = Default(@, 2)]
Acceptable(c) ==
    /\ isPow2(c.cells) /\ isPow2(c.bpc)
    /\ c.payload >= 0
    /\ c.high <= 100 /\ c.low < c.high

(* What initGate, initRing and initIndex ask of their arguments. *)
initGate(c) == c.high # 0 /\ c.high <= 100 /\ c.low < c.high
initRing(c, base) == isPow2(c.cells) /\ isAligned(base, CacheLineSize)
initIndex(c, base) == isPow2(Buckets(c)) /\ isAligned(base, CacheLineSize)

(* Configurations whose sizes, with the roundings, a word can hold.  The   *)
(* code does not check this: normalize bounds neither cells nor payload,   *)
(* and ringBytes and indexBytes multiply as they are.                      *)
Asked(c) == IF c.shards <= 0 THEN Procs ELSE c.shards
Holds(c) ==
    c.cells * (HeaderSize + c.payload + CacheLineSize)
        + (c.cells * c.bpc) * IndexBucketSize + HugePageSize <= Word
Representable(c) == Acceptable(Defaulted(c)) => Holds(Defaulted(c)) /\ Asked(c) <= 2 ^ (Width - 1)
=============================================================================
