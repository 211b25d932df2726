---------------------------- MODULE ArenaProofs ----------------------------
(***************************************************************************)
(* Proofs about the memory of a shard, for every width of a word, every    *)
(* page size, every configuration and every answer of the kernel: New      *)
(* builds a shard in an aligned window that is mapped and resident, or     *)
(* leaves nothing behind but what munmap refused to take.                  *)
(***************************************************************************)
EXTENDS Arena, LayoutProofs

-----------------------------------------------------------------------------
(* Sizes and ranges.                                                       *)

(* The sizes that the platform fixes.                                      *)
LEMMA Sizes ==
  /\ PageSize \in Nat \ {0} /\ HugePageSize \in Nat \ {0} /\ CacheLineSize \in Nat \ {0}
  /\ HugePageSize \in Powers /\ Word \in Nat \ {0} /\ Space \in Nat /\ Space < Word
  /\ isAligned(HugePageSize, PageSize) /\ isAligned(HugePageSize, CacheLineSize)
  <1>1. PageSize \in Powers /\ HugePageSize \in Powers /\ CacheLineSize \in Powers
    BY LayoutAssumption
  <1>2. PageSize \in Nat \ {0} /\ HugePageSize \in Nat \ {0} /\ CacheLineSize \in Nat \ {0} /\ Word \in Nat \ {0}
    BY <1>1, PowerDivides
  <1>3. Space \in Nat /\ Space < Word
    BY <1>2, ArenaAssumption
  <1>4. isAligned(HugePageSize, PageSize) /\ isAligned(HugePageSize, CacheLineSize)
    BY LayoutAssumption DEF isAligned
  <1> QED BY <1>1, <1>2, <1>3, <1>4

(* A range of addresses that are all in the address space.                 *)
LEMMA RangeBounds ==
  ASSUME NEW p \in Nat, NEW n \in Nat, n > 0, Range(p, n) \subseteq Addresses
  PROVE  PageSize <= p /\ p + n <= Space
  <1>1. p \in Range(p, n) /\ p + n - 1 \in Range(p, n)
    BY DEF Range
  <1>2. p \in Addresses /\ p + n - 1 \in Addresses
    BY <1>1
  <1> QED BY <1>2, Sizes DEF Addresses

(* See RangeBounds.                                                        *)
LEMMA RangeInside ==
  ASSUME NEW p \in Nat, NEW n \in Nat, PageSize <= p, p + n <= Space
  PROVE  Range(p, n) \subseteq Addresses
  BY Sizes DEF Range, Addresses

(* A range within a range, and two ranges apart.                           *)
LEMMA SubRange ==
  ASSUME NEW p \in Nat, NEW a \in Nat, NEW k \in Nat, NEW n \in Nat, a + k <= n
  PROVE  Range(p + a, k) \subseteq Range(p, n)
  BY DEF Range

(* See SubRange.                                                           *)
LEMMA ApartRanges ==
  ASSUME NEW p \in Nat, NEW n \in Nat, NEW q \in Nat, NEW k \in Nat, p + n <= q
  PROVE  Range(q, k) \cap Range(p, n) = {}
  BY DEF Range

(* What normalize accepts.                                                 *)
LEMMA AcceptedFields ==
  ASSUME asked \in Configs, cfg = Defaulted(asked), Acceptable(cfg)
  PROVE  cfg.cells \in Powers /\ cfg.bpc \in Powers /\ cfg.payload \in Nat
  <1>1. /\ asked \in [shards : Int, cells : Nat, payload : Int, high : Nat, low : Nat,
                      bpc : Nat, huge : BOOLEAN, pin : BOOLEAN]
    BY ArenaAssumption
  <1>2. cfg.payload = Default(asked.payload, DefaultPayload)
    BY <1>1 DEF Defaulted
  <1>3. cfg.payload \in Int
    BY <1>1, <1>2, LayoutAssumption DEF Default
  <1> QED BY <1>3 DEF Acceptable, isPow2

-----------------------------------------------------------------------------
(* The inductive invariant.  The arena's fields and the kernel's tables    *)
(* are tied together at every step: nothing is mapped before mmap answers, *)
(* then the raw span with its slack, then the tail of it, then exactly the *)
(* window, and after an error or Close only what munmap refused.           *)

Mapping == {"config", "new", "mapHuge", "mapAnon"}
Trimming == {"trimHead", "trimTail"}
Holding == {"advise", "align", "prefault", "pin", "init", "built"}
Ended == {"failed", "closed"}

SizeInv == size \in Nat /\ isAligned(size, HugePageSize) /\ size + HugePageSize <= Word
CleanInv ==
    pc \in Mapping =>
        /\ raw = Nil /\ base = Nil
        /\ mapped = {} /\ resident = {} /\ locked = {} /\ refused = {}
TrimInv ==
    pc \in Trimming =>
        /\ raw \in Nat /\ PageSize <= raw /\ raw + size + HugePageSize <= Space
        /\ base = Nil /\ resident = {} /\ locked = {} /\ refused = {}
        /\ mapped = IF pc = "trimHead"
                    THEN Range(raw, size + HugePageSize)
                    ELSE Range(raw + headSlack, size + HugePageSize - headSlack)
HoldInv ==
    pc \in Holding =>
        /\ base \in Nat /\ (pc # "align" => isAligned(base, HugePageSize))
        /\ PageSize <= base /\ base + size <= Space
        /\ raw = base /\ mapped = Window
        /\ resident \subseteq mapped /\ locked \subseteq mapped /\ refused = {}
EndInv ==
    pc \in Ended =>
        /\ raw = Nil /\ base = Nil
        /\ mapped \subseteq refused /\ refused \subseteq Addresses
        /\ resident \subseteq mapped /\ locked \subseteq mapped
FlagsInv ==
    /\ platform \in Platforms /\ asked \in Configs
    /\ hugeNative \in BOOLEAN /\ hugeAdvised \in BOOLEAN /\ pinned \in BOOLEAN
    /\ pinned => pc \in {"init", "built"}
HugeTouched == \A p \in Window : \E q \in resident : q \div HugePageSize = p \div HugePageSize
ResidentInv ==
    /\ pc = "pin" => HugeTouched /\ (resident = Window \/ hugeAdvised)
    /\ PagesTouched
ArenaInv ==
    /\ pc \in Mapping \cup Trimming \cup Holding \cup Ended
    /\ FlagsInv /\ SizeInv /\ CleanInv /\ TrimInv /\ HoldInv /\ EndInv

(* The invariant of the fields and tables gives the type invariant.        *)
LEMMA ArenaTyped == ArenaInv => TypeOK
  <1> SUFFICES ASSUME ArenaInv PROVE TypeOK
    OBVIOUS
  <1>1. FlagsInv /\ SizeInv /\ pc \in Mapping \cup Trimming \cup Holding \cup Ended
    BY DEF ArenaInv
  <1>2. pc \in {"config", "new", "mapHuge", "mapAnon", "trimHead", "trimTail", "advise",
               "align", "prefault", "pin", "init", "built", "failed", "closed"}
    BY <1>1 DEF Mapping, Trimming, Holding, Ended
  <1>3. /\ raw \in 0 .. Space /\ base \in 0 .. Space
        /\ mapped \subseteq Addresses /\ refused \subseteq Addresses
        /\ resident \subseteq mapped /\ locked \subseteq mapped
    <2>1. CASE pc \in Mapping
      BY <2>1, Sizes DEF ArenaInv, CleanInv, Nil
    <2>2. CASE pc \in Trimming
      <3>1. /\ raw \in Nat /\ PageSize <= raw /\ raw + size + HugePageSize <= Space /\ base = Nil
            /\ resident = {} /\ locked = {} /\ refused = {} /\ size \in Nat
        BY <1>1, <2>2 DEF ArenaInv, TrimInv, SizeInv
      <3>2. /\ alignUp(raw, HugePageSize) \in Nat /\ raw <= alignUp(raw, HugePageSize)
            /\ alignUp(raw, HugePageSize) < raw + HugePageSize
        <4>1. raw + HugePageSize - 1 < Word
          BY <1>1, <3>1, Sizes
        <4> QED BY <3>1, <4>1, Sizes, AlignUpAligned, AlignUpRounds
      <3>3. headSlack \in Nat /\ headSlack < HugePageSize
        BY <3>1, <3>2, Sizes DEF headSlack
      <3>4. mapped \subseteq Addresses
        <4>1. Range(raw, size + HugePageSize) \subseteq Addresses
          BY <3>1, RangeInside, Sizes
        <4>2. Range(raw + headSlack, size + HugePageSize - headSlack) \subseteq Addresses
          BY <3>1, <3>3, RangeInside, Sizes
        <4> QED BY <2>2, <4>1, <4>2 DEF ArenaInv, TrimInv
      <3> QED BY <3>1, <3>4, Sizes DEF Nil
    <2>3. CASE pc \in Holding
      <3>1. /\ base \in Nat /\ PageSize <= base /\ base + size <= Space /\ raw = base
            /\ mapped = Window /\ resident \subseteq mapped /\ locked \subseteq mapped /\ refused = {}
            /\ size \in Nat
        BY <1>1, <2>3 DEF ArenaInv, HoldInv, SizeInv
      <3>2. Window \subseteq Addresses
        BY <3>1, RangeInside DEF Window
      <3> QED BY <3>1, <3>2, Sizes
    <2>4. CASE pc \in Ended
      BY <2>4, Sizes DEF ArenaInv, EndInv, Nil
    <2> QED BY <1>1, <2>1, <2>2, <2>3, <2>4
  <1> QED BY <1>1, <1>2, <1>3 DEF TypeOK, FlagsInv, SizeInv

(* The slack in front of the window and behind it.                         *)
LEMMA Slack ==
  ASSUME SizeInv, raw \in Nat, raw + size + HugePageSize <= Space
  PROVE  /\ rawSize = size + HugePageSize
         /\ headSlack \in Nat /\ headSlack < HugePageSize
         /\ tailSlack = HugePageSize - headSlack
         /\ isAligned(raw + headSlack, HugePageSize)
  <1>1. size \in Nat
    BY DEF SizeInv
  <1>2. size + HugePageSize \in Nat /\ size + HugePageSize < Word /\ raw + HugePageSize - 1 < Word
    BY <1>1, Sizes
  <1>3. rawSize = size + HugePageSize
    BY <1>2, WrapExact DEF rawSize
  <1> DEFINE a == alignUp(raw, HugePageSize)
  <1>4. a \in Nat /\ isAligned(a, HugePageSize) /\ raw <= a /\ a < raw + HugePageSize
    BY <1>2, Sizes, AlignUpAligned, AlignUpRounds
  <1>5. headSlack = a - raw
    BY DEF headSlack
  <1> HIDE DEF a
  <1>6. headSlack \in Nat /\ headSlack < HugePageSize /\ raw + headSlack = a
    BY <1>4, <1>5, Sizes
  <1>7. tailSlack = HugePageSize - headSlack
    BY <1>1, <1>3, <1>6, Sizes DEF tailSlack
  <1> QED BY <1>3, <1>4, <1>6, <1>7

(* The configuration the shard is built from is the one normalize made and *)
(* accepted.                                                               *)
CfgInv ==
    /\ pc # "config" => cfg = Defaulted(asked)
    /\ pc \notin {"config", "failed"} => Acceptable(cfg)

(* Every step keeps CfgInv.                                                *)
LEMMA CfgStep ==
  ASSUME CfgInv, [Next]_vars
  PROVE  CfgInv'
  <1>1. CASE UNCHANGED vars
    BY <1>1 DEF vars, config, CfgInv
  <1>2. CASE Normalize
    BY <1>2 DEF Normalize, CfgInv
  <1>3. ASSUME pc \notin {"config", "failed"}, UNCHANGED config PROVE CfgInv'
    BY <1>3 DEF CfgInv, config
  <1>4. CASE NewArena
    BY <1>3, <1>4 DEF NewArena, Fail, Goto
  <1>5. ASSUME NEW p \in Addresses, MapHuge(p) \/ MapAnon(p) PROVE CfgInv'
    BY <1>3, <1>5 DEF MapHuge, MapAnon, Goto
  <1>6. CASE MapHugeFails \/ MapAnonFails \/ TrimHead \/ TrimHeadFails \/ TrimTail \/ TrimTailFails
    BY <1>3, <1>6 DEF MapHugeFails, MapAnonFails, TrimHead, TrimHeadFails, TrimTail, TrimTailFails, Fail, Goto
  <1>7. CASE AdviseHuge \/ AdviseFails \/ CheckAlign \/ Prefault \/ Pin \/ PinFails
    BY <1>3, <1>7 DEF AdviseHuge, AdviseFails, CheckAlign, Prefault, Pin, PinFails, Fail, Goto
  <1>8. CASE InitShard \/ Close
    BY <1>3, <1>8 DEF InitShard, Close, Goto
  <1> QED BY <1>1, <1>2, <1>4, <1>5, <1>6, <1>7, <1>8 DEF Next

(* The bytes asked for and the size of the window.                         *)
LEMMA RequestSize ==
  ASSUME CfgInv, asked \in Configs, pc = "new"
  PROVE  LET request == wrap(rb + ib) IN
         /\ request \in Nat
         /\ alignUp(request, HugePageSize) \in Nat
         /\ isAligned(alignUp(request, HugePageSize), HugePageSize)
         /\ alignUp(request, HugePageSize) + HugePageSize <= Word
  <1>1. cfg.cells \in Nat /\ cfg.bpc \in Nat /\ cfg.payload \in Nat
    BY AcceptedFields, PowerDivides DEF CfgInv
  <1>2. /\ CacheLineSize \in Powers /\ HeaderSize \in Nat /\ IndexBucketSize \in Nat
    BY LayoutAssumption, PowerDivides
  <1>3. \A n \in Nat : wrap(n) \in Nat
    BY DivMod, Sizes DEF wrap
  <1>4. cellStrideFor(cfg.payload) \in Nat
    <2>1. wrap(HeaderSize + cfg.payload) \in Nat
      BY <1>1, <1>2, <1>3
    <2> QED BY <1>2, <2>1, AlignUpAligned DEF cellStrideFor
  <1>5. rb \in Nat
    <2>1. cfg.cells * cellStrideFor(cfg.payload) \in Nat
      BY <1>1, <1>4
    <2> QED BY <1>3, <2>1 DEF rb, ringBytes
  <1>6. ib \in Nat
    <2>1. cfg.cells * cfg.bpc \in Nat
      BY <1>1
    <2>2. Buckets(cfg) \in Nat
      BY <1>3, <2>1 DEF Buckets
    <2>3. Buckets(cfg) * IndexBucketSize \in Nat
      BY <1>2, <2>2
    <2> QED BY <1>3, <2>3 DEF ib, indexBytes
  <1>7. wrap(rb + ib) \in Nat
    BY <1>3, <1>5, <1>6
  <1> QED BY <1>7, AlignUpAligned, Sizes

(* The frames that prefault brings in lie in the window, and they fill it  *)
(* if it touches each of them.                                             *)
LEMMA FramesExact ==
  ASSUME SizeInv, base \in Nat, isAligned(base, HugePageSize), PageSize <= base, base + size <= Space,
         NEW n \in {PageSize, HugePageSize}
  PROVE  Frames(n) \subseteq Window /\ (stride = n => Frames(n) = Window)
  <1>1. size \in Nat /\ isAligned(size, HugePageSize) /\ n \in Nat \ {0}
    BY Sizes DEF SizeInv
  <1>2. isAligned(base, n) /\ isAligned(size, n)
    <2>1. isAligned(HugePageSize, PageSize)
      BY Sizes
    <2>2. CASE n = PageSize
      BY <1>1, <2>1, <2>2, Sizes, AlignedThrough
    <2>3. CASE n = HugePageSize
      BY <1>1, <2>3
    <2> QED BY <2>2, <2>3
  <1>3. PICK k \in Nat : base = k * n
    BY <1>1, <1>2, AlignedMultiple
  <1>4. PICK m \in Nat : size = m * n
    BY <1>1, <1>2, AlignedMultiple
  <1>5. base + size = (k + m) * n
    BY <1>1, <1>3, <1>4
  <1>6. Window \subseteq Addresses /\ Addresses \subseteq Nat /\ \A p \in Nat : p \in Window <=> base <= p /\ p < base + size
    BY <1>1, RangeInside, Sizes DEF Window, Range, Addresses
  <1>7. ASSUME NEW p \in Frames(n) PROVE p \in Window
    <2>1. p \in Nat /\ p \in Addresses
      BY <1>6, <1>7 DEF Frames
    <2>2. PICK t \in Touched : p \div n = t \div n
      BY <1>7 DEF Frames
    <2>3. t \in Nat /\ base <= t /\ t < base + size
      BY <1>6, <2>2 DEF Touched
    <2> DEFINE q == p \div n
               r == p % n
               u == t % n
    <2>4. q \in Nat /\ r \in Nat /\ r < n /\ p = q * n + r
      BY <1>1, <2>1, DivMod
    <2>5. u \in Nat /\ u < n /\ t = q * n + u
      BY <1>1, <2>2, <2>3, DivMod
    <2> HIDE DEF q, r, u
    <2>6. k * n <= q * n + u /\ q * n + u < (k + m) * n
      BY <1>3, <1>5, <2>3, <2>5
    <2>7. k <= q
      <3>1. CASE q < k
        <4>1. q + 1 <= k
          BY <2>4, <3>1
        <4>2. (q + 1) * n <= k * n
          BY <1>1, <2>4, <4>1
        <4>3. q * n + n <= k * n
          BY <1>1, <2>4, <4>2
        <4> QED BY <1>1, <2>4, <2>5, <2>6, <4>3
      <3> QED BY <2>4, <3>1
    <2>8. q + 1 <= k + m
      <3>1. CASE k + m <= q
        <4>1. (k + m) * n <= q * n
          BY <1>1, <2>4, <3>1
        <4> QED BY <1>1, <2>4, <2>5, <2>6, <4>1
      <3> QED BY <2>4, <3>1
    <2>9. k * n <= q * n /\ q * n + n <= (k + m) * n
      <3>1. (q + 1) * n <= (k + m) * n
        BY <1>1, <2>4, <2>8
      <3> QED BY <1>1, <2>4, <2>7, <3>1
    <2>10. base <= p /\ p < base + size
      BY <1>1, <1>3, <1>5, <2>4, <2>9
    <2> QED BY <1>6, <2>1, <2>10
  <1>8. ASSUME stride = n, NEW x \in Window PROVE x \in Frames(n)
    <2>1. x \in Nat /\ base <= x /\ x < base + size /\ x \in Addresses
      BY <1>6, <1>8
    <2> DEFINE d == x - base
               q == d \div n
               r == d % n
    <2>2. d \in Nat /\ x = base + d
      BY <2>1
    <2> HIDE DEF d
    <2>3. q \in Nat /\ r \in Nat /\ r < n /\ d = q * n + r
      BY <1>1, <2>2, DivMod
    <2> HIDE DEF q, r
    <2> DEFINE t == base + q * n
    <2>4. q * n \in Nat
      BY <1>1, <2>3
    <2>5. t \in Nat /\ base <= t /\ t <= x /\ t - base = q * n
      BY <2>2, <2>3, <2>4
    <2>6. t = (k + q) * n + 0 /\ x = (k + q) * n + r /\ k + q \in Nat
      BY <1>1, <1>3, <2>2, <2>3, <2>4
    <2>7. t \div n = x \div n
      <3> DEFINE c == k + q
      <3>1. c \in Nat /\ t = c * n + 0 /\ x = c * n + r
        BY <2>6
      <3> HIDE DEF c, t
      <3>2. (c * n + 0) \div n = c
        BY <1>1, <3>1, DivModUnique
      <3>3. (c * n + r) \div n = c
        BY <1>1, <2>3, <3>1, DivModUnique
      <3> QED BY <3>1, <3>2, <3>3
    <2>8. isAligned(q * n, n)
      BY <1>1, <2>3, <2>4, AlignedMultiple
    <2>9. t \in Touched
      <3>1. t \in Window
        BY <1>1, <1>6, <2>1, <2>5
      <3> QED BY <1>8, <2>5, <2>8, <3>1 DEF Touched
    <2> QED BY <2>1, <2>7, <2>9 DEF Frames
  <1> QED BY <1>7, <1>8

(* Every step keeps ArenaInv.                                              *)
LEMMA ArenaStep ==
  ASSUME ArenaInv, CfgInv, [Next]_vars
  PROVE  ArenaInv'
  <1>0. FlagsInv /\ SizeInv /\ CleanInv /\ TrimInv /\ HoldInv /\ EndInv
    BY DEF ArenaInv
  <1> USE DEF Mapping, Trimming, Holding, Ended
  <1>1. CASE UNCHANGED vars
    BY <1>1 DEF vars, config, span, flags, kernel, ArenaInv, FlagsInv, SizeInv, CleanInv, TrimInv, HoldInv, EndInv,
                headSlack, Window
  <1>2. ASSUME Fail, UNCHANGED <<platform, asked>>, mapped' \subseteq refused', refused' \subseteq Addresses,
               resident' \subseteq mapped', locked' \subseteq mapped'
        PROVE  ArenaInv'
    <2>1. isAligned(0, HugePageSize) /\ 0 + HugePageSize <= Word
      <3>1. isAligned(0 * HugePageSize, HugePageSize) /\ 0 * HugePageSize = 0
        BY Sizes, AlignedMultiple
      <3> QED BY <3>1, Sizes, PowerDivides
    <2>2. SizeInv'
      BY <1>2, <2>1 DEF Fail, SizeInv
    <2> QED BY <1>0, <1>2, <2>2 DEF Fail, Goto, ArenaInv, FlagsInv, CleanInv, TrimInv, HoldInv, EndInv
  <1>3. CASE Normalize
    <2>1. pc = "config" /\ pc' \in {"new", "failed"} /\ UNCHANGED <<platform, asked, span, flags, kernel, refused>>
      BY <1>3 DEF Normalize
    <2>2. raw = Nil /\ base = Nil /\ mapped = {} /\ resident = {} /\ locked = {} /\ refused = {}
      BY <1>0, <2>1 DEF CleanInv
    <2> QED BY <1>0, <2>1, <2>2
         DEF ArenaInv, FlagsInv, SizeInv, CleanInv, TrimInv, HoldInv, EndInv, span, flags, kernel
  <1>4. CASE NewArena
    <2>1. pc = "new" /\ UNCHANGED <<kernel, refused>> /\ UNCHANGED <<platform, asked>>
      BY <1>4 DEF NewArena, Fail, Goto, config
    <2>2. /\ raw = Nil /\ base = Nil /\ mapped = {} /\ resident = {} /\ locked = {} /\ refused = {}
          /\ asked \in Configs
      BY <1>0, <2>1 DEF CleanInv, FlagsInv
    <2>3. CASE Fail
      BY <1>2, <2>1, <2>2, <2>3 DEF kernel
    <2>4. CASE size' = alignUp(wrap(rb + ib), HugePageSize) /\ pc' = "mapHuge" /\ UNCHANGED <<raw, base, flags>>
      <3>1. SizeInv'
        BY <2>1, <2>2, <2>4, RequestSize DEF SizeInv
      <3> QED BY <1>0, <2>1, <2>2, <2>4, <3>1
           DEF ArenaInv, FlagsInv, CleanInv, TrimInv, HoldInv, EndInv, flags, kernel
    <2> QED BY <1>4, <2>3, <2>4 DEF NewArena, Goto
  <1>5. ASSUME NEW p \in Addresses, MapHuge(p) PROVE ArenaInv'
    <2>1. /\ pc = "mapHuge" /\ pc' = "align" /\ raw' = p /\ base' = p /\ hugeNative' = TRUE
          /\ mapped' = mapped \cup Range(p, size)
          /\ UNCHANGED <<resident, locked, platform, asked, size, hugeAdvised, pinned, refused>>
          /\ size > 0 /\ Range(p, size) \subseteq Addresses
      BY <1>5 DEF MapHuge, Map, Goto, config, sysMapHuge, Free
    <2>2. mapped = {} /\ resident = {} /\ locked = {} /\ refused = {} /\ size \in Nat /\ p \in Nat
      BY <1>0, <2>1, Sizes DEF CleanInv, SizeInv, Addresses
    <2>3. PageSize <= p /\ p + size <= Space
      BY <2>1, <2>2, RangeBounds
    <2>4. HoldInv'
      BY <2>1, <2>2, <2>3 DEF HoldInv, Window
    <2> QED BY <1>0, <2>1, <2>4 DEF ArenaInv, FlagsInv, SizeInv, CleanInv, TrimInv, EndInv
  <1>6. CASE MapHugeFails \/ MapAnonFails
    <2>1. /\ pc \in {"mapHuge", "mapAnon"} /\ UNCHANGED <<platform, asked, kernel, refused>>
          /\ Fail \/ (pc' = "mapAnon" /\ UNCHANGED <<span, flags>>)
      BY <1>6 DEF MapHugeFails, MapAnonFails, Fail, Goto, config
    <2>2. raw = Nil /\ base = Nil /\ mapped = {} /\ resident = {} /\ locked = {} /\ refused = {}
      BY <1>0, <2>1 DEF CleanInv
    <2>3. CASE Fail
      BY <1>2, <2>1, <2>2, <2>3 DEF kernel
    <2>4. CASE pc' = "mapAnon" /\ UNCHANGED <<span, flags>>
      BY <1>0, <2>1, <2>2, <2>4
         DEF ArenaInv, FlagsInv, SizeInv, CleanInv, TrimInv, HoldInv, EndInv, span, flags, kernel
    <2> QED BY <2>1, <2>3, <2>4
  <1>7. ASSUME NEW p \in Addresses, MapAnon(p) PROVE ArenaInv'
    <2>1. /\ pc = "mapAnon" /\ pc' = "trimHead" /\ raw' = p
          /\ mapped' = mapped \cup Range(p, rawSize)
          /\ UNCHANGED <<resident, locked, platform, asked, size, base, flags, refused>>
          /\ rawSize > 0 /\ Range(p, rawSize) \subseteq Addresses
      BY <1>7 DEF MapAnon, Map, Goto, config, sysMapAnon, Free
    <2>2. /\ mapped = {} /\ resident = {} /\ locked = {} /\ refused = {} /\ base = Nil /\ size \in Nat /\ p \in Nat
          /\ size + HugePageSize <= Word
      BY <1>0, <2>1, Sizes DEF CleanInv, SizeInv, Addresses
    <2>3. rawSize = size + HugePageSize
      <3>1. CASE size + HugePageSize < Word
        <4>1. size + HugePageSize \in Nat
          BY <2>2, Sizes
        <4> QED BY <3>1, <4>1, WrapExact DEF rawSize
      <3>2. CASE size + HugePageSize = Word
        <4>1. (1 * Word + 0) % Word = 0 /\ 1 * Word + 0 = Word
          BY Sizes, DivModUnique
        <4>2. rawSize = 0
          BY <3>2, <4>1 DEF rawSize, wrap
        <4> QED BY <2>1, <4>2
      <3> QED BY <2>2, <3>1, <3>2, Sizes
    <2>4. PageSize <= p /\ p + (size + HugePageSize) <= Space
      BY <2>1, <2>2, <2>3, RangeBounds, Sizes
    <2>5. p + size + HugePageSize <= Space
      BY <2>2, <2>4, Sizes
    <2>6. TrimInv'
      BY <2>1, <2>2, <2>3, <2>4, <2>5 DEF TrimInv
    <2> QED BY <1>0, <2>1, <2>6 DEF ArenaInv, FlagsInv, SizeInv, CleanInv, HoldInv, EndInv, flags
  <1>8. ASSUME pc \in Trimming
        PROVE  /\ rawSize = size + HugePageSize /\ headSlack \in Nat /\ headSlack < HugePageSize
               /\ tailSlack = HugePageSize - headSlack /\ isAligned(raw + headSlack, HugePageSize)
               /\ raw \in Nat /\ size \in Nat /\ PageSize <= raw /\ raw + size + HugePageSize <= Space
               /\ base = Nil /\ resident = {} /\ locked = {} /\ refused = {}
    <2>1. raw \in Nat /\ raw + size + HugePageSize <= Space
      BY <1>0, <1>8 DEF TrimInv
    <2> QED BY <1>0, <1>8, <2>1, Slack DEF TrimInv, SizeInv
  <1>9. CASE TrimHead
    <2>1. /\ pc = "trimHead" /\ pc' = "trimTail" /\ mapped' = mapped \ Range(raw, headSlack)
          /\ resident' = resident \ Range(raw, headSlack) /\ locked' = locked \ Range(raw, headSlack)
          /\ UNCHANGED <<platform, asked, size, raw, base, flags, refused>>
      BY <1>9 DEF TrimHead, Unmap, Goto, config, span
    <2>2. mapped = Range(raw, size + HugePageSize)
      BY <1>0, <2>1 DEF TrimInv
    <2>3. mapped' = Range(raw + headSlack, size + HugePageSize - headSlack)
      <3> DEFINE h == headSlack
                 m == size + HugePageSize - h
      <3>1. h \in Nat /\ h < HugePageSize /\ raw \in Nat /\ size \in Nat /\ HugePageSize \in Nat
        BY <1>8, <2>1, Sizes
      <3> HIDE DEF h
      <3>2. m \in Nat /\ h + m = size + HugePageSize
        BY <3>1
      <3> HIDE DEF m
      <3>3. Range(raw, h + m) \ Range(raw, h) = Range(raw + h, m)
        <4>1. raw \in Nat /\ h \in Nat /\ m \in Nat
          BY <3>1, <3>2
        <4> QED BY <4>1 DEF Range
      <3>4. mapped' = Range(raw, h + m) \ Range(raw, h)
        BY <2>1, <2>2, <3>2 DEF h
      <3> QED BY <3>3, <3>4 DEF h, m
    <2>4. headSlack' = headSlack
      BY <2>1 DEF headSlack
    <2>5. TrimInv'
      BY <1>8, <2>1, <2>3, <2>4 DEF TrimInv
    <2> QED BY <1>0, <2>1, <2>5 DEF ArenaInv, FlagsInv, SizeInv, CleanInv, HoldInv, EndInv, flags
  <1>10. CASE TrimHeadFails
    <2>1. pc = "trimHead" /\ Fail /\ GiveBack(Range(raw, rawSize), {}) /\ UNCHANGED <<platform, asked>>
      BY <1>10 DEF TrimHeadFails, Fail, Goto, config
    <2>2. mapped = Range(raw, rawSize)
      BY <1>0, <1>8, <2>1 DEF TrimInv
    <2>3. mapped \subseteq Addresses
      <3>1. Range(raw, size + HugePageSize) \subseteq Addresses
        BY <1>8, <2>1, Sizes, RangeInside
      <3> QED BY <1>8, <2>1, <2>2, <3>1
    <2>4. /\ mapped' \subseteq refused' /\ refused' \subseteq Addresses
          /\ resident' \subseteq mapped' /\ locked' \subseteq mapped'
      BY <1>8, <2>1, <2>2, <2>3 DEF GiveBack, Unmap
    <2> QED BY <1>2, <2>1, <2>4
  <1>11. CASE TrimTail
    <2> DEFINE w == raw + headSlack
    <2>1. /\ pc = "trimTail" /\ pc' = "advise" /\ mapped' = mapped \ Range(w + size, tailSlack)
          /\ resident' = resident \ Range(w + size, tailSlack) /\ locked' = locked \ Range(w + size, tailSlack)
          /\ base' = w /\ raw' = w
          /\ UNCHANGED <<platform, asked, size, flags, refused>>
      BY <1>11 DEF TrimTail, Unmap, Goto, config
    <2>2. mapped = Range(w, size + HugePageSize - headSlack)
      BY <1>0, <2>1 DEF TrimInv
    <2>3. /\ w \in Nat /\ isAligned(w, HugePageSize) /\ PageSize <= w /\ w + size <= Space
          /\ size \in Nat /\ tailSlack = HugePageSize - headSlack /\ tailSlack \in Nat
      BY <1>8, <2>1, Sizes
    <2> DEFINE t == tailSlack
    <2>4. size + HugePageSize - headSlack = size + t
      BY <1>8, <2>1, Sizes
    <2> HIDE DEF w, t
    <2>5. mapped' = Range(w, size)
      BY <2>1, <2>2, <2>3, <2>4 DEF Range, t
    <2>6. resident' = {} /\ locked' = {} /\ refused' = {}
      BY <1>8, <2>1
    <2>7. HoldInv'
      BY <2>1, <2>3, <2>5, <2>6 DEF HoldInv, Window
    <2> QED BY <1>0, <2>1, <2>7 DEF ArenaInv, FlagsInv, SizeInv, CleanInv, TrimInv, EndInv, flags
  <1>12. CASE TrimTailFails
    <2> DEFINE w == raw + headSlack
               t == tailSlack
    <2>1. /\ pc = "trimTail" /\ Fail /\ GiveBack(Range(w, size), Range(w + size, t))
          /\ UNCHANGED <<platform, asked>>
      BY <1>12 DEF TrimTailFails, Fail, Goto, config
    <2>2. mapped = Range(w, size + HugePageSize - headSlack)
      BY <1>0, <2>1 DEF TrimInv
    <2>3. /\ w \in Nat /\ PageSize <= w /\ w + size + t <= Space
          /\ size \in Nat /\ t \in Nat /\ size + HugePageSize - headSlack = size + t
      BY <1>8, <2>1, Sizes
    <2>4. resident = {} /\ locked = {}
      BY <1>8, <2>1
    <2> HIDE DEF w, t
    <2>5. Range(w, size + t) = Range(w, size) \cup Range(w + size, t)
      BY <2>3 DEF Range
    <2>6. mapped = Range(w, size) \cup Range(w + size, t)
      BY <2>2, <2>3, <2>5
    <2>7. mapped \subseteq Addresses
      <3>1. Range(w, size + t) \subseteq Addresses
        BY <2>3, RangeInside
      <3> QED BY <2>5, <2>6, <3>1
    <2>8. /\ mapped' \subseteq refused' /\ refused' \subseteq Addresses
          /\ resident' \subseteq mapped' /\ locked' \subseteq mapped'
      BY <2>1, <2>4, <2>6, <2>7 DEF GiveBack, Unmap
    <2> QED BY <1>2, <2>1, <2>8
  <1>13. ASSUME pc \in Holding
         PROVE  /\ base \in Nat /\ (pc # "align" => isAligned(base, HugePageSize)) /\ PageSize <= base /\ base + size <= Space
                /\ raw = base /\ mapped = Window /\ Window = Range(raw, size) /\ refused = {}
                /\ resident \subseteq Window /\ locked \subseteq Window /\ Window \subseteq Addresses /\ size \in Nat
    <2>1. /\ base \in Nat /\ (pc # "align" => isAligned(base, HugePageSize)) /\ PageSize <= base /\ base + size <= Space
          /\ raw = base /\ mapped = Window /\ refused = {}
          /\ resident \subseteq Window /\ locked \subseteq Window /\ size \in Nat
      BY <1>0, <1>13 DEF HoldInv, SizeInv
    <2>2. Window = Range(raw, size) /\ Window \subseteq Addresses
      BY <2>1, RangeInside DEF Window
    <2> QED BY <2>1, <2>2
  <1>14. ASSUME pc \in Holding, pc' \in Holding, UNCHANGED <<platform, asked, span, mapped, refused>>,
                resident' \subseteq Window, locked' \subseteq Window,
                hugeNative' \in BOOLEAN, hugeAdvised' \in BOOLEAN, pinned' \in BOOLEAN,
                pinned' => pc' \in {"init", "built"},
                pc # "align" \/ isAligned(base, HugePageSize)
         PROVE  ArenaInv'
    <2>1. Window' = Window
      BY <1>14 DEF Window, span
    <2>2. HoldInv'
      BY <1>13, <1>14, <2>1 DEF HoldInv, span
    <2> QED BY <1>0, <1>14, <2>2 DEF ArenaInv, FlagsInv, SizeInv, CleanInv, TrimInv, EndInv, span
  <1>15. ASSUME pc \in Holding, GiveBack(Range(raw, size), {})
         PROVE  /\ mapped' \subseteq refused' /\ refused' \subseteq Addresses
                /\ resident' \subseteq mapped' /\ locked' \subseteq mapped'
    BY <1>13, <1>15 DEF GiveBack, Unmap
  <1>16. CASE AdviseHuge
    BY <1>0, <1>13, <1>14, <1>16 DEF AdviseHuge, Goto, config, kernel, FlagsInv
  <1>17. CASE AdviseFails
    <2>1. pc = "advise" /\ UNCHANGED <<platform, asked>>
      BY <1>17 DEF AdviseFails, Fail, Goto, config
    <2>2. CASE Fail /\ GiveBack(Window, {})
      BY <1>2, <1>13, <1>15, <2>1, <2>2
    <2>3. CASE pc' = "align" /\ WillNeed /\ UNCHANGED <<span, flags, mapped, locked, refused>>
      <3>1. resident' \subseteq Window
        BY <1>13, <2>1, <2>3 DEF WillNeed
      <3> QED BY <1>0, <1>13, <1>14, <2>1, <2>3, <3>1 DEF flags, FlagsInv
    <2> QED BY <1>17, <2>2, <2>3 DEF AdviseFails, Goto
  <1>18. CASE CheckAlign
    <2>1. pc = "align" /\ UNCHANGED <<platform, asked>>
      BY <1>18 DEF CheckAlign, Fail, Goto, config
    <2>2. CASE Fail /\ GiveBack(Range(raw, size), {})
      BY <1>2, <1>15, <2>1, <2>2
    <2>3. CASE isAligned(base, HugePageSize) /\ pc' = "prefault" /\ UNCHANGED <<span, flags, kernel, refused>>
      BY <1>0, <1>13, <1>14, <2>1, <2>3 DEF flags, kernel, FlagsInv
    <2> QED BY <1>18, <2>2, <2>3 DEF CheckAlign, Goto
  <1>19. CASE Prefault
    <2>1. /\ pc = "prefault" /\ pc' = "pin" /\ UNCHANGED <<platform, asked, span, flags, mapped, locked, refused>>
          /\ \E n \in {PageSize, HugePageSize} : resident' = resident \cup Frames(n)
      BY <1>19 DEF Prefault, Goto, config
    <2>2. resident' \subseteq Window
      BY <1>0, <1>13, <2>1, FramesExact
    <2> QED BY <1>0, <1>13, <1>14, <2>1, <2>2 DEF flags, FlagsInv
  <1>20. CASE Pin
    BY <1>0, <1>13, <1>14, <1>20 DEF Pin, Goto, config, FlagsInv
  <1>21. CASE PinFails
    <2>1. pc = "pin" /\ UNCHANGED <<platform, asked>>
      BY <1>21 DEF PinFails, Fail, Goto, config
    <2>2. CASE Fail /\ GiveBack(Range(raw, size), {})
      BY <1>2, <1>15, <2>1, <2>2
    <2>3. CASE pc' = "init" /\ UNCHANGED <<span, flags, kernel, refused>>
      BY <1>0, <1>13, <1>14, <2>1, <2>3 DEF flags, kernel, FlagsInv
    <2> QED BY <1>21, <2>2, <2>3 DEF PinFails, Goto
  <1>22. ASSUME pc \in Holding, pc' \in Ended, CloseArena, UNCHANGED <<platform, asked>>
         PROVE  ArenaInv'
    <2>1. isAligned(0, HugePageSize) /\ 0 + HugePageSize <= Word
      <3>1. isAligned(0 * HugePageSize, HugePageSize) /\ 0 * HugePageSize = 0
        BY Sizes, AlignedMultiple
      <3> QED BY <3>1, Sizes, PowerDivides
    <2>2. SizeInv'
      BY <1>22, <2>1 DEF CloseArena, SizeInv
    <2>3. /\ mapped' \subseteq refused' /\ refused' \subseteq Addresses
          /\ resident' \subseteq mapped' /\ locked' \subseteq mapped'
      BY <1>15, <1>22 DEF CloseArena
    <2> QED BY <1>0, <1>22, <2>2, <2>3 DEF CloseArena, ArenaInv, FlagsInv, CleanInv, TrimInv, HoldInv, EndInv
  <1>23. CASE InitShard
    <2>1. pc = "init" /\ UNCHANGED <<platform, asked>>
      BY <1>23 DEF InitShard, Goto, config
    <2>2. CASE pc' = "built" /\ UNCHANGED <<span, flags, kernel, refused>>
      BY <1>0, <1>13, <1>14, <2>1, <2>2 DEF flags, kernel, FlagsInv
    <2>3. CASE pc' = "failed" /\ CloseArena
      BY <1>22, <2>1, <2>3
    <2> QED BY <1>23, <2>2, <2>3 DEF InitShard, Goto
  <1>24. CASE Close
    BY <1>22, <1>24 DEF Close, Goto, config
  <1> QED
    BY <1>1, <1>3, <1>4, <1>5, <1>6, <1>7, <1>9, <1>10, <1>11, <1>12, <1>16, <1>17, <1>18, <1>19, <1>20, <1>21,
       <1>23, <1>24 DEF Next

(* The first state satisfies the invariants.                               *)
LEMMA ArenaInit == Init => ArenaInv /\ CfgInv
  <1> SUFFICES ASSUME Init PROVE ArenaInv /\ CfgInv
    OBVIOUS
  <1>1. isAligned(0 * HugePageSize, HugePageSize) /\ 0 * HugePageSize = 0
    BY Sizes, AlignedMultiple
  <1>2. SizeInv
    BY <1>1, Sizes, PowerDivides DEF Init, SizeInv
  <1> QED BY <1>2 DEF Init, ArenaInv, FlagsInv, CleanInv, TrimInv, HoldInv, EndInv, CfgInv,
                      Mapping, Trimming, Holding, Ended

(* The invariants hold always.                                             *)
LEMMA ArenaAlways == Spec => [](ArenaInv /\ CfgInv)
  <1>1. ArenaInv /\ CfgInv /\ [Next]_vars => (ArenaInv /\ CfgInv)'
    BY ArenaStep, CfgStep
  <1> QED BY <1>1, ArenaInit, PTL DEF Spec

-----------------------------------------------------------------------------
(* Type correctness of the arena's fields and of the kernel's tables.      *)
THEOREM TypeCorrect == Spec => []TypeOK
  BY ArenaAlways, ArenaTyped, PTL

(* Wherever mmap put the span and whichever calls failed, the arena that   *)
(* is touched and handed out is an aligned window, all of it mapped, and   *)
(* nothing else is mapped: both slacks were computed right, for every page *)
(* size and also when a size wraps around a word.                          *)
THEOREM WindowIsExact == Spec => []WindowExact
  <1>1. ArenaInv => WindowExact
    BY DEF ArenaInv, SizeInv, HoldInv, WindowExact, Holding
  <1> QED BY <1>1, ArenaAlways, PTL

(* No error return of NewArena or New, and no Close, leaves memory mapped  *)
(* that munmap did not itself refuse to take.                              *)
THEOREM NoMappingLeaks == Spec => []NothingLeaks
  <1>1. ArenaInv => NothingLeaks
    BY DEF ArenaInv, EndInv, NothingLeaks, Ended
  <1> QED BY <1>1, ArenaAlways, PTL

-----------------------------------------------------------------------------
(* Residency.                                                              *)

(* The steps that lead to the pin and to the rings, and what the others    *)
(* leave the control at.                                                   *)
LEMMA LateSteps ==
  ASSUME [Next]_vars, pc' \in {"pin", "init", "built"}
  PROVE  UNCHANGED vars \/ Prefault \/ Pin
            \/ (pc = "pin" /\ pc' = "init" /\ UNCHANGED <<span, flags, kernel>>)
            \/ (pc = "init" /\ pc' = "built" /\ UNCHANGED <<span, flags, kernel>>)
  <1>1. ASSUME NEW p \in Addresses, MapHuge(p) \/ MapAnon(p) PROVE FALSE
    BY <1>1 DEF MapHuge, MapAnon, Goto
  <1>2. CASE Normalize \/ NewArena \/ MapHugeFails \/ MapAnonFails
    BY <1>2 DEF Normalize, NewArena, MapHugeFails, MapAnonFails, Fail, Goto
  <1>3. CASE TrimHead \/ TrimHeadFails \/ TrimTail \/ TrimTailFails \/ AdviseHuge \/ AdviseFails \/ CheckAlign
    BY <1>3 DEF TrimHead, TrimHeadFails, TrimTail, TrimTailFails, AdviseHuge, AdviseFails, CheckAlign, Fail, Goto
  <1>4. CASE PinFails \/ InitShard \/ Close
    BY <1>4 DEF PinFails, InitShard, Close, Fail, Goto
  <1> QED BY <1>1, <1>2, <1>3, <1>4 DEF Next

(* Every step keeps ResidentInv.                                           *)
LEMMA ResidentStep ==
  ASSUME ArenaInv, ResidentInv, [Next]_vars
  PROVE  ResidentInv'
  <1> USE DEF PagesTouched
  <1>1. CASE pc' \notin {"pin", "init", "built"}
    BY <1>1 DEF ResidentInv
  <1>2. CASE pc' \in {"pin", "init", "built"}
    <2>1. CASE UNCHANGED vars
      BY <2>1 DEF ResidentInv, HugeTouched, Window, vars, span, flags, kernel
    <2>2. ASSUME pc \in Holding, UNCHANGED span
          PROVE  Window' = Window /\ resident \subseteq Window
      BY <2>2 DEF ArenaInv, HoldInv, Window, span
    <2>3. CASE Prefault
      <3>1. pc = "prefault" /\ pc' = "pin" /\ UNCHANGED <<span, flags>>
        BY <2>3 DEF Prefault, Goto
      <3>2. Window' = Window /\ resident \subseteq Window /\ hugeNative' = hugeNative /\ hugeAdvised' = hugeAdvised
        BY <2>2, <3>1 DEF Holding, flags
      <3>3. \A n \in {PageSize, HugePageSize} : stride = n => Frames(n) = Window
        BY <3>1, FramesExact DEF ArenaInv, HoldInv, Holding
      <3>4. CASE hugeAdvised
        <4>1. stride = HugePageSize
          BY <3>4 DEF stride
        <4>2. Touched \subseteq Addresses
          <5>1. base \in Nat /\ PageSize <= base /\ base + size <= Space /\ size \in Nat
            BY <3>1 DEF ArenaInv, HoldInv, Holding, SizeInv
          <5>2. Window \subseteq Addresses
            BY <5>1, RangeInside DEF Window
          <5> QED BY <5>2 DEF Touched
        <4>3. Touched \subseteq resident'
          <5>1. \E n \in {PageSize, HugePageSize} : resident' = resident \cup Frames(n)
            BY <2>3 DEF Prefault
          <5> QED BY <4>2, <5>1 DEF Frames
        <4>4. ASSUME NEW p \in Window
              PROVE  \E q \in resident' : q \div HugePageSize = p \div HugePageSize
          <5>1. p \in Frames(HugePageSize)
            BY <3>3, <4>1, <4>4
          <5>2. PICK t \in Touched : p \div HugePageSize = t \div HugePageSize
            BY <5>1 DEF Frames
          <5> QED BY <4>3, <5>2
        <4>5. HugeTouched'
          BY <3>2, <4>4 DEF HugeTouched
        <4> QED BY <3>1, <3>2, <3>4, <4>5 DEF ResidentInv
      <3>5. ASSUME ~hugeAdvised
            PROVE  resident' = Window
        <4>1. CASE hugeNative
          <5>1. resident' = resident \cup Frames(HugePageSize) /\ stride = HugePageSize
            BY <2>3, <4>1 DEF Prefault, stride
          <5> QED BY <3>2, <3>3, <5>1
        <4>2. CASE ~hugeNative
          <5>1. resident' = resident \cup Frames(PageSize) /\ stride = PageSize
            BY <2>3, <3>5, <4>2 DEF Prefault, stride
          <5> QED BY <3>2, <3>3, <5>1
        <4> QED BY <4>1, <4>2
      <3>6. CASE ~hugeAdvised
        BY <3>1, <3>2, <3>5, <3>6 DEF ResidentInv, HugeTouched
      <3> QED BY <3>4, <3>6
    <2>4. CASE Pin
      <3>1. pc = "pin" /\ pc' = "init" /\ UNCHANGED span /\ resident' = resident \cup Window
        BY <2>4 DEF Pin, Goto
      <3> QED BY <2>2, <3>1 DEF ResidentInv, Holding
    <2>5. CASE pc = "pin" /\ pc' = "init" /\ UNCHANGED <<span, flags, kernel>>
      <3>1. ~pinned
        BY <2>5 DEF ArenaInv, FlagsInv
      <3> QED BY <2>2, <2>5, <3>1 DEF ResidentInv, HugeTouched, Holding, flags, kernel
    <2>6. CASE pc = "init" /\ pc' = "built" /\ UNCHANGED <<span, flags, kernel>>
      BY <2>2, <2>6 DEF ResidentInv, Holding, flags, kernel
    <2> QED BY <1>2, <2>1, <2>3, <2>4, <2>5, <2>6, LateSteps
  <1> QED BY <1>1, <1>2

(* When the ring is laid out, prefault has put a frame into every huge     *)
(* page of the window, also where an accepted madvise makes it touch one   *)
(* address per huge page; and unless that is all that is known, every      *)
(* frame of the window is resident, for every size of the pages.           *)
THEOREM PrefaultReaches == Spec => []PagesTouched
  <1>1. Init => ResidentInv
    BY DEF Init, ResidentInv, PagesTouched
  <1>2. ArenaInv /\ ResidentInv /\ [Next]_vars => ResidentInv'
    BY ResidentStep
  <1>3. ResidentInv => PagesTouched
    BY DEF ResidentInv
  <1> QED BY <1>1, <1>2, <1>3, ArenaAlways, PTL DEF Spec

-----------------------------------------------------------------------------
(* The ring and the index in the arena.                                    *)

(* The window was sized for the ring and the index.                        *)
SizedInv ==
    pc \in {"mapHuge", "mapAnon"} \cup Trimming \cup Holding =>
        size = alignUp(wrap(rb + ib), HugePageSize)

(* Every step keeps SizedInv.                                              *)
LEMMA SizedStep ==
  ASSUME SizedInv, [Next]_vars
  PROVE  SizedInv'
  <1> USE DEF Trimming, Holding
  <1>1. CASE UNCHANGED vars
    BY <1>1 DEF vars, config, span, SizedInv, rb, ib
  <1>2. ASSUME pc' \in {"new", "failed", "closed"} PROVE SizedInv'
    BY <1>2 DEF SizedInv
  <1>3. ASSUME pc \in {"mapHuge", "mapAnon"} \cup Trimming \cup Holding, size' = size, cfg' = cfg PROVE SizedInv'
    BY <1>3 DEF SizedInv, rb, ib
  <1>4. CASE NewArena
    <2>1. CASE Fail
      BY <1>2, <2>1 DEF Fail, Goto
    <2>2. CASE size' = alignUp(wrap(rb + ib), HugePageSize) /\ cfg' = cfg
      BY <2>2 DEF SizedInv, rb, ib
    <2> QED BY <1>4, <2>1, <2>2 DEF NewArena, Goto, config
  <1>5. ASSUME NEW p \in Addresses, MapHuge(p) \/ MapAnon(p) PROVE SizedInv'
    BY <1>3, <1>5 DEF MapHuge, MapAnon, Goto, config
  <1>6. CASE Normalize \/ MapHugeFails \/ MapAnonFails \/ TrimHeadFails \/ TrimTailFails
    BY <1>2, <1>3, <1>6
       DEF Normalize, MapHugeFails, MapAnonFails, TrimHeadFails, TrimTailFails, Fail, Goto, config, span
  <1>7. CASE TrimHead \/ TrimTail \/ AdviseHuge \/ AdviseFails \/ CheckAlign \/ Prefault \/ Pin \/ PinFails
    BY <1>2, <1>3, <1>7
       DEF TrimHead, TrimTail, AdviseHuge, AdviseFails, CheckAlign, Prefault, Pin, PinFails, Fail, Goto, config, span
  <1>8. CASE InitShard \/ Close
    BY <1>2, <1>3, <1>8 DEF InitShard, Close, Goto, config, span
  <1> QED BY <1>1, <1>4, <1>5, <1>6, <1>7, <1>8 DEF Next

(* A shard that was sized by NewArena has room for its cells and buckets.  *)
LEMMA SizedFits ==
  ASSUME \A c \in Configs : Representable(c), ArenaInv, CfgInv, SizedInv, pc \in {"init", "built"}
  PROVE  ShardFits
  <1>1. cfg = Defaulted(asked) /\ Acceptable(cfg) /\ asked \in Configs
    BY DEF ArenaInv, FlagsInv, CfgInv
  <1>2. cfg.cells \in Powers /\ cfg.bpc \in Powers /\ cfg.payload \in Nat
    BY <1>1, AcceptedFields
  <1>3. Holds(cfg) /\ Asked(asked) <= 2 ^ (Width - 1)
    BY <1>1 DEF Representable
  <1>4. /\ base \in Nat /\ isAligned(base, HugePageSize) /\ mapped = Range(base, size) /\ size \in Nat
        /\ size = alignUp(wrap(rb + ib), HugePageSize)
    BY DEF ArenaInv, HoldInv, SizeInv, SizedInv, Holding, Window
  <1> DEFINE n == cfg.cells
             st == cellStrideFor(cfg.payload)
             room == HeaderSize + cfg.payload
             m == Buckets(cfg)
             bs == IndexBucketSize
  <1>5. /\ n \in Nat \ {0} /\ st \in Nat /\ room <= st /\ room \in Nat /\ isAligned(st, CacheLineSize)
        /\ rb = n * st /\ m = n * cfg.bpc /\ isPow2(m) /\ ib = m * bs /\ rb + ib + HugePageSize <= Word
        /\ bs \in Nat \ {0} /\ HeaderSize \in Nat /\ cfg.payload \in Nat
    <2>1. n \in Nat \ {0} /\ bs \in Nat \ {0} /\ HeaderSize \in Nat
      BY <1>2, PowerDivides, LayoutAssumption
    <2> QED BY <1>2, <1>3, <2>1, SizesExact DEF rb, ib
  <1>6. m \in Nat
    BY <1>5, PowerDivides DEF isPow2
  <1>7. rb \in Nat /\ ib \in Nat
    BY <1>5, <1>6
  <1>8. rb + ib <= size
    <2>1. rb + ib \in Nat /\ rb + ib < Word /\ rb + ib + HugePageSize - 1 < Word
      BY <1>5, <1>7, Sizes
    <2>2. wrap(rb + ib) = rb + ib
      BY <2>1, WrapExact
    <2> QED BY <1>4, <2>1, <2>2, AlignUpRounds, Sizes
  <1>9. isPow2(cfg.shards) /\ Asked(asked) <= cfg.shards /\ cfg.shards < 2 * Asked(asked)
    <2>1. /\ asked \in [shards : Int, cells : Nat, payload : Int, high : Nat, low : Nat,
                        bpc : Nat, huge : BOOLEAN, pin : BOOLEAN]
      BY <1>1, ArenaAssumption
    <2>2. Asked(asked) \in Nat /\ 1 <= Asked(asked)
      BY <2>1, LayoutAssumption DEF Asked
    <2>3. cfg.shards = RoundUp(Asked(asked))
      BY <1>1, <2>1 DEF Defaulted, Asked
    <2> QED BY <1>3, <2>2, <2>3, RoundUpRounds DEF isPow2
  <1>10. isAligned(base, CacheLineSize) /\ isAligned(base + rb, CacheLineSize)
    <2>1. isAligned(base, CacheLineSize)
      BY <1>4, Sizes, AlignedThrough
    <2>2. isAligned(rb, CacheLineSize)
      BY <1>5, Sizes, AlignedTimes
    <2> QED BY <1>4, <1>7, <2>1, <2>2, Sizes, AlignedSum
  <1>11. initRing(cfg, base) /\ initIndex(cfg, base + rb)
    BY <1>2, <1>5, <1>10 DEF initRing, initIndex, isPow2
  <1> DEFINE cell(i) == cellAt(base, i, st) .. payloadAt(cellAt(base, i, st)) + cfg.payload - 1
  <1>12. ASSUME NEW i \in 0 .. n - 1
         PROVE  cell(i) \subseteq Range(base, rb) \cap mapped /\ \A j \in 0 .. i - 1 : cell(i) \cap cell(j) = {}
    <2> DEFINE at(k) == k * st
    <2>1. \A k \in Nat : at(k) \in Nat /\ cell(k) = Range(base + at(k), room)
      <3> TAKE k \in Nat
      <3>1. at(k) \in Nat
        BY <1>5
      <3>2. payloadAt(cellAt(base, k, st)) + cfg.payload - 1 = base + at(k) + room - 1
        BY <1>4, <1>5, <3>1 DEF payloadAt, cellAt
      <3> QED BY <3>1, <3>2 DEF cellAt, Range
    <2>2. \A k, l \in Nat : k < l => at(k) + st <= at(l)
      <3> TAKE k, l \in Nat
      <3> HAVE k < l
      <3>1. k + 1 <= l
        OBVIOUS
      <3>2. (k + 1) * st <= l * st
        BY <1>5, <3>1
      <3>3. (k + 1) * st = k * st + st
        BY <1>5
      <3> QED BY <3>2, <3>3
    <2>3. i \in Nat /\ i < n /\ n \in Nat /\ \A j \in 0 .. i - 1 : j \in Nat /\ j < i
      BY <1>5
    <2>4. at(i) \in Nat /\ at(i) + st <= rb
      BY <1>5, <2>1, <2>2, <2>3
    <2> HIDE DEF cell, at, st, room
    <2>5. cell(i) \subseteq Range(base, rb) /\ Range(base, rb) \subseteq mapped
      <3>1. at(i) + room <= rb /\ 0 + rb <= size
        BY <1>4, <1>5, <1>7, <1>8, <2>4
      <3>2. cell(i) \subseteq Range(base, rb)
        <4>1. cell(i) = Range(base + at(i), room)
          BY <2>1, <2>3
        <4>2. base \in Nat /\ at(i) \in Nat /\ room \in Nat /\ rb \in Nat
          BY <1>4, <1>5, <1>7, <2>4
        <4> QED BY <3>1, <4>1, <4>2, SubRange
      <3>3. Range(base + 0, rb) \subseteq Range(base, size)
        BY <1>4, <1>7, <3>1, SubRange
      <3>4. base + 0 = base
        BY <1>4
      <3> QED BY <1>4, <3>2, <3>3, <3>4
    <2>6. ASSUME NEW j \in 0 .. i - 1 PROVE cell(i) \cap cell(j) = {}
      <3>1. at(j) \in Nat /\ at(j) + st <= at(i)
        BY <2>1, <2>2, <2>3
      <3>2. cell(i) = Range(base + at(i), room) /\ cell(j) = Range(base + at(j), room)
        BY <2>1, <2>3
      <3>3. base + at(j) \in Nat /\ base + at(i) \in Nat /\ (base + at(j)) + room <= base + at(i) /\ room \in Nat
        BY <1>4, <1>5, <2>4, <3>1
      <3>4. Range(base + at(i), room) \cap Range(base + at(j), room) = {}
        BY <3>3, ApartRanges
      <3> QED BY <3>2, <3>4
    <2> QED BY <2>5, <2>6
  <1>13. ASSUME NEW i \in 0 .. m - 1
         PROVE  Range(bucketAt(base + rb, i), bs) \subseteq mapped \ Range(base, rb)
    <2> DEFINE at == i * bs
    <2>1. at \in Nat /\ at + bs <= ib
      <3>1. i \in Nat /\ i + 1 <= m
        BY <1>6
      <3>2. (i + 1) * bs <= m * bs
        BY <1>5, <1>6, <3>1
      <3>3. (i + 1) * bs = i * bs + bs /\ i * bs \in Nat
        BY <1>5, <3>1
      <3> QED BY <1>5, <3>2, <3>3
    <2>2. bucketAt(base + rb, i) = (base + rb) + at
      BY DEF bucketAt
    <2> HIDE DEF at, bs
    <2>3. /\ rb + at \in Nat /\ (rb + at) + bs <= size /\ (base + rb) + at = base + (rb + at)
          /\ bs \in Nat /\ base + rb <= (base + rb) + at /\ (base + rb) + at \in Nat
      BY <1>4, <1>5, <1>7, <1>8, <2>1
    <2>4. Range((base + rb) + at, bs) \subseteq Range(base, size)
      <3> DEFINE a == rb + at
      <3>1. a \in Nat /\ a + bs <= size /\ bs \in Nat /\ base \in Nat /\ size \in Nat
        BY <1>4, <2>3
      <3>2. (base + rb) + at = base + a
        BY <2>3
      <3> HIDE DEF a
      <3>3. Range(base + a, bs) \subseteq Range(base, size)
        BY <3>1, SubRange
      <3> QED BY <3>2, <3>3
    <2>5. Range((base + rb) + at, bs) \cap Range(base, rb) = {}
      BY <1>4, <1>7, <2>3, ApartRanges
    <2> QED BY <1>4, <2>2, <2>4, <2>5
  <1> HIDE DEF cell
  <1>14. /\ isPow2(cfg.shards) /\ Asked(asked) <= cfg.shards /\ cfg.shards < 2 * Asked(asked)
         /\ initRing(cfg, base) /\ initIndex(cfg, base + rb)
         /\ \A i \in 0 .. cfg.cells - 1 :
               /\ cell(i) \subseteq Range(base, rb) \cap mapped
               /\ \A j \in 0 .. i - 1 : cell(i) \cap cell(j) = {}
         /\ \A i \in 0 .. Buckets(cfg) - 1 :
               Range(bucketAt(base + rb, i), IndexBucketSize) \subseteq mapped \ Range(base, rb)
    BY <1>9, <1>11, <1>12, <1>13
  <1> QED BY <1>14 DEF ShardFits, Asked, cell

(* Every configuration that normalize accepts, and whose sizes a word can  *)
(* hold, gives a shard whose cells are disjoint and lie in mapped memory,  *)
(* whose buckets follow them, and which initRing and initIndex accept.     *)
THEOREM AcceptedFits ==
  ASSUME \A c \in Configs : Representable(c)
  PROVE  Spec => []ShardFits
  <1>1. Init => SizedInv
    BY DEF Init, SizedInv, Trimming, Holding
  <1>2. SizedInv /\ [Next]_vars => SizedInv'
    BY SizedStep
  <1>3. ArenaInv /\ CfgInv /\ SizedInv => ShardFits
    <2>1. CASE pc \in {"init", "built"}
      BY <2>1, SizedFits
    <2>2. CASE pc \notin {"init", "built"}
      BY <2>2 DEF ShardFits
    <2> QED BY <2>1, <2>2
  <1> QED BY <1>1, <1>2, <1>3, ArenaAlways, PTL DEF Spec
=============================================================================
