------------------------------- MODULE Arena -------------------------------
(***************************************************************************)
(* How New obtains the memory of one shard: the configuration is           *)
(* normalized (Layout), NewArena maps, aligns, trims, prefaults and pins   *)
(* a span (Vautlage/arena.go), ring and index are laid out in it, and      *)
(* Close gives it back.  Every system call may fail, and every early       *)
(* return is taken.  The calls are those of the platform the engine was    *)
(* built for (arena_linux.go, arena_darwin.go, arena_unsupported.go).      *)
(*                                                                         *)
(* The kernel is external: mmap answers with any free page-aligned range,  *)
(* explicit huge pages are aligned by definition on linux, and an advised  *)
(* range may be served with small pages all the same.                      *)
(***************************************************************************)
EXTENDS Layout

CONSTANTS
    Configs,   \* configurations a caller may pass to New
    Platforms, \* platforms the engine is built for
    Space      \* bound: address space; addresses are PageSize .. Space - 1

ASSUME ArenaAssumption ==
    /\ Space \in 1 .. Word - 1
    /\ Platforms \subseteq {"linux", "darwin", "other"}
    /\ Configs \subseteq [shards : Int, cells : Nat, payload : Int, high : Nat, low : Nat,
                          bpc : Nat, huge : BOOLEAN, pin : BOOLEAN]

Nil == 0
Addresses == PageSize .. Space - 1
Range(p, n) == p .. p + n - 1

VARIABLES
    platform,   \* never changes
    pc,         \* next step, or the outcome: "built", "failed", "closed"
    asked,      \* the configuration passed to New
    cfg,        \* the configuration after normalize
    size, raw, base,                  \* fields of the arena
    hugeNative, hugeAdvised, pinned,  \* fields of the arena
    mapped,     \* addresses the process has mapped
    resident,   \* mapped addresses that have a physical frame
    locked,     \* addresses locked by mlock
    refused     \* history: addresses that munmap refused to give back

config == <<platform, asked, cfg>>
flags == <<hugeNative, hugeAdvised, pinned>>
kernel == <<mapped, resident, locked>>
span == <<size, raw, base>>
vars == <<pc, config, span, flags, kernel, refused>>

Init ==
    /\ pc = "config"
    /\ platform \in Platforms
    /\ asked \in Configs /\ cfg = asked
    /\ size = 0 /\ raw = Nil /\ base = Nil
    /\ hugeNative = FALSE /\ hugeAdvised = FALSE /\ pinned = FALSE
    /\ mapped = {} /\ resident = {} /\ locked = {} /\ refused = {}

(* sysUnmap: munmap removes whatever is in the range. *)
Unmap(ps) ==
    /\ mapped' = mapped \ ps
    /\ resident' = resident \ ps
    /\ locked' = locked \ ps
(* A munmap whose result the code ignores, after munmap refused left.  A   *)
(* munlock before it, ignored as well, may have worked or not.             *)
GiveBack(ps, left) ==
    \/ Unmap(ps) /\ refused' = left
    \/ /\ refused' = left \cup ps
       /\ locked' \in {locked, {}} /\ UNCHANGED <<mapped, resident>>
Map(ps) == mapped' = mapped \cup ps /\ UNCHANGED <<resident, locked>>
Free(p, n) == isAligned(p, PageSize) /\ n > 0 /\ Range(p, n) \subseteq Addresses \ mapped

(* What mmap may answer.  Elsewhere every call is ErrUnsupportedPlatform.  *)
Supported == platform \in {"linux", "darwin"}
sysMapAnon(p, n) == Supported /\ Free(p, n)
sysMapHuge(p, n) ==
    /\ Supported /\ isAligned(n, HugePageSize) /\ Free(p, n)
    /\ platform = "linux" => isAligned(p, HugePageSize)

rb == ringBytes(cfg.cells, cfg.payload)
ib == indexBytes(Buckets(cfg))
rawSize == wrap(size + HugePageSize)
headSlack == alignUp(raw, HugePageSize) - raw
tailSlack == rawSize - headSlack - size
Window == Range(base, size)

Goto(label) == pc' = label /\ UNCHANGED config

(* An error return: no arena is handed out. *)
Fail ==
    /\ Goto("failed")
    /\ size' = 0 /\ raw' = Nil /\ base' = Nil
    /\ hugeNative' = FALSE /\ hugeAdvised' = FALSE /\ pinned' = FALSE

-----------------------------------------------------------------------------
(* Plausible mistakes: each stands in for the operation it is named after. *)

(* A failed head trim returns at once. *)
BadTrimHeadFails ==
    /\ pc = "trimHead" /\ headSlack > 0
    /\ refused' = Range(raw, headSlack)
    /\ Fail /\ UNCHANGED kernel

(* The loop stops one huge page short of the end. *)
BadTouchedShort ==
    {p \in Range(base, size - HugePageSize) :
        isAligned(p - base, IF hugeNative \/ hugeAdvised THEN HugePageSize ELSE PageSize)}

(* The loop runs up to and including the end of the span. *)
BadTouched ==
    {p \in Range(base, size + 1) :
        isAligned(p - base, IF hugeNative \/ hugeAdvised THEN HugePageSize ELSE PageSize)}

-----------------------------------------------------------------------------
Normalize ==
    /\ pc = "config"
    /\ cfg' = Defaulted(asked)
    /\ pc' = IF Acceptable(cfg') /\ initGate(cfg') THEN "new" ELSE "failed"
    /\ UNCHANGED <<platform, asked, span, flags, kernel, refused>>

NewArena ==
    LET request == wrap(rb + ib) IN
    /\ pc = "new"
    /\ IF request = 0
       THEN Fail
       ELSE /\ size' = alignUp(request, HugePageSize)
            /\ Goto("mapHuge")
            /\ UNCHANGED <<raw, base, flags>>
    /\ UNCHANGED <<kernel, refused>>

(* Tier 1: explicit huge pages. *)
MapHuge(p) ==
    /\ pc = "mapHuge"
    /\ sysMapHuge(p, size)
    /\ Map(Range(p, size))
    /\ raw' = p /\ base' = p /\ hugeNative' = TRUE
    /\ Goto("align")
    /\ UNCHANGED <<size, hugeAdvised, pinned, refused>>

MapHugeFails ==
    /\ pc = "mapHuge"
    /\ IF cfg.huge THEN Fail ELSE Goto("mapAnon") /\ UNCHANGED <<span, flags>>
    /\ UNCHANGED <<kernel, refused>>

(* Tier 2: one huge page too many, then trim the slack on both sides. *)
MapAnon(p) ==
    /\ pc = "mapAnon"
    /\ sysMapAnon(p, rawSize)
    /\ Map(Range(p, rawSize))
    /\ raw' = p
    /\ Goto("trimHead")
    /\ UNCHANGED <<size, base, flags, refused>>

MapAnonFails ==
    /\ pc = "mapAnon"
    /\ Fail /\ UNCHANGED <<kernel, refused>>

TrimHead ==
    /\ pc = "trimHead"
    /\ Unmap(Range(raw, headSlack))
    /\ Goto("trimTail")
    /\ UNCHANGED <<span, flags, refused>>

TrimHeadFails ==
    /\ pc = "trimHead" /\ headSlack > 0
    /\ GiveBack(Range(raw, rawSize), {})
    /\ Fail

TrimTail ==
    /\ pc = "trimTail"
    /\ Unmap(Range(raw + headSlack + size, tailSlack))
    /\ base' = raw + headSlack
    /\ raw' = raw + headSlack
    /\ Goto("advise")
    /\ UNCHANGED <<size, flags, refused>>

(* Only the aligned window is given back; the tail slack stays. *)
TrimTailFails ==
    /\ pc = "trimTail" /\ tailSlack > 0
    /\ GiveBack(Range(raw + headSlack, size), Range(raw + headSlack + size, tailSlack))
    /\ Fail

(* sysAdviseHuge succeeds on linux only. *)
AdviseHuge ==
    /\ pc = "advise" /\ platform = "linux"
    /\ hugeAdvised' = TRUE
    /\ Goto("align")
    /\ UNCHANGED <<span, hugeNative, pinned, kernel, refused>>

(* darwin asks for the pages with MADV_WILLNEED, which the kernel may or   *)
(* may not bring in, and reports a failure all the same.                   *)
WillNeed == resident' \in {resident} \cup (IF platform = "darwin" THEN {Window} ELSE {})

AdviseFails ==
    /\ pc = "advise"
    /\ IF cfg.huge
       THEN Fail /\ GiveBack(Window, {})
       ELSE Goto("align") /\ WillNeed /\ UNCHANGED <<span, flags, mapped, locked, refused>>

CheckAlign ==
    /\ pc = "align"
    /\ IF isAligned(base, HugePageSize)
       THEN Goto("prefault") /\ UNCHANGED <<span, flags, kernel, refused>>
       ELSE Fail /\ GiveBack(Range(raw, size), {})

(* prefault touches one address per stride, and the touch of an address    *)
(* brings in its frame: a huge one, or a small one where the kernel has    *)
(* none to spare for advised memory.                                       *)
stride == IF hugeNative \/ hugeAdvised THEN HugePageSize ELSE PageSize
Touched == {p \in Window : isAligned(p - base, stride)}
Frames(n) == {p \in Addresses : \E t \in Touched : p \div n = t \div n}

Prefault ==
    /\ pc = "prefault"
    /\ \/ /\ hugeNative \/ hugeAdvised
          /\ resident' = resident \cup Frames(HugePageSize)
       \/ /\ ~hugeNative
          /\ resident' = resident \cup Frames(PageSize)
    /\ Goto("pin")
    /\ UNCHANGED <<span, flags, mapped, locked, refused>>

(* mlock also populates the range. *)
Pin ==
    /\ pc = "pin" /\ Supported
    /\ pinned' = TRUE
    /\ locked' = locked \cup Window /\ resident' = resident \cup Window
    /\ Goto("init")
    /\ UNCHANGED <<span, hugeNative, hugeAdvised, mapped, refused>>

PinFails ==
    /\ pc = "pin"
    /\ IF cfg.pin
       THEN Fail /\ GiveBack(Range(raw, size), {})
       ELSE Goto("init") /\ UNCHANGED <<span, flags, kernel, refused>>

(* Arena.Close forgets the span, whether munmap takes it or refuses. *)
CloseArena ==
    /\ GiveBack(Range(raw, size), {})
    /\ size' = 0 /\ raw' = Nil /\ base' = Nil /\ pinned' = FALSE
    /\ UNCHANGED <<hugeNative, hugeAdvised>>

InitShard ==
    /\ pc = "init"
    /\ IF initRing(cfg, base) /\ initIndex(cfg, base + rb)
       THEN Goto("built") /\ UNCHANGED <<span, flags, kernel, refused>>
       ELSE Goto("failed") /\ CloseArena

Close ==
    /\ pc = "built"
    /\ Goto("closed") /\ CloseArena

Next ==
    \/ Normalize \/ NewArena
    \/ \E p \in Addresses : MapHuge(p) \/ MapAnon(p)
    \/ MapHugeFails \/ MapAnonFails
    \/ TrimHead \/ TrimHeadFails \/ TrimTail \/ TrimTailFails
    \/ AdviseHuge \/ AdviseFails \/ CheckAlign \/ Prefault \/ Pin \/ PinFails
    \/ InitShard \/ Close

Spec == Init /\ [][Next]_vars

-----------------------------------------------------------------------------
(* Properties                                                              *)

(* Type invariant of the arena's fields and of the kernel's tables.        *)
TypeOK ==
    /\ pc \in {"config", "new", "mapHuge", "mapAnon", "trimHead", "trimTail", "advise",
               "align", "prefault", "pin", "init", "built", "failed", "closed"}
    /\ platform \in Platforms /\ asked \in Configs
    /\ size \in Nat /\ raw \in 0 .. Space /\ base \in 0 .. Space
    /\ hugeNative \in BOOLEAN /\ hugeAdvised \in BOOLEAN /\ pinned \in BOOLEAN
    /\ mapped \subseteq Addresses /\ refused \subseteq Addresses
    /\ resident \subseteq mapped /\ locked \subseteq mapped

(* Whatever address mmap returned and whichever calls failed, the arena    *)
(* that NewArena touches and hands out is a huge-page aligned window, all  *)
(* of it mapped, and nothing else is mapped any more.                      *)
WindowExact ==
    pc \in {"prefault", "pin", "init", "built"} =>
        /\ isAligned(base, HugePageSize) /\ isAligned(size, HugePageSize)
        /\ mapped = Window

(* After an error return and after Close only memory that munmap itself    *)
(* refused to take is still mapped, although the results of the munmaps on *)
(* error paths are ignored: "a failed trim would leak an unreferenced      *)
(* mapping" (arena.go:144-145).                                            *)
NothingLeaks == pc \in {"failed", "closed"} => mapped \subseteq refused

(* What prefault and mlock leave: a frame in every huge page of the        *)
(* window, whatever frames the kernel serves, and every frame of it where  *)
(* the pages are known to be huge, are touched one by one, or are locked.  *)
PagesTouched ==
    pc \in {"init", "built"} =>
        /\ \A p \in Window : \E q \in resident : q \div HugePageSize = p \div HugePageSize
        /\ resident = Window \/ (hugeAdvised /\ ~pinned)

(* arena.go:180-183: "the arena is fully resident even when pinning is     *)
(* unavailable".                                                           *)
FullyResident == pc \in {"init", "built"} => resident = Window

(* What normalize accepts can be built.  route's mask gets a power of two  *)
(* that is at least the number of shards asked for and below twice that,   *)
(* neither initRing nor initIndex refuses the memory it is given, and      *)
(* every cell with its payload, and every bucket after the cells, lies in  *)
(* mapped memory before initRing writes to the first of them.              *)
ShardFits ==
    pc \in {"init", "built"} =>
        LET n == IF asked.shards <= 0 THEN Procs ELSE asked.shards
            at(i) == cellAt(base, i, cellStrideFor(cfg.payload))
            cell(i) == at(i) .. payloadAt(at(i)) + cfg.payload - 1
        IN
        /\ isPow2(cfg.shards) /\ n <= cfg.shards /\ cfg.shards < 2 * n
        /\ initRing(cfg, base) /\ initIndex(cfg, base + rb)
        /\ \A i \in 0 .. cfg.cells - 1 :
              /\ cell(i) \subseteq Range(base, rb) \cap mapped
              /\ \A j \in 0 .. i - 1 : cell(i) \cap cell(j) = {}
        /\ \A i \in 0 .. Buckets(cfg) - 1 :
              Range(bucketAt(base + rb, i), IndexBucketSize) \subseteq mapped \ Range(base, rb)
=============================================================================
