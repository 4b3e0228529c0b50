---------------------------- MODULE AddressSpace ----------------------------
(***************************************************************************)
(* The guest address space of valkyrie-rs and the system calls that change *)
(* it: src/src/memory.rs (VMemory), src/src/os/syscall/memory.rs.          *)
(*                                                                         *)
(* Two views of the same memory are kept side by side.  `regions` is the   *)
(* bookkeeping table VMemory.regions; `mapped`, `perm` and `data` are what *)
(* the Unicorn CPU engine really maps, protects and stores.  Placement     *)
(* decisions (next_mmap_addr, the limits of brk) read the table only, and  *)
(* whether they succeed is decided by Unicorn only.                        *)
(*                                                                         *)
(* Addresses are page numbers: every range the code hands to Unicorn has   *)
(* been rounded to PAGE_SIZE, and the one place where an unrounded address *)
(* matters (an unaligned argument) is an argument `off` of the call.       *)
(***************************************************************************)
EXTENDS Integers, FiniteSets, FiniteSetsExt

CONSTANTS
    LastPage,     \* highest page number Unicorn can map
    Gap,          \* guard_gap of next_mmap_addr, in pages
    HeapStart,    \* VMemory.heap_addr_start, fixed by the loader
    HeapEnd,      \* VMemory.heap_addr_exit as the loader leaves it
    InitRegions,  \* the table as the loader leaves it
    Addrs,        \* page arguments the guest passes to the calls
    Lens,         \* length arguments, in pages
    ProtArgs,     \* protections the guest asks for
    FileArgs,     \* what the flags and fd arguments of mmap can name
    StorePages    \* pages the guest stores to

Page == 0..LastPage
Perm == SUBSET {"R", "W", "X"}
ALL  == {"R", "W", "X"}
Info == {"[heap]", "[mmap]", "[image]"}   \* "[image]": code, tls, stack, traps
Data == {"zero", "image", "file", "guest"}
File == {"anon", "open", "badfd", "unreadable"}   \* the fd argument of mmap

Region == [start : Page, size : 1..(LastPage + 1), prot : Perm, info : Info]

Span(a, n) == a..(a + n - 1)
RegionEnd(r) == r.start + r.size
PagesOf(r) == Span(r.start, r.size)
TablePages(T) == UNION {PagesOf(r) : r \in T}
Disjoint(T) == \A r, s \in T : r # s => PagesOf(r) \cap PagesOf(s) = {}

(***************************************************************************)
(* The loader leaves disjoint regions, all of them mapped through          *)
(* VMemory::map, and the heap between HeapStart and HeapEnd.               *)
(***************************************************************************)
ASSUME LayoutAssumption ==
    /\ LastPage \in Nat /\ Gap \in Nat
    /\ HeapStart \in Page /\ HeapEnd \in HeapStart..(LastPage + 1)
    /\ InitRegions \subseteq Region
    /\ \A r \in InitRegions : PagesOf(r) \subseteq Page
    /\ Disjoint(InitRegions)
    /\ \A r \in InitRegions : r.info = "[heap]" => r.start >= HeapStart

ASSUME GuestAssumption ==
    /\ Addrs \subseteq Nat /\ Lens \subseteq Nat
    /\ ProtArgs \subseteq Perm /\ FileArgs \subseteq File /\ StorePages \subseteq Nat

VARIABLES
    regions,  \* VMemory.regions
    mapped,   \* pages Unicorn has mapped
    perm,     \* Unicorn's protection of each mapped page
    data,     \* what each mapped page holds
    brk,      \* VMemory.heap_addr_exit
    last      \* the last guest step: its name, errno and result register

memory == <<mapped, perm, data>>
vars == <<regions, mapped, perm, data, brk, last>>

Step(call, err, val) == last' = [call |-> call, err |-> err, val |-> val]

Init ==
    /\ regions = InitRegions
    /\ mapped = TablePages(InitRegions)
    /\ perm = [p \in Page |-> UNION {r.prot : r \in {q \in InitRegions : p \in PagesOf(q)}}]
    /\ data = [p \in Page |-> IF p \in TablePages(InitRegions) THEN "image" ELSE "zero"]
    /\ brk = HeapEnd
    /\ last = [call |-> "start", err |-> "none", val |-> 0]

(***************************************************************************)
(* Unicorn's memory calls.  Each either applies to the whole range or      *)
(* fails and changes nothing: mem_map refuses a range that meets a mapped  *)
(* page or leaves the address space, mem_unmap and mem_protect refuse one  *)
(* with an unmapped page.  Fresh pages are zero.                           *)
(***************************************************************************)
UcCanMap(m, S)   == S # {} /\ S \subseteq Page /\ S \cap m = {}
UcCanTouch(m, S) == S \subseteq m

UcFill(f, S, v) == [p \in Page |-> IF p \in S THEN v ELSE f[p]]

(***************************************************************************)
(* VMemory::remove_range cuts [a, e) out of the table; a region that       *)
(* sticks out on a side keeps that piece, with its prot and info.          *)
(***************************************************************************)
NewRegion(a, n, pr, i) == [start |-> a, size |-> n, prot |-> pr, info |-> i]

LowerKeepsSize(r, a) == NewRegion(r.start, r.size, r.prot, r.info)          \* mutant

Lower(r, a) == NewRegion(r.start, a - r.start, r.prot, r.info)
Upper(r, e) == NewRegion(e, RegionEnd(r) - e, r.prot, r.info)

RemoveRangeKeepsAll(T, a, e) == T                                           \* mutant

RemoveRange(T, a, e) ==
    {r \in T : e <= r.start \/ RegionEnd(r) <= a}
        \cup {Lower(r, a) : r \in {q \in T : q.start < a /\ a < RegionEnd(q)}}
        \cup {Upper(r, e) : r \in {q \in T : q.start < e /\ e < RegionEnd(q)}}

-----------------------------------------------------------------------------
(***************************************************************************)
(* brk(2).  Growing maps the pages above the highest "[heap]" region; a    *)
(* request below the start of the heap, or above the lowest other region   *)
(* that follows the heap, is answered with the current break; shrinking    *)
(* unmaps nothing.  `last.err = "Err"` is a handler that returned Err: the *)
(* dispatcher logs it and the guest reads 0.                               *)
(***************************************************************************)
HeapRegions == {r \in regions : r.info = "[heap]"}

MappedHeapEnd ==
    IF HeapRegions = {} THEN brk ELSE Max({RegionEnd(r) : r \in HeapRegions})

WithinHeapLimitStrict(b) ==                                                 \* mutant
    \A r \in regions \ HeapRegions : r.start > MappedHeapEnd => b <= r.start

WithinHeapLimit(b) ==
    \A r \in regions \ HeapRegions : r.start >= MappedHeapEnd => b <= r.start

BrkQuery ==
    /\ Step("brk", "none", brk)
    /\ UNCHANGED <<regions, memory, brk>>

BrkRefused(req) ==
    /\ req # 0
    /\ req < HeapStart \/ ~WithinHeapLimit(req)
    /\ Step("brk", "none", brk)
    /\ UNCHANGED <<regions, memory, brk>>

BrkAllowed(req) ==
    req # 0 /\ req >= HeapStart /\ WithinHeapLimit(req)

BrkMove(req) ==      \* nothing to map: the break moves inside the mapped heap
    /\ BrkAllowed(req)
    /\ req <= MappedHeapEnd
    /\ brk' = req
    /\ Step("brk", "none", req)
    /\ UNCHANGED <<regions, memory>>

BrkErr(req) ==       \* the `?` after mem.map leaves before the break is stored
    /\ Step("brk", "Err", 0)
    /\ UNCHANGED <<regions, memory, brk>>

BrkGrow(req) ==
    LET top == MappedHeapEnd
        S   == top..(req - 1)
    IN  /\ BrkAllowed(req)
        /\ req > top
        /\ IF UcCanMap(mapped, S)
           THEN /\ regions' = regions \cup {NewRegion(top, req - top, ALL, "[heap]")}
                /\ mapped' = mapped \cup S
                /\ perm' = UcFill(perm, S, ALL)
                /\ data' = UcFill(data, S, "zero")
                /\ brk' = req
                /\ Step("brk", "none", req)
           ELSE BrkErr(req)

Brk(req) == BrkRefused(req) \/ BrkMove(req) \/ BrkGrow(req)

-----------------------------------------------------------------------------
(***************************************************************************)
(* mmap(2).                                                                *)
(***************************************************************************)
FreeAtStart(x, n) == \A r \in regions : x \notin PagesOf(r)                 \* mutant

FreeInTable(x, n) == \A r \in regions : PagesOf(r) \cap Span(x, n) = {}

\* The loop of next_mmap_addr jumps from overlap to overlap and so ends at
\* the lowest gap of the table; one is found by the end of the last region.
NextMmapAddr(n) ==
    LET candidate == brk + Gap
    IN  Min({x \in candidate..(candidate + LastPage + 1) : FreeInTable(x, n)})

MmapAddrHint(a, n, fixed) == IF a = 0 THEN NextMmapAddr(n) ELSE a           \* mutant

MmapAddr(a, n, fixed) == IF a = 0 \/ ~fixed THEN NextMmapAddr(n) ELSE a

MmapInvalid(a, n, off) ==
    /\ n = 0 \/ off = 1
    /\ Step("mmap", "EINVAL", 0)
    /\ UNCHANGED <<regions, memory, brk>>

UnmapsWhatIsThere(S) == mapped \ S                                          \* mutant

\* What MAP_FIXED leaves mapped: mem_unmap takes all of the range or, over a
\* hole, nothing, and the handler ignores which.
ForcedUnmap(S) == IF UcCanTouch(mapped, S) THEN mapped \ S ELSE mapped

\* MAP_FIXED drops the range from Unicorn, if it can, and from the table in any
\* case, before mem.map; what it has dropped stays dropped when mem.map fails.
Mmap(a, n, pr, fixed, file) ==
    LET at     == MmapAddr(a, n, fixed)
        S      == Span(at, n)
        table  == IF fixed THEN RemoveRange(regions, at, at + n) ELSE regions
        under  == IF fixed THEN ForcedUnmap(S) ELSE mapped
        call   == IF fixed THEN "mmap_fixed" ELSE "mmap"
    IN  /\ n # 0
        /\ IF UcCanMap(under, S)
           THEN /\ regions' = table \cup {NewRegion(at, n, pr, "[mmap]")}
                /\ mapped' = under \cup S
                /\ perm' = UcFill(perm, S, pr)
                /\ data' = UcFill(data, S, IF file = "open" THEN "file" ELSE "zero")
                /\ CASE file = "badfd"      -> Step(call, "EBADF", 0)
                     [] file = "unreadable" -> Step(call, "EIO", 0)
                     [] OTHER               -> Step(call, "none", at)
           ELSE /\ regions' = table
                /\ mapped' = under
                /\ perm' = UcFill(perm, mapped \ under, {})
                /\ data' = UcFill(data, mapped \ under, "zero")
                /\ Step(call, "ENOMEM", 0)
        /\ UNCHANGED brk

-----------------------------------------------------------------------------
(***************************************************************************)
(* mprotect(2): an unaligned address widens the range by a page; a hole in *)
(* the range is an Err of the handler.  The table changes the protection   *)
(* of every region the range meets, all of the region.                     *)
(***************************************************************************)
MeetsOrTouches(r, S) == (r.start..RegionEnd(r)) \cap S # {}                   \* mutant

Meets(r, S) == PagesOf(r) \cap S # {}

Mprotect(a, n, off, pr) ==
    LET S == Span(a, n + off)
    IN  CASE n = 0 ->
               /\ Step("mprotect", "EINVAL", 0)
               /\ UNCHANGED <<regions, memory, brk>>
          [] n # 0 /\ ~UcCanTouch(mapped, S) ->
               /\ Step("mprotect", "Err", 0)
               /\ UNCHANGED <<regions, memory, brk>>
          [] OTHER ->
               /\ perm' = UcFill(perm, S, pr)
               /\ regions' = {IF Meets(r, S) THEN [r EXCEPT !.prot = pr] ELSE r : r \in regions}
               /\ Step("mprotect", "none", 0)
               /\ UNCHANGED <<mapped, data, brk>>

(***************************************************************************)
(* munmap(2).                                                              *)
(***************************************************************************)
MunmapAllowed(a, n, off) ==
    a # 0 /\ n # 0 /\ off = 0 /\ UcCanTouch(mapped, Span(a, n))

MunmapRefusedCuts(a, n, off) ==                                             \* mutant
    /\ ~MunmapAllowed(a, n, off)
    /\ regions' = RemoveRange(regions, a, a + n)
    /\ Step("munmap", "EINVAL", 0)
    /\ UNCHANGED <<memory, brk>>

MunmapRefused(a, n, off) ==
    /\ ~MunmapAllowed(a, n, off)
    /\ Step("munmap", "EINVAL", 0)
    /\ UNCHANGED <<regions, memory, brk>>

MunmapDone(a, n, off) ==
    LET S == Span(a, n)
    IN  /\ MunmapAllowed(a, n, off)
        /\ mapped' = mapped \ S
        /\ perm' = UcFill(perm, S, {})
        /\ data' = UcFill(data, S, "zero")
        /\ regions' = RemoveRange(regions, a, a + n)
        /\ Step("munmap", "none", 0)
        /\ UNCHANGED brk

Munmap(a, n, off) == MunmapRefused(a, n, off) \/ MunmapDone(a, n, off)

-----------------------------------------------------------------------------
(***************************************************************************)
(* Stores.  The CPU checks the page's protection; VMemory::write, through  *)
(* which every handler writes guest buffers, asks only that it be mapped.  *)
(***************************************************************************)
StoreTo(p, by) ==
    /\ data' = [data EXCEPT ![p] = "guest"]
    /\ Step(by, "none", 0)
    /\ UNCHANGED <<regions, mapped, perm, brk>>

GuestStore(p)   == p \in mapped /\ "W" \in perm[p] /\ StoreTo(p, "store")
HandlerWrite(p) == p \in mapped /\ StoreTo(p, "write")

Next ==
    \/ BrkQuery
    \/ \E req \in Addrs : Brk(req)
    \/ \E a \in Addrs, n \in Lens, off \in {0, 1} : MmapInvalid(a, n, off)
    \/ \E a \in Addrs, n \in Lens, pr \in ProtArgs, fixed \in BOOLEAN, file \in FileArgs :
           Mmap(a, n, pr, fixed, file)
    \/ \E a \in Addrs, n \in Lens, off \in {0, 1}, pr \in ProtArgs : Mprotect(a, n, off, pr)
    \/ \E a \in Addrs, n \in Lens, off \in {0, 1} : Munmap(a, n, off)
    \/ \E p \in StorePages : GuestStore(p) \/ HandlerWrite(p)

Spec == Init /\ [][Next]_vars
-----------------------------------------------------------------------------
(***************************************************************************)
(* Properties.                                                             *)
(***************************************************************************)
Calls  == {"start", "brk", "mmap", "mmap_fixed", "mprotect", "munmap", "store", "write"}
Errors == {"none", "EINVAL", "ENOMEM", "EBADF", "EIO", "Err"}

\* Types of the two views and of the recorded call.
TypeOK ==
    /\ regions \subseteq Region
    /\ mapped \subseteq Page
    /\ perm \in [Page -> Perm]
    /\ data \in [Page -> Data]
    /\ brk \in 0..(LastPage + 1)
    /\ last \in [call : Calls, err : Errors, val : Nat]

\* Every page the table lists is mapped in Unicorn: a region that remove_range
\* or the error path of a call left behind would be unmapped a second time.
TableBacked == TablePages(regions) \subseteq mapped

\* No two regions of the table share a page, whatever mixture of brk, mmap,
\* MAP_FIXED, munmap and their failures built it (memory.rs never checks).
TableDisjoint == Disjoint(regions)

\* The heap never reaches below heap_addr_start, by brk or by a cut.
HeapAboveStart ==
    /\ brk >= HeapStart
    /\ \A r \in HeapRegions : r.start >= HeapStart

\* Pages Unicorn maps and the table has lost.
Orphans == mapped \ TablePages(regions)

\* What the handlers read off the table is enough for Unicorn.  With no orphan
\* and a heap region left, a brk that passes the checks and fits the space is
\* never refused by mem_map; and the place next_mmap_addr finds for mmap(NULL)
\* is refused only when it leaves the space.
TableIsEnough ==
    Orphans = {} =>
        /\ HeapRegions # {} =>
               \A req \in Addrs :
                   (BrkAllowed(req) /\ req <= LastPage + 1) =>
                       (MappedHeapEnd..(req - 1)) \cap mapped = {}
        /\ \A n \in Lens \ {0} :
               LET S == Span(NextMmapAddr(n), n)
               IN  S \subseteq Page => UcCanMap(mapped, S)

\* An mmap that fails costs the guest no page, although MAP_FIXED unmaps before
\* it maps: the range is unmapped as a whole or not at all, and once it is, the
\* mem_map that follows cannot be refused.  With ENOMEM nothing else changes
\* either; a bad file is found after the pages were replaced.
FailedMmapLosesNoPage ==
    [][(last'.call \in {"mmap", "mmap_fixed"} /\ last'.err # "none") =>
            /\ mapped \subseteq mapped'
            /\ last'.err = "ENOMEM" => UNCHANGED memory]_vars

\* brk and mmap without MAP_FIXED hand out pages nobody had: every page that
\* was mapped stays mapped with its protection and contents, and mmap answers
\* a page that was unmapped, past the guard gap.
PlacementDisturbsNothing ==
    [][ /\ last'.call \in {"brk", "mmap"} =>
            \A p \in mapped : p \in mapped' /\ perm'[p] = perm[p] /\ data'[p] = data[p]
        /\ (last'.call = "mmap" /\ last'.err = "none") =>
            last'.val \in mapped' \ mapped /\ last'.val >= brk + Gap ]_vars

\* A page is lost from the table while Unicorn keeps it in one way only: a
\* MAP_FIXED over a range with a hole, whose forced unmap failed unnoticed.
OrphansOnlyFromFailedFixed ==
    [][Orphans' \subseteq Orphans \/ (last'.call = "mmap_fixed" /\ last'.err = "ENOMEM")]_vars

\* The table records the protection Unicorn enforces.
PermAgree == \A r \in regions : \A p \in PagesOf(r) : perm[p] = r.prot

\* The step changes the protection of some pages of a listed region only.
PartlyProtected(r) == \E p, q \in PagesOf(r) : perm'[p] # perm[p] /\ perm'[q] = perm[q]

\* Only mprotect of a part of a region makes the table's protection wrong:
\* splitting, growing, mapping over, unmapping and mprotect of whole regions
\* keep the two views alike.
DivergenceOnlyByMprotect ==
    [][PermAgree =>
        \/ PermAgree'
        \/ last'.call = "mprotect" /\ \E r \in regions : PartlyProtected(r)]_vars
=============================================================================
