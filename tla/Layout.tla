------------------------------- MODULE Layout -------------------------------
(***************************************************************************)
(* How a guest comes to lie in memory before its first instruction: the    *)
(* loaders (src/src/loader/elf.rs, blob.rs), what the user maps before the *)
(* run, and the preparation of the run (os/linux.rs, and the exit trap of  *)
(* lib.rs for a bare-metal guest).  It ends where AddressSpace begins.     *)
(*                                                                         *)
(* Addresses count words of an i386 guest; Space is 2^64, where u64        *)
(* additions wrap in a release build (a debug build panics there).  A      *)
(* failed load drops the Valkyrie, a failed preparation leaves it useless: *)
(* what either had written by then is left out.                            *)
(***************************************************************************)
EXTENDS Integers, Sequences, FiniteSets, FiniteSetsExt

CONSTANTS
    Space,      \* 2^64 in words, scaled down
    PageSize,   \* PAGE_SIZE in words, scaled down
    Gap,        \* guard_gap of choose_shared_object_base
    AuxElf,     \* words of append_auxv64 and append_auxv32 for an ELF image
    AuxRaw,     \* and for any other
    Reach,      \* 2^31 bytes, how far a jump of the i386 entry stub goes
    StubEnd,    \* X86_TLS_STUB_OFFSET and the length of the stub
    Images,     \* what the ELF crate may read of a file, or the raw code
    Configs,    \* what the user may ask for
    UserPages   \* where the user may map a page before the run

(***************************************************************************)
(* An image: kind is "DYN", "EXEC" or "Raw"; segs its LOAD segments (for   *)
(* Raw: base, code and RAM size), sections its named spans in address      *)
(* order, headers whether a segment's part of the file holds the program   *)
(* headers, entry its entry point, interp a sequence of at most one image.  A segment's id is what *)
(* its file's words read as.  strings is the length of argc strings.        *)
(***************************************************************************)
Address == 0..(Space - 1)
Segment == [id : STRING \ {"random", "argv", "frame"}, vaddr : Nat, filesz : Nat, memsz : Nat]
Section == [start : Nat, end : Nat, name : STRING]
LayoutConfig == [arch : {"x86", "x86_64"}, os : {"Linux", "BareMetal"}, entry : Nat,
                 stack_size : Nat, heap_size : Nat, argc : Nat \ {0}, strings : Nat]

\* 0x10 bytes are at most a page.
ASSUME SpaceAssumption ==
    /\ {Space, PageSize, Gap, AuxElf, AuxRaw, Reach, StubEnd} \subseteq Nat
    /\ StubEnd < PageSize
    /\ PageSize >= 4 /\ Space > 0 /\ Space % PageSize = 0
    /\ UserPages \subseteq Address /\ Configs \subseteq LayoutConfig

\* The part of an ELF segment in the file is no longer than the segment.
IsImage(img) ==
    /\ img.kind \in {"DYN", "EXEC", "Raw"}
    /\ img.segs \in Seq(Segment) /\ img.sections \in Seq(Section) /\ img.entry \in Nat
    /\ IF img.kind = "Raw" THEN Len(img.segs) = 1 /\ img.interp = <<>> /\ img.entry = 0
       ELSE \A k \in 1..Len(img.segs) : img.segs[k].filesz <= img.segs[k].memsz

ASSUME ImageAssumption ==
    \A img \in Images : /\ IsImage(img)
                        /\ img.interp # <<>> => /\ IsImage(img.interp[1])
                                                /\ img.interp[1].kind # "Raw"

VARIABLES
    image, cfg,  \* never change
    at,          \* the next step
    which, todo, \* the image being mapped, and its segments still to be mapped
    bias,        \* its load bias
    code,        \* code_addr_start and code_addr_exit
    place,       \* the starts of [tls], [stack] and [heap]
    regions,     \* VMemory.regions
    mapped,      \* addresses Unicorn has mapped
    data,        \* what each address holds
    sp,          \* the stack pointer
    user         \* the pages the user mapped

asked  == <<image, cfg>>
loading == <<which, bias, code>>
machine == <<regions, mapped, data>>
vars   == <<asked, at, loading, todo, place, machine, sp, user>>

Span(a, n) == a..(a + n - 1)
Extent(r) == Span(r.start, r.size)
Covered(T) == UNION {Extent(r) : r \in T}
Disjoint(T) == \A r, s \in T : r # s => Extent(r) \cap Extent(s) = {}

Nowhere == [start |-> 0, exit |-> 0]

Init ==
    /\ image \in Images /\ cfg \in Configs
    /\ at = "map" /\ which = "main" /\ todo = image.segs /\ bias = 0
    /\ code = Nowhere /\ place = [tls |-> 0, stack |-> 0, heap |-> 0]
    /\ regions = {} /\ mapped = {} /\ data = [a \in Address |-> "zero"]
    /\ sp = 0 /\ user = {}

Plus(a, b) == (a + b) % Space
saturating_add(a, b) == IF a + b < Space THEN a + b ELSE Space - 1
align_down(a) == a - (a % PageSize)
RoundsDown(a) == align_down(a)                                              \* mutant

align_up(a) == align_down(Plus(a, PageSize - 1))

Fail == at' = "failed" /\ UNCHANGED <<asked, loading, place, machine, sp, user>>

\* uc.mem_map
UcCanMap(a, n) ==
    /\ a \in Address /\ n \in 1..(Space - a) /\ a % PageSize = 0 /\ n % PageSize = 0
    /\ Span(a, n) \cap mapped = {}

Put(f, S, v) == [a \in Address |-> IF a \in S THEN v ELSE f[a]]

\* VMemory::map
Map(a, n, info) ==
    /\ regions' = regions \cup {[start |-> a, size |-> n, info |-> info]}
    /\ mapped' = mapped \cup Span(a, n)

-----------------------------------------------------------------------------
(***************************************************************************)
(* map_elf_binary, one segment at a time: its pages are mapped in chunks   *)
(* of pages that share a label, the label is the section with the largest  *)
(* part of the page, and the content and the zeros after it are written.   *)
(***************************************************************************)
file == IF which = "main" THEN image ELSE image.interp[1]

Overlap(p, s) == Cardinality(Span(p, PageSize) \cap (s.start..(s.end - 1)))

\* The sections' addresses are not biased, the page's is.
section_name_for_page(p) ==
    LET S    == file.sections
        best == {i \in 1..Len(S) :
                    /\ Overlap(p, S[i]) > 0
                    /\ \A j \in 1..Len(S) : Overlap(p, S[j]) <= Overlap(p, S[i])}
    IN  <<which, IF best = {} THEN "segment" ELSE S[Min(best)].name>>

PagesBetween(start, end) == {p \in start..(end - 1) : p % PageSize = 0}

\* Where a chunk ends and the next begins.
Cuts(start, end) ==
    {start, end} \cup {p \in PagesBetween(start, end) \ {start} :
                          section_name_for_page(p) # section_name_for_page(p - PageSize)}

Chunk(a, b) == [start |-> a, size |-> b - a, info |-> section_name_for_page(a)]

ChunksFrom(start, end) ==                                                   \* mutant
    {Chunk(a, end) : a \in Cuts(start, end) \ {end}}

Chunks(start, end) ==
    {Chunk(c[1], c[2]) : c \in {d \in Cuts(start, end) \X Cuts(start, end) :
        d[1] < d[2] /\ \A e \in Cuts(start, end) : ~(d[1] < e /\ e < d[2])}}

\* The words of a segment at v: its part of the file, then zeros.
ZerosEverything(f, v, s) == Put(f, Span(v, s.memsz), "zero")                \* mutant

Loaded(f, v, s) ==
    [a \in Address |-> IF a \in Span(v, s.filesz) THEN s.id
                       ELSE IF a \in Span(v, s.memsz) THEN "zero" ELSE f[a]]

\* A page that is mapped already makes mem_map fail, in the first chunk or later.
map_segment(s) ==
    LET v     == saturating_add(bias, s.vaddr)
        start == align_down(v)
        end   == align_up(saturating_add(v, s.memsz))
        more  == Chunks(start, end)
    IN  \/ /\ s.memsz = 0
           /\ UNCHANGED <<asked, at, loading, place, machine, sp, user>>
        \/ /\ s.memsz > 0 /\ ~UcCanMap(start, end - start)
           /\ Fail
        \/ /\ s.memsz > 0 /\ UcCanMap(start, end - start)
           /\ regions' = regions \cup more
           /\ mapped' = mapped \cup Covered(more)
           /\ data' = Loaded(data, v, s)
           /\ code' = [start |-> IF code = Nowhere THEN start ELSE Min({code.start, start}),
                       exit  |-> Max({code.exit, end})]
           /\ UNCHANGED <<asked, at, which, bias, place, sp, user>>

MapSegment ==
    /\ at = "map" /\ image.kind # "Raw" /\ todo # <<>>
    /\ todo' = Tail(todo)
    /\ map_segment(Head(todo))

\* The end of map_elf_binary, with program_headers_addr.
Mappable == file.headers /\ \E i \in 1..Len(file.segs) : file.segs[i].memsz > 0

RejectImage ==
    /\ at = "map" /\ image.kind # "Raw" /\ todo = <<>> /\ ~Mappable
    /\ Fail /\ UNCHANGED todo

IsHighest(r) == \A q \in regions : q.start + q.size <= r.start + r.size

choose_shared_object_base(r) == align_up(saturating_add(r.start + r.size, Gap))

StartInterp ==
    /\ at = "map" /\ todo = <<>> /\ Mappable
    /\ which = "main" /\ image.interp # <<>>
    /\ which' = "ld.so" /\ todo' = image.interp[1].segs
    /\ \E r \in {q \in regions : IsHighest(q)} :
           bias' = IF image.interp[1].kind = "DYN" THEN choose_shared_object_base(r) ELSE 0
    /\ UNCHANGED <<asked, at, code, place, machine, sp, user>>

\* LoaderBlob: the code is mapped where the user asks, unrounded.
MapCode ==
    LET s == Head(image.segs)
    IN  /\ at = "map" /\ image.kind = "Raw"
        /\ IF s.filesz = 0 \/ ~UcCanMap(s.vaddr, s.memsz) \/ s.filesz > s.memsz
           THEN Fail
           ELSE /\ Map(s.vaddr, s.memsz, <<"main", "code">>)
                /\ data' = Loaded(data, s.vaddr, s)
                /\ code' = [start |-> s.vaddr, exit |-> Plus(s.vaddr, s.memsz)]
                /\ at' = "stack"
                /\ UNCHANGED <<asked, which, bias, place, sp, user>>
        /\ UNCHANGED todo

-----------------------------------------------------------------------------
(***************************************************************************)
(* The stack and the heap, a page apart from what is below them; a page is *)
(* left for [tls].  The stack pointer starts 0x10 bytes below the end.     *)
(***************************************************************************)
Small == 4      \* 0x10 bytes

tls_exit == Plus(place.tls, PageSize)
stack_exit == Plus(place.stack, cfg.stack_size)
heap_exit == Plus(place.heap, cfg.heap_size)

AboveNoGuard(a) == align_up(a)                                              \* mutant

Above(a) == align_up(Plus(a, PageSize))

MapStack ==
    LET tls   == Above(code.exit)
        stack == Above(Plus(tls, PageSize))
    IN  /\ \/ at = "stack"
           \/ /\ at = "map" /\ image.kind # "Raw" /\ todo = <<>> /\ Mappable
              /\ image.interp = <<>> \/ which = "ld.so"
        /\ IF ~UcCanMap(stack, cfg.stack_size)
           THEN Fail
           ELSE /\ place' = [place EXCEPT !.tls = tls, !.stack = stack]
                /\ Map(stack, cfg.stack_size, <<"main", "stack">>)
                /\ at' = "heap"
                /\ UNCHANGED <<asked, loading, data, sp, user>>
        /\ UNCHANGED todo

MapHeap ==
    LET heap == Above(stack_exit)
    IN  /\ at = "heap"
        /\ IF ~UcCanMap(heap, cfg.heap_size)
           THEN Fail
           ELSE /\ place' = [place EXCEPT !.heap = heap]
                /\ Map(heap, cfg.heap_size, <<"main", "heap">>)
                /\ sp' = stack_exit - Small
                /\ at' = "loaded"
                /\ UNCHANGED <<asked, loading, data, user>>
        /\ UNCHANGED todo

-----------------------------------------------------------------------------
(***************************************************************************)
(* Between new and run the user may map memory of the guest: mem and uc    *)
(* are public.                                                             *)
(***************************************************************************)
UserMaps(a) ==
    /\ at = "loaded" /\ user = {}
    /\ UcCanMap(a, PageSize)
    /\ Map(a, PageSize, <<"main", "user">>)
    /\ user' = Span(a, PageSize)
    /\ UNCHANGED <<asked, at, loading, todo, place, data, sp>>

\* setup_trap and write_exit_trap of a bare-metal guest; the word at the stack
\* pointer is in the stack and can be written.
Trap(trap) ==
    LET word == Span(sp, IF cfg.arch = "x86" THEN 1 ELSE 2)
    IN  IF ~UcCanMap(trap, PageSize)
        THEN Fail
        ELSE /\ Map(trap, PageSize, <<"main", "trap">>)
             /\ data' = Put(data, word, "trap")
             /\ at' = "running"
             /\ UNCHANGED <<asked, loading, place, sp, user>>

ExitTrap ==
    /\ at = "loaded" /\ cfg.os = "BareMetal"
    /\ \E r \in {q \in regions : IsHighest(q)} :
           Trap(align_up(saturating_add(r.start + r.size, PageSize)))
    /\ UNCHANGED todo

\* OsLinux: setup_tls_minimal, with the page's GDT for i386.
MapTls ==
    /\ at = "loaded" /\ cfg.os = "Linux"
    /\ IF ~UcCanMap(place.tls, PageSize)
       THEN Fail
       ELSE /\ Map(place.tls, PageSize, <<"main", "tls">>)
            /\ data' = IF cfg.arch = "x86"
                       THEN Put(data, Span(place.tls, PageSize), "gdt") ELSE data
            /\ at' = "contents"
            /\ UNCHANGED <<asked, loading, place, sp, user>>
    /\ UNCHANGED todo

(***************************************************************************)
(* setup_stack: 16 random bytes, the strings of argv, then, aligned to 16  *)
(* bytes, the frame: argc, the pointers to the strings, two zeros and the  *)
(* auxiliary vector.  The frame is written from its low end.               *)
(***************************************************************************)
Width == IF cfg.arch = "x86" THEN 1 ELSE 2
StringsEnd == sp - Small
StringsStart == StringsEnd - cfg.strings
Frame == Width * (3 + cfg.argc + (IF image.kind = "Raw" THEN AuxRaw ELSE AuxElf))

FrameOverlaps == StringsStart - (StringsStart % Small) - Frame + Width       \* mutant

FrameStart == StringsStart - (StringsStart % Small) - Frame

\* The guest's first instruction: what the user asks for, or the interpreter's
\* entry point, or the image's.
entry_point == IF cfg.entry # 0 THEN cfg.entry ELSE saturating_add(bias, file.entry)

\* An i386 guest starts in a stub in [tls], among the GDT's unused entries, that
\* jumps to its entry point: both must be an i64, and their distance an i32.
setup_x86_entry_stub ==
    LET jump_src == place.tls + StubEnd
        rel      == entry_point - jump_src
    IN  /\ 2 * entry_point < Space /\ 2 * jump_src < Space
        /\ -Reach <= rel /\ rel < Reach

\* setup_stack, and the end of prepare_execution.
setup_stack ==
    /\ at = "contents"
    /\ IF ~(FrameStart..(sp - 1) \subseteq mapped) \/ (cfg.arch = "x86" /\ ~setup_x86_entry_stub)
       THEN Fail
       ELSE /\ data' = [a \in Address |->
                            IF a \in StringsEnd..(sp - 1) THEN "random"
                            ELSE IF a \in StringsStart..(StringsEnd - 1) THEN "argv"
                            ELSE IF a \in Span(FrameStart, Frame) THEN "frame" ELSE data[a]]
            /\ sp' = FrameStart
            /\ at' = "running"
            /\ UNCHANGED <<asked, loading, place, regions, mapped, user>>
    /\ UNCHANGED todo

Next ==
    \/ MapSegment \/ RejectImage \/ StartInterp \/ MapCode
    \/ MapStack \/ MapHeap
    \/ \E a \in UserPages : UserMaps(a)
    \/ ExitTrap \/ MapTls \/ setup_stack

Spec == Init /\ [][Next]_vars
-----------------------------------------------------------------------------
(***************************************************************************)
(* Properties.                                                             *)
(***************************************************************************)
Running == at = "running"

\* What AddressSpace assumes of a guest that starts: the table lists all of
\* Unicorn's memory and no page twice, whatever was mapped in chunks, by the
\* loaders, by the user or by the preparation, and wherever one of them failed.
TableIsMemory == mapped = Covered(regions) /\ Disjoint(regions)

\* When the guest starts, the page below the stack and the page above it are
\* mapped by nobody but the user, or by an exit trap that has wrapped to 0; and
\* a region labelled "[heap]" below the heap is an ELF section of that name,
\* which brk will take for the heap.
LayoutIsSafe ==
    Running =>
        /\ \A a \in Span(place.stack - PageSize, PageSize) \cup Span(stack_exit, PageSize) :
               a \in mapped => \/ a \in user
                               \/ a < PageSize /\ cfg.os = "BareMetal"
        /\ \A r \in regions : r.info = <<"main", "heap">> =>
               \/ r.start >= place.heap
               \/ \E i \in 1..Len(image.sections) : image.sections[i].name = "heap"

Biased(w) == IF w = "main" THEN 0 ELSE bias

ReadsAs(img, w) ==
    \A k \in 1..Len(img.segs) : LET s == img.segs[k] IN
        \A i \in 0..(s.memsz - 1) :
            data[Biased(w) + s.vaddr + i] = IF i < s.filesz THEN s.id ELSE "zero"

\* A guest that starts finds in each segment, its own and the interpreter's,
\* the file's words and then zeros: neither the chunks, nor the next segment,
\* nor [tls], the GDT, a long argv or the exit trap has touched them.
ImageIsLoaded ==
    Running => ReadsAs(image, "main") /\ (image.interp # <<>> => ReadsAs(image.interp[1], "ld.so"))

\* A Linux guest that starts has its arguments in the stack and nowhere else,
\* in the order of the ABI and overwritten by nothing.  The stack pointer is on
\* 16 bytes only when the frame is a multiple of them: the code aligns before
\* it knows the frame's length.
StackIsUsable ==
    (Running /\ cfg.os = "Linux") =>
        LET S(v) == {a \in Address : data[a] = v}
            stack == Span(place.stack, cfg.stack_size)
        IN  /\ user = {} => S("frame") \cup S("argv") \cup S("random") \subseteq stack
            /\ S("frame") = Span(sp, Frame)
            /\ Cardinality(S("argv")) = cfg.strings /\ Cardinality(S("random")) = Small
            /\ \A a \in S("frame"), b \in S("argv"), c \in S("random") : a < b /\ b < c
            /\ sp % Small = 0 \/ Frame % Small # 0

PagesOfSegment(s, b) ==
    IF s.memsz = 0 THEN {}
    ELSE align_down(b + s.vaddr)..(align_down(b + s.vaddr + s.memsz + PageSize - 1) - 1)

PagesOfImage(img, b) == UNION {PagesOfSegment(img.segs[i], b) : i \in 1..Len(img.segs)}

PageDisjoint(img) ==
    \A i, j \in 1..Len(img.segs) :
        i # j => PagesOfSegment(img.segs[i], 0) \cap PagesOfSegment(img.segs[j], 0) = {}

SoundImage(img) ==
    IF img.kind = "Raw"
    THEN LET s == Head(img.segs)
         IN  s.filesz \in 1..s.memsz /\ s.vaddr % PageSize = 0 /\ s.memsz % PageSize = 0
    ELSE img.headers /\ PagesOfImage(img, 0) # {} /\ PageDisjoint(img)

\* Room for everything, counted without wrapping.
ForInterp(img) ==
    IF img.interp = <<>> THEN {0}
    ELSE {Gap + PageSize + b + 1 : b \in PagesOfImage(img.interp[1], 0)}

Fits(img) ==
    \A a \in PagesOfImage(img, 0), n \in ForInterp(img) :
        a + 1 + n + 7 * PageSize + cfg.stack_size + cfg.heap_size <= Space

SoundLoad ==
    /\ SoundImage(image)
    /\ image.interp # <<>> =>
        LET ld == image.interp[1]
        IN  /\ SoundImage(ld)
            /\ ld.kind = "EXEC" => PagesOfImage(image, 0) \cap PagesOfImage(ld, 0) = {}
    /\ cfg.stack_size > 0 /\ cfg.stack_size % PageSize = 0
    /\ cfg.heap_size > 0 /\ cfg.heap_size % PageSize = 0
    /\ Fits(image)

\* A jump from [tls] to the entry point spans less than 2 GB, both in the lower half.
EntryInReach ==
    \A a \in Span(place.tls, PageSize) :
        /\ 2 * a < Space /\ 2 * entry_point < Space
        /\ -Reach <= entry_point - a /\ entry_point - a < Reach

SoundRun ==
    /\ cfg.os = "Linux" => /\ cfg.arch = "x86" => EntryInReach
                           /\ 4 * Small + cfg.strings + Frame <= cfg.stack_size
                           /\ Span(place.tls, PageSize) \cap user = {}
    /\ cfg.os = "BareMetal" => \A a \in user : a + 3 * PageSize <= Space

\* A load or a preparation fails only for what was asked: an image that is not
\* one, or two of whose segments share a page (Linux would run it), a size that
\* is no multiple of a page, arguments that do not fit, no room, a page of
\* the user where [tls] will be (the loader reserves its place, and maps it only
\* when the run is prepared), or an i386 entry point that the entry stub in
\* [tls], which lies behind the image, cannot jump to.
FailsForAReason == at = "failed" => ~(SoundLoad /\ SoundRun)
=============================================================================
