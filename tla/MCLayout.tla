------------------------------ MODULE MCLayout ------------------------------
(***************************************************************************)
(* Images of up to two segments on pages of four words: aligned or not,    *)
(* with and without zeros after the file's part, apart, sharing a page or  *)
(* out of order, alone or with an interpreter; and raw code, also at the   *)
(* end of the space.  The entry point is near the start of the image, or   *)
(* the user's, behind everything and beyond the middle of the space.       *)
(***************************************************************************)
EXTENDS Layout

Seg(id, v, f, m) == [id |-> id, vaddr |-> v, filesz |-> f, memsz |-> m]
Sec(a, e, n) == [start |-> a, end |-> e, name |-> n]

Elf(kind, segs, sections, headers, interp) ==
    [kind |-> kind, segs |-> segs, sections |-> sections, headers |-> headers, interp |-> interp,
     entry |-> IF kind = "Raw" THEN 0 ELSE 1]

Sections == {<<Sec(0, 3, "text"), Sec(3, 9, "heap")>>, <<>>}

Interps == {<<>>,
    <<Elf("DYN", <<Seg("ld", 0, 3, 6)>>, <<Sec(0, 5, "text")>>, TRUE, <<>>)>>,
    <<Elf("EXEC", <<Seg("ld", 9, 2, 2)>>, <<>>, TRUE, <<>>)>>,
    <<Elf("DYN", <<>>, <<>>, TRUE, <<>>)>>}

SegLists ==
    {<<Seg("a", v, f, 5), Seg("b", w, g, m)>> : v \in {0, 1}, f \in {0, 5}, w \in {7, 8, 13}, g \in {0, 1}, m \in {1, 3}}
    \cup {<<Seg("a", 9, 2, 3), Seg("b", 0, 8, 8)>>, <<Seg("a", 4, 0, 0)>>, <<>>}

MCImages ==
    {Elf("EXEC", l, s, TRUE, i) : l \in SegLists, s \in Sections, i \in Interps}
    \cup {Elf("EXEC", <<Seg("a", 0, 4, 5)>>, <<>>, FALSE, <<>>)}
    \cup {Elf("Raw", <<Seg("c", v, f, m)>>, <<>>, FALSE, <<>>) :
             v \in {4, 6, 112, 116, 120, 124}, f \in {0, 3, 9}, m \in {4, 8}}

Config(a, o, s, h, n, l) ==
    [arch |-> a, os |-> o, entry |-> 0, stack_size |-> s, heap_size |-> h, argc |-> n, strings |-> l]

MCConfigs ==
    {Config(a, o, s, 4, n, l) : a \in {"x86", "x86_64"}, o \in {"Linux", "BareMetal"},
                                s \in {16, 32}, n \in {1, 2}, l \in {2, 7}}
    \cup {Config("x86", "Linux", s, 4, 1, 2) : s \in {0, 6}}
    \cup {Config("x86", "Linux", 16, h, 1, 2) : h \in {0, 6}}
    \cup {[Config(a, "Linux", 32, 4, 1, 2) EXCEPT !.entry = e] :
                a \in {"x86", "x86_64"}, e \in {30, 46, 66}}
=============================================================================
