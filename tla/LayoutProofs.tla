---------------------------- MODULE LayoutProofs ----------------------------
(***************************************************************************)
(* Layout, for any images, options and user pages.                         *)
(*                                                                         *)
(* VMemory's table is Unicorn's memory at every step, whatever wraps and   *)
(* wherever a step fails: mem_map refuses what is mapped, and the chunks   *)
(* of a segment are apart, being cut at the same places.                   *)
(*                                                                         *)
(* What a guest finds when it starts rests on KInv, which says whose each  *)
(* region is, and DInv, which says what the image's addresses hold.  Both  *)
(* need Roomy, without which the code's wrapping additions may place the   *)
(* stack below the image.  The image, a page, [tls], a page, the stack, a  *)
(* page and the heap then follow each other; a range that reaches from the *)
(* stack into the image would cross two unmapped pages, and the user has   *)
(* mapped one at most.                                                     *)
(*                                                                         *)
(* FInv is why a load that should succeed does: of a sound image, the      *)
(* pages mapped are those of the segments done so far, so that the next    *)
(* one meets none of them and what follows has room.                       *)
(***************************************************************************)
EXTENDS Layout, FiniteSetTheorems, WellFoundedInduction, TLAPS

\* Every non-empty set of naturals has a least element.
LEMMA LeastNat ==
    ASSUME NEW S \in SUBSET Nat, S # {}
    PROVE  \E x \in S : \A y \in S : x <= y
<1>1. PICK x \in S : \A y \in S : ~(<<y, x>> \in OpToRel(<, Nat))
  BY NatLessThanWellFounded, WFMin
<1>2. \A y \in S : x <= y
  <2> TAKE y \in S
  <2>1. <<y, x>> \in Nat \X Nat  OBVIOUS
  <2>2. ~(y < x)  BY <1>1, <2>1 DEF OpToRel
  <2> QED  BY <2>2
<1> QED  BY <1>2

\* An address rounded up is at least itself, or has wrapped to the first page.
LEMMA AlignUp ==
    ASSUME NEW a \in Nat, a < Space
    PROVE  /\ align_up(a) = 0 \/ align_up(a) >= a
           /\ a + PageSize <= Space => align_up(a) \in a..(a + PageSize - 1)
           /\ a = Space - 1 => align_up(a) = 0
<1> DEFINE b == a + PageSize - 1
<1>1. Space \in Nat /\ PageSize \in Nat /\ PageSize >= 4 /\ Space > 0 /\ b \in Nat
  BY SpaceAssumption
<1>2. align_up(a) = (b % Space) - ((b % Space) % PageSize)
  BY <1>1 DEF align_up, align_down, Plus
<1>3. \A n \in Nat : n % PageSize \in 0..(PageSize - 1) /\ (n < PageSize => n % PageSize = n)
  BY <1>1
<1>4. PageSize <= Space
  <2>1. Space < PageSize => Space % PageSize = Space  BY <1>1
  <2> QED  BY <2>1, <1>1, SpaceAssumption
<1>5. b < Space => b % Space = b
  BY <1>1
<1>6. b >= Space => b % Space = b - Space
  <2>1. ASSUME b >= Space PROVE b - Space \in 0..(Space - 1) /\ b = 1 * Space + (b - Space)
    BY <1>1, <1>4, <2>1
  <2>2. \A n, m \in Nat : m > 0 /\ n >= m /\ n - m < m => n % m = n - m
    OBVIOUS
  <2> QED  BY <1>1, <2>1, <2>2
<1> HIDE DEF b
<1>7. CASE b < Space
  <2>1. b % PageSize \in 0..(PageSize - 1)  BY <1>1, <1>3
  <2>2. align_up(a) = b - (b % PageSize)  BY <1>2, <1>5, <1>7
  <2>3. align_up(a) \in a..(a + PageSize - 1)  BY <1>1, <2>1, <2>2 DEF b
  <2>4. a # Space - 1  BY <1>1, <1>7 DEF b
  <2> QED  BY <2>3, <2>4
<1>8. CASE b >= Space
  <2>1. b - Space \in Nat /\ b - Space < PageSize  BY <1>1, <1>8 DEF b
  <2>2. (b - Space) % PageSize = b - Space  BY <1>3, <2>1
  <2>3. align_up(a) = 0  BY <1>1, <1>2, <1>6, <1>8, <2>2
  <2>4. ~(a + PageSize <= Space)  BY <1>1, <1>8 DEF b
  <2> QED  BY <2>3, <2>4
<1> QED  BY <1>1, <1>7, <1>8

\* There is a last cut before each address of a segment's pages, and a first
\* after it.
LEMMA CutsAround ==
    ASSUME NEW start \in Int, NEW end \in Int, Cuts(start, end) \subseteq Int,
           NEW x \in Int, start <= x, x < end
    PROVE  \E a, b \in Cuts(start, end) :
               /\ a <= x /\ x < b
               /\ \A e \in Cuts(start, end) : ~(a < e /\ e < b)
<1> DEFINE C == Cuts(start, end)
<1> C \subseteq Int /\ start \in C /\ end \in C  BY DEF Cuts
<1> HIDE DEF C
<1> DEFINE Before == {d \in Nat : \E c \in C : d = x - c}
           After  == {d \in Nat : \E c \in C : d = c - x - 1}
<1>1. PICK d \in Before : \A e \in Before : d <= e
  <2>1. x - start \in Before  OBVIOUS
  <2> QED  BY <2>1, LeastNat
<1>2. PICK f \in After : \A e \in After : f <= e
  <2>1. end - x - 1 \in After  OBVIOUS
  <2> QED  BY <2>1, LeastNat
<1>3. PICK a \in C : d = x - a  BY <1>1
<1>4. PICK b \in C : f = b - x - 1  BY <1>2
<1>5. a \in Int /\ b \in Int /\ a <= x /\ x < b  BY <1>1, <1>2, <1>3, <1>4
<1>6. ASSUME NEW e \in C, a < e, e < b
      PROVE  FALSE
  <2>1. e \in Int  OBVIOUS
  <2>2. CASE e <= x
    <3>1. x - e \in Before  BY <2>1, <2>2
    <3>2. d <= x - e  BY <1>1, <3>1
    <3> QED  BY <3>2, <2>1, <1>3, <1>5, <1>6
  <2>3. CASE x < e
    <3>1. e - x - 1 \in After  BY <2>1, <2>3
    <3>2. f <= e - x - 1  BY <1>2, <3>1
    <3> QED  BY <3>2, <2>1, <1>4, <1>5, <1>6
  <2> QED  BY <2>1, <2>2, <2>3
<1> QED  BY <1>5, <1>6 DEF C

\* The numbers the loaders compute with.
Typed ==
    /\ image \in Images /\ cfg \in Configs
    /\ bias \in Nat /\ todo \in Seq(Segment)
    /\ code \in [start : Int, exit : Int]
    /\ place \in [tls : Int, stack : Int, heap : Int]

\* The table and Unicorn's memory.
Tabled ==
    /\ mapped \subseteq Address
    /\ \A r \in regions : r.start \in Nat /\ r.size \in Nat /\ r.size > 0
    /\ TableIsMemory

LInv == Typed /\ Tabled

LEMMA MaxOfTwo ==
    ASSUME NEW a \in Int, NEW b \in Int
    PROVE  Max({a, b}) \in {a, b} /\ Max({a, b}) >= a /\ Max({a, b}) >= b
<1>1. \E x \in {a, b} : \A y \in {a, b} : x >= y  OBVIOUS
<1>2. Max({a, b}) \in {a, b} /\ \A y \in {a, b} : Max({a, b}) >= y  BY <1>1 DEF Max
<1> QED  BY <1>2

LEMMA MinOfTwo ==
    ASSUME NEW a \in Int, NEW b \in Int
    PROVE  Min({a, b}) \in {a, b}
<1>1. \E x \in {a, b} : \A y \in {a, b} : x <= y  OBVIOUS
<1> QED  BY <1>1 DEF Min

LEMMA SaturatingAdd ==
    ASSUME NEW a \in Nat, NEW b \in Nat
    PROVE  LET e == saturating_add(a, b)
           IN  /\ e \in Nat /\ e < Space /\ (e = Space - 1 \/ e = a + b)
               /\ a + b >= Space - 1 => e = Space - 1
BY SpaceAssumption DEF saturating_add

LEMMA AlignIsInt ==
    ASSUME NEW a \in Int
    PROVE  align_down(a) \in Int /\ align_up(a) \in Int
<1>1. align_down(a) \in Int  BY SpaceAssumption DEF align_down
<1>2. Plus(a, PageSize - 1) \in Int  BY SpaceAssumption DEF Plus
<1> QED  BY <1>1, <1>2, SpaceAssumption DEF align_down, align_up

\* The chunks of a segment share no address and are its pages, all of them.
LEMMA ChunksAreApart ==
    ASSUME NEW start \in Int, NEW end \in Int, start < end
    PROVE  /\ \A r \in Chunks(start, end) :
                  /\ r.start \in Int /\ r.size \in Int /\ r.size > 0
                  /\ start <= r.start /\ r.start + r.size <= end
                  /\ r.info = section_name_for_page(r.start)
           /\ Covered(Chunks(start, end)) = Span(start, end - start)
           /\ Disjoint(Chunks(start, end))
<1> DEFINE C == Cuts(start, end)
<1>1. C \subseteq start..end
  BY DEF Cuts, PagesBetween
<1>2. \A r \in Chunks(start, end) : \E a, b \in C :
          r = Chunk(a, b) /\ a < b /\ \A e \in C : ~(a < e /\ e < b)
  BY DEF Chunks
<1> HIDE DEF C
<1>3. ASSUME NEW a \in C, NEW b \in C
      PROVE  /\ Chunk(a, b).start = a /\ Chunk(a, b).size = b - a
             /\ a \in Int /\ b \in Int /\ start <= a /\ b <= end
             /\ Extent(Chunk(a, b)) = a..(b - 1)
             /\ Chunk(a, b).info = section_name_for_page(a)
  <2>1. a \in Int /\ b \in Int /\ start <= a /\ b <= end  BY <1>1
  <2>2. /\ Chunk(a, b).start = a /\ Chunk(a, b).size = b - a
        /\ Chunk(a, b).info = section_name_for_page(a)
    BY DEF Chunk
  <2>3. a + (b - a) - 1 = b - 1  BY <2>1
  <2> QED  BY <2>1, <2>2, <2>3 DEF Extent, Span
<1>4. \A r \in Chunks(start, end) :
          /\ r.start \in Int /\ r.size \in Int /\ r.size > 0
          /\ start <= r.start /\ r.start + r.size <= end
          /\ r.info = section_name_for_page(r.start)
  <2> TAKE r \in Chunks(start, end)
  <2>1. PICK a \in C, b \in C : r = Chunk(a, b) /\ a < b  BY <1>2
  <2>2. /\ r.start = a /\ r.size = b - a /\ r.info = section_name_for_page(a)
        /\ a \in Int /\ b \in Int /\ start <= a /\ b <= end
    BY <1>3, <2>1
  <2> QED  BY <2>1, <2>2
<1>5. Covered(Chunks(start, end)) \subseteq Span(start, end - start)
  <2> SUFFICES ASSUME NEW r \in Chunks(start, end), NEW x \in Extent(r)
               PROVE  x \in Span(start, end - start)
    BY DEF Covered
  <2>1. PICK a \in C, b \in C : r = Chunk(a, b)  BY <1>2
  <2>2. x \in a..(b - 1) /\ start <= a /\ b <= end /\ a \in Int /\ b \in Int  BY <1>3, <2>1
  <2> QED  BY <2>2 DEF Span
<1>6. Disjoint(Chunks(start, end))
  <2> SUFFICES ASSUME NEW r \in Chunks(start, end), NEW s \in Chunks(start, end), r # s,
                      NEW x \in Extent(r), x \in Extent(s)
               PROVE  FALSE
    BY DEF Disjoint
  <2>1. PICK a \in C, b \in C : r = Chunk(a, b) /\ a < b /\ \A e \in C : ~(a < e /\ e < b)
    BY <1>2
  <2>2. PICK c \in C, d \in C : s = Chunk(c, d) /\ c < d /\ \A e \in C : ~(c < e /\ e < d)
    BY <1>2
  <2>3. x \in a..(b - 1) /\ x \in c..(d - 1)  BY <1>3, <2>1, <2>2
  <2>4. a \in Int /\ b \in Int /\ c \in Int /\ d \in Int  BY <1>3
  <2>5. a = c /\ b = d  BY <2>1, <2>2, <2>3, <2>4
  <2> QED  BY <2>1, <2>2, <2>5
<1>7. Span(start, end - start) \subseteq Covered(Chunks(start, end))
  <2> SUFFICES ASSUME NEW x \in Span(start, end - start)
               PROVE  \E r \in Chunks(start, end) : x \in Extent(r)
    BY DEF Covered
  <2>1. x \in Int /\ start <= x /\ x < end  BY DEF Span
  <2>2. C \subseteq Int  BY <1>1
  <2>3. PICK a \in C, b \in C : a <= x /\ x < b /\ \A e \in C : ~(a < e /\ e < b)
    BY <2>1, <2>2, CutsAround DEF C
  <2>4. a \in Int /\ b \in Int /\ a < b  BY <1>3, <2>1, <2>3
  <2>5. Chunk(a, b) \in Chunks(start, end)
    <3> DEFINE Pairs == {d \in C \X C : d[1] < d[2] /\ \A e \in C : ~(d[1] < e /\ e < d[2])}
    <3>1. <<a, b>> \in Pairs  BY <2>3, <2>4
    <3>2. Chunks(start, end) = {Chunk(c[1], c[2]) : c \in Pairs}  BY DEF Chunks, C
    <3> HIDE DEF Pairs
    <3>3. <<a, b>>[1] = a /\ <<a, b>>[2] = b  OBVIOUS
    <3>4. \A c \in Pairs : Chunk(c[1], c[2]) \in Chunks(start, end)  BY <3>2
    <3>5. Chunk(<<a, b>>[1], <<a, b>>[2]) \in Chunks(start, end)  BY <3>1, <3>4
    <3> QED  BY <3>3, <3>5
  <2>6. x \in Extent(Chunk(a, b))  BY <1>3, <2>1, <2>3, <2>4
  <2> QED  BY <2>5, <2>6
<1> QED  BY <1>4, <1>5, <1>6, <1>7

\* Regions that are apart, and from the memory that is mapped, may be added.
LEMMA AddRegions ==
    ASSUME Tabled, NEW more,
           \A r \in more : r.start \in Nat /\ r.size \in Nat /\ r.size > 0,
           Disjoint(more), Covered(more) \cap mapped = {}, Covered(more) \subseteq Address,
           regions' = regions \cup more, mapped' = mapped \cup Covered(more)
    PROVE  Tabled'
<1>1. mapped' = Covered(regions')
  <2>1. Covered(regions \cup more) = Covered(regions) \cup Covered(more)  BY DEF Covered
  <2> QED  BY <2>1 DEF Tabled, TableIsMemory, Covered
<1>2. Disjoint(regions')
  <2> SUFFICES ASSUME NEW r \in regions \cup more, NEW s \in regions \cup more, r # s
               PROVE  Extent(r) \cap Extent(s) = {}
    BY DEF Disjoint, Extent, Span
  <2>1. \A q \in regions : Extent(q) \subseteq mapped
    BY DEF Tabled, TableIsMemory, Covered
  <2>2. \A q \in more : Extent(q) \cap mapped = {}  BY DEF Covered
  <2>3. CASE r \in regions /\ s \in regions  BY <2>3 DEF Tabled, TableIsMemory, Disjoint
  <2>4. CASE r \in more /\ s \in more  BY <2>4 DEF Disjoint
  <2> QED  BY <2>1, <2>2, <2>3, <2>4
<1>3. mapped' \subseteq Address  BY DEF Tabled
<1> QED  BY <1>1, <1>2, <1>3 DEF Tabled, TableIsMemory

\* What mem_map accepts.
LEMMA CanMap ==
    ASSUME NEW a, NEW n, UcCanMap(a, n)
    PROVE  /\ a \in Nat /\ n \in Nat /\ n > 0 /\ a + n <= Space
           /\ Span(a, n) \cap mapped = {} /\ Span(a, n) \subseteq Address
<1>1. a \in Nat /\ n \in Nat /\ n > 0 /\ a + n <= Space /\ Space \in Nat
  BY SpaceAssumption DEF UcCanMap, Address
<1>2. Span(a, n) \cap mapped = {}  BY DEF UcCanMap
<1> QED  BY <1>1, <1>2 DEF Span, Address

\* VMemory::map of a range that Unicorn can map.
LEMMA MapStep ==
    ASSUME Tabled, NEW a, NEW n, NEW info, UcCanMap(a, n), Map(a, n, info)
    PROVE  Tabled'
<1> DEFINE r == [start |-> a, size |-> n, info |-> info]
<1>1. /\ a \in Nat /\ n \in Nat /\ n > 0
      /\ Span(a, n) \cap mapped = {} /\ Span(a, n) \subseteq Address
  BY CanMap
<1>2. r.start = a /\ r.size = n  OBVIOUS
<1>3. Covered({r}) = Span(a, n)  BY <1>2 DEF Covered, Extent
<1>4. regions' = regions \cup {r} /\ mapped' = mapped \cup Covered({r})
  BY <1>3 DEF Map
<1>5. Disjoint({r})  BY DEF Disjoint
<1> HIDE DEF r
<1> QED  BY <1>1, <1>2, <1>3, <1>4, <1>5, AddRegions

LEMMA SameStep ==
    ASSUME Tabled, UNCHANGED <<regions, mapped>>
    PROVE  Tabled'
BY DEF Tabled, TableIsMemory, Covered, Disjoint, Extent, Span

\* What one turn of the loop over the segments does.
LEMMA SegmentIsMapped ==
    ASSUME LInv, MapSegment
    PROVE  LET s     == todo[1]
               v     == saturating_add(bias, s.vaddr)
               start == align_down(v)
               end   == align_up(saturating_add(v, s.memsz))
               more  == Chunks(start, end)
           IN  /\ todo # <<>> /\ s \in Segment /\ todo' = Tail(todo) /\ todo' \in Seq(Segment)
               /\ v \in Nat /\ start \in Int /\ end \in Int
               /\ UNCHANGED <<image, cfg, which, bias, place, sp, user>>
               /\ \/ UNCHANGED <<at, code, regions, mapped, data>> /\ s.memsz = 0
                  \/ at' = "failed" /\ UNCHANGED <<code, regions, mapped, data>>
                  \/ /\ at' = at /\ s.memsz > 0
                     /\ start < end /\ end <= Space
                     /\ v = bias + s.vaddr /\ start <= v /\ v + s.memsz <= end
                     /\ Covered(more) = Span(start, end - start)
                     /\ Covered(more) \cap mapped = {} /\ Covered(more) \subseteq Address
                     /\ Disjoint(more)
                     /\ \A r \in more : /\ r.start \in Nat /\ r.size \in Nat /\ r.size > 0
                                        /\ r.start + r.size <= end
                                        /\ r.info = section_name_for_page(r.start)
                     /\ regions' = regions \cup more
                     /\ mapped' = mapped \cup Covered(more)
                     /\ data' = Loaded(data, v, s)
                     /\ code' \in [start : Int, exit : Int]
                     /\ code'.exit = Max({code.exit, end})
<1> DEFINE s     == todo[1]
           v     == saturating_add(bias, s.vaddr)
           start == align_down(v)
           end   == align_up(saturating_add(v, s.memsz))
           more  == Chunks(start, end)
<1>1. todo # <<>> /\ todo' = Tail(todo)
  BY DEF MapSegment
<1>2. s \in Segment /\ todo' \in Seq(Segment) /\ s = Head(todo)
  BY <1>1 DEF LInv, Typed
<1>9. s.vaddr \in Nat /\ s.memsz \in Nat /\ bias \in Nat  BY <1>2 DEF LInv, Typed, Segment
<1> DEFINE e == saturating_add(v, s.memsz)
<1>12. v \in Nat /\ v < Space /\ (v = bias + s.vaddr \/ v = Space - 1)
  BY <1>9, SaturatingAdd
<1>13. /\ e \in Nat /\ e < Space /\ (e = Space - 1 \/ e = v + s.memsz)
       /\ v + s.memsz >= Space - 1 => e = Space - 1
  <2> HIDE DEF v
  <2> QED  BY <1>9, <1>12, SaturatingAdd
<1> HIDE DEF e
<1>3. v = Space - 1 /\ s.memsz > 0 => e = Space - 1
  <2> HIDE DEF v
  <2> QED  BY <1>9, <1>12, <1>13, SpaceAssumption
<1>4. start \in Int /\ end \in Int  BY <1>12, <1>13, AlignIsInt DEF e
<1>10. start <= v
  <2> HIDE DEF v
  <2>1. v % PageSize \in 0..(PageSize - 1)  BY <1>12, SpaceAssumption
  <2> QED  BY <1>12, <2>1 DEF align_down
<1>11. /\ end = 0 \/ end >= e
       /\ e = Space - 1 => end = 0
  <2>1. end = align_up(e)  BY DEF e
  <2> QED  BY <1>13, <2>1, AlignUp
<1>5. UNCHANGED <<image, cfg, which, bias, place, sp, user>>
  BY DEF MapSegment, map_segment, Fail, asked, loading
<1>6. \/ UNCHANGED <<at, code, regions, mapped, data>> /\ s.memsz = 0
      \/ at' = "failed" /\ UNCHANGED <<code, regions, mapped, data>>
      \/ /\ at' = at /\ UcCanMap(start, end - start) /\ s.memsz > 0
         /\ regions' = regions \cup more /\ mapped' = mapped \cup Covered(more)
         /\ data' = Loaded(data, v, s)
         /\ code' = [start |-> IF code = Nowhere THEN start ELSE Min({code.start, start}),
                     exit  |-> Max({code.exit, end})]
  BY <1>2 DEF MapSegment, map_segment, Fail, machine, loading
<1> HIDE DEF s, v, start, end
<1>7. ASSUME UcCanMap(start, end - start)
      PROVE  /\ start < end /\ end <= Space
             /\ s.memsz > 0 => v = bias + s.vaddr /\ start <= v /\ v + s.memsz <= end
             /\ Covered(more) = Span(start, end - start)
             /\ Covered(more) \cap mapped = {} /\ Covered(more) \subseteq Address
             /\ Disjoint(more)
             /\ \A r \in more : /\ r.start \in Nat /\ r.size \in Nat /\ r.size > 0
                                /\ r.start + r.size <= end
                                /\ r.info = section_name_for_page(r.start)
  <2>1. /\ end - start > 0 /\ start + (end - start) <= Space /\ Space \in Nat /\ start \in Nat
        /\ Span(start, end - start) \cap mapped = {} /\ Span(start, end - start) \subseteq Address
    BY <1>7, CanMap, SpaceAssumption
  <2>2. start < end /\ end <= Space /\ end # 0  BY <2>1, <1>4
  <2>3. s.memsz > 0 => v = bias + s.vaddr /\ start <= v /\ v + s.memsz <= end
    BY <1>3, <1>9, <1>10, <1>11, <1>12, <1>13, <2>2
  <2>4. /\ Covered(more) = Span(start, end - start) /\ Disjoint(more)
        /\ \A r \in more : /\ r.start \in Int /\ r.size \in Int /\ r.size > 0
                           /\ start <= r.start /\ r.start + r.size <= end
                           /\ r.info = section_name_for_page(r.start)
    BY <1>4, <2>2, ChunksAreApart
  <2> HIDE DEF more
  <2> QED  BY <2>1, <2>2, <2>3, <2>4
<1>8. ASSUME code' = [start |-> IF code = Nowhere THEN start ELSE Min({code.start, start}),
                      exit  |-> Max({code.exit, end})]
      PROVE  code' \in [start : Int, exit : Int] /\ code'.exit = Max({code.exit, end})
  <2>1. code.start \in Int /\ code.exit \in Int  BY DEF LInv, Typed
  <2>2. Min({code.start, start}) \in Int
    BY <1>4, <2>1, MinOfTwo
  <2>3. Max({code.exit, end}) \in Int  BY <1>4, <2>1, MaxOfTwo
  <2> QED  BY <1>4, <1>8, <2>2, <2>3
<1> HIDE DEF more
<1> QED  BY <1>1, <1>2, <1>4, <1>5, <1>6, <1>7, <1>8, <1>12 DEF s, v, start, end, more

LEMMA InitLInv == Init => LInv
<1> SUFFICES ASSUME Init PROVE LInv  OBVIOUS
<1>1. Typed  BY ImageAssumption DEF Init, Typed, Nowhere, IsImage
<1>2. Tabled  BY DEF Init, Tabled, TableIsMemory, Covered, Disjoint
<1> QED  BY <1>1, <1>2 DEF LInv

LEMMA PlusIsInt ==
    ASSUME NEW a \in Int, NEW b \in Int
    PROVE  Plus(a, b) \in Int
BY SpaceAssumption DEF Plus

LEMMA AboveIsInt ==
    ASSUME NEW a \in Int
    PROVE  Above(a) \in Int
<1>1. PageSize \in Int  BY SpaceAssumption
<1> QED  BY <1>1, PlusIsInt, AlignIsInt DEF Above

\* The base of the interpreter is above every region.
LEMMA BaseIsNat ==
    ASSUME LInv, StartInterp
    PROVE  bias' \in Nat
<1>1. PICK r \in regions : bias' = IF image.interp[1].kind = "DYN"
                                   THEN choose_shared_object_base(r) ELSE 0
  BY DEF StartInterp
<1>2. r.start + r.size \in Nat /\ Gap \in Nat  BY SpaceAssumption DEF LInv, Tabled
<1> DEFINE e == saturating_add(r.start + r.size, Gap)
<1>3. e \in Nat /\ e < Space  BY <1>2, SaturatingAdd
<1> HIDE DEF e
<1>4. align_up(e) = 0 \/ align_up(e) >= e  BY <1>3, AlignUp
<1>5. align_up(e) \in Int  BY <1>3, AlignIsInt
<1>6. align_up(e) \in Nat  BY <1>3, <1>4, <1>5
<1> QED  BY <1>1, <1>6 DEF choose_shared_object_base, e

LEMMA NextTyped == LInv /\ [Next]_vars => Typed'
<1> SUFFICES ASSUME LInv, [Next]_vars PROVE Typed'  OBVIOUS
<1> USE DEF Typed
<1>1. CASE MapSegment
  <2>1. code' \in [start : Int, exit : Int]  BY <1>1, SegmentIsMapped DEF LInv
  <2>2. UNCHANGED <<image, cfg, bias, place>> /\ todo' \in Seq(Segment)
    BY <1>1, SegmentIsMapped
  <2> QED  BY <2>1, <2>2 DEF LInv
<1>2. CASE RejectImage
  BY <1>2 DEF RejectImage, Fail, asked, loading, LInv
<1>3. CASE StartInterp
  <2>1. todo' \in Seq(Segment)
    BY <1>3, ImageAssumption DEF StartInterp, LInv, IsImage
  <2>2. bias' \in Nat  BY <1>3, BaseIsNat
  <2> QED  BY <1>3, <2>1, <2>2 DEF StartInterp, asked, LInv
<1>4. CASE MapCode
  <2>1. UNCHANGED <<image, cfg, bias, todo, place>>
    BY <1>4 DEF MapCode, Fail, asked, loading
  <2>2. code' \in [start : Int, exit : Int]
    <3>1. CASE UNCHANGED code  BY <3>1 DEF LInv
    <3>2. CASE ~ UNCHANGED code
      <4> DEFINE s == Head(image.segs)
      <4>1. /\ UcCanMap(s.vaddr, s.memsz)
            /\ code' = [start |-> s.vaddr, exit |-> Plus(s.vaddr, s.memsz)]
        BY <1>4, <3>2 DEF MapCode, Fail, loading
      <4>2. s.vaddr \in Int /\ s.memsz \in Int  BY <4>1, CanMap
      <4> HIDE DEF s
      <4> QED  BY <4>1, <4>2, PlusIsInt
    <3> QED  BY <3>1, <3>2
  <2> QED  BY <2>1, <2>2 DEF LInv
<1>5. CASE MapStack
  <2>1. UNCHANGED <<image, cfg, bias, todo, code>>
    BY <1>5 DEF MapStack, Fail, asked, loading
  <2>2. place' \in [tls : Int, stack : Int, heap : Int]
    <3> DEFINE tls == Above(code.exit)
               stack == Above(Plus(tls, PageSize))
    <3>1. tls \in Int  BY AboveIsInt DEF LInv
    <3>2. stack \in Int  BY <3>1, PlusIsInt, AboveIsInt, SpaceAssumption
    <3>3. place' = place \/ place' = [place EXCEPT !.tls = tls, !.stack = stack]
      BY <1>5 DEF MapStack, Fail
    <3> HIDE DEF tls, stack
    <3> QED  BY <3>1, <3>2, <3>3 DEF LInv
  <2> QED  BY <2>1, <2>2 DEF LInv
<1>6. CASE MapHeap
  <2>1. UNCHANGED <<image, cfg, bias, todo, code>>
    BY <1>6 DEF MapHeap, Fail, asked, loading
  <2>2. place' \in [tls : Int, stack : Int, heap : Int]
    <3> DEFINE heap == Above(stack_exit)
    <3>1. CASE place' = place  BY <3>1 DEF LInv
    <3>2. CASE UcCanMap(heap, cfg.heap_size) /\ place' = [place EXCEPT !.heap = heap]
      <4>1. heap \in Int  BY <3>2, CanMap
      <4> HIDE DEF heap
      <4> QED  BY <3>2, <4>1 DEF LInv
    <3> QED  BY <1>6, <3>1, <3>2 DEF MapHeap, Fail
  <2> QED  BY <2>1, <2>2 DEF LInv
<1>7. CASE \E a \in UserPages : UserMaps(a)
  BY <1>7 DEF UserMaps, asked, loading, LInv
<1>8. CASE ExitTrap
  BY <1>8 DEF ExitTrap, Trap, Fail, asked, loading, LInv
<1>9. CASE MapTls
  BY <1>9 DEF MapTls, Fail, asked, loading, LInv
<1>10. CASE setup_stack
  BY <1>10 DEF setup_stack, Fail, asked, loading, LInv
<1>11. CASE UNCHANGED vars
  BY <1>11 DEF vars, asked, loading, LInv
<1> QED
  BY <1>1, <1>2, <1>3, <1>4, <1>5, <1>6, <1>7, <1>8, <1>9, <1>10, <1>11 DEF Next

LEMMA NextTabled == LInv /\ [Next]_vars => Tabled'
<1> SUFFICES ASSUME LInv, [Next]_vars PROVE Tabled'  OBVIOUS
<1> USE DEF LInv
<1>1. CASE MapSegment
  <2> DEFINE v     == saturating_add(bias, todo[1].vaddr)
             more  == Chunks(align_down(v), align_up(saturating_add(v, todo[1].memsz)))
  <2>1. \/ UNCHANGED <<regions, mapped>>
        \/ /\ Covered(more) \cap mapped = {} /\ Covered(more) \subseteq Address
           /\ Disjoint(more) /\ \A r \in more : r.start \in Nat /\ r.size \in Nat /\ r.size > 0
           /\ regions' = regions \cup more /\ mapped' = mapped \cup Covered(more)
    BY <1>1, SegmentIsMapped
  <2> HIDE DEF more
  <2> QED  BY <2>1, SameStep, AddRegions
<1>2. CASE RejectImage
  BY <1>2, SameStep DEF RejectImage, Fail, machine
<1>3. CASE StartInterp
  BY <1>3, SameStep DEF StartInterp, machine
<1>4. CASE MapCode
  BY <1>4, MapStep, SameStep DEF MapCode, Fail, machine
<1>5. CASE MapStack
  BY <1>5, MapStep, SameStep DEF MapStack, Fail, machine
<1>6. CASE MapHeap
  BY <1>6, MapStep, SameStep DEF MapHeap, Fail, machine
<1>7. CASE \E a \in UserPages : UserMaps(a)
  BY <1>7, MapStep DEF UserMaps
<1>8. CASE ExitTrap
  BY <1>8, MapStep, SameStep DEF ExitTrap, Trap, Fail, machine
<1>9. CASE MapTls
  BY <1>9, MapStep, SameStep DEF MapTls, Fail, machine
<1>10. CASE setup_stack
  BY <1>10, SameStep DEF setup_stack, Fail, machine
<1>11. CASE UNCHANGED vars
  BY <1>11, SameStep DEF vars, machine
<1> QED
  BY <1>1, <1>2, <1>3, <1>4, <1>5, <1>6, <1>7, <1>8, <1>9, <1>10, <1>11 DEF Next

LEMMA NextLInv == LInv /\ [Next]_vars => LInv'
BY NextTyped, NextTabled DEF LInv

\* For any image, options and page of the user, and wherever a load or a
\* preparation fails: the table lists exactly what Unicorn has mapped, once.
THEOREM TableIsUnicorns == Spec => []TableIsMemory
<1>1. LInv => TableIsMemory  BY DEF LInv, Tabled
<1> QED  BY <1>1, InitLInv, NextLInv, PTL DEF Spec

-----------------------------------------------------------------------------
(***************************************************************************)
(* What each region is, where the loader has put things, and what the      *)
(* words of the images read as, at every step.                             *)
(***************************************************************************)
Placing == {"heap", "loaded", "contents", "running"}
Placed  == Placing \ {"heap"}

MainHeap == <<"main", "heap">>

NamesAHeap == \E i \in 1..Len(image.sections) : image.sections[i].name = "heap"

\* An address below the end of what is loaded, if that end has not wrapped to 0.
Below(a) == a < code.exit \/ (image.kind = "Raw" /\ code.exit = 0)

OfImage(r) == Below(r.start + r.size - 1) /\ (r.info = MainHeap => NamesAHeap)
OfStack(r) == r.start = place.stack /\ r.size = cfg.stack_size /\ r.info # MainHeap
OfTls(r)   == r.start = place.tls /\ r.size = PageSize /\ r.info # MainHeap
OfUser(r)  == Extent(r) \subseteq user /\ r.info # MainHeap
AtZero(r)  == r.start = 0 /\ r.size = PageSize /\ cfg.os = "BareMetal" /\ r.info # MainHeap
FromHeap(r) == r.start >= place.heap

RegionsAreKnown ==
    /\ at \in {"map", "stack"} => \A r \in regions : OfImage(r)
    /\ at = "map" /\ image.kind = "Raw" => regions = {}
    /\ at = "heap" => \A r \in regions : OfImage(r) \/ OfStack(r)
    /\ at \in Placed => \A r \in regions :
           OfImage(r) \/ OfStack(r) \/ OfTls(r) \/ OfUser(r) \/ AtZero(r) \/ FromHeap(r)

PlacesFollow ==
    /\ at \in Placing =>
           /\ place.tls = Above(code.exit) /\ place.stack = Above(Plus(place.tls, PageSize))
           /\ cfg.stack_size > 0 /\ Span(place.stack, cfg.stack_size) \subseteq mapped
    /\ at \in Placed =>
           /\ place.heap = Above(stack_exit)
           /\ \E r \in regions : r.start = place.heap /\ r.size > 0
    /\ at \in Placed \ {"running"} => sp = stack_exit - Small
    /\ user = {} \/ \E a \in UserPages : user = Span(a, PageSize)

LoopGoesOn ==
    at = "map" =>
        /\ which \in {"main", "ld.so"} /\ (which = "main" => bias = 0)
        /\ which = "ld.so" => image.interp # <<>>
        /\ image.kind = "Raw" => todo = image.segs /\ which = "main"
        /\ Len(todo) <= Len(file.segs)
        /\ \A k \in 1..Len(todo) : todo[k] = file.segs[Len(file.segs) - Len(todo) + k]

\* The first n segments of an image.
Reads(img, w, n) ==
    \A k \in 1..n : LET s == img.segs[k] IN
        \A i \in 0..(s.memsz - 1) : LET a == Biased(w) + s.vaddr + i IN
            a \in mapped /\ Below(a) /\ data[a] = IF i < s.filesz THEN s.id ELSE "zero"

LoadedSoFar ==
    at = "map" =>
        LET done == Len(file.segs) - Len(todo)
        IN  IF which = "main" THEN Reads(image, "main", done)
            ELSE Reads(image, "main", Len(image.segs)) /\ Reads(image.interp[1], "ld.so", done)

\* Room for what is placed after the image, counted without wrapping.
Roomy == code.exit > 0 /\ code.exit + 7 * PageSize + cfg.stack_size + cfg.heap_size <= Space

AllRead ==
    /\ Reads(image, "main", Len(image.segs))
    /\ image.interp # <<>> => Reads(image.interp[1], "ld.so", Len(image.interp[1].segs))

StaysLoaded == at \notin {"map", "failed"} /\ Roomy => AllRead

Reserved == {"random", "argv", "frame"}
NothingYetInStack ==
    /\ at \notin {"running", "failed"} => \A a \in Address : data[a] \notin Reserved
    /\ at = "contents" => cfg.os = "Linux"

\* The page of a region the main image's loader calls "[heap]" lies in a section
\* of that name.
LEMMA LabelOfSection ==
    ASSUME LInv, LoopGoesOn, at = "map", NEW p, section_name_for_page(p) = MainHeap
    PROVE  NamesAHeap
<1> DEFINE S    == file.sections
           best == {i \in 1..Len(S) :
                       /\ Overlap(p, S[i]) > 0
                       /\ \A j \in 1..Len(S) : Overlap(p, S[j]) <= Overlap(p, S[i])}
           name == IF best = {} THEN "segment" ELSE S[Min(best)].name
<1>1. section_name_for_page(p) = <<which, name>>  BY DEF section_name_for_page
<1>2. best \subseteq 1..Len(S)  OBVIOUS
<1> HIDE DEF best
<1>3. which = "main" /\ name = "heap"  BY <1>1 DEF MainHeap
<1>4. best # {} /\ S[Min(best)].name = "heap"  BY <1>3
<1>5. S = image.sections  BY <1>3 DEF file
<1>6. Len(S) \in Nat  BY <1>5, ImageAssumption DEF LInv, Typed, IsImage
<1>7. Min(best) \in best
  <2>1. best \in SUBSET Nat  BY <1>2, <1>6
  <2>2. \E x \in best : \A y \in best : x <= y  BY <2>1, <1>4, LeastNat
  <2> QED  BY <2>2 DEF Min
<1> QED  BY <1>2, <1>4, <1>5, <1>7 DEF NamesAHeap

LEMMA InitLoop == Init => LoopGoesOn
<1> SUFFICES ASSUME Init PROVE LoopGoesOn  OBVIOUS
<1>1. todo \in Seq(Segment) /\ file = image
  BY ImageAssumption DEF Init, IsImage, file
<1>2. todo = image.segs /\ which = "main" /\ bias = 0  BY DEF Init
<1>3. Len(todo) \in Nat  BY <1>1
<1>4. \A k \in 1..Len(todo) : todo[k] = file.segs[Len(file.segs) - Len(todo) + k]
  BY <1>1, <1>2, <1>3
<1> QED  BY <1>1, <1>2, <1>3, <1>4 DEF LoopGoesOn

LEMMA OnlyElfHasInterp ==
    ASSUME LInv, LoopGoesOn, StartInterp
    PROVE  image.kind # "Raw"
<1> SUFFICES ASSUME image.kind = "Raw" PROVE FALSE  OBVIOUS
<1>1. at = "map" /\ todo = <<>>  BY DEF StartInterp
<1>2. todo = image.segs  BY <1>1 DEF LoopGoesOn
<1>3. image \in Images  BY DEF LInv, Typed
<1>4. IsImage(image)  BY <1>3, ImageAssumption
<1>5. Len(image.segs) = 1  BY <1>4 DEF IsImage
<1> QED  BY <1>1, <1>2, <1>5

LEMMA NextLoop == LInv /\ LoopGoesOn /\ [Next]_vars => LoopGoesOn'
<1> SUFFICES ASSUME LInv, LoopGoesOn, [Next]_vars, at' = "map" PROVE LoopGoesOn'
  BY DEF LoopGoesOn
<1>1. CASE MapSegment
  <2>1. todo # <<>> /\ todo' = Tail(todo) /\ UNCHANGED <<at, image, which, bias>>
    BY <1>1, SegmentIsMapped DEF MapSegment
  <2>2. at = "map" /\ image.kind # "Raw"  BY <1>1 DEF MapSegment
  <2>3. file' = file  BY <2>1 DEF file
  <2>4. todo \in Seq(Segment)  BY DEF LInv, Typed
  <2>5. Len(todo') = Len(todo) - 1 /\ Len(todo) \in Nat /\ Len(todo) >= 1
    BY <2>1, <2>4
  <2>6. \A k \in 1..Len(todo') : todo'[k] = todo[k + 1]  BY <2>1, <2>4
  <2>7. Len(file.segs) \in Nat
    BY <2>2, ImageAssumption DEF LInv, Typed, IsImage, LoopGoesOn, file
  <2>8. Len(todo) <= Len(file.segs) /\ \A k \in 1..Len(todo) :
            todo[k] = file.segs[Len(file.segs) - Len(todo) + k]
    BY <2>2 DEF LoopGoesOn
  <2>9. \A k \in 1..Len(todo') : todo'[k] = file.segs[Len(file.segs) - Len(todo') + k]
    <3> TAKE k \in 1..Len(todo')
    <3>1. k \in Int /\ k + 1 \in 1..Len(todo)  BY <2>5
    <3>2. todo[k + 1] = file.segs[Len(file.segs) - Len(todo) + (k + 1)]  BY <2>8, <3>1
    <3>3. Len(file.segs) - Len(todo) + (k + 1) = Len(file.segs) - Len(todo') + k
      <4>1. \A n, m, j \in Int : n - m + (j + 1) = n - (m - 1) + j  OBVIOUS
      <4>2. Len(file.segs) \in Int /\ Len(todo) \in Int /\ k \in Int  BY <2>5, <2>7, <3>1
      <4>3. Len(file.segs) - Len(todo) + (k + 1) = Len(file.segs) - (Len(todo) - 1) + k
        BY ONLY <4>1, <4>2, Zenon
      <4> QED  BY <4>3, <2>5
    <3> QED  BY <2>6, <3>2, <3>3
  <2>10. Len(todo') <= Len(file.segs)  BY <2>5, <2>7, <2>8
  <2> QED  BY <2>1, <2>2, <2>3, <2>9, <2>10 DEF LoopGoesOn
<1>2. CASE StartInterp
  <2>1. /\ at = "map" /\ todo = <<>> /\ image.interp # <<>>
        /\ which' = "ld.so" /\ todo' = image.interp[1].segs /\ image' = image
    BY <1>2 DEF StartInterp, asked
  <2>2. image.kind # "Raw"  BY <1>2, OnlyElfHasInterp
  <2>3. file' = image.interp[1]  BY <2>1 DEF file
  <2>4. todo' \in Seq(Segment)  BY <1>2, NextTyped DEF Typed, Next
  <2>5. Len(todo') \in Nat  BY <2>4
  <2>6. \A k \in 1..Len(todo') : k \in Int /\ Len(todo') - Len(todo') + k = k  BY <2>5
  <2>7. Len(todo') <= Len(file'.segs) /\ \A k \in 1..Len(todo') :
            todo'[k] = file'.segs[Len(file'.segs) - Len(todo') + k]
    BY <2>1, <2>3, <2>5, <2>6
  <2> QED  BY <2>1, <2>2, <2>7 DEF LoopGoesOn
<1>3. CASE RejectImage  BY <1>3 DEF RejectImage, Fail
<1>4. CASE MapCode  BY <1>4 DEF MapCode, Fail
<1>5. CASE MapStack  BY <1>5 DEF MapStack, Fail
<1>6. CASE MapHeap  BY <1>6 DEF MapHeap, Fail
<1>7. CASE \E a \in UserPages : UserMaps(a)  BY <1>7 DEF UserMaps
<1>8. CASE ExitTrap  BY <1>8 DEF ExitTrap, Trap, Fail
<1>9. CASE MapTls  BY <1>9 DEF MapTls, Fail
<1>10. CASE setup_stack  BY <1>10 DEF setup_stack, Fail
<1>11. CASE UNCHANGED vars
  <2>1. UNCHANGED <<at, image, which, bias, todo>>  BY <1>11 DEF vars, asked, loading
  <2> QED  BY <2>1 DEF LoopGoesOn, file
<1> QED
  BY <1>1, <1>2, <1>3, <1>4, <1>5, <1>6, <1>7, <1>8, <1>9, <1>10, <1>11 DEF Next

-----------------------------------------------------------------------------
LEMMA TrapIsAbove ==
    ASSUME NEW top \in Nat
    PROVE  LET trap == align_up(saturating_add(top, PageSize))
           IN  trap = 0 \/ trap >= top + PageSize
<1>1. Space \in Nat /\ PageSize \in Nat /\ Space > 0  BY SpaceAssumption
<1>2. CASE top + PageSize < Space
  <2>1. saturating_add(top, PageSize) = top + PageSize  BY <1>2 DEF saturating_add
  <2>2. top + PageSize \in Nat  BY <1>1
  <2> QED  BY <1>2, <2>1, <2>2, AlignUp
<1>3. CASE ~(top + PageSize < Space)
  <2>1. saturating_add(top, PageSize) = Space - 1  BY <1>3 DEF saturating_add
  <2>2. Space - 1 \in Nat /\ Space - 1 < Space  BY <1>1
  <2> QED  BY <2>1, <2>2, AlignUp
<1> QED  BY <1>2, <1>3

KInv == LInv /\ LoopGoesOn /\ RegionsAreKnown /\ PlacesFollow

LEMMA InitKInv == Init => KInv
<1> SUFFICES ASSUME Init PROVE KInv  OBVIOUS
<1>1. RegionsAreKnown /\ PlacesFollow
  BY DEF Init, RegionsAreKnown, PlacesFollow, Placing, Placed
<1> QED  BY <1>1, InitLInv, InitLoop DEF KInv

\* What is loaded stays what it was, when the end of the code only rises.
LEMMA OfImageStays ==
    ASSUME LInv, NEW r \in regions, OfImage(r), image' = image,
           code' = code \/ (image.kind # "Raw" /\ code'.exit >= code.exit /\ code'.exit \in Int)
    PROVE  OfImage(r)'
<1>1. r.start + r.size - 1 \in Int /\ code.exit \in Int  BY DEF LInv, Typed, Tabled
<1>2. Below(r.start + r.size - 1)'
  <2>1. CASE code' = code  BY <2>1 DEF OfImage, Below
  <2>2. CASE image.kind # "Raw" /\ code'.exit >= code.exit /\ code'.exit \in Int
    BY <1>1, <2>2 DEF OfImage, Below
  <2> QED  BY <2>1, <2>2
<1> QED  BY <1>2 DEF OfImage, NamesAHeap

LEMMA KnownMapSegment ==
    ASSUME KInv, MapSegment
    PROVE  RegionsAreKnown' /\ PlacesFollow'
<1>1. /\ at = "map" /\ image.kind # "Raw" /\ at' \in {"map", "failed"}
      /\ UNCHANGED <<image, user>>
  BY SegmentIsMapped DEF MapSegment, KInv
<1>2. PlacesFollow'
  BY <1>1 DEF KInv, PlacesFollow, Placing, Placed
<1>3. ASSUME at' = "map"
      PROVE  \A r \in regions' : OfImage(r)'
  <2> TAKE r \in regions'
  <2> DEFINE v    == saturating_add(bias, todo[1].vaddr)
             end  == align_up(saturating_add(v, todo[1].memsz))
             more == Chunks(align_down(v), end)
  <2>1. \/ code' = code /\ regions' = regions
        \/ /\ \A q \in more : /\ q.start \in Int /\ q.size \in Int
                              /\ q.start + q.size <= end
                              /\ q.info = section_name_for_page(q.start)
           /\ regions' = regions \cup more
           /\ end \in Int /\ code' \in [start : Int, exit : Int]
           /\ code'.exit = Max({code.exit, end})
    <3>1. LInv /\ MapSegment /\ at' # "failed"  BY <1>3 DEF KInv
    <3>2. /\ end \in Int
          /\ \/ code' = code /\ regions' = regions
             \/ at' = "failed"
             \/ /\ \A q \in more : /\ q.start \in Nat /\ q.size \in Nat
                                   /\ q.start + q.size <= end
                                   /\ q.info = section_name_for_page(q.start)
                /\ regions' = regions \cup more
                /\ code' \in [start : Int, exit : Int]
                /\ code'.exit = Max({code.exit, end})
      BY ONLY <3>1, SegmentIsMapped
    <3> HIDE DEF v, end, more
    <3> QED  BY ONLY <3>1, <3>2
  <2>2. \A q \in regions : OfImage(q)  BY <1>1 DEF KInv, RegionsAreKnown
  <2>3. CASE code' = code /\ regions' = regions
    BY <1>1, <1>3, <2>2, <2>3, OfImageStays DEF KInv
  <2>4. CASE ~ (code' = code /\ regions' = regions)
    <3> HIDE DEF end, more
    <3>1. code.exit \in Int /\ end \in Int /\ code'.exit \in Int
      BY <2>1, <2>4 DEF KInv, LInv, Typed
    <3>5. code'.exit = Max({code.exit, end})  BY <2>1, <2>4
    <3>2. code'.exit >= code.exit /\ code'.exit >= end  BY <3>1, <3>5, MaxOfTwo
    <3>3. CASE r \in regions
      BY <1>1, <2>2, <3>1, <3>2, <3>3, OfImageStays DEF KInv
    <3>4. CASE r \in more
      <4>1. /\ r.start \in Int /\ r.size \in Int /\ r.start + r.size <= end
            /\ r.info = section_name_for_page(r.start)
        BY <2>1, <2>4, <3>4
      <4>2. r.start + r.size - 1 < code'.exit  BY <3>1, <3>2, <4>1
      <4>3. r.info = MainHeap => NamesAHeap  BY <1>1, <4>1, LabelOfSection DEF KInv
      <4>4. NamesAHeap => NamesAHeap'  BY <1>1 DEF NamesAHeap
      <4> QED  BY <4>2, <4>3, <4>4 DEF OfImage, Below
    <3> QED  BY <1>3, <2>1, <2>4, <3>3, <3>4
  <2> QED  BY <2>3, <2>4
<1> QED  BY <1>1, <1>2, <1>3 DEF RegionsAreKnown, Placed, Placing

LEMMA KnownMapCode ==
    ASSUME KInv, MapCode
    PROVE  RegionsAreKnown' /\ PlacesFollow'
<1> DEFINE s == Head(image.segs)
<1>1. /\ at = "map" /\ image.kind = "Raw" /\ at' \in {"stack", "failed"}
      /\ UNCHANGED <<image, user>>
  BY DEF MapCode, Fail, asked
<1>2. PlacesFollow'
  BY <1>1 DEF KInv, PlacesFollow, Placing, Placed
<1>3. ASSUME at' = "stack"
      PROVE  \A r \in regions' : OfImage(r)'
  <2> TAKE r \in regions'
  <2>1. /\ UcCanMap(s.vaddr, s.memsz) /\ Map(s.vaddr, s.memsz, <<"main", "code">>)
        /\ code' = [start |-> s.vaddr, exit |-> Plus(s.vaddr, s.memsz)]
    BY <1>3 DEF MapCode, Fail
  <2> HIDE DEF s
  <2>2. r = [start |-> s.vaddr, size |-> s.memsz, info |-> <<"main", "code">>]
    BY <1>1, <1>3, <2>1 DEF KInv, RegionsAreKnown, Map
  <2>3. /\ s.vaddr \in Nat /\ s.memsz \in Nat /\ s.memsz > 0
        /\ s.vaddr + s.memsz <= Space /\ Space \in Nat
    BY <2>1, CanMap, SpaceAssumption
  <2>4. r.start + r.size - 1 < code'.exit \/ code'.exit = 0
    <3>1. code'.exit = (s.vaddr + s.memsz) % Space  BY <2>1 DEF Plus
    <3>2. CASE s.vaddr + s.memsz < Space
      <4>1. code'.exit = s.vaddr + s.memsz  BY <2>3, <3>1, <3>2
      <4> QED  BY <2>2, <2>3, <4>1
    <3>3. CASE s.vaddr + s.memsz = Space
      <4>1. code'.exit = 0  BY <2>3, <3>1, <3>3
      <4> QED  BY <4>1
    <3> QED  BY <2>3, <3>2, <3>3
  <2>5. r.info # MainHeap  BY <2>2 DEF MainHeap
  <2> QED  BY <1>1, <2>4, <2>5 DEF OfImage, Below
<1> QED  BY <1>1, <1>2, <1>3 DEF RegionsAreKnown, Placed, Placing

\* A failure leaves the pages of the user alone, and nothing else is said of it.
LEMMA KnownFails ==
    ASSUME KInv, at' = "failed", user' = user
    PROVE  RegionsAreKnown' /\ PlacesFollow'
BY DEF KInv, RegionsAreKnown, PlacesFollow, Placing, Placed

\* What Map adds, and that all the rest stays in the table.
LEMMA RegionIsAdded ==
    ASSUME NEW a, NEW n, NEW info, Map(a, n, info)
    PROVE  /\ regions \subseteq regions' /\ mapped \subseteq mapped'
           /\ Span(a, n) \subseteq mapped'
           /\ \E r \in regions' : r.start = a /\ r.size = n
           /\ \A r \in regions' \ regions :
                  r.start = a /\ r.size = n /\ Extent(r) = Span(a, n) /\ r.info = info
<1> DEFINE q == [start |-> a, size |-> n, info |-> info]
<1>1. q.start = a /\ q.size = n /\ q.info = info  OBVIOUS
<1>2. regions' = regions \cup {q} /\ mapped' = mapped \cup Span(a, n)  BY DEF Map
<1>3. Extent(q) = Span(a, n)  BY <1>1 DEF Extent
<1> HIDE DEF q
<1> QED  BY <1>1, <1>2, <1>3

LEMMA KnownMapStack ==
    ASSUME KInv, MapStack
    PROVE  RegionsAreKnown' /\ PlacesFollow'
<1> DEFINE tls   == Above(code.exit)
           stack == Above(Plus(tls, PageSize))
<1>1. user' = user /\ at \in {"map", "stack"}
  BY DEF MapStack, Fail
<1>2. CASE at' = "failed"  BY <1>1, <1>2, KnownFails
<1>3. CASE at' # "failed"
  <2>1. /\ UcCanMap(stack, cfg.stack_size) /\ Map(stack, cfg.stack_size, <<"main", "stack">>)
        /\ place' = [place EXCEPT !.tls = tls, !.stack = stack]
        /\ at' = "heap" /\ UNCHANGED <<image, cfg, code>>
    BY <1>3 DEF MapStack, Fail, asked, loading
  <2>2. place'.tls = tls /\ place'.stack = stack  BY <2>1 DEF KInv, LInv, Typed
  <2> HIDE DEF stack, tls
  <2>3. cfg.stack_size > 0  BY <2>1, CanMap
  <2>4. PlacesFollow'
    <3>1. tls = Above(code'.exit) /\ stack = Above(Plus(tls, PageSize))
      BY <2>1 DEF tls, stack
    <3>2. Span(stack, cfg.stack_size) \subseteq mapped'  BY <2>1, RegionIsAdded
    <3> QED
      BY <1>1, <2>1, <2>2, <2>3, <3>1, <3>2
      DEF KInv, PlacesFollow, Placing, Placed, Above, Plus, align_up, align_down, Span
  <2>5. \A r \in regions' : OfImage(r)' \/ OfStack(r)'
    <3> TAKE r \in regions'
    <3>1. CASE r \in regions
      <4>1. OfImage(r)  BY <1>1, <3>1 DEF KInv, RegionsAreKnown
      <4> QED  BY <2>1, <3>1, <4>1, OfImageStays DEF KInv
    <3>2. CASE r \notin regions
      <4>1. r.start = stack /\ r.size = cfg.stack_size /\ r.info = <<"main", "stack">>
        BY <2>1, <3>2, RegionIsAdded
      <4>2. r.info # MainHeap  BY <4>1 DEF MainHeap
      <4> QED  BY <2>1, <2>2, <4>1, <4>2 DEF OfStack
    <3> QED  BY <3>1, <3>2
  <2> QED  BY <2>1, <2>4, <2>5 DEF RegionsAreKnown, Placed, Placing
<1> QED  BY <1>2, <1>3

LEMMA KnownMapHeap ==
    ASSUME KInv, MapHeap
    PROVE  RegionsAreKnown' /\ PlacesFollow'
<1> DEFINE heap == Above(stack_exit)
<1>1. user' = user /\ at = "heap"
  BY DEF MapHeap, Fail
<1>2. CASE at' = "failed"  BY <1>1, <1>2, KnownFails
<1>3. CASE at' # "failed"
  <2>1. /\ UcCanMap(heap, cfg.heap_size) /\ Map(heap, cfg.heap_size, <<"main", "heap">>)
        /\ place' = [place EXCEPT !.heap = heap] /\ sp' = stack_exit - Small
        /\ at' = "loaded" /\ UNCHANGED <<image, cfg, code>>
    BY <1>3 DEF MapHeap, Fail, asked, loading
  <2>2. place'.heap = heap /\ place'.tls = place.tls /\ place'.stack = place.stack
    BY <2>1 DEF KInv, LInv, Typed
  <2>3. stack_exit' = stack_exit  BY <2>1, <2>2 DEF stack_exit, Plus
  <2>4. heap = Above(stack_exit')  BY <2>3
  <2> HIDE DEF heap
  <2>5. PlacesFollow'
    <3>1. /\ place.tls = Above(code.exit) /\ place.stack = Above(Plus(place.tls, PageSize))
          /\ cfg.stack_size > 0 /\ Span(place.stack, cfg.stack_size) \subseteq mapped
      BY <1>1 DEF KInv, PlacesFollow, Placing
    <3>2. mapped \subseteq mapped' /\ cfg.heap_size > 0
          /\ \E r \in regions' : r.start = heap /\ r.size = cfg.heap_size
      BY <2>1, RegionIsAdded, CanMap
    <3>3. place'.tls = Above(code'.exit) /\ place'.stack = Above(Plus(place'.tls, PageSize))
      BY <2>1, <2>2, <3>1
    <3>4. cfg'.stack_size > 0 /\ Span(place'.stack, cfg'.stack_size) \subseteq mapped'
      BY <2>1, <2>2, <3>1, <3>2
    <3>5. place'.heap = Above(stack_exit') /\ sp' = stack_exit' - Small
          /\ \E r \in regions' : r.start = place'.heap /\ r.size > 0
      BY <2>1, <2>2, <2>3, <2>4, <3>2
    <3>6. user' = {} \/ \E a \in UserPages : user' = Span(a, PageSize)
      BY <1>1 DEF KInv, PlacesFollow
    <3> QED  BY <3>3, <3>4, <3>5, <3>6 DEF PlacesFollow, Above, Plus, align_up, align_down, Span
  <2>6. \A r \in regions' : OfImage(r)' \/ OfStack(r)' \/ FromHeap(r)'
    <3> TAKE r \in regions'
    <3>1. CASE r \in regions /\ OfImage(r)
      BY <2>1, <3>1, OfImageStays DEF KInv
    <3>2. CASE r \in regions /\ OfStack(r)
      BY <2>1, <2>2, <3>2 DEF OfStack
    <3>3. CASE r \notin regions
      <4>1. r.start = heap /\ heap \in Int
        BY <2>1, <3>3, RegionIsAdded, CanMap
      <4> QED  BY <2>2, <4>1 DEF FromHeap
    <3> QED  BY <1>1, <3>1, <3>2, <3>3 DEF KInv, RegionsAreKnown
  <2> QED  BY <2>1, <2>5, <2>6 DEF RegionsAreKnown, Placed, Placing
<1> QED  BY <1>2, <1>3

\* After the load nothing moves, and memory is only added.
LEMMA KnownPlaced ==
    ASSUME KInv, at \in Placed, at' \in Placed, UNCHANGED <<image, cfg, code, place>>,
           regions \subseteq regions', mapped \subseteq mapped', user \subseteq user',
           user' = {} \/ \E a \in UserPages : user' = Span(a, PageSize),
           at' = "running" \/ (at # "running" /\ sp' = sp),
           \A r \in regions' \ regions :
               OfTls(r)' \/ OfUser(r)' \/ AtZero(r)' \/ FromHeap(r)'
    PROVE  RegionsAreKnown' /\ PlacesFollow'
<1>1. stack_exit' = stack_exit  BY DEF stack_exit, Plus
<1>2. PlacesFollow'
  <2>1. /\ place.tls = Above(code.exit) /\ place.stack = Above(Plus(place.tls, PageSize))
        /\ cfg.stack_size > 0 /\ Span(place.stack, cfg.stack_size) \subseteq mapped
        /\ place.heap = Above(stack_exit)
        /\ \E r \in regions : r.start = place.heap /\ r.size > 0
        /\ at # "running" => sp = stack_exit - Small
    BY DEF KInv, PlacesFollow, Placing, Placed
  <2>2. place'.tls = Above(code'.exit) /\ place'.stack = Above(Plus(place'.tls, PageSize))
    BY <2>1
  <2>3. cfg'.stack_size > 0 /\ Span(place'.stack, cfg'.stack_size) \subseteq mapped'
    BY <2>1
  <2>4. place'.heap = Above(stack_exit')  BY <1>1, <2>1
  <2>5. \E r \in regions' : r.start = place'.heap /\ r.size > 0  BY <2>1
  <2>6. at' # "running" => sp' = stack_exit' - Small  BY <1>1, <2>1
  <2> QED
    BY <2>2, <2>3, <2>4, <2>5, <2>6
    DEF PlacesFollow, Placing, Placed, Above, Plus, align_up, align_down, Span
<1>3. \A r \in regions' :
          OfImage(r)' \/ OfStack(r)' \/ OfTls(r)' \/ OfUser(r)' \/ AtZero(r)' \/ FromHeap(r)'
  <2> TAKE r \in regions'
  <2>1. CASE r \in regions
    <3>1. OfImage(r) => OfImage(r)'  BY <2>1, OfImageStays DEF KInv
    <3>2. /\ OfStack(r) => OfStack(r)'
          /\ OfTls(r) => OfTls(r)'
          /\ AtZero(r) => AtZero(r)'
          /\ FromHeap(r) => FromHeap(r)'
      BY DEF OfStack, OfTls, AtZero, FromHeap
    <3>3. OfUser(r) => OfUser(r)'  BY DEF OfUser, Extent, Span
    <3>4. OfImage(r) \/ OfStack(r) \/ OfTls(r) \/ OfUser(r) \/ AtZero(r) \/ FromHeap(r)
      BY <2>1 DEF KInv, RegionsAreKnown
    <3> QED  BY <3>1, <3>2, <3>3, <3>4
  <2>2. CASE r \notin regions  BY <2>2
  <2> QED  BY <2>1, <2>2
<1> QED  BY <1>2, <1>3 DEF RegionsAreKnown, Placed, Placing

LEMMA KnownUserMaps ==
    ASSUME KInv, NEW a \in UserPages, UserMaps(a)
    PROVE  RegionsAreKnown' /\ PlacesFollow'
<1>1. /\ at = "loaded" /\ user = {} /\ Map(a, PageSize, <<"main", "user">>)
      /\ user' = Span(a, PageSize)
      /\ UNCHANGED <<at, image, cfg, code, place, sp>>
  BY DEF UserMaps, asked, loading
<1>2. \A r \in regions' \ regions : OfUser(r)'
  <2> TAKE r \in regions' \ regions
  <2>1. Extent(r) = Span(a, PageSize) /\ r.info = <<"main", "user">>
    BY <1>1, RegionIsAdded
  <2>2. r.info # MainHeap  BY <2>1 DEF MainHeap
  <2>3. Extent(r) \subseteq user'  BY <1>1, <2>1
  <2> QED  BY <2>2, <2>3 DEF OfUser, Extent, Span
<1>3. regions \subseteq regions' /\ mapped \subseteq mapped'  BY <1>1, RegionIsAdded
<1>4. at \in Placed /\ at' \in Placed /\ at # "running"
  BY <1>1 DEF Placed, Placing
<1>5. \E b \in UserPages : user' = Span(b, PageSize)  BY <1>1
<1> QED  BY <1>1, <1>2, <1>3, <1>4, <1>5, KnownPlaced

LEMMA UserStays ==
    ASSUME KInv, user' = user
    PROVE  user' = {} \/ \E a \in UserPages : user' = Span(a, PageSize)
BY DEF KInv, PlacesFollow

\* The trap is above the highest region, and so above the heap, or at 0.
LEMMA KnownExitTrap ==
    ASSUME KInv, ExitTrap
    PROVE  RegionsAreKnown' /\ PlacesFollow'
<1>1. at = "loaded" /\ cfg.os = "BareMetal" /\ user' = user
  BY DEF ExitTrap, Trap, Fail
<1>2. CASE at' = "failed"  BY <1>1, <1>2, KnownFails
<1>3. CASE at' # "failed"
  <2>1. PICK h \in regions :
            /\ IsHighest(h) /\ Trap(align_up(saturating_add(h.start + h.size, PageSize)))
    BY DEF ExitTrap
  <2> DEFINE top  == h.start + h.size
             trap == align_up(saturating_add(top, PageSize))
  <2>2. /\ Map(trap, PageSize, <<"main", "trap">>) /\ at' = "running"
        /\ UNCHANGED <<image, cfg, code, place>>
    BY <1>3, <2>1 DEF Trap, Fail, asked, loading
  <2>3. top > place.heap /\ top \in Nat /\ place.heap \in Nat
    <3>1. PICK q \in regions : q.start = place.heap /\ q.size > 0
      BY <1>1 DEF KInv, PlacesFollow, Placed, Placing
    <3>2. q.start \in Int /\ q.size \in Int /\ h.start \in Int /\ h.size \in Int
      BY DEF KInv, LInv, Tabled
    <3>3. q.start \in Extent(q)  BY <3>1, <3>2 DEF Extent, Span
    <3>4. q.start \in Address  BY <3>3 DEF KInv, LInv, Tabled, TableIsMemory, Covered
    <3>5. q.start \in Nat  BY <3>2, <3>4 DEF Address
    <3>6. q.start + q.size <= top  BY <2>1 DEF IsHighest
    <3> QED  BY <3>1, <3>2, <3>5, <3>6
  <2>4. trap = 0 \/ trap >= top + PageSize  BY <2>3, TrapIsAbove
  <2> HIDE DEF trap, top
  <2>5. \A r \in regions' \ regions : AtZero(r)' \/ FromHeap(r)'
    <3> TAKE r \in regions' \ regions
    <3>1. r.start = trap /\ r.size = PageSize /\ r.info = <<"main", "trap">>
      BY <2>2, RegionIsAdded
    <3>2. r.info # MainHeap  BY <3>1 DEF MainHeap
    <3>3. CASE trap = 0  BY <1>1, <2>2, <3>1, <3>2, <3>3 DEF AtZero
    <3>4. CASE trap # 0
      <4>1. place.heap <= trap
        <5>1. UcCanMap(trap, PageSize)  BY <1>3, <2>1 DEF Trap, Fail, top, trap
        <5>2. trap \in Nat /\ PageSize \in Nat  BY <5>1, CanMap
        <5> QED  BY <2>3, <2>4, <3>4, <5>2
      <4> QED  BY <2>2, <3>1, <4>1 DEF FromHeap
    <3> QED  BY <3>3, <3>4
  <2>6. regions \subseteq regions' /\ mapped \subseteq mapped'  BY <2>2, RegionIsAdded
  <2>7. at \in Placed /\ at' \in Placed  BY <1>1, <2>2 DEF Placed, Placing
  <2> QED  BY <1>1, <2>2, <2>5, <2>6, <2>7, KnownPlaced, UserStays
<1> QED  BY <1>2, <1>3

LEMMA KnownMapTls ==
    ASSUME KInv, MapTls
    PROVE  RegionsAreKnown' /\ PlacesFollow'
<1>1. at = "loaded" /\ user' = user
  BY DEF MapTls, Fail
<1>2. CASE at' = "failed"  BY <1>1, <1>2, KnownFails
<1>3. CASE at' # "failed"
  <2>1. /\ Map(place.tls, PageSize, <<"main", "tls">>) /\ at' = "contents"
        /\ UNCHANGED <<image, cfg, code, place, sp>>
    BY <1>3 DEF MapTls, Fail, asked, loading
  <2>5. \A r \in regions' \ regions :
            r.start = place.tls /\ r.size = PageSize /\ r.info = <<"main", "tls">>
    <3>1. Map(place.tls, PageSize, <<"main", "tls">>)  BY <2>1
    <3> QED  BY ONLY <3>1, RegionIsAdded
  <2>2. \A r \in regions' \ regions : OfTls(r)'
    <3> TAKE r \in regions' \ regions
    <3>1. r.info # MainHeap  BY <2>5 DEF MainHeap
    <3> QED  BY <2>1, <2>5, <3>1 DEF OfTls
  <2>3. regions \subseteq regions' /\ mapped \subseteq mapped'  BY <2>1, RegionIsAdded
  <2>4. at \in Placed /\ at' \in Placed /\ at # "running"
    BY <1>1, <2>1 DEF Placed, Placing
  <2> QED  BY <1>1, <2>1, <2>2, <2>3, <2>4, KnownPlaced, UserStays
<1> QED  BY <1>2, <1>3

LEMMA NextKInv == KInv /\ [Next]_vars => KInv'
<1> SUFFICES ASSUME KInv, [Next]_vars PROVE RegionsAreKnown' /\ PlacesFollow'
  BY NextLInv, NextLoop DEF KInv
<1>1. CASE MapSegment  BY <1>1, KnownMapSegment
<1>2. CASE RejectImage
  BY <1>2, KnownFails DEF RejectImage, Fail
<1>3. CASE StartInterp
  <2>1. /\ at = "map" /\ todo = <<>>
        /\ UNCHANGED <<at, image, code, regions, user>>
    BY <1>3 DEF StartInterp, asked, machine
  <2>2. image.kind # "Raw"  BY <1>3, OnlyElfHasInterp DEF KInv
  <2>4. \A r \in regions : OfImage(r)  BY <2>1 DEF KInv, RegionsAreKnown
  <2>3. \A r \in regions' : OfImage(r)'
    <3> TAKE r \in regions'
    <3> QED  BY <2>1, <2>4, OfImageStays DEF KInv
  <2> QED
    BY <2>1, <2>2, <2>3 DEF KInv, RegionsAreKnown, PlacesFollow, Placing, Placed
<1>4. CASE MapCode  BY <1>4, KnownMapCode
<1>5. CASE MapStack  BY <1>5, KnownMapStack
<1>6. CASE MapHeap  BY <1>6, KnownMapHeap
<1>7. CASE \E a \in UserPages : UserMaps(a)  BY <1>7, KnownUserMaps
<1>8. CASE ExitTrap  BY <1>8, KnownExitTrap
<1>9. CASE MapTls  BY <1>9, KnownMapTls
<1>10. CASE setup_stack
  <2>1. at = "contents" /\ at' \in {"running", "failed"} /\ user' = user
    BY <1>10 DEF setup_stack, Fail
  <2>2. CASE at' = "failed"  BY <2>1, <2>2, KnownFails
  <2>3. CASE at' = "running"
    <3>1. UNCHANGED <<image, cfg, code, place, regions, mapped>>
      BY <1>10, <2>3 DEF setup_stack, Fail, asked, loading
    <3>2. at \in Placed /\ at' \in Placed  BY <2>1, <2>3 DEF Placed, Placing
    <3> QED  BY <2>1, <2>3, <3>1, <3>2, KnownPlaced, UserStays
  <2> QED  BY <2>1, <2>2, <2>3
<1>11. CASE UNCHANGED vars
  <2>1. UNCHANGED <<image, cfg, at, code, place, regions, mapped, sp, user>>
    BY <1>11 DEF vars, asked, loading, machine
  <2>2. CASE at \in Placed  BY <2>1, <2>2, KnownPlaced, UserStays
  <2>3. CASE at \notin Placed
    <3>1. \A r \in regions' : OfImage(r) => OfImage(r)'
      <4> TAKE r \in regions'
      <4> QED  BY <2>1, OfImageStays DEF KInv
    <3>2. \A r \in regions' : OfStack(r) => OfStack(r)'  BY <2>1 DEF OfStack
    <3>3. RegionsAreKnown'  BY <2>1, <2>3, <3>1, <3>2 DEF KInv, RegionsAreKnown
    <3>4. PlacesFollow'
      BY <2>1, <2>3
      DEF KInv, PlacesFollow, Placing, Placed, Above, Plus, align_up, align_down, Span
    <3> QED  BY <3>3, <3>4
  <2> QED  BY <2>2, <2>3
<1> QED
  BY <1>1, <1>2, <1>3, <1>4, <1>5, <1>6, <1>7, <1>8, <1>9, <1>10, <1>11 DEF Next

-----------------------------------------------------------------------------
\* Where nothing wraps, what is placed above an address leaves it a page.
LEMMA AboveLeavesAPage ==
    ASSUME NEW a \in Nat, a + 2 * PageSize <= Space
    PROVE  Above(a) \in Nat /\ a + PageSize <= Above(a) /\ Above(a) < a + 2 * PageSize
<1>1. Space \in Nat /\ PageSize \in Nat /\ PageSize >= 4  BY SpaceAssumption
<1>2. a + PageSize \in Nat /\ a + PageSize < Space  BY <1>1
<1>3. Plus(a, PageSize) = a + PageSize  BY <1>1, <1>2 DEF Plus
<1>4. align_up(a + PageSize) \in (a + PageSize)..((a + PageSize) + PageSize - 1)
  BY <1>1, <1>2, AlignUp
<1> QED  BY <1>1, <1>3, <1>4 DEF Above

\* The image, a page, [tls], a page, the stack, a page and the heap, in this order.
LEMMA PlacesInOrder ==
    ASSUME KInv, Roomy, at \in Placing
    PROVE  /\ code.exit \in Nat /\ code.exit > 0 /\ cfg.stack_size \in Nat
           /\ place.tls \in Nat /\ place.stack \in Nat /\ PageSize \in Nat /\ PageSize >= 4
           /\ code.exit + PageSize <= place.tls
           /\ place.tls + 2 * PageSize <= place.stack
           /\ stack_exit = place.stack + cfg.stack_size /\ cfg.stack_size > 0
           /\ at \in Placed => /\ place.heap \in Nat
                               /\ stack_exit + PageSize <= place.heap
<1>1. /\ Space \in Nat /\ PageSize \in Nat /\ PageSize >= 4
      /\ cfg.stack_size \in Nat /\ cfg.heap_size \in Nat
  BY SpaceAssumption DEF KInv, LInv, Typed, LayoutConfig
<1>2. code.exit \in Nat /\ code.exit > 0
      /\ code.exit + 7 * PageSize + cfg.stack_size + cfg.heap_size <= Space
  BY DEF Roomy, KInv, LInv, Typed
<1>3. /\ place.tls = Above(code.exit) /\ place.stack = Above(Plus(place.tls, PageSize))
      /\ cfg.stack_size > 0
      /\ at \in Placed => place.heap = Above(stack_exit)
  BY DEF KInv, PlacesFollow
<1>4. /\ place.tls \in Nat /\ code.exit + PageSize <= place.tls
      /\ place.tls < code.exit + 2 * PageSize
  <2>1. code.exit + 2 * PageSize <= Space  BY <1>1, <1>2
  <2> QED  BY <1>2, <1>3, <2>1, AboveLeavesAPage
<1>5. Plus(place.tls, PageSize) = place.tls + PageSize
  <2>1. place.tls + PageSize \in 0..(Space - 1)  BY <1>1, <1>2, <1>4
  <2> QED  BY <1>1, <2>1 DEF Plus
<1>6. /\ place.stack \in Nat /\ place.tls + 2 * PageSize <= place.stack
      /\ place.stack < place.tls + 3 * PageSize
  <2>1. place.tls + PageSize \in Nat /\ (place.tls + PageSize) + 2 * PageSize <= Space
    BY <1>1, <1>2, <1>4
  <2>2. LET s == Above(place.tls + PageSize)
        IN  /\ s \in Nat /\ (place.tls + PageSize) + PageSize <= s
            /\ s < (place.tls + PageSize) + 2 * PageSize
    BY <2>1, AboveLeavesAPage
  <2> QED  BY <1>1, <1>3, <1>4, <1>5, <2>2
<1>7. stack_exit = place.stack + cfg.stack_size
  <2>1. place.stack + cfg.stack_size \in 0..(Space - 1)  BY <1>1, <1>2, <1>4, <1>6
  <2> QED  BY <1>1, <2>1 DEF stack_exit, Plus
<1>8. ASSUME at \in Placed PROVE place.heap \in Nat /\ stack_exit + PageSize <= place.heap
  <2>1. stack_exit \in Nat /\ stack_exit + 2 * PageSize <= Space
    BY <1>1, <1>2, <1>4, <1>6, <1>7
  <2> QED  BY <1>3, <1>8, <2>1, AboveLeavesAPage
<1> QED  BY <1>1, <1>2, <1>3, <1>4, <1>6, <1>7, <1>8

\* Between the image and the heap, nothing but the stack, [tls] and the user's
\* page is mapped, and an exit trap that has wrapped.
LEMMA NothingBetween ==
    ASSUME KInv, Roomy, at \in Placed, NEW a \in mapped,
           code.exit <= a, a < place.heap,
           ~(place.stack <= a /\ a < stack_exit),
           ~(place.tls <= a /\ a < place.tls + PageSize)
    PROVE  a \in user \/ (a < PageSize /\ cfg.os = "BareMetal")
<1>1. PICK r \in regions : a \in Extent(r)  BY DEF KInv, LInv, Tabled, TableIsMemory, Covered
<1>2. /\ r.start \in Int /\ r.size \in Int /\ a \in Int /\ r.start <= a /\ a < r.start + r.size
  <2>1. r.start \in Int /\ r.size \in Int  BY DEF KInv, LInv, Tabled
  <2> QED  BY <1>1, <2>1 DEF Extent, Span
<1>3. /\ code.exit \in Nat /\ code.exit > 0 /\ PageSize \in Nat /\ place.stack \in Nat
      /\ place.tls \in Nat /\ place.heap \in Nat /\ cfg.stack_size \in Nat
      /\ stack_exit = place.stack + cfg.stack_size
  <2>1. at \in Placing  BY DEF Placed
  <2> QED  BY <2>1, PlacesInOrder
<1>4. ~ OfImage(r)  BY <1>2, <1>3 DEF OfImage, Below
<1>5. ~ OfStack(r)  BY <1>2, <1>3 DEF OfStack
<1>6. ~ OfTls(r)  BY <1>2, <1>3 DEF OfTls
<1>7. ~ FromHeap(r)  BY <1>2, <1>3 DEF FromHeap
<1>8. OfUser(r) => a \in user  BY <1>1 DEF OfUser
<1>9. AtZero(r) => a < PageSize /\ cfg.os = "BareMetal"  BY <1>2, <1>3 DEF AtZero
<1> QED  BY <1>4, <1>5, <1>6, <1>7, <1>8, <1>9 DEF KInv, RegionsAreKnown

LEMMA KnownIsSafe == KInv /\ Roomy => LayoutIsSafe
<1> SUFFICES ASSUME KInv, Roomy, Running PROVE LayoutIsSafe  BY DEF LayoutIsSafe
<1>1. at \in Placed /\ at \in Placing  BY DEF Running, Placed, Placing
<1>2. /\ code.exit \in Nat /\ code.exit > 0 /\ cfg.stack_size \in Nat
      /\ place.tls \in Nat /\ place.stack \in Nat /\ PageSize \in Nat /\ PageSize >= 4
      /\ code.exit + PageSize <= place.tls /\ place.tls + 2 * PageSize <= place.stack
      /\ stack_exit = place.stack + cfg.stack_size /\ cfg.stack_size > 0
      /\ place.heap \in Nat /\ stack_exit + PageSize <= place.heap
  BY <1>1, PlacesInOrder
<1>3. ASSUME NEW a \in Span(place.stack - PageSize, PageSize) \cup Span(stack_exit, PageSize),
             a \in mapped
      PROVE  a \in user \/ (a < PageSize /\ cfg.os = "BareMetal")
  <2>1. /\ a \in Int
        /\ \/ place.stack - PageSize <= a /\ a < place.stack
           \/ stack_exit <= a /\ a < stack_exit + PageSize
    BY <1>2 DEF Span
  <2>2. /\ code.exit <= a /\ a < place.heap /\ ~(place.stack <= a /\ a < stack_exit)
        /\ ~(place.tls <= a /\ a < place.tls + PageSize)
    BY <1>2, <2>1
  <2> QED  BY <1>1, <1>3, <2>2, NothingBetween
<1>4. ASSUME NEW r \in regions, r.info = MainHeap
      PROVE  r.start >= place.heap \/ NamesAHeap
  <2>1. OfImage(r) => NamesAHeap  BY <1>4 DEF OfImage
  <2>2. ~OfStack(r) /\ ~OfTls(r) /\ ~OfUser(r) /\ ~AtZero(r)
    BY <1>4 DEF OfStack, OfTls, OfUser, AtZero
  <2>3. FromHeap(r) => r.start >= place.heap  BY DEF FromHeap
  <2> QED  BY <1>1, <2>1, <2>2, <2>3 DEF KInv, RegionsAreKnown
<1> QED  BY <1>3, <1>4 DEF LayoutIsSafe, MainHeap, NamesAHeap

LEMMA KnownAlways == Spec => []KInv
BY InitKInv, NextKInv, PTL DEF Spec

\* For any image that leaves room below the end of the space for what is placed
\* after it, as every real one does: the pages around the stack are nobody's
\* but the user's or a trap's that has wrapped, and no region below the heap is
\* labelled as the heap unless a section of the file has that name.
THEOREM StackHasGuards == Spec => [](Roomy => LayoutIsSafe)
BY KnownAlways, KnownIsSafe, PTL

-----------------------------------------------------------------------------
DInv == KInv /\ LoadedSoFar /\ StaysLoaded /\ NothingYetInStack

\* Words of an image that are not written to are still read.
LEMMA ReadsStay ==
    ASSUME NEW img, NEW w, NEW n, Reads(img, w, n),
           Biased(w)' = Biased(w), mapped \subseteq mapped',
           \A a \in mapped : Below(a) => Below(a)' /\ data'[a] = data[a]
    PROVE  Reads(img, w, n)'
<1>1. ASSUME NEW k \in 1..n, NEW i \in 0..(img.segs[k].memsz - 1),
             NEW x, x = Biased(w) + img.segs[k].vaddr + i
      PROVE  /\ x \in mapped' /\ Below(x)'
             /\ data'[x] = IF i < img.segs[k].filesz THEN img.segs[k].id ELSE "zero"
  <2>1. /\ x \in mapped /\ Below(x)
        /\ data[x] = IF i < img.segs[k].filesz THEN img.segs[k].id ELSE "zero"
    BY <1>1 DEF Reads
  <2> QED  BY <2>1
<1> QED  BY <1>1 DEF Reads, Below

\* A segment has been loaded at v.
LEMMA SegmentReads ==
    ASSUME NEW v \in Nat, NEW s \in Segment, s.filesz <= s.memsz,
           NEW f, NEW i \in 0..(s.memsz - 1), v + s.memsz <= Space
    PROVE  Loaded(f, v, s)[v + i] = IF i < s.filesz THEN s.id ELSE "zero"
<1>1. s.filesz \in Nat /\ s.memsz \in Nat /\ Space \in Nat  BY SpaceAssumption DEF Segment
<1>2. v + i \in Address /\ v + i \in Span(v, s.memsz)  BY <1>1 DEF Address, Span
<1>3. v + i \in Span(v, s.filesz) <=> i < s.filesz  BY <1>1 DEF Span
<1> QED  BY <1>2, <1>3 DEF Loaded

LEMMA LoadedElsewhere ==
    ASSUME NEW v \in Nat, NEW s \in Segment, s.filesz <= s.memsz,
           NEW f, NEW a \in Address, a \notin Span(v, s.memsz)
    PROVE  Loaded(f, v, s)[a] = f[a]
<1>1. s.filesz \in Nat /\ s.memsz \in Nat  BY DEF Segment
<1>2. a \notin Span(v, s.filesz)  BY <1>1 DEF Span
<1> QED  BY <1>2 DEF Loaded

\* The image being mapped.
LEMMA FileFacts ==
    ASSUME LInv, LoopGoesOn, at = "map", image.kind # "Raw"
    PROVE  /\ file.segs \in Seq(Segment) /\ Len(file.segs) \in Nat
           /\ \A k \in 1..Len(file.segs) :
                  file.segs[k] \in Segment /\ file.segs[k].filesz <= file.segs[k].memsz
           /\ file = IF which = "main" THEN image ELSE image.interp[1]
           /\ bias = Biased(which)
<1>1. image \in Images  BY DEF LInv, Typed
<1>2. which \in {"main", "ld.so"} /\ (which = "main" => bias = 0)
      /\ (which = "ld.so" => image.interp # <<>>)
  BY DEF LoopGoesOn
<1>3. IsImage(file) /\ file.kind # "Raw"
  <2>1. CASE which = "main"  BY <1>1, <2>1, ImageAssumption DEF file
  <2>2. CASE which = "ld.so"  BY <1>1, <1>2, <2>2, ImageAssumption DEF file
  <2> QED  BY <1>2, <2>1, <2>2
<1>4. file.segs \in Seq(Segment)  BY <1>3 DEF IsImage
<1>5. Len(file.segs) \in Nat /\ \A k \in 1..Len(file.segs) : file.segs[k] \in Segment
  BY <1>4
<1>6. \A k \in 1..Len(file.segs) : file.segs[k].filesz <= file.segs[k].memsz
  BY <1>3 DEF IsImage
<1> QED  BY <1>2, <1>4, <1>5, <1>6 DEF file, Biased

\* One more segment of the file is read: what is mapped is written, and what
\* was mapped before is not.
LEMMA DataMapSegment ==
    ASSUME DInv, MapSegment, at' = "map"
    PROVE  LoadedSoFar' /\ NothingYetInStack'
<1> DEFINE s     == todo[1]
           v     == saturating_add(bias, s.vaddr)
           start == align_down(v)
           end   == align_up(saturating_add(v, s.memsz))
           n     == Len(file.segs) - Len(todo)
<1>1. /\ todo # <<>> /\ s \in Segment /\ todo' = Tail(todo) /\ v \in Nat
      /\ start \in Int /\ end \in Int
      /\ UNCHANGED <<image, which, bias>>
      /\ \/ UNCHANGED <<code, mapped, data>> /\ s.memsz = 0
         \/ /\ s.memsz > 0 /\ end <= Space
            /\ v = bias + s.vaddr /\ start <= v /\ v + s.memsz <= end
            /\ Span(start, end - start) \cap mapped = {}
            /\ mapped' = mapped \cup Span(start, end - start)
            /\ data' = Loaded(data, v, s)
            /\ code'.exit \in Int /\ code'.exit = Max({code.exit, end})
  BY SegmentIsMapped DEF DInv, KInv
<1> HIDE DEF v, start, end
<1>2. at = "map" /\ image.kind # "Raw"  BY DEF MapSegment
<1>3. /\ file.segs \in Seq(Segment) /\ Len(file.segs) \in Nat
      /\ \A k \in 1..Len(file.segs) : file.segs[k].filesz <= file.segs[k].memsz
      /\ file = IF which = "main" THEN image ELSE image.interp[1]
      /\ bias = Biased(which)
  BY <1>2, FileFacts DEF DInv, KInv
<1>4. /\ Len(todo) \in Nat /\ Len(todo) >= 1 /\ Len(todo') = Len(todo) - 1
      /\ Len(todo) <= Len(file.segs)
      /\ s = file.segs[n + 1] /\ n + 1 \in 1..Len(file.segs) /\ n \in Nat
  <2>1. todo \in Seq(Segment)  BY DEF DInv, KInv, LInv, Typed
  <2>2. Len(todo) \in Nat /\ Len(todo) >= 1 /\ Len(todo') = Len(todo) - 1  BY <1>1, <2>1
  <2>3. /\ Len(todo) <= Len(file.segs)
        /\ \A k \in 1..Len(todo) : todo[k] = file.segs[Len(file.segs) - Len(todo) + k]
    BY <1>2 DEF DInv, KInv, LoopGoesOn
  <2>4. n + 1 \in 1..Len(file.segs) /\ n \in Nat  BY <1>3, <2>2, <2>3
  <2>5. s = file.segs[n + 1]  BY <2>2, <2>3
  <2> QED  BY <2>2, <2>3, <2>4, <2>5
<1>5. s.filesz <= s.memsz /\ s.memsz \in Nat /\ s.vaddr \in Nat /\ s.filesz \in Nat
  BY <1>1, <1>3, <1>4 DEF Segment
<1>6. /\ mapped \subseteq mapped'
      /\ \A a \in mapped : Below(a) => Below(a)' /\ data'[a] = data[a]
  <2>1. CASE s.memsz = 0  BY <1>1, <2>1 DEF Below
  <2>2. CASE s.memsz > 0
    <3>1. mapped \subseteq mapped'  BY <1>1, <2>2
    <3>2. code'.exit \in Int /\ code.exit \in Int /\ code'.exit >= code.exit
      <4>1. code.exit \in Int  BY DEF DInv, KInv, LInv, Typed
      <4>2. code'.exit = Max({code.exit, end})  BY <1>1, <2>2
      <4> QED  BY <1>1, <2>2, <4>1, <4>2, MaxOfTwo
    <3>3. ASSUME NEW a \in mapped, Below(a) PROVE Below(a)' /\ data'[a] = data[a]
      <4>1. a \in Address /\ a \in Int  BY SpaceAssumption DEF DInv, KInv, LInv, Tabled, Address
      <4>2. a \notin Span(start, end - start)  BY <1>1, <2>2
      <4>3. a \notin Span(v, s.memsz)
        <5>1. start <= v /\ v + s.memsz <= end  BY <1>1, <2>2
        <5> QED  BY <1>1, <1>5, <4>1, <4>2, <5>1 DEF Span
      <4>4. data'[a] = data[a]
        <5>1. data' = Loaded(data, v, s)  BY <1>1, <2>2
        <5>2. v \in Nat /\ s \in Segment /\ s.filesz <= s.memsz  BY <1>1, <1>5
        <5>3. Loaded(data, v, s)[a] = data[a]  BY ONLY <5>2, <4>1, <4>3, LoadedElsewhere
        <5> QED  BY <5>1, <5>3
      <4>5. Below(a)'
        <5>1. a < code.exit  BY <1>2, <3>3 DEF Below
        <5>2. a < code'.exit  BY <3>2, <4>1, <5>1
        <5> QED  BY <5>2 DEF Below
      <4> QED  BY <4>4, <4>5
    <3> QED  BY <3>1, <3>3
  <2> QED  BY <1>5, <2>1, <2>2
<1>7. \A i \in 0..(s.memsz - 1) :
          /\ Biased(which) + s.vaddr + i \in mapped'
          /\ Biased(which) + s.vaddr + i < code'.exit
          /\ data'[Biased(which) + s.vaddr + i] = IF i < s.filesz THEN s.id ELSE "zero"
  <2> TAKE i \in 0..(s.memsz - 1)
  <2>1. s.memsz > 0 /\ i \in Nat /\ i < s.memsz  BY <1>5
  <2>2. /\ v = bias + s.vaddr /\ start <= v /\ v + s.memsz <= end /\ end <= Space
        /\ mapped' = mapped \cup Span(start, end - start)
        /\ data' = Loaded(data, v, s)
        /\ code'.exit = Max({code.exit, end})
    BY <1>1, <2>1
  <2>3. Biased(which) + s.vaddr + i = v + i  BY <1>3, <2>2
  <2>7. v \in Int /\ start \in Int /\ end \in Int /\ s.memsz \in Int /\ i \in Int
    BY <1>1, <1>5, <2>1
  <2>8. start <= v + i /\ v + i < end  BY <2>1, <2>2, <2>7
  <2>4. v + i \in Span(start, end - start)  BY <2>7, <2>8 DEF Span
  <2>5. v + i < code'.exit
    <3>1. code.exit \in Int  BY DEF DInv, KInv, LInv, Typed
    <3>2. code'.exit \in Int /\ code'.exit >= end  BY <1>1, <2>1, <2>2, <3>1, MaxOfTwo
    <3> QED  BY ONLY <2>7, <2>8, <3>2
  <2>6. data'[v + i] = IF i < s.filesz THEN s.id ELSE "zero"
    <3>1. v + s.memsz <= Space
      <4>1. Space \in Int  BY SpaceAssumption
      <4> QED  BY <2>2, <2>7, <4>1
    <3> QED  BY <1>1, <1>5, <2>2, <3>1, SegmentReads
  <2> QED  BY <2>2, <2>3, <2>4, <2>5, <2>6
<1>8. /\ which \in {"main", "ld.so"} /\ Reads(file, which, n)
      /\ which = "ld.so" => Reads(image, "main", Len(image.segs))
  <2>1. which \in {"main", "ld.so"}  BY <1>2 DEF DInv, KInv, LoopGoesOn
  <2>2. IF which = "main" THEN Reads(image, "main", n)
        ELSE Reads(image, "main", Len(image.segs)) /\ Reads(image.interp[1], "ld.so", n)
    BY <1>2 DEF DInv, LoadedSoFar
  <2>3. CASE which = "main"
    <3>1. file = image  BY <1>3, <2>3
    <3> QED  BY <2>2, <2>3, <3>1
  <2>4. CASE which = "ld.so"
    <3>1. file = image.interp[1]  BY <1>3, <2>4
    <3> QED  BY <2>2, <2>4, <3>1
  <2> QED  BY <2>1, <2>3, <2>4
<1>9. PICK f, w, m : f = file /\ w = which /\ m = n  OBVIOUS
<1>10. Reads(f, w, m + 1)'
  <2>1. Reads(f, w, m)  BY <1>8, <1>9
  <2>2. Biased(w)' = Biased(w)  BY <1>1 DEF Biased
  <2>3. Reads(f, w, m)'  BY <1>6, <2>1, <2>2, ReadsStay
  <2>4. m \in Nat /\ s = f.segs[m + 1]  BY <1>4, <1>9
  <2>5. ASSUME NEW k \in 1..(m + 1), NEW i \in 0..(f.segs[k].memsz - 1),
               NEW x, x = Biased(w) + f.segs[k].vaddr + i
        PROVE  /\ x \in mapped' /\ Below(x)'
               /\ data'[x] = IF i < f.segs[k].filesz THEN f.segs[k].id ELSE "zero"
    <3>1. CASE k = m + 1
      <4>1. f.segs[k] = s  BY <2>4, <3>1
      <4>2. x = Biased(which) + s.vaddr + i /\ i \in 0..(s.memsz - 1)  BY <1>9, <2>5, <4>1
      <4>3. x \in mapped' /\ x < code'.exit
            /\ data'[x] = IF i < s.filesz THEN s.id ELSE "zero"
        BY <1>7, <4>2
      <4> QED  BY <4>1, <4>3 DEF Below
    <3>2. CASE k # m + 1
      <4>1. k \in 1..m  BY <2>4, <3>2
      <4>2. x = Biased(w)' + f.segs[k].vaddr + i  BY <2>2, <2>5
      <4> QED  BY <2>3, <4>1, <4>2 DEF Reads, Below
    <3> QED  BY <3>1, <3>2
  <2> QED  BY <2>2, <2>5 DEF Reads, Below
<1>11. file' = file /\ Len(file'.segs) - Len(todo') = m + 1 /\ which' = which
  <2>1. file' = file  BY <1>1 DEF file
  <2>2. Len(file.segs) - (Len(todo) - 1) = m + 1  BY <1>3, <1>4, <1>9
  <2> QED  BY <1>1, <1>4, <2>1, <2>2
<1>12. LoadedSoFar'
  <2>1. CASE which = "main"
    <3>1. f = image /\ w = "main"  BY <1>3, <1>9, <2>1
    <3>2. Reads(image, "main", m + 1)'  BY <1>1, <1>10, <3>1 DEF Reads
    <3> QED  BY <1>11, <2>1, <3>2 DEF LoadedSoFar
  <2>2. CASE which = "ld.so"
    <3>1. f = image.interp[1] /\ w = "ld.so"  BY <1>3, <1>9, <2>2
    <3>2. Reads(image.interp[1], "ld.so", m + 1)'  BY <1>1, <1>10, <3>1 DEF Reads
    <3>3. PICK g, l : g = image /\ l = Len(image.segs)  OBVIOUS
    <3>4. Reads(g, "main", l)  BY <1>8, <2>2, <3>3
    <3>5. Biased("main")' = Biased("main")  BY DEF Biased
    <3>6. Reads(g, "main", l)'  BY <1>6, <3>4, <3>5, ReadsStay
    <3>7. Reads(image, "main", Len(image.segs))'  BY <1>1, <3>3, <3>6 DEF Reads
    <3> QED  BY <1>11, <2>2, <3>2, <3>7 DEF LoadedSoFar
  <2> QED  BY <1>8, <2>1, <2>2
<1>13. NothingYetInStack'
  <2>1. ASSUME NEW a \in Address PROVE data'[a] \notin Reserved
    <3>1. data[a] \notin Reserved  BY <1>2 DEF DInv, NothingYetInStack
    <3>2. s.id \notin Reserved /\ "zero" \notin Reserved  BY <1>1 DEF Segment, Reserved
    <3>3. data' = data \/ data' = Loaded(data, v, s)  BY <1>1
    <3> QED  BY <3>1, <3>2, <3>3 DEF Loaded
  <2>2. at' = "map"  OBVIOUS
  <2> QED  BY <2>1, <2>2 DEF NothingYetInStack
<1> QED  BY <1>12, <1>13

LEMMA AllReadStays ==
    ASSUME AllRead, UNCHANGED <<image, bias>>, mapped \subseteq mapped',
           \A a \in mapped : Below(a) => Below(a)' /\ data'[a] = data[a]
    PROVE  AllRead'
<1>1. PICK f, l, g, m : /\ f = image /\ l = Len(image.segs)
                        /\ g = image.interp[1] /\ m = Len(image.interp[1].segs)
  OBVIOUS
<1>2. Biased("main")' = Biased("main") /\ Biased("ld.so")' = Biased("ld.so")  BY DEF Biased
<1>3. Reads(f, "main", l)'
  <2>1. Reads(f, "main", l)  BY <1>1 DEF AllRead
  <2> QED  BY <1>2, <2>1, ReadsStay
<1>4. Reads(image, "main", Len(image.segs))'  BY <1>1, <1>3 DEF Reads
<1>5. ASSUME image.interp # <<>>
      PROVE  Reads(image.interp[1], "ld.so", Len(image.interp[1].segs))'
  <2>1. Reads(g, "ld.so", m)  BY <1>1, <1>5 DEF AllRead
  <2>2. Reads(g, "ld.so", m)'  BY <1>2, <2>1, ReadsStay
  <2> QED  BY <1>1, <2>2 DEF Reads
<1> QED  BY <1>4, <1>5 DEF AllRead

\* The end of the loop: what is to be loaded has been.
LEMMA LoopEnds ==
    ASSUME DInv, at = "map", image.kind # "Raw", todo = <<>>,
           image.interp = <<>> \/ which = "ld.so"
    PROVE  AllRead
<1>1. /\ Len(file.segs) - Len(todo) = Len(file.segs)
      /\ which \in {"main", "ld.so"}
      /\ which = "ld.so" => image.interp # <<>>
  BY FileFacts DEF DInv, KInv, LoopGoesOn
<1>2. CASE which = "main"
  <2>1. file = image /\ image.interp = <<>>  BY <1>2 DEF file
  <2> QED  BY <1>1, <1>2, <2>1 DEF DInv, LoadedSoFar, AllRead
<1>3. CASE which = "ld.so"
  <2>1. file = image.interp[1]  BY <1>3 DEF file
  <2> QED  BY <1>1, <1>3, <2>1 DEF DInv, LoadedSoFar, AllRead
<1> QED  BY <1>1, <1>2, <1>3

LEMMA DataStartInterp ==
    ASSUME DInv, StartInterp
    PROVE  LoadedSoFar' /\ NothingYetInStack'
<1>1. /\ at = "map" /\ todo = <<>> /\ which = "main" /\ image.interp # <<>>
      /\ which' = "ld.so" /\ todo' = image.interp[1].segs
      /\ UNCHANGED <<at, image, code, mapped, data>>
  BY DEF StartInterp, asked, machine
<1>2. image.kind # "Raw"  BY OnlyElfHasInterp DEF DInv, KInv
<1>3. Reads(image, "main", Len(image.segs))
  <2>1. file = image  BY <1>1 DEF file
  <2>2. Len(file.segs) - Len(todo) = Len(image.segs)
    BY <1>1, <1>2, <2>1, FileFacts DEF DInv, KInv
  <2> QED  BY <1>1, <2>1, <2>2 DEF DInv, LoadedSoFar
<1>4. Reads(image, "main", Len(image.segs))'
  <2>1. PICK g, l : g = image /\ l = Len(image.segs)  OBVIOUS
  <2>2. Biased("main")' = Biased("main")  BY DEF Biased
  <2>3. \A a \in mapped : Below(a) => Below(a)' /\ data'[a] = data[a]  BY <1>1 DEF Below
  <2>4. Reads(g, "main", l)'  BY <1>1, <1>3, <2>1, <2>2, <2>3, ReadsStay
  <2> QED  BY <1>1, <2>1, <2>4 DEF Reads
<1>5. Len(file'.segs) - Len(todo') = 0
  <2>1. file' = image.interp[1]  BY <1>1 DEF file
  <2>2. todo' \in Seq(Segment)  BY NextTyped DEF DInv, KInv, Typed, Next
  <2>3. Len(todo') \in Nat  BY <2>2
  <2> QED  BY <1>1, <2>1, <2>3
<1>6. Reads(image.interp[1], "ld.so", 0)'
  <2>1. 1..0 = {}  OBVIOUS
  <2> QED  BY ONLY <2>1 DEF Reads
<1> QED  BY <1>1, <1>4, <1>5, <1>6 DEF DInv, LoadedSoFar, NothingYetInStack

LEMMA DataMapCode ==
    ASSUME DInv, MapCode, at' = "stack"
    PROVE  StaysLoaded' /\ NothingYetInStack'
<1> DEFINE s == Head(image.segs)
<1>8. image.kind = "Raw" /\ image \in Images  BY DEF MapCode, DInv, KInv, LInv, Typed
<1>2. /\ image.segs \in Seq(Segment) /\ Len(image.segs) = 1 /\ image.interp = <<>>
  BY <1>8, ImageAssumption DEF IsImage
<1>3. s \in Segment /\ image.segs[1] = s  BY <1>2
<1>1. /\ at = "map" /\ image.kind = "Raw" /\ image' = image
      /\ UcCanMap(s.vaddr, s.memsz) /\ s.filesz <= s.memsz
      /\ Map(s.vaddr, s.memsz, <<"main", "code">>)
      /\ data' = Loaded(data, s.vaddr, s)
      /\ code' = [start |-> s.vaddr, exit |-> Plus(s.vaddr, s.memsz)]
  <2>1. s.filesz \in Int /\ s.memsz \in Int  BY <1>3 DEF Segment
  <2>2. /\ at = "map" /\ image.kind = "Raw" /\ image' = image
        /\ UcCanMap(s.vaddr, s.memsz) /\ ~(s.filesz > s.memsz)
        /\ Map(s.vaddr, s.memsz, <<"main", "code">>)
        /\ data' = Loaded(data, s.vaddr, s)
        /\ code' = [start |-> s.vaddr, exit |-> Plus(s.vaddr, s.memsz)]
    BY DEF MapCode, Fail, asked
  <2> HIDE DEF s
  <2> QED  BY <2>1, <2>2
<1> HIDE DEF s
<1>4. /\ s.vaddr \in Nat /\ s.memsz \in Nat /\ s.filesz \in Nat
      /\ s.vaddr + s.memsz <= Space /\ Space \in Nat
      /\ Span(s.vaddr, s.memsz) \subseteq mapped'
  BY <1>1, <1>3, CanMap, RegionIsAdded, SpaceAssumption DEF Segment
<1>5. ASSUME NEW i \in 0..(s.memsz - 1), NEW x, x = s.vaddr + i
      PROVE  /\ x \in mapped' /\ Below(x)'
             /\ data'[x] = IF i < s.filesz THEN s.id ELSE "zero"
  <2>1. x \in mapped'  BY <1>4, <1>5 DEF Span
  <2>2. data'[x] = IF i < s.filesz THEN s.id ELSE "zero"
    BY <1>1, <1>3, <1>4, <1>5, SegmentReads
  <2>3. Below(x)'
    <3>1. code'.exit = (s.vaddr + s.memsz) % Space  BY <1>1 DEF Plus
    <3>2. CASE s.vaddr + s.memsz < Space
      <4>1. code'.exit = s.vaddr + s.memsz  BY <1>4, <3>1, <3>2
      <4>2. x < code'.exit  BY <1>4, <1>5, <4>1
      <4> QED  BY <4>2 DEF Below
    <3>3. CASE s.vaddr + s.memsz = Space
      <4>1. code'.exit = 0
        <5>1. Space > 0  BY SpaceAssumption
        <5> QED  BY <1>4, <3>1, <3>3, <5>1
      <4> QED  BY <1>1, <4>1 DEF Below
    <3> QED  BY <1>4, <3>2, <3>3
  <2> QED  BY <2>1, <2>2, <2>3
<1>6. Reads(image, "main", Len(image.segs))'
  <2>1. ASSUME NEW k \in 1..1, NEW i \in 0..(image.segs[k].memsz - 1),
               NEW x, x = Biased("main")' + image.segs[k].vaddr + i
        PROVE  /\ x \in mapped' /\ Below(x)'
               /\ data'[x] = IF i < image.segs[k].filesz THEN image.segs[k].id ELSE "zero"
    <3>1. image.segs[k] = s  BY <1>3
    <3>2. x = s.vaddr + i /\ i \in 0..(s.memsz - 1)  BY <1>4, <2>1, <3>1 DEF Biased
    <3> QED  BY <1>5, <3>1, <3>2
  <2> QED  BY <1>1, <1>2, <2>1 DEF Reads, Below
<1>7. NothingYetInStack'
  <2>1. ASSUME NEW a \in Address PROVE data'[a] \notin Reserved
    <3>1. data[a] \notin Reserved  BY <1>1 DEF DInv, NothingYetInStack
    <3>2. s.id \notin Reserved /\ "zero" \notin Reserved  BY <1>3 DEF Segment, Reserved
    <3> QED  BY <1>1, <3>1, <3>2 DEF Loaded
  <2> QED  BY <2>1 DEF NothingYetInStack
<1> QED  BY <1>1, <1>2, <1>6, <1>7 DEF StaysLoaded, AllRead

LEMMA DataStays ==
    ASSUME DInv, at \notin {"map", "failed"}, UNCHANGED <<image, cfg, bias, code>>,
           mapped \subseteq mapped',
           Roomy => \A a \in mapped : a < code.exit => data'[a] = data[a]
    PROVE  StaysLoaded'
<1> SUFFICES ASSUME Roomy' PROVE AllRead'  BY DEF StaysLoaded
<1>1. Roomy  BY DEF Roomy
<1>2. AllRead  BY <1>1 DEF DInv, StaysLoaded
<1>3. ASSUME NEW a \in mapped, Below(a) PROVE Below(a)' /\ data'[a] = data[a]
  <2>1. code.exit > 0 /\ code.exit \in Int  BY <1>1 DEF Roomy, DInv, KInv, LInv, Typed
  <2>2. a < code.exit  BY <1>3, <2>1 DEF Below
  <2> QED  BY <1>1, <2>2 DEF Below
<1> QED  BY <1>2, <1>3, AllReadStays

\* Mapped memory that goes down from the stack ends above the image: between
\* them lie two pages, below and above [tls], and the user has one.
LEMMA FrameIsAbove ==
    ASSUME KInv, Roomy, at = "contents",
           NEW low \in Int, low..(sp - 1) \subseteq mapped
    PROVE  low >= code.exit
<1>0. code.exit \in Int  BY DEF KInv, LInv, Typed
<1> SUFFICES ASSUME low < code.exit PROVE FALSE  BY <1>0
<1>1. at \in Placed /\ at \in Placing /\ at # "running"  BY DEF Placed, Placing
<1>2. /\ code.exit \in Nat /\ code.exit > 0 /\ cfg.stack_size \in Nat
      /\ place.tls \in Nat /\ place.stack \in Nat /\ PageSize \in Nat /\ PageSize >= 4
      /\ code.exit + PageSize <= place.tls /\ place.tls + 2 * PageSize <= place.stack
      /\ stack_exit = place.stack + cfg.stack_size /\ cfg.stack_size > 0
      /\ place.heap \in Nat /\ stack_exit + PageSize <= place.heap
  BY <1>1, PlacesInOrder
<1>3. sp = place.stack + cfg.stack_size - 4
  BY <1>1, <1>2 DEF KInv, PlacesFollow, Small
<1> DEFINE x == place.tls - 1
           y == place.tls + PageSize
<1>4. x \in low..(sp - 1) /\ y \in low..(sp - 1)  BY <1>2, <1>3
<1>5. /\ x \in mapped /\ code.exit <= x /\ x < place.heap /\ ~(x < PageSize)
      /\ ~(place.stack <= x /\ x < stack_exit) /\ ~(place.tls <= x /\ x < place.tls + PageSize)
  BY <1>2, <1>4
<1>6. /\ y \in mapped /\ code.exit <= y /\ y < place.heap /\ ~(y < PageSize)
      /\ ~(place.stack <= y /\ y < stack_exit) /\ ~(place.tls <= y /\ y < place.tls + PageSize)
  BY <1>2, <1>4
<1>7. y = x + 1 + PageSize /\ x \in Int /\ y \in Int  BY <1>2
<1> HIDE DEF x, y
<1>8. x \in user /\ y \in user  BY <1>1, <1>5, <1>6, NothingBetween
<1>9. PICK u \in UserPages : user = Span(u, PageSize)  BY <1>8 DEF KInv, PlacesFollow
<1>10. u \in Int  BY SpaceAssumption DEF Address
<1> QED  BY <1>2, <1>7, <1>8, <1>9, <1>10 DEF Span

\* The numbers setup_stack computes with.
LEMMA FrameNumbers ==
    ASSUME KInv, sp \in Int
    PROVE  /\ Frame \in Nat /\ cfg.strings \in Nat
           /\ StringsEnd = sp - 4 /\ StringsStart = sp - 4 - cfg.strings
           /\ FrameStart \in Int /\ FrameStart + Frame <= StringsStart
           /\ (FrameStart + Frame) % 4 = 0
<1>1. /\ cfg.strings \in Nat /\ cfg.argc \in Nat /\ AuxRaw \in Nat /\ AuxElf \in Nat
  BY SpaceAssumption DEF KInv, LInv, Typed, LayoutConfig
<1>2. 3 + cfg.argc + (IF image.kind = "Raw" THEN AuxRaw ELSE AuxElf) \in Nat  BY <1>1
<1>3. Frame \in Nat
  <2>1. CASE Width = 1  BY <1>2, <2>1 DEF Frame
  <2>2. CASE Width = 2  BY <1>2, <2>2 DEF Frame
  <2> QED  BY <2>1, <2>2 DEF Width
<1>4. StringsEnd = sp - 4 /\ StringsStart = sp - 4 - cfg.strings
  BY DEF StringsEnd, StringsStart, Small
<1>5. StringsStart \in Int  BY <1>1, <1>4
<1>6. FrameStart = StringsStart - (StringsStart % 4) - Frame  BY DEF FrameStart, Small
<1>7. \A n \in Int : n % 4 \in 0..3 /\ (n - (n % 4)) % 4 = 0  OBVIOUS
<1>8. FrameStart + Frame = StringsStart - (StringsStart % 4)  BY <1>3, <1>5, <1>6, <1>7
<1> QED  BY <1>1, <1>3, <1>4, <1>5, <1>6, <1>7, <1>8

\* The stack pointer of a guest that has been placed.
LEMMA StackPointer ==
    ASSUME KInv, Roomy, at \in {"loaded", "contents"}
    PROVE  /\ code.exit \in Nat /\ place.tls \in Nat /\ place.stack \in Nat
           /\ cfg.stack_size \in Nat /\ cfg.stack_size > 0
           /\ sp = place.stack + cfg.stack_size - 4 /\ sp \in Nat
           /\ code.exit <= sp /\ code.exit <= place.tls
<1>1. at \in Placed /\ at \in Placing /\ at # "running"  BY DEF Placed, Placing
<1>2. /\ code.exit \in Nat /\ code.exit > 0 /\ cfg.stack_size \in Nat
      /\ place.tls \in Nat /\ place.stack \in Nat /\ PageSize \in Nat /\ PageSize >= 4
      /\ code.exit + PageSize <= place.tls /\ place.tls + 2 * PageSize <= place.stack
      /\ stack_exit = place.stack + cfg.stack_size /\ cfg.stack_size > 0
  BY <1>1, PlacesInOrder
<1>3. sp = place.stack + cfg.stack_size - 4
  BY <1>1, <1>2 DEF KInv, PlacesFollow, Small
<1> QED  BY <1>2, <1>3

LEMMA DataExitTrap ==
    ASSUME DInv, ExitTrap, at' = "running"
    PROVE  StaysLoaded' /\ NothingYetInStack'
<1>1. PICK r \in regions : Trap(align_up(saturating_add(r.start + r.size, PageSize)))
  BY DEF ExitTrap
<1> DEFINE word == Span(sp, IF cfg.arch = "x86" THEN 1 ELSE 2)
           trap == align_up(saturating_add(r.start + r.size, PageSize))
<1>2. /\ at = "loaded" /\ Map(trap, PageSize, <<"main", "trap">>)
      /\ data' = Put(data, word, "trap")
      /\ UNCHANGED <<image, cfg, bias, code>>
  BY <1>1 DEF ExitTrap, Trap, Fail, asked, loading
<1> HIDE DEF trap
<1>3. mapped \subseteq mapped'  BY <1>2, RegionIsAdded
<1>4. ASSUME Roomy, NEW a \in mapped, a < code.exit PROVE data'[a] = data[a]
  <2>1. a \in Address /\ a \in Int
    BY SpaceAssumption DEF DInv, KInv, LInv, Tabled, Address
  <2>2. sp \in Nat /\ code.exit \in Nat /\ code.exit <= sp
    BY <1>2, <1>4, StackPointer DEF DInv
  <2>3. a \notin word  BY <1>4, <2>1, <2>2 DEF Span
  <2> QED  BY <1>2, <2>1, <2>3 DEF Put
<1>5. StaysLoaded'  BY <1>2, <1>3, <1>4, DataStays
<1> QED  BY <1>5 DEF NothingYetInStack

LEMMA DataMapTls ==
    ASSUME DInv, MapTls, at' = "contents"
    PROVE  StaysLoaded' /\ NothingYetInStack'
<1> DEFINE page == Span(place.tls, PageSize)
<1>2. /\ at = "loaded" /\ Map(place.tls, PageSize, <<"main", "tls">>)
      /\ cfg.os = "Linux"
      /\ data' = data \/ data' = Put(data, page, "gdt")
      /\ UNCHANGED <<image, cfg, bias, code>>
  BY DEF MapTls, Fail, asked, loading
<1>3. mapped \subseteq mapped'
  <2>1. Map(place.tls, PageSize, <<"main", "tls">>)  BY <1>2
  <2> QED  BY ONLY <2>1, RegionIsAdded
<1>4. ASSUME Roomy, NEW a \in mapped, a < code.exit PROVE data'[a] = data[a]
  <2>1. a \in Address /\ a \in Int
    BY SpaceAssumption DEF DInv, KInv, LInv, Tabled, Address
  <2>2. place.tls \in Nat /\ code.exit \in Nat /\ code.exit <= place.tls
    BY <1>2, <1>4, StackPointer DEF DInv
  <2>3. a \notin page  BY <1>4, <2>1, <2>2 DEF Span
  <2> QED  BY <1>2, <2>1, <2>3 DEF Put
<1>5. StaysLoaded'  BY <1>2, <1>3, <1>4, DataStays
<1>6. NothingYetInStack'
  <2>1. ASSUME NEW a \in Address PROVE data'[a] \notin Reserved
    <3>1. data[a] \notin Reserved  BY <1>2 DEF DInv, NothingYetInStack
    <3> QED  BY <1>2, <3>1 DEF Put, Reserved
  <2> QED  BY <1>2, <2>1 DEF NothingYetInStack
<1> QED  BY <1>5, <1>6

\* What setup_stack writes.
LEMMA StackWords ==
    ASSUME KInv, setup_stack, at' = "running"
    PROVE  /\ at = "contents" /\ FrameStart..(sp - 1) \subseteq mapped
           /\ sp' = FrameStart
           /\ data' = [a \in Address |->
                          IF a \in StringsEnd..(sp - 1) THEN "random"
                          ELSE IF a \in StringsStart..(StringsEnd - 1) THEN "argv"
                          ELSE IF a \in Span(FrameStart, Frame) THEN "frame" ELSE data[a]]
           /\ UNCHANGED <<image, cfg, bias, code, place, regions, mapped, user>>
           /\ sp \in Int /\ sp = stack_exit - 4
<1>1. /\ at = "contents" /\ FrameStart..(sp - 1) \subseteq mapped
      /\ sp' = FrameStart
      /\ data' = [a \in Address |->
                      IF a \in StringsEnd..(sp - 1) THEN "random"
                      ELSE IF a \in StringsStart..(StringsEnd - 1) THEN "argv"
                      ELSE IF a \in Span(FrameStart, Frame) THEN "frame" ELSE data[a]]
      /\ UNCHANGED <<image, cfg, bias, code, place, regions, mapped, user>>
  BY DEF setup_stack, Fail, asked, loading
<1>2. sp = stack_exit - 4
  BY <1>1 DEF KInv, PlacesFollow, Placed, Placing, Small
<1>3. stack_exit \in Int
  <2>1. place.stack \in Int /\ cfg.stack_size \in Int
    BY SpaceAssumption DEF KInv, LInv, Typed, LayoutConfig
  <2> QED  BY <2>1, PlusIsInt DEF stack_exit
<1> QED  BY <1>1, <1>2, <1>3

LEMMA DataSetupStack ==
    ASSUME DInv, setup_stack, at' = "running"
    PROVE  StaysLoaded' /\ NothingYetInStack'
<1>1. /\ at = "contents" /\ FrameStart..(sp - 1) \subseteq mapped
      /\ data' = [a \in Address |->
                      IF a \in StringsEnd..(sp - 1) THEN "random"
                      ELSE IF a \in StringsStart..(StringsEnd - 1) THEN "argv"
                      ELSE IF a \in Span(FrameStart, Frame) THEN "frame" ELSE data[a]]
      /\ UNCHANGED <<image, cfg, bias, code, mapped>> /\ sp \in Int
  BY StackWords DEF DInv
<1>2. /\ Frame \in Nat /\ cfg.strings \in Nat
      /\ StringsEnd = sp - 4 /\ StringsStart = sp - 4 - cfg.strings
      /\ FrameStart \in Int /\ FrameStart + Frame <= StringsStart
  BY <1>1, FrameNumbers DEF DInv
<1>3. ASSUME Roomy, NEW a \in mapped, a < code.exit PROVE data'[a] = data[a]
  <2>1. a \in Address /\ a \in Int /\ code.exit \in Int
    BY SpaceAssumption DEF DInv, KInv, LInv, Tabled, Typed, Address
  <2>2. FrameStart >= code.exit  BY <1>1, <1>2, <1>3, FrameIsAbove DEF DInv
  <2>3. a < FrameStart  BY <1>2, <1>3, <2>1, <2>2
  <2>4. /\ a \notin StringsEnd..(sp - 1) /\ a \notin StringsStart..(StringsEnd - 1)
        /\ a \notin Span(FrameStart, Frame)
    BY <1>1, <1>2, <2>1, <2>3 DEF Span
  <2> QED  BY <1>1, <2>1, <2>4
<1>4. StaysLoaded'  BY <1>1, <1>3, DataStays
<1> QED  BY <1>4 DEF NothingYetInStack

LEMMA InitDInv == Init => DInv
<1> SUFFICES ASSUME Init PROVE DInv  OBVIOUS
<1>1. KInv  BY InitKInv
<1>2. image.segs \in Seq(Segment) /\ todo = image.segs /\ which = "main" /\ at = "map"
  BY ImageAssumption DEF Init, IsImage
<1>3. Len(file.segs) - Len(todo) = 0
  <2>1. file = image /\ Len(image.segs) \in Nat  BY <1>2 DEF file
  <2> QED  BY <1>2, <2>1
<1>4. LoadedSoFar  BY <1>2, <1>3 DEF LoadedSoFar, Reads
<1>5. StaysLoaded  BY <1>2 DEF StaysLoaded
<1>6. NothingYetInStack
  <2>1. \A a \in Address : data[a] = "zero"  BY DEF Init
  <2> QED  BY <1>2, <2>1 DEF NothingYetInStack, Reserved
<1> QED  BY <1>1, <1>4, <1>5, <1>6 DEF DInv

LEMMA NextDInv == DInv /\ [Next]_vars => DInv'
<1> SUFFICES ASSUME DInv, [Next]_vars PROVE LoadedSoFar' /\ StaysLoaded' /\ NothingYetInStack'
  BY NextKInv DEF DInv
<1>0. CASE at' = "failed"  BY <1>0 DEF LoadedSoFar, StaysLoaded, NothingYetInStack
<1>1. CASE MapSegment /\ at' # "failed"
  <2>1. at' = "map"  BY <1>1, SegmentIsMapped DEF MapSegment, DInv, KInv
  <2>2. StaysLoaded'  BY <2>1 DEF StaysLoaded
  <2> QED  BY <1>1, <2>1, <2>2, DataMapSegment
<1>2. CASE RejectImage
  BY <1>0, <1>2 DEF RejectImage, Fail
<1>3. CASE StartInterp
  <2>1. at' = "map"  BY <1>3 DEF StartInterp
  <2>2. StaysLoaded'  BY <2>1 DEF StaysLoaded
  <2> QED  BY <1>3, <2>2, DataStartInterp
<1>4. CASE MapCode /\ at' # "failed"
  <2>1. at' = "stack"  BY <1>4 DEF MapCode, Fail
  <2>2. LoadedSoFar'  BY <2>1 DEF LoadedSoFar
  <2> QED  BY <1>4, <2>1, <2>2, DataMapCode
<1>5. CASE MapStack /\ at' # "failed"
  <2> DEFINE stack == Above(Plus(Above(code.exit), PageSize))
  <2>1. /\ at' = "heap" /\ UNCHANGED <<image, cfg, bias, code, data>>
        /\ Map(stack, cfg.stack_size, <<"main", "stack">>)
    BY <1>5 DEF MapStack, Fail, asked, loading
  <2>2. mapped \subseteq mapped'  BY <2>1, RegionIsAdded
  <2>3. /\ at \in {"map", "stack"}
        /\ at = "map" => /\ image.kind # "Raw" /\ todo = <<>>
                         /\ image.interp = <<>> \/ which = "ld.so"
    BY <1>5 DEF MapStack
  <2>4. Roomy => AllRead  BY <2>3, LoopEnds DEF DInv, StaysLoaded
  <2>5. \A a \in mapped : Below(a) => Below(a)' /\ data'[a] = data[a]  BY <2>1 DEF Below
  <2>6. StaysLoaded'
    <3> SUFFICES ASSUME Roomy' PROVE AllRead'  BY DEF StaysLoaded
    <3>1. Roomy  BY <2>1 DEF Roomy
    <3> QED  BY <2>1, <2>2, <2>4, <2>5, <3>1, AllReadStays
  <2> QED  BY <2>1, <2>3, <2>6 DEF DInv, LoadedSoFar, NothingYetInStack
<1>6. CASE MapHeap /\ at' # "failed"
  <2> DEFINE heap == Above(stack_exit)
  <2>1. /\ at = "heap" /\ at' = "loaded" /\ UNCHANGED <<image, cfg, bias, code, data>>
        /\ Map(heap, cfg.heap_size, <<"main", "heap">>)
    BY <1>6 DEF MapHeap, Fail, asked, loading
  <2>2. mapped \subseteq mapped'  BY <2>1, RegionIsAdded
  <2>3. StaysLoaded'  BY <2>1, <2>2, DataStays
  <2> QED  BY <2>1, <2>3 DEF DInv, LoadedSoFar, NothingYetInStack
<1>7. CASE \E a \in UserPages : UserMaps(a)
  <2>1. PICK a \in UserPages : UserMaps(a)  BY <1>7
  <2>2. /\ at = "loaded" /\ at' = "loaded" /\ UNCHANGED <<image, cfg, bias, code, data>>
        /\ Map(a, PageSize, <<"main", "user">>)
    BY <2>1 DEF UserMaps, asked, loading
  <2>3. mapped \subseteq mapped'  BY <2>2, RegionIsAdded
  <2>4. StaysLoaded'  BY <2>2, <2>3, DataStays
  <2> QED  BY <2>2, <2>4 DEF DInv, LoadedSoFar, NothingYetInStack
<1>8. CASE ExitTrap /\ at' # "failed"
  <2>1. at' = "running"  BY <1>8 DEF ExitTrap, Trap, Fail
  <2>2. LoadedSoFar'  BY <2>1 DEF LoadedSoFar
  <2> QED  BY <1>8, <2>1, <2>2, DataExitTrap
<1>9. CASE MapTls /\ at' # "failed"
  <2>1. at' = "contents"  BY <1>9 DEF MapTls, Fail
  <2>2. LoadedSoFar'  BY <2>1 DEF LoadedSoFar
  <2> QED  BY <1>9, <2>1, <2>2, DataMapTls
<1>10. CASE setup_stack /\ at' # "failed"
  <2>1. at' = "running"  BY <1>10 DEF setup_stack, Fail
  <2>2. LoadedSoFar'  BY <2>1 DEF LoadedSoFar
  <2> QED  BY <1>10, <2>1, <2>2, DataSetupStack
<1>11. CASE UNCHANGED vars
  <2>1. UNCHANGED <<image, cfg, at, which, todo, bias, code, mapped, data>>
    BY <1>11 DEF vars, asked, loading, machine
  <2>2. NothingYetInStack'  BY <2>1 DEF DInv, NothingYetInStack
  <2>3. file' = file  BY <2>1 DEF file
  <2>4. \A g, w, n : Reads(g, w, n) => Reads(g, w, n)'
    <3> TAKE g, w, n
    <3>1. Biased(w)' = Biased(w)  BY <2>1 DEF Biased
    <3>2. \A a \in mapped : Below(a) => Below(a)' /\ data'[a] = data[a]  BY <2>1 DEF Below
    <3> QED  BY <2>1, <3>1, <3>2, ReadsStay
  <2>5. LoadedSoFar'
    <3>1. PICK g, h, l, n : /\ g = image /\ h = image.interp[1] /\ l = Len(image.segs)
                            /\ n = Len(file.segs) - Len(todo)
      OBVIOUS
    <3>2. Reads(g, "main", l) => Reads(g, "main", l)'  BY <2>4
    <3>3. Reads(g, "main", n) => Reads(g, "main", n)'  BY <2>4
    <3>4. Reads(h, "ld.so", n) => Reads(h, "ld.so", n)'  BY <2>4
    <3>4a. image = g /\ image' = g /\ Len(image.segs) = l  BY <2>1, <3>1
    <3>4b. image.interp[1] = h /\ image'.interp[1] = h  BY <2>1, <3>1
    <3>5. Reads(image, "main", Len(image.segs)) => Reads(image, "main", Len(image.segs))'
      <4>1. Reads(image, "main", Len(image.segs)) = Reads(g, "main", l)  BY ONLY <3>4a
      <4>2. Reads(image, "main", Len(image.segs))' = Reads(g, "main", l)'
        BY ONLY <3>4a DEF Reads
      <4> QED  BY ONLY <3>2, <4>1, <4>2
    <3>6. Reads(image, "main", n) => Reads(image, "main", n)'
      <4>1. Reads(image, "main", n) = Reads(g, "main", n)  BY ONLY <3>4a
      <4>2. Reads(image, "main", n)' = Reads(g, "main", n)'  BY ONLY <3>4a DEF Reads
      <4> QED  BY ONLY <3>3, <4>1, <4>2
    <3>7. Reads(image.interp[1], "ld.so", n) => Reads(image.interp[1], "ld.so", n)'
      <4>1. Reads(image.interp[1], "ld.so", n) = Reads(h, "ld.so", n)  BY ONLY <3>4b
      <4>2. Reads(image.interp[1], "ld.so", n)' = Reads(h, "ld.so", n)'
        BY ONLY <3>4b DEF Reads
      <4> QED  BY ONLY <3>4, <4>1, <4>2
    <3> QED  BY <2>1, <2>3, <3>1, <3>5, <3>6, <3>7 DEF DInv, LoadedSoFar
  <2>6. StaysLoaded'
    <3>1. CASE at \in {"map", "failed"}  BY <2>1, <3>1 DEF StaysLoaded
    <3>2. CASE at \notin {"map", "failed"}  BY <2>1, <3>2, DataStays
    <3> QED  BY <3>1, <3>2
  <2> QED  BY <2>2, <2>5, <2>6
<1> QED
  BY <1>0, <1>1, <1>2, <1>3, <1>4, <1>5, <1>6, <1>7, <1>8, <1>9, <1>10, <1>11 DEF Next

LEMMA DataAlways == Spec => []DInv
BY InitDInv, NextDInv, PTL DEF Spec

LEMMA ReadIsLoaded == DInv /\ Roomy => ImageIsLoaded
<1> SUFFICES ASSUME DInv, Roomy, Running PROVE ImageIsLoaded  BY DEF ImageIsLoaded
<1>1. AllRead  BY DEF DInv, StaysLoaded, Running
<1> QED  BY <1>1 DEF ImageIsLoaded, AllRead, ReadsAs, Reads

\* For any images, options and page of the user with room for what is placed
\* after the image: a guest that starts finds in each segment of its image and
\* of its interpreter the file's words and then zeros.
THEOREM ImageStaysLoaded == Spec => [](Roomy => ImageIsLoaded)
BY DataAlways, ReadIsLoaded, PTL

\* The strings and the frame of a guest whose stack has been written.
LEMMA StackContents ==
    ASSUME DInv, setup_stack, at' = "running"
    PROVE  /\ {a \in Address : data'[a] = "frame"} = Span(FrameStart, Frame)
           /\ {a \in Address : data'[a] = "argv"} = StringsStart..(StringsEnd - 1)
           /\ {a \in Address : data'[a] = "random"} = StringsEnd..(sp - 1)
<1>1. /\ at = "contents" /\ FrameStart..(sp - 1) \subseteq mapped /\ sp \in Int
      /\ data' = [a \in Address |->
                      IF a \in StringsEnd..(sp - 1) THEN "random"
                      ELSE IF a \in StringsStart..(StringsEnd - 1) THEN "argv"
                      ELSE IF a \in Span(FrameStart, Frame) THEN "frame" ELSE data[a]]
  BY StackWords DEF DInv
<1>2. /\ Frame \in Nat /\ cfg.strings \in Nat
      /\ StringsEnd = sp - 4 /\ StringsStart = sp - 4 - cfg.strings
      /\ FrameStart \in Int /\ FrameStart + Frame <= StringsStart
  BY <1>1, FrameNumbers DEF DInv
<1>3. FrameStart..(sp - 1) \subseteq Address
  BY <1>1 DEF DInv, KInv, LInv, Tabled
<1>4. \A a \in Address : data[a] \notin Reserved
  BY <1>1 DEF DInv, NothingYetInStack
<1>5. \A a \in Address : a \in Int  BY SpaceAssumption DEF Address
<1>6. /\ Span(FrameStart, Frame) \subseteq FrameStart..(sp - 1)
      /\ StringsStart..(StringsEnd - 1) \subseteq FrameStart..(sp - 1)
      /\ StringsEnd..(sp - 1) \subseteq FrameStart..(sp - 1)
  BY <1>1, <1>2 DEF Span
<1>7. ASSUME NEW a \in Int
      PROVE  /\ a \in StringsStart..(StringsEnd - 1) => a \notin StringsEnd..(sp - 1)
             /\ a \in Span(FrameStart, Frame) => /\ a \notin StringsEnd..(sp - 1)
                                                 /\ a \notin StringsStart..(StringsEnd - 1)
  BY <1>1, <1>2 DEF Span
<1> DEFINE F == Span(FrameStart, Frame)
           A == StringsStart..(StringsEnd - 1)
           R == StringsEnd..(sp - 1)
<1>8. /\ F \subseteq Address /\ A \subseteq Address /\ R \subseteq Address  BY <1>3, <1>6
<1>9. \A a \in Address : /\ a \in A => a \notin R
                         /\ a \in F => a \notin R /\ a \notin A
  BY <1>5, <1>7
<1>10. \A a \in Address : data'[a] = IF a \in R THEN "random" ELSE IF a \in A THEN "argv"
                                     ELSE IF a \in F THEN "frame" ELSE data[a]
  BY <1>1
<1> HIDE DEF F, A, R
<1>11. {a \in Address : data'[a] = "frame"} = F
  BY <1>4, <1>8, <1>9, <1>10 DEF Reserved
<1>12. {a \in Address : data'[a] = "argv"} = A
  BY <1>4, <1>8, <1>9, <1>10 DEF Reserved
<1>13. {a \in Address : data'[a] = "random"} = R
  BY <1>4, <1>8, <1>9, <1>10 DEF Reserved
<1> QED  BY <1>11, <1>12, <1>13 DEF F, A, R

\* If the user mapped nothing, what setup_stack writes does not reach below the
\* stack: the page there is mapped by nobody.
LEMMA FrameIsInStack ==
    ASSUME KInv, Roomy, at = "contents", cfg.os = "Linux", user = {},
           NEW low \in Int, low..(sp - 1) \subseteq mapped
    PROVE  low..(sp - 1) \subseteq Span(place.stack, cfg.stack_size)
<1>1. at \in Placed /\ at \in Placing /\ at # "running"  BY DEF Placed, Placing
<1>2. /\ code.exit \in Nat /\ code.exit > 0 /\ cfg.stack_size \in Nat
      /\ place.tls \in Nat /\ place.stack \in Nat /\ PageSize \in Nat /\ PageSize >= 4
      /\ code.exit + PageSize <= place.tls /\ place.tls + 2 * PageSize <= place.stack
      /\ stack_exit = place.stack + cfg.stack_size /\ cfg.stack_size > 0
      /\ place.heap \in Nat /\ stack_exit + PageSize <= place.heap
  BY <1>1, PlacesInOrder
<1>3. sp = place.stack + cfg.stack_size - 4
  BY <1>1, <1>2 DEF KInv, PlacesFollow, Small
<1>4. ASSUME NEW y \in low..(sp - 1) PROVE y >= place.stack
  <2> SUFFICES ASSUME y < place.stack PROVE FALSE  BY <1>2
  <2> DEFINE x == IF sp < place.stack THEN sp - 1 ELSE place.stack - 1
  <2>1. x \in low..(sp - 1) /\ place.stack - 4 <= x /\ x < place.stack  BY <1>2, <1>3
  <2> HIDE DEF x
  <2>2. /\ x \in mapped /\ code.exit <= x /\ x < place.heap
        /\ ~(place.stack <= x /\ x < stack_exit) /\ ~(place.tls <= x /\ x < place.tls + PageSize)
    BY <1>2, <2>1
  <2> QED  BY <1>1, <2>2, NothingBetween
<1> QED  BY <1>2, <1>3, <1>4 DEF Span

LEMMA SizeOfRange ==
    ASSUME NEW a \in Int, NEW n \in Nat
    PROVE  Cardinality(a..(a + n - 1)) = n
<1>1. Cardinality(a..(a + n - 1)) = IF a > a + n - 1 THEN 0 ELSE (a + n - 1) - a + 1
  BY FS_Interval
<1> QED  BY <1>1

LEMMA StackIsMade ==
    ASSUME DInv, Roomy, setup_stack, at' = "running"
    PROVE  StackIsUsable'
<1>1. /\ at = "contents" /\ FrameStart..(sp - 1) \subseteq mapped /\ sp \in Int
      /\ sp' = FrameStart /\ UNCHANGED <<image, cfg, place, user>>
  BY StackWords DEF DInv
<1>2. /\ Frame \in Nat /\ cfg.strings \in Nat
      /\ StringsEnd = sp - 4 /\ StringsStart = sp - 4 - cfg.strings
      /\ FrameStart \in Int /\ FrameStart + Frame <= StringsStart
      /\ (FrameStart + Frame) % 4 = 0
  BY <1>1, FrameNumbers DEF DInv
<1>3. Frame' = Frame  BY <1>1 DEF Frame, Width
<1> DEFINE F == Span(FrameStart, Frame)
           A == StringsStart..(StringsEnd - 1)
           R == StringsEnd..(sp - 1)
           T == Span(place.stack, cfg.stack_size)
<1>4. user = {} => F \cup A \cup R \subseteq T
  <2>1. F \cup A \cup R \subseteq FrameStart..(sp - 1)  BY <1>1, <1>2 DEF Span
  <2>2. cfg.os = "Linux"  BY <1>1 DEF DInv, NothingYetInStack
  <2>3. user = {} => FrameStart..(sp - 1) \subseteq T
    BY <1>1, <1>2, <2>2, FrameIsInStack DEF DInv
  <2> HIDE DEF F, A, R, T
  <2> QED  BY <2>1, <2>3
<1>5. Cardinality(A) = cfg.strings
  <2>1. A = StringsStart..(StringsStart + cfg.strings - 1)  BY <1>1, <1>2
  <2>2. StringsStart \in Int  BY <1>1, <1>2
  <2> QED  BY <1>2, <2>1, <2>2, SizeOfRange
<1>6. Cardinality(R) = Small
  <2>1. R = StringsEnd..(StringsEnd + 4 - 1)  BY <1>1, <1>2
  <2>2. StringsEnd \in Int  BY <1>1, <1>2
  <2> QED  BY <2>1, <2>2, SizeOfRange DEF Small
<1>7. \A a \in F, b \in A, c \in R : a < b /\ b < c  BY <1>1, <1>2 DEF Span
<1>8. FrameStart % Small = 0 \/ Frame % Small # 0
  <2>1. \A x \in Int, n \in Nat : (x + n) % 4 = 0 /\ n % 4 = 0 => x % 4 = 0  OBVIOUS
  <2> QED  BY <1>2, <2>1 DEF Small
<1>9. /\ {a \in Address : data'[a] = "frame"} = F
      /\ {a \in Address : data'[a] = "argv"} = A
      /\ {a \in Address : data'[a] = "random"} = R
  BY StackContents
<1>10. F = Span(sp', Frame') /\ cfg'.strings = cfg.strings /\ user' = user
       /\ T = Span(place'.stack, cfg'.stack_size)
  BY <1>1, <1>3
<1>11. sp' % Small = 0 \/ Frame' % Small # 0  BY <1>1, <1>3, <1>8
<1> HIDE DEF F, A, R, T
<1> QED  BY <1>4, <1>5, <1>6, <1>7, <1>9, <1>10, <1>11 DEF StackIsUsable

\* Once the guest starts, nothing here moves: the stack stays as it was made.
SInv == DInv /\ (Roomy => StackIsUsable)

LEMMA NextSInv == SInv /\ [Next]_vars => SInv'
<1> SUFFICES ASSUME SInv, [Next]_vars, Roomy', Running', cfg'.os = "Linux" PROVE StackIsUsable'
  BY NextDInv DEF SInv, StackIsUsable
<1>1. CASE UNCHANGED vars
  <2>1. Roomy /\ StackIsUsable  BY <1>1 DEF SInv, Roomy, vars, asked, loading
  <2>2. UNCHANGED <<image, cfg, at, place, data, sp, user>>
    BY <1>1 DEF vars, asked, loading, machine
  <2>3. Frame' = Frame  BY <2>2 DEF Frame, Width
  <2> QED  BY <2>1, <2>2, <2>3 DEF StackIsUsable, Running
<1>2. CASE setup_stack
  <2>1. at' = "running"  BY DEF Running
  <2>2. UNCHANGED <<cfg, code>>  BY <1>2, <2>1, StackWords DEF SInv, DInv
  <2>3. Roomy  BY <2>2 DEF Roomy
  <2> QED  BY <1>2, <2>1, <2>3, StackIsMade DEF SInv
<1>3. CASE ExitTrap
  <2>1. cfg.os = "BareMetal" /\ cfg' = cfg
    BY <1>3 DEF ExitTrap, Trap, Fail, asked
  <2> QED  BY <2>1
<1> QED
  <2>1. CASE MapSegment
    BY <2>1 DEF MapSegment, map_segment, Fail, Running
  <2>2. CASE RejectImage \/ StartInterp \/ MapCode \/ MapStack \/ MapHeap
             \/ (\E a \in UserPages : UserMaps(a)) \/ MapTls
    BY <2>2 DEF RejectImage, StartInterp, MapCode, MapStack, MapHeap, UserMaps, MapTls, Fail, Running
  <2> QED  BY <1>1, <1>2, <1>3, <2>1, <2>2 DEF Next

\* For any images, options and page of the user with room for what is placed
\* after the image: a Linux guest that starts has its arguments whole, in order
\* and, unless the user mapped memory next to it, in its stack.
THEOREM StackIsMadeForTheGuest == Spec => [](Roomy => StackIsUsable)
<1>1. Init => SInv  BY InitDInv DEF Init, SInv, StackIsUsable, Running
<1>2. Spec => []SInv  BY <1>1, NextSInv, PTL DEF Spec
<1>3. SInv => (Roomy => StackIsUsable)  BY DEF SInv
<1> QED  BY <1>2, <1>3, PTL
-----------------------------------------------------------------------------
(***************************************************************************)
(* What can fail.  For an image, options and a user page that are sound,   *)
(* the pages of each segment are still free when it is mapped, and so is   *)
(* what the stack, the heap, [tls] and the exit trap are given.            *)
(***************************************************************************)
LEMMA ModUnique ==
    ASSUME NEW p \in Nat, p > 0, NEW q \in Int, NEW r \in 0..(p - 1)
    PROVE  (p * q + r) % p = r
OBVIOUS

LEMMA DivMod ==
    ASSUME NEW p \in Nat, p > 0, NEW a \in Nat
    PROVE  /\ a = p * (a \div p) + (a % p)
           /\ a \div p \in Int /\ a % p \in 0..(p - 1)
OBVIOUS

LEMMA ModPlus ==
    ASSUME NEW p \in Nat, p > 0, NEW a \in Nat, NEW b \in Nat, a % p = 0
    PROVE  (a + b) % p = b % p
<1> DEFINE x == a \div p
           y == b \div p
           m == b % p
<1>1. /\ a = p * x /\ b = p * y + m
      /\ x \in Int /\ y \in Int /\ m \in 0..(p - 1)
  BY DivMod
<1> HIDE DEF x, y, m
<1>2. a + b = p * (x + y) + m  BY ONLY <1>1, p \in Nat
<1>3. (p * (x + y) + m) % p = m  BY <1>1, ModUnique
<1> QED  BY <1>2, <1>3 DEF m

\* Of two multiples of p, the smaller is p below the larger.
LEMMA NextMultiple ==
    ASSUME NEW p \in Nat, p > 0, NEW a \in Nat, NEW b \in Nat, a % p = 0, b % p = 0, a < b
    PROVE  a + p <= b
<1> DEFINE x == a \div p
           y == b \div p
<1>1. a = p * x /\ b = p * y /\ x \in Int /\ y \in Int  BY DivMod
<1> HIDE DEF x, y
<1>2. \A i, j \in Int : p * i < p * j => i + 1 <= j  BY SMT
<1>3. x + 1 <= y  BY <1>1, <1>2
<1>4. \A i, j \in Int : i + 1 <= j => p * i + p <= p * j  BY SMT
<1> QED  BY <1>1, <1>3, <1>4

LEMMA AlignDown ==
    ASSUME NEW a \in Nat
    PROVE  /\ align_down(a) \in Nat /\ align_down(a) <= a /\ a < align_down(a) + PageSize
           /\ align_down(a) % PageSize = 0
<1> DEFINE q == a \div PageSize
           m == a % PageSize
<1>0. PageSize \in Nat /\ PageSize > 0  BY SpaceAssumption
<1>1. a = PageSize * q + m /\ q \in Int /\ m \in 0..(PageSize - 1)  BY <1>0, DivMod
<1>2. align_down(a) = a - m  BY DEF align_down
<1> HIDE DEF q, m
<1>3. a - m = PageSize * q + 0 /\ a - m \in Int  BY ONLY <1>0, <1>1
<1>4. (PageSize * q + 0) % PageSize = 0
  <2>1. 0 \in 0..(PageSize - 1)  BY <1>0
  <2> QED  BY <1>0, <1>1, <2>1, ModUnique
<1>5. a - m >= 0
  <2>1. \A i \in Int : PageSize * i > -PageSize => PageSize * i >= 0  BY <1>0, SMT
  <2> QED  BY <1>0, <1>1, <1>3, <2>1
<1> QED  BY <1>0, <1>1, <1>2, <1>3, <1>4, <1>5

LEMMA AlignUpMod ==
    ASSUME NEW a \in Nat
    PROVE  align_up(a) \in Nat /\ align_up(a) % PageSize = 0 /\ align_up(a) < Space
<1>1. Plus(a, PageSize - 1) \in Nat /\ Plus(a, PageSize - 1) < Space
  BY SpaceAssumption DEF Plus
<1> QED  BY <1>1, AlignDown, SpaceAssumption DEF align_up

LEMMA AlignUpFits ==
    ASSUME NEW a \in Nat, a + PageSize <= Space
    PROVE  /\ align_up(a) = align_down(a + PageSize - 1)
           /\ a <= align_up(a) /\ align_up(a) < a + PageSize
<1>1. a + PageSize - 1 \in 0..(Space - 1) /\ Space \in Nat /\ PageSize \in Nat /\ PageSize >= 4
  BY SpaceAssumption
<1>2. Plus(a, PageSize - 1) = a + PageSize - 1
  <2>1. \A n \in 0..(Space - 1) : n % Space = n  BY <1>1
  <2>2. a + (PageSize - 1) = a + PageSize - 1  BY <1>1
  <2> QED  BY <1>1, <2>1, <2>2 DEF Plus
<1>3. /\ align_down(a + PageSize - 1) <= a + PageSize - 1
      /\ a + PageSize - 1 < align_down(a + PageSize - 1) + PageSize
      /\ align_down(a + PageSize - 1) \in Nat
  BY <1>1, AlignDown
<1> QED  BY <1>1, <1>2, <1>3 DEF align_up

LEMMA AlignShift ==
    ASSUME NEW b \in Nat, b % PageSize = 0, NEW a \in Nat
    PROVE  align_down(b + a) = b + align_down(a)
<1>1. PageSize \in Nat /\ PageSize > 0  BY SpaceAssumption
<1>2. (b + a) % PageSize = a % PageSize  BY <1>1, ModPlus
<1>3. a % PageSize \in Int  BY <1>1
<1> QED  BY <1>2, <1>3 DEF align_down

\* The pages of a segment that is not empty: where they are, and that they
\* move with the bias.
LEMMA SegmentPages ==
    ASSUME NEW s \in Segment, s.memsz > 0, NEW b \in Nat, b % PageSize = 0
    PROVE  LET first == align_down(b + s.vaddr)
               past  == align_down(b + s.vaddr + s.memsz + PageSize - 1)
           IN  /\ PagesOfSegment(s, b) = first..(past - 1)
               /\ first \in Nat /\ past \in Nat /\ first % PageSize = 0 /\ past % PageSize = 0
               /\ first <= b + s.vaddr /\ b + s.vaddr + s.memsz <= past
               /\ first = b + align_down(s.vaddr)
               /\ past = b + align_down(s.vaddr + s.memsz + PageSize - 1)
<1>1. /\ s.vaddr \in Nat /\ s.memsz \in Nat /\ PageSize \in Nat /\ PageSize >= 4
  BY SpaceAssumption DEF Segment
<1>2. /\ b + s.vaddr \in Nat
      /\ s.vaddr + s.memsz + PageSize - 1 \in Nat
      /\ b + s.vaddr + s.memsz + PageSize - 1 = b + (s.vaddr + s.memsz + PageSize - 1)
  BY <1>1
<1> DEFINE y == s.vaddr + s.memsz + PageSize - 1
           z == b + s.vaddr + s.memsz + PageSize - 1
<1>3. y \in Nat /\ z \in Nat /\ z = b + y  BY <1>1, <1>2
<1>4. /\ align_down(b + s.vaddr) \in Nat /\ align_down(b + s.vaddr) <= b + s.vaddr
      /\ align_down(b + s.vaddr) % PageSize = 0
  BY <1>2, AlignDown
<1>5. /\ align_down(z) \in Nat /\ z < align_down(z) + PageSize /\ align_down(z) % PageSize = 0
  BY <1>3, AlignDown
<1>6. align_down(b + s.vaddr) = b + align_down(s.vaddr)  BY <1>1, AlignShift
<1>7. align_down(z) = b + align_down(y)  BY <1>3, AlignShift
<1>8. PagesOfSegment(s, b) = align_down(b + s.vaddr)..(align_down(z) - 1)
  BY <1>1 DEF PagesOfSegment
<1>9. b + s.vaddr + s.memsz <= align_down(z)  BY <1>1, <1>5
<1> QED  BY <1>4, <1>5, <1>6, <1>7, <1>8, <1>9

LEMMA PagesShift ==
    ASSUME NEW s \in Segment, NEW b \in Nat, b % PageSize = 0, NEW a \in PagesOfSegment(s, b)
    PROVE  a \in Nat /\ a - b \in Nat /\ a - b \in PagesOfSegment(s, 0)
<1>1. s.memsz > 0  BY DEF PagesOfSegment, Segment
<1> DEFINE x == align_down(s.vaddr)
           y == align_down(s.vaddr + s.memsz + PageSize - 1)
<1>1a. x \in Int /\ y \in Int
  <2>1. s.vaddr \in Int /\ s.vaddr + s.memsz + PageSize - 1 \in Int
    BY SpaceAssumption DEF Segment
  <2> QED  BY <2>1, AlignIsInt
<1>2. ASSUME NEW c \in Nat, c % PageSize = 0
      PROVE  PagesOfSegment(s, c) = (c + x)..(c + y - 1) /\ c + x \in Nat
  <2> DEFINE first == align_down(c + s.vaddr)
             past  == align_down(c + s.vaddr + s.memsz + PageSize - 1)
  <2>1. /\ PagesOfSegment(s, c) = first..(past - 1) /\ first \in Nat
        /\ past \in Nat /\ first = c + x /\ past = c + y
    BY <1>1, <1>2, SegmentPages
  <2> HIDE DEF first, past, x, y
  <2> QED  BY <1>1a, <2>1
<1>3. 0 \in Nat /\ 0 % PageSize = 0  BY SpaceAssumption
<1>4. PagesOfSegment(s, b) = (b + x)..(b + y - 1) /\ b + x \in Nat  BY <1>2
<1>5. PagesOfSegment(s, 0) = (0 + x)..(0 + y - 1)  BY <1>2, <1>3
<1> HIDE DEF x, y
<1> QED
  <2>1. a \in (b + x)..(b + y - 1)  BY <1>4
  <2>2. x \in Nat
    <3>1. s.vaddr \in Nat  BY DEF Segment
    <3> QED  BY <3>1, AlignDown DEF x
  <2>3. a \in Nat /\ a - b \in x..(y - 1) /\ a - b \in Nat  BY ONLY <2>1, <2>2, <1>1a, b \in Nat
  <2> QED  BY <1>5, <1>1a, <2>3
\* Where the interpreter is loaded, and what is mapped when the next segment's
\* turn comes: pages of the segments before it.
BiasAsAsked ==
    /\ bias % PageSize = 0
    /\ which = "ld.so" =>
           IF image.interp[1].kind = "EXEC" THEN bias = 0
           ELSE \E a \in PagesOfImage(image, 0) : bias <= a + Gap + PageSize

OfMain(a) ==
    /\ which = "ld.so" /\ a \in PagesOfImage(image, 0)
    /\ image.interp[1].kind = "EXEC" \/ a < bias

OfFirst(n, a) == \E k \in 1..n : a \in PagesOfSegment(file.segs[k], bias)

MapsAsAsked ==
    SoundLoad /\ at = "map" /\ image.kind # "Raw" =>
        /\ BiasAsAsked
        /\ code.exit = 0 \/ code.exit - 1 \in mapped
        /\ \A a \in mapped : OfMain(a) \/ OfFirst(Len(file.segs) - Len(todo), a)

RoomAsAsked == SoundLoad /\ at \notin {"map", "failed"} => Roomy

LoadedRegions ==
    SoundLoad /\ at = "loaded" => \A r \in regions :
        \/ OfImage(r) \/ OfStack(r) \/ OfUser(r)
        \/ r.start = place.heap /\ r.size = cfg.heap_size

LEMMA PagesAreNat ==
    ASSUME NEW img, img.segs \in Seq(Segment), NEW a \in PagesOfImage(img, 0)
    PROVE  a \in Nat
<1>1. PICK k \in 1..Len(img.segs) : a \in PagesOfSegment(img.segs[k], 0)  BY DEF PagesOfImage
<1>2. img.segs[k] \in Segment  BY <1>1
<1>3. 0 \in Nat /\ 0 % PageSize = 0  BY SpaceAssumption
<1> QED  BY <1>1, <1>2, <1>3, PagesShift

LEMMA KnownImage ==
    ASSUME LInv
    PROVE  /\ image \in Images /\ image.segs \in Seq(Segment)
           /\ image.interp # <<>> => /\ image.interp[1].segs \in Seq(Segment)
                                     /\ image.interp[1].kind \in {"EXEC", "DYN"}
           /\ cfg.stack_size \in Nat /\ cfg.heap_size \in Nat
<1>1. image \in Images /\ cfg \in LayoutConfig  BY SpaceAssumption DEF LInv, Typed
<1>2. cfg.stack_size \in Nat /\ cfg.heap_size \in Nat  BY <1>1 DEF LayoutConfig
<1> QED  BY <1>1, <1>2, ImageAssumption DEF IsImage

LEMMA InterpFits ==
    ASSUME LInv, SoundLoad, image.kind # "Raw", image.interp # <<>>,
           NEW b \in PagesOfImage(image.interp[1], 0), NEW a \in PagesOfImage(image, 0)
    PROVE  /\ a \in Nat /\ b \in Nat
           /\ a + 1 + (Gap + PageSize + b + 1) + 7 * PageSize + cfg.stack_size + cfg.heap_size
                <= Space
<1>1. Gap + PageSize + b + 1 \in ForInterp(image)  BY DEF ForInterp
<1>2. a \in Nat /\ b \in Nat  BY KnownImage, PagesAreNat
<1> QED  BY <1>1, <1>2 DEF SoundLoad, Fits

LEMMA MainFits ==
    ASSUME LInv, SoundLoad, image.kind # "Raw", NEW a \in PagesOfImage(image, 0)
    PROVE  a \in Nat /\ a + 1 + 7 * PageSize + cfg.stack_size + cfg.heap_size <= Space
<1>1. /\ a \in Nat /\ PageSize \in Nat /\ Gap \in Nat /\ Space \in Nat
      /\ cfg.stack_size \in Nat /\ cfg.heap_size \in Nat
  BY KnownImage, PagesAreNat, SpaceAssumption
<1>2. CASE image.interp = <<>>
  <2>1. 0 \in ForInterp(image)  BY <1>2 DEF ForInterp
  <2>2. a + 1 + 0 + 7 * PageSize + cfg.stack_size + cfg.heap_size <= Space
    BY <2>1 DEF SoundLoad, Fits
  <2> QED  BY <1>1, <2>2
<1>3. CASE image.interp # <<>>
  <2>1. image.interp[1].kind # "Raw"  BY <1>3, KnownImage
  <2>2. PICK b : b \in PagesOfImage(image.interp[1], 0)
    BY <1>3, <2>1 DEF SoundLoad, SoundImage
  <2>3. /\ b \in Nat
        /\ a + 1 + (Gap + PageSize + b + 1) + 7 * PageSize + cfg.stack_size + cfg.heap_size
             <= Space
    BY <1>3, <2>2, InterpFits
  <2> QED  BY <1>1, <2>3
<1> QED  BY <1>2, <1>3

\* The file that is being mapped.
LEMMA SoundFile ==
    ASSUME LInv, LoopGoesOn, SoundLoad, at = "map", image.kind # "Raw"
    PROVE  /\ file.segs \in Seq(Segment) /\ PageDisjoint(file) /\ file.headers
           /\ PagesOfImage(file, 0) # {} /\ bias \in Nat
           /\ which = "main" => file = image /\ bias = 0
           /\ which = "ld.so" => /\ file = image.interp[1] /\ image.interp # <<>>
                                 /\ image.interp[1].kind \in {"EXEC", "DYN"}
           /\ which \in {"main", "ld.so"}
<1>1. which \in {"main", "ld.so"} /\ (which = "main" => bias = 0)
      /\ (which = "ld.so" => image.interp # <<>>)
  BY DEF LoopGoesOn
<1>2. file.segs \in Seq(Segment) /\ bias \in Nat  BY FileFacts DEF LInv, Typed
<1>3. which = "ld.so" => image.interp[1].kind \in {"EXEC", "DYN"}  BY <1>1, KnownImage
<1>4. CASE which = "main"
  <2>1. file = image  BY <1>4 DEF file
  <2>2. PageDisjoint(file) /\ file.headers /\ PagesOfImage(file, 0) # {}
    BY <2>1 DEF SoundLoad, SoundImage
  <2> QED  BY <1>1, <1>2, <1>4, <2>1, <2>2
<1>5. CASE which = "ld.so"
  <2>1. file = image.interp[1]  BY <1>5 DEF file
  <2>2. PageDisjoint(file) /\ file.headers /\ PagesOfImage(file, 0) # {}
    BY <1>1, <1>3, <1>5, <2>1 DEF SoundLoad, SoundImage
  <2> QED  BY <1>1, <1>2, <1>3, <1>5, <2>1, <2>2
<1> QED  BY <1>1, <1>4, <1>5

\* There is room above any page of the file that is being mapped.
LEMMA FileFits ==
    ASSUME LInv, LoopGoesOn, SoundLoad, at = "map", image.kind # "Raw", BiasAsAsked,
           NEW k \in 1..Len(file.segs), NEW a \in PagesOfSegment(file.segs[k], bias)
    PROVE  /\ a \in Nat /\ a - bias \in PagesOfImage(file, 0)
           /\ a + 1 + 7 * PageSize + cfg.stack_size + cfg.heap_size <= Space
<1>1. /\ file.segs \in Seq(Segment) /\ bias \in Nat
      /\ which = "main" => file = image /\ bias = 0
      /\ which = "ld.so" => /\ file = image.interp[1] /\ image.interp # <<>>
                            /\ image.interp[1].kind \in {"EXEC", "DYN"}
      /\ which \in {"main", "ld.so"}
  BY SoundFile
<1>2. file.segs[k] \in Segment /\ bias % PageSize = 0  BY <1>1 DEF BiasAsAsked
<1>3. a \in Nat /\ a - bias \in PagesOfSegment(file.segs[k], 0) /\ a - bias \in Nat
  BY <1>1, <1>2, PagesShift
<1>4. a - bias \in PagesOfImage(file, 0)  BY <1>3 DEF PagesOfImage
<1>5. CASE which = "main"
  <2>1. a \in PagesOfImage(image, 0)  BY <1>1, <1>3, <1>4, <1>5
  <2> QED  BY <1>4, <2>1, MainFits
<1>6. CASE which = "ld.so"
  <2>1. PICK c \in PagesOfImage(image, 0) : bias <= c + Gap + PageSize
    <3>1. CASE image.interp[1].kind = "EXEC"
      <4>1. bias = 0  BY <1>6, <3>1 DEF BiasAsAsked
      <4>2. PICK c : c \in PagesOfImage(image, 0)  BY DEF SoundLoad, SoundImage
      <4>3. c \in Nat  BY <4>2, MainFits
      <4> QED  BY <4>1, <4>2, <4>3, SpaceAssumption
    <3>2. CASE image.interp[1].kind # "EXEC"  BY <1>6, <3>2 DEF BiasAsAsked
    <3> QED  BY <3>1, <3>2
  <2>2. c + 1 + (Gap + PageSize + (a - bias) + 1) + 7 * PageSize
            + cfg.stack_size + cfg.heap_size <= Space
        /\ c \in Nat
    BY <1>1, <1>4, <1>6, InterpFits
  <2>3. /\ PageSize \in Nat /\ Gap \in Nat /\ Space \in Nat
        /\ cfg.stack_size \in Nat /\ cfg.heap_size \in Nat
    BY KnownImage, SpaceAssumption
  <2>4. bias \in Nat /\ a \in Nat  BY <1>1, <1>3
  <2>5. a + 1 + 7 * PageSize + cfg.stack_size + cfg.heap_size <= Space
    <3> DEFINE ss == cfg.stack_size
               hs == cfg.heap_size
    <3>1. /\ ss \in Nat /\ hs \in Nat
          /\ c + 1 + (Gap + PageSize + (a - bias) + 1) + 7 * PageSize + ss + hs <= Space
      BY <2>2, <2>3
    <3> HIDE DEF ss, hs
    <3>2. bias <= c + Gap + PageSize /\ c \in Nat  BY <2>1, <2>2
    <3>3. a + 1 <= c + 1 + (Gap + PageSize + (a - bias) + 1)  BY ONLY <2>3, <2>4, <3>2
    <3> DEFINE x == c + 1 + (Gap + PageSize + (a - bias) + 1)
    <3>6. x \in Int /\ a + 1 <= x /\ x + 7 * PageSize + ss + hs <= Space
      BY <2>3, <2>4, <3>1, <3>2, <3>3
    <3> HIDE DEF x
    <3>7. a + 1 + 7 * PageSize + ss + hs <= Space
      BY ONLY <2>3, <2>4, <3>1, <3>6
    <3> QED  BY <3>7 DEF ss, hs
  <2> QED  BY <1>3, <1>4, <2>5
<1> QED  BY <1>1, <1>5, <1>6
\* The next segment's pages are where it says, and free.
LEMMA SegmentIsFree ==
    ASSUME LInv, LoopGoesOn, MapsAsAsked, SoundLoad, at = "map", image.kind # "Raw",
           NEW s \in Segment, s.memsz > 0, NEW k \in 1..Len(file.segs), s = file.segs[k],
           k = Len(file.segs) - Len(todo) + 1
    PROVE  LET v     == saturating_add(bias, s.vaddr)
               start == align_down(v)
               end   == align_up(saturating_add(v, s.memsz))
           IN  UcCanMap(start, end - start) /\ Span(start, end - start) = PagesOfSegment(s, bias)
<1> DEFINE first == align_down(bias + s.vaddr)
           past  == align_down(bias + s.vaddr + s.memsz + PageSize - 1)
<1>0. /\ PageSize \in Nat /\ PageSize >= 4 /\ Space \in Nat
      /\ cfg.stack_size \in Nat /\ cfg.heap_size \in Nat
  BY KnownImage, SpaceAssumption
<1>1. BiasAsAsked /\ bias \in Nat /\ bias % PageSize = 0
  BY SoundFile DEF MapsAsAsked, BiasAsAsked
<1>2. /\ PagesOfSegment(s, bias) = first..(past - 1)
      /\ first \in Nat /\ past \in Nat /\ first % PageSize = 0 /\ past % PageSize = 0
      /\ first <= bias + s.vaddr /\ bias + s.vaddr + s.memsz <= past
  <2>1. s.memsz > 0  OBVIOUS
  <2> QED  BY ONLY <1>1, <2>1, s \in Segment, SegmentPages
<1>3. s.vaddr \in Nat /\ s.memsz \in Nat  BY DEF Segment
<1> DEFINE w == bias + s.vaddr
           e == bias + s.vaddr + s.memsz
<1>3a. /\ w \in Nat /\ e \in Nat /\ w < e /\ first <= w /\ e <= past
  <2> HIDE DEF first, past
  <2>1. s.memsz > 0 /\ first <= bias + s.vaddr /\ bias + s.vaddr + s.memsz <= past
    BY <1>2
  <2> QED  BY ONLY <1>1, <1>3, <2>1
<1>4. past + 7 * PageSize <= Space
  <2>1. past - 1 \in PagesOfSegment(s, bias)
    <3> HIDE DEF first, past, w, e
    <3>1. past - 1 \in first..(past - 1)  BY ONLY <1>2, <1>3a
    <3> QED  BY <1>2, <3>1
  <2> HIDE DEF past
  <2>2. (past - 1) + 1 + 7 * PageSize + cfg.stack_size + cfg.heap_size <= Space
    BY <1>1, <2>1, FileFits
  <2>3. past \in Int  BY <1>2
  <2> QED  BY ONLY <1>0, <2>2, <2>3
<1>5. /\ bias + s.vaddr < Space /\ bias + s.vaddr + s.memsz < Space
      /\ bias + s.vaddr + s.memsz + PageSize <= Space
  <2>1. w < Space /\ e < Space /\ e + PageSize <= Space
    <3> HIDE DEF first, past, w, e
    <3> QED  BY ONLY <1>0, <1>2, <1>3a, <1>4
  <2> QED  BY <2>1
<1>6. saturating_add(bias, s.vaddr) = bias + s.vaddr  BY <1>5 DEF saturating_add
<1>7. saturating_add(bias + s.vaddr, s.memsz) = bias + s.vaddr + s.memsz
  BY <1>5 DEF saturating_add
<1>8. align_up(bias + s.vaddr + s.memsz) = past
  <2>1. e \in Nat /\ e + PageSize <= Space  BY <1>3a, <1>5
  <2> QED  BY <2>1, AlignUpFits
<1> HIDE DEF first, past
<1>9. UcCanMap(first, past - first) /\ Span(first, past - first) = PagesOfSegment(s, bias)
  <2>1. Span(first, past - first) = PagesOfSegment(s, bias)  BY <1>2 DEF Span
  <2>2. first \in Address /\ past - first \in 1..(Space - first)
    <3> HIDE DEF w, e
    <3> QED  BY ONLY <1>0, <1>2, <1>3a, <1>4 DEF Address
  <2>3. (past - first) % PageSize = 0
    <3> DEFINE x == past \div PageSize
               y == first \div PageSize
    <3>1. /\ past = PageSize * x + (past % PageSize) /\ x \in Int
          /\ first = PageSize * y + (first % PageSize) /\ y \in Int
      BY <1>0, <1>2, DivMod
    <3> HIDE DEF x, y
    <3>2. past - first = PageSize * (x - y) + 0 /\ x - y \in Int  BY <1>0, <1>2, <3>1
    <3>3. (PageSize * (x - y) + 0) % PageSize = 0
      <4>1. 0 \in 0..(PageSize - 1) /\ PageSize > 0  BY <1>0
      <4> QED  BY <1>0, <3>2, <4>1, ModUnique
    <3> QED  BY <3>2, <3>3
  <2>4. PagesOfSegment(s, bias) \cap mapped = {}
    <3> SUFFICES ASSUME NEW a \in mapped, a \in PagesOfSegment(s, bias) PROVE FALSE  OBVIOUS
    <3>1. a \in Nat /\ a - bias \in PagesOfSegment(s, 0)  BY <1>1, PagesShift
    <3>2. CASE OfMain(a)
      <4>1. a >= bias  BY <1>1, <3>1, PagesShift
      <4>2. image.interp[1].kind = "EXEC"  BY <1>1, <3>1, <3>2, <4>1 DEF OfMain
      <4>3. bias = 0 /\ file = image.interp[1] /\ image.interp # <<>>
        BY <1>1, <3>2, <4>2, SoundFile DEF OfMain, BiasAsAsked
      <4>4. a \in PagesOfImage(image.interp[1], 0)  BY <3>1, <4>3 DEF PagesOfImage
      <4>5. a \in PagesOfImage(image, 0)  BY <3>2 DEF OfMain
      <4> QED  BY <4>2, <4>3, <4>4, <4>5 DEF SoundLoad
    <3>3. CASE OfFirst(Len(file.segs) - Len(todo), a)
      <4>1. PICK j \in 1..(Len(file.segs) - Len(todo)) : a \in PagesOfSegment(file.segs[j], bias)
        BY <3>3 DEF OfFirst
      <4>2. Len(file.segs) \in Nat /\ Len(todo) \in Nat
        BY SoundFile DEF LInv, Typed
      <4>3. j \in 1..Len(file.segs) /\ j # k  BY <4>1, <4>2
      <4>4. file.segs[j] \in Segment  BY <4>3, SoundFile
      <4>5. a - bias \in PagesOfSegment(file.segs[j], 0)  BY <1>1, <4>1, <4>4, PagesShift
      <4> QED  BY <3>1, <4>3, <4>5, SoundFile DEF PageDisjoint
    <3> QED  BY <3>2, <3>3 DEF MapsAsAsked
  <2> QED  BY <1>2, <2>1, <2>2, <2>3, <2>4 DEF UcCanMap
<1> QED  BY <1>6, <1>7, <1>8, <1>9 DEF first

LEMMA SoundLoadStays ==
    ASSUME UNCHANGED <<image, cfg>>
    PROVE  SoundLoad' = SoundLoad
BY DEF SoundLoad, Fits, ForInterp

\* A segment of a sound image is mapped.
LEMMA AskedMapSegment ==
    ASSUME LInv, LoopGoesOn, MapsAsAsked, SoundLoad, MapSegment
    PROVE  at' = "map" /\ MapsAsAsked'
<1> DEFINE s     == todo[1]
           v     == saturating_add(bias, s.vaddr)
           start == align_down(v)
           end   == align_up(saturating_add(v, s.memsz))
           more  == Chunks(start, end)
           done  == Len(file.segs) - Len(todo)
<1>1. at = "map" /\ image.kind # "Raw" /\ todo # <<>> /\ todo' = Tail(todo) /\ map_segment(s)
  BY DEF MapSegment
<1>2. /\ s \in Segment /\ UNCHANGED <<image, cfg, which, bias, place, sp, user>>
      /\ \/ UNCHANGED <<at, code, regions, mapped, data>> /\ s.memsz = 0
         \/ at' = "failed"
         \/ /\ at' = at /\ s.memsz > 0 /\ start < end
            /\ start \in Int /\ end \in Int
            /\ Covered(more) = Span(start, end - start)
            /\ mapped' = mapped \cup Covered(more)
            /\ code'.exit = Max({code.exit, end})
  BY SegmentIsMapped
<1>3. /\ Len(todo) \in Nat /\ Len(todo) >= 1 /\ Len(file.segs) \in Nat
      /\ Len(todo) <= Len(file.segs) /\ todo[1] = file.segs[Len(file.segs) - Len(todo) + 1]
      /\ Len(todo') = Len(todo) - 1
  <2>1. todo \in Seq(Segment) /\ file.segs \in Seq(Segment)  BY <1>1, SoundFile DEF LInv, Typed
  <2>2. Len(todo) \in Nat /\ Len(todo) >= 1 /\ Len(file.segs) \in Nat  BY <1>1, <2>1
  <2>3. 1 \in 1..Len(todo)  BY <2>2
  <2> QED  BY <1>1, <2>1, <2>2, <2>3 DEF LoopGoesOn
<1>4. done + 1 \in 1..Len(file.segs) /\ done \in Nat  BY <1>3
<1>5. file' = file  BY <1>2 DEF file
<1>6. Len(file'.segs) - Len(todo') = done + 1  BY <1>3, <1>5
<1>7. s.memsz > 0 => /\ UcCanMap(start, end - start)
                     /\ Span(start, end - start) = PagesOfSegment(s, bias)
  BY <1>1, <1>2, <1>3, <1>4, SegmentIsFree
<1>8. at' = "map"
  <2>1. s.memsz \in Nat  BY <1>2 DEF Segment
  <2> HIDE DEF start, end, v
  <2>2. CASE s.memsz = 0
    <3>1. at' = at  BY <1>1, <2>1, <2>2 DEF map_segment
    <3> QED  BY <1>1, <3>1
  <2>3. CASE s.memsz > 0
    <3>1. UcCanMap(start, end - start)  BY <1>7, <2>3
    <3> QED  BY <1>1, <2>3, <3>1 DEF map_segment, start, end, v
  <2> QED  BY <2>1, <2>2, <2>3
<1>9. SoundLoad'  BY <1>2, SoundLoadStays
<1>10. BiasAsAsked'  BY <1>1, <1>2 DEF MapsAsAsked, BiasAsAsked
<1>11. \A a : OfMain(a) => OfMain(a)'  BY <1>2 DEF OfMain
<1>12. ASSUME NEW n \in Nat, NEW a, OfFirst(n, a) PROVE OfFirst(n + 1, a)'
  <2>1. PICK k \in 1..n : a \in PagesOfSegment(file.segs[k], bias)  BY <1>12 DEF OfFirst
  <2>2. k \in 1..(n + 1)  OBVIOUS
  <2>3. a \in PagesOfSegment(file.segs[k], bias)'  BY <1>2, <1>5, <2>1 DEF PagesOfSegment
  <2> QED  BY <2>2, <2>3 DEF OfFirst
<1>13. PICK n \in Nat : n = done  BY <1>4
<1>14. /\ code'.exit = 0 \/ code'.exit - 1 \in mapped'
       /\ \A a \in mapped' : OfMain(a)' \/ OfFirst(n + 1, a)'
  <2> HIDE DEF start, end, v, more, done
  <2>1. /\ code.exit = 0 \/ code.exit - 1 \in mapped
        /\ \A a \in mapped : OfMain(a) \/ OfFirst(n, a)
    BY <1>1, <1>13 DEF MapsAsAsked, done
  <2>2. CASE UNCHANGED <<code, mapped>>  BY <1>11, <1>12, <2>1, <2>2
  <2>3. CASE ~ UNCHANGED <<code, mapped>>
    <3>1. /\ s.memsz > 0 /\ start < end /\ start \in Int /\ end \in Int
          /\ mapped' = mapped \cup Span(start, end - start)
          /\ code'.exit = Max({code.exit, end})
      BY <1>2, <1>8, <2>3
    <3>2. Span(start, end - start) = PagesOfSegment(s, bias)  BY <1>7, <3>1
    <3>3. ASSUME NEW a \in Span(start, end - start) PROVE OfFirst(n + 1, a)'
      <4>1. s = file.segs[n + 1]  BY <1>3, <1>13 DEF done
      <4>2. n + 1 \in 1..(n + 1)  OBVIOUS
      <4>3. PICK k : k = n + 1  OBVIOUS
      <4>4. a \in PagesOfSegment(file.segs[k], bias)  BY <3>2, <4>1, <4>3
      <4>5. a \in PagesOfSegment(file.segs[k], bias)'  BY <1>2, <1>5, <4>4 DEF PagesOfSegment
      <4> QED  BY <4>2, <4>3, <4>5 DEF OfFirst
    <3>4. code'.exit \in {code.exit, end}
      <4>1. code.exit \in Int  BY DEF LInv, Typed
      <4> QED  BY <3>1, <4>1, MaxOfTwo
    <3>5. end - 1 \in Span(start, end - start)  BY <3>1 DEF Span
    <3> QED  BY <1>11, <1>12, <2>1, <3>1, <3>3, <3>4, <3>5
  <2> QED  BY <2>2, <2>3
<1> HIDE DEF start, end, v, more, done, s
<1>15. ASSUME NEW a, OfFirst(n + 1, a)' PROVE OfFirst(Len(file.segs) - Len(todo), a)'
  <2>1. Len(file'.segs) - Len(todo') = n + 1  BY <1>6, <1>13
  <2> QED  BY <1>15, <2>1 DEF OfFirst
<1> QED  BY <1>8, <1>10, <1>14, <1>15 DEF MapsAsAsked
\* What is mapped once every segment of the main image is.
LEMMA MainIsMapped ==
    ASSUME LInv, LoopGoesOn, MapsAsAsked, SoundLoad, at = "map", image.kind # "Raw",
           todo = <<>>, which = "main", NEW a \in mapped
    PROVE  a \in PagesOfImage(image, 0)
<1>1. file = image /\ bias = 0 /\ image.segs \in Seq(Segment)  BY SoundFile
<1>2. Len(file.segs) - Len(todo) = Len(image.segs)  BY <1>1
<1>3. OfFirst(Len(image.segs), a)  BY <1>2 DEF MapsAsAsked, OfMain
<1> QED  BY <1>1, <1>3 DEF OfFirst, PagesOfImage

LEMMA AskedStartInterp ==
    ASSUME LInv, LoopGoesOn, MapsAsAsked, SoundLoad, StartInterp
    PROVE  MapsAsAsked'
<1>1. /\ at = "map" /\ todo = <<>> /\ which = "main" /\ image.interp # <<>>
      /\ which' = "ld.so" /\ todo' = image.interp[1].segs
      /\ UNCHANGED <<at, image, cfg, code, mapped>>
  BY DEF StartInterp, asked, machine
<1>2. image.kind # "Raw"  BY OnlyElfHasInterp
<1>3. PICK r \in regions : IsHighest(r) /\ bias' = IF image.interp[1].kind = "DYN"
                                   THEN choose_shared_object_base(r) ELSE 0
  BY DEF StartInterp
<1> DEFINE t == r.start + r.size
<1>4. \A q \in regions : /\ q.start \in Nat /\ q.size \in Nat /\ q.size > 0
                         /\ q.start + q.size <= t
  BY <1>3 DEF LInv, Tabled, IsHighest
<1>5. t \in Nat /\ t >= 1  BY <1>4
<1>6. ASSUME NEW a \in mapped PROVE a < t /\ a \in PagesOfImage(image, 0)
  <2>1. PICK q \in regions : a \in Extent(q)
    BY DEF LInv, Tabled, TableIsMemory, Covered
  <2>2. a < q.start + q.size /\ a \in Int  BY <1>4, <2>1 DEF Extent, Span
  <2>3. q.start + q.size <= t /\ q.start + q.size \in Int  BY <1>4
  <2>4. a \in PagesOfImage(image, 0)  BY <1>1, <1>2, MainIsMapped
  <2> HIDE DEF t
  <2> QED  BY <1>5, <2>2, <2>3, <2>4
<1>7. t - 1 \in PagesOfImage(image, 0)
  <2>1. t - 1 \in Extent(r)  BY <1>4 DEF Extent, Span
  <2>2. t - 1 \in mapped  BY <2>1 DEF LInv, Tabled, TableIsMemory, Covered
  <2> HIDE DEF t
  <2> QED  BY <1>6, <2>2
<1>8. image.interp[1].kind \in {"EXEC", "DYN"} /\ image.interp[1].segs \in Seq(Segment)
  BY <1>1, KnownImage
<1>9. CASE image.interp[1].kind = "EXEC"
  <2>1. bias' = 0  BY <1>3, <1>9
  <2>2. 0 % PageSize = 0  BY SpaceAssumption
  <2>3. BiasAsAsked'  BY <1>1, <1>9, <2>1, <2>2 DEF BiasAsAsked
  <2>4. \A a \in mapped' : OfMain(a)'  BY <1>1, <1>6, <1>9 DEF OfMain
  <2> QED  BY <1>1, <1>2, <2>3, <2>4 DEF MapsAsAsked
<1>10. CASE image.interp[1].kind = "DYN"
  <2> HIDE DEF t
  <2>1. bias' = align_up(saturating_add(t, Gap))
    BY <1>3, <1>10 DEF choose_shared_object_base, t
  <2>2. /\ PageSize \in Nat /\ PageSize >= 4 /\ Gap \in Nat /\ Space \in Nat
        /\ cfg.stack_size \in Nat /\ cfg.heap_size \in Nat
    BY KnownImage, SpaceAssumption
  <2>3. PICK b : b \in PagesOfImage(image.interp[1], 0)
    BY <1>1, <1>8 DEF SoundLoad, SoundImage
  <2>4. t + Gap + PageSize <= Space /\ t + Gap < Space
    <3>1. /\ (t - 1) + 1 + (Gap + PageSize + b + 1) + 7 * PageSize
                 + cfg.stack_size + cfg.heap_size <= Space
          /\ b \in Nat
      BY <1>1, <1>2, <1>7, <2>3, InterpFits
    <3> QED  BY ONLY <1>5, <2>2, <3>1
  <2>5. bias' = align_up(t + Gap)  BY <2>1, <2>4 DEF saturating_add
  <2>6. t + Gap \in Nat /\ (t + Gap) + PageSize <= Space  BY <1>5, <2>2, <2>4
  <2>7. /\ bias' \in Nat /\ bias' % PageSize = 0
        /\ t + Gap <= bias' /\ bias' < (t + Gap) + PageSize
    BY <2>5, <2>6, AlignUpMod, AlignUpFits
  <2>8. bias' <= (t - 1) + Gap + PageSize  BY <1>5, <2>2, <2>7
  <2>9. BiasAsAsked'
    <3>1. \E a \in PagesOfImage(image', 0) : bias' <= a + Gap + PageSize
      BY <1>1, <1>7, <2>8
    <3> QED  BY <1>1, <1>10, <2>7, <3>1 DEF BiasAsAsked
  <2>10. \A a \in mapped' : OfMain(a)'
    <3> TAKE a \in mapped'
    <3>1. a \in mapped  BY <1>1
    <3>2. a < t /\ a \in PagesOfImage(image, 0) /\ a \in Int
      BY <1>6, <3>1, SpaceAssumption DEF LInv, Tabled, Address
    <3>3. a < bias'  BY <1>5, <2>2, <2>7, <3>2
    <3> QED  BY <1>1, <3>2, <3>3 DEF OfMain
  <2> QED  BY <1>1, <1>2, <2>9, <2>10 DEF MapsAsAsked
<1> QED  BY <1>8, <1>9, <1>10

\* The images are loaded, and there is room.
LEMMA AskedLoopEnds ==
    ASSUME DInv, MapsAsAsked, SoundLoad, at = "map", image.kind # "Raw", todo = <<>>
    PROVE  Roomy
<1>0. LInv /\ LoopGoesOn /\ BiasAsAsked  BY DEF DInv, KInv, MapsAsAsked
<1>1. /\ file.segs \in Seq(Segment) /\ bias \in Nat /\ PagesOfImage(file, 0) # {}
      /\ which = "main" => file = image
      /\ which = "ld.so" => file = image.interp[1]
      /\ which \in {"main", "ld.so"}
  BY <1>0, SoundFile
<1>2. Len(file.segs) - Len(todo) = Len(file.segs) /\ Len(file.segs) \in Nat  BY <1>1
<1>3. code.exit \in Int  BY <1>0 DEF LInv, Typed
<1>4. code.exit > 0
  <2>1. PICK k \in 1..Len(file.segs) : file.segs[k].memsz # 0
    BY <1>1 DEF PagesOfImage, PagesOfSegment
  <2>2. Reads(file, which, Len(file.segs))
    BY <1>1, <1>2 DEF DInv, LoadedSoFar
  <2>3. file.segs[k] \in Segment  BY <1>1
  <2>4. 0 \in 0..(file.segs[k].memsz - 1) /\ file.segs[k].vaddr \in Nat
    BY <2>1, <2>3 DEF Segment
  <2>5. Biased(which) \in Nat  BY <1>1 DEF Biased
  <2>6. Below(Biased(which) + file.segs[k].vaddr + 0)  BY <2>2, <2>4 DEF Reads
  <2>7. Biased(which) + file.segs[k].vaddr + 0 < code.exit  BY <2>6 DEF Below
  <2> QED  BY <1>3, <2>4, <2>5, <2>7
<1>5. code.exit - 1 \in mapped  BY <1>4 DEF MapsAsAsked
<1>6. (code.exit - 1) + 1 + 7 * PageSize + cfg.stack_size + cfg.heap_size <= Space
  <2>1. CASE OfMain(code.exit - 1)  BY <1>0, <2>1, MainFits DEF OfMain
  <2>2. CASE OfFirst(Len(file.segs), code.exit - 1)
    BY <1>0, <2>2, FileFits DEF OfFirst
  <2> QED  BY <1>2, <1>5, <2>1, <2>2 DEF MapsAsAsked
<1>7. (code.exit - 1) + 1 = code.exit  BY <1>3
<1> QED  BY <1>4, <1>6, <1>7 DEF Roomy

\* Raw code is mapped.
LEMMA AskedMapCode ==
    ASSUME KInv, SoundLoad, MapCode
    PROVE  at' = "stack" /\ Roomy'
<1> DEFINE s == Head(image.segs)
<1>0. LInv  BY DEF KInv
<1>1. image.kind = "Raw" /\ at = "map"  BY DEF MapCode
<1>2. s = image.segs[1] /\ s \in Segment /\ Len(image.segs) = 1 /\ image.interp = <<>>
  <2>1. IsImage(image) /\ image.segs \in Seq(Segment)
    BY <1>0, KnownImage, ImageAssumption
  <2> QED  BY <1>1, <2>1 DEF IsImage
<1>3. /\ s.filesz \in 1..s.memsz /\ s.vaddr % PageSize = 0 /\ s.memsz % PageSize = 0
  BY <1>1 DEF SoundLoad, SoundImage
<1> HIDE DEF s
<1>4. s.vaddr \in Nat /\ s.memsz \in Nat /\ s.memsz > 0  BY <1>2, <1>3 DEF Segment
<1>5. /\ PageSize \in Nat /\ PageSize >= 4 /\ Space \in Nat
      /\ cfg.stack_size \in Nat /\ cfg.heap_size \in Nat
  BY <1>0, KnownImage, SpaceAssumption
<1> DEFINE e == s.vaddr + s.memsz
<1>6. e - 1 \in PagesOfImage(image, 0)
  <2> DEFINE first == align_down(0 + s.vaddr)
             past  == align_down(0 + s.vaddr + s.memsz + PageSize - 1)
  <2>1. 0 \in Nat /\ 0 % PageSize = 0  BY SpaceAssumption
  <2>2. /\ PagesOfSegment(s, 0) = first..(past - 1)
        /\ first \in Nat /\ past \in Nat
        /\ first <= 0 + s.vaddr /\ 0 + s.vaddr + s.memsz <= past
    BY <1>2, <1>4, <2>1, SegmentPages
  <2> HIDE DEF first, past
  <2>3. e - 1 \in PagesOfSegment(s, 0)  BY <1>4, <2>2
  <2>4. 1 \in 1..Len(image.segs)  BY <1>2
  <2> QED  BY <1>2, <2>3, <2>4 DEF PagesOfImage
<1>7. e + 7 * PageSize + cfg.stack_size + cfg.heap_size <= Space
  <2>1. 0 \in ForInterp(image)  BY <1>2 DEF ForInterp
  <2>2. (e - 1) + 1 + 0 + 7 * PageSize + cfg.stack_size + cfg.heap_size <= Space
    BY <1>6, <2>1 DEF SoundLoad, Fits
  <2> QED  BY <1>4, <1>5, <2>2
<1>8. e < Space  BY <1>4, <1>5, <1>7
<1>9. UcCanMap(s.vaddr, s.memsz)
  <2>1. mapped = {}
    <3>1. regions = {}  BY <1>1 DEF KInv, RegionsAreKnown
    <3> QED  BY <1>0, <3>1 DEF LInv, Tabled, TableIsMemory, Covered
  <2>2. s.vaddr \in Address /\ s.memsz \in 1..(Space - s.vaddr)
    BY <1>4, <1>5, <1>8 DEF Address
  <2> QED  BY <1>3, <2>1, <2>2 DEF UcCanMap
<1>10. ~(s.filesz = 0 \/ s.filesz > s.memsz)  BY <1>3, <1>4
<1>11. at' = "stack" /\ code' = [start |-> s.vaddr, exit |-> Plus(s.vaddr, s.memsz)] /\ cfg' = cfg
  BY <1>9, <1>10 DEF MapCode, asked, s
<1>12. Plus(s.vaddr, s.memsz) = e
  <2>1. e \in 0..(Space - 1)  BY <1>4, <1>5, <1>8
  <2>2. \A n \in 0..(Space - 1) : n % Space = n  BY <1>5
  <2> QED  BY <2>1, <2>2 DEF Plus
<1>13. code'.exit = e /\ e > 0  BY <1>4, <1>11, <1>12
<1> QED  BY <1>7, <1>11, <1>13 DEF Roomy
LEMMA AboveMod ==
    ASSUME NEW a \in Nat
    PROVE  Above(a) \in Nat /\ Above(a) % PageSize = 0
<1>1. Plus(a, PageSize) \in Nat  BY SpaceAssumption DEF Plus
<1> QED  BY <1>1, AlignUpMod DEF Above

LEMMA PageAbove ==
    ASSUME NEW a \in Nat, a % PageSize = 0
    PROVE  (a + PageSize) % PageSize = 0
<1>1. PageSize \in Nat /\ PageSize > 0  BY SpaceAssumption
<1>2. PageSize % PageSize = 0
  <2>1. PageSize = PageSize * 1 + 0 /\ 0 \in 0..(PageSize - 1)  BY <1>1
  <2> QED  BY <1>1, <2>1, ModUnique
<1> QED  BY <1>1, <1>2, ModPlus

\* What is above a page boundary leaves one page and no more.
LEMMA AboveAligned ==
    ASSUME NEW a \in Nat, a % PageSize = 0, a + 2 * PageSize <= Space
    PROVE  Above(a) = a + PageSize
<1>1. PageSize \in Nat /\ PageSize > 0  BY SpaceAssumption
<1>2. a + PageSize <= Above(a) /\ Above(a) < a + 2 * PageSize  BY AboveLeavesAPage
<1>3. Above(a) \in Nat /\ Above(a) % PageSize = 0  BY AboveMod
<1>4. a + PageSize \in Nat /\ (a + PageSize) % PageSize = 0  BY <1>1, PageAbove
<1>5. a + PageSize < Above(a) => (a + PageSize) + PageSize <= Above(a)
  BY <1>1, <1>3, <1>4, NextMultiple
<1> QED  BY <1>1, <1>2, <1>3, <1>5

\* A range of pages that begins on a page boundary, below the end of the space
\* and where nothing is mapped.
LEMMA FreePages ==
    ASSUME NEW a \in Nat, NEW n \in Nat, a % PageSize = 0, n % PageSize = 0, n > 0,
           a + n <= Space, \A x \in mapped : x \notin Span(a, n)
    PROVE  UcCanMap(a, n)
<1>1. a \in Address /\ n \in 1..(Space - a)  BY SpaceAssumption DEF Address
<1> QED  BY <1>1 DEF UcCanMap

\* Where the places are, to the page.
LEMMA PlacesAreLow ==
    ASSUME KInv, Roomy, at \in Placing, SoundLoad
    PROVE  /\ place.tls \in Nat /\ place.tls % PageSize = 0
           /\ place.tls < code.exit + 2 * PageSize
           /\ place.stack = place.tls + 2 * PageSize
           /\ stack_exit \in Nat /\ stack_exit % PageSize = 0
           /\ Above(stack_exit) = stack_exit + PageSize
<1>1. /\ Space \in Nat /\ PageSize \in Nat /\ PageSize >= 4
      /\ cfg.stack_size \in Nat /\ cfg.heap_size \in Nat
  BY KnownImage, SpaceAssumption DEF KInv
<1>2. /\ code.exit \in Nat /\ code.exit > 0 /\ place.tls \in Nat
      /\ stack_exit = place.stack + cfg.stack_size
  BY PlacesInOrder
<1>3. code.exit + 7 * PageSize + cfg.stack_size + cfg.heap_size <= Space  BY DEF Roomy
<1>4. place.tls = Above(code.exit) /\ place.stack = Above(Plus(place.tls, PageSize))
  BY DEF KInv, PlacesFollow
<1>5. place.tls % PageSize = 0 /\ place.tls < code.exit + 2 * PageSize
  <2>1. code.exit + 2 * PageSize <= Space  BY <1>1, <1>2, <1>3
  <2> QED  BY <1>2, <1>4, <2>1, AboveMod, AboveLeavesAPage
<1> DEFINE t == place.tls + PageSize
<1>6. t \in Nat /\ t % PageSize = 0 /\ t + 2 * PageSize <= Space /\ t < Space
  <2>1. (place.tls + PageSize) % PageSize = 0  BY <1>2, <1>5, PageAbove
  <2>2. t \in Nat /\ t + 2 * PageSize <= Space /\ t < Space
    BY <1>1, <1>2, <1>3, <1>5
  <2> QED  BY <2>1, <2>2
<1>7. Plus(place.tls, PageSize) = t
  <2>1. \A n \in 0..(Space - 1) : n % Space = n  BY <1>1
  <2>2. t \in 0..(Space - 1)  BY <1>1, <1>6
  <2> QED  BY <2>1, <2>2 DEF Plus
<1>8. place.stack = place.tls + 2 * PageSize
  <2>1. place.stack = t + PageSize  BY <1>4, <1>6, <1>7, AboveAligned
  <2> QED  BY <1>1, <1>2, <2>1
<1>9. stack_exit \in Nat /\ stack_exit % PageSize = 0
  <2>1. (t + PageSize) % PageSize = 0 /\ t + PageSize \in Nat  BY <1>1, <1>6, PageAbove
  <2>2. place.stack = t + PageSize  BY <1>1, <1>2, <1>8
  <2>3. cfg.stack_size % PageSize = 0  BY DEF SoundLoad
  <2> HIDE DEF t
  <2>4. PageSize > 0  BY <1>1
  <2>5. (cfg.stack_size + (t + PageSize)) % PageSize = 0  BY <1>1, <2>1, <2>3, <2>4, ModPlus
  <2>6. stack_exit = cfg.stack_size + (t + PageSize)  BY <1>1, <1>2, <2>1, <2>2
  <2> QED  BY <1>1, <2>1, <2>5, <2>6
<1>10. stack_exit + 2 * PageSize <= Space
  <2> HIDE DEF t
  <2> QED  BY <1>1, <1>2, <1>3, <1>5, <1>8
<1>11. Above(stack_exit) = stack_exit + PageSize  BY <1>9, <1>10, AboveAligned
<1> QED  BY <1>2, <1>5, <1>8, <1>9, <1>11

LEMMA AskedMapStack ==
    ASSUME KInv, SoundLoad, Roomy, MapStack
    PROVE  at' = "heap"
<1> DEFINE tls   == Above(code.exit)
           stack == Above(Plus(tls, PageSize))
<1>0. /\ Space \in Nat /\ PageSize \in Nat /\ PageSize >= 4
      /\ cfg.stack_size \in Nat /\ cfg.heap_size \in Nat
  BY KnownImage, SpaceAssumption DEF KInv
<1>1. /\ code.exit \in Int /\ code.exit > 0
      /\ code.exit + 7 * PageSize + cfg.stack_size + cfg.heap_size <= Space
  BY DEF Roomy, KInv, LInv, Typed
<1>2. tls \in Nat /\ code.exit + PageSize <= tls /\ tls < code.exit + 2 * PageSize
  <2>1. code.exit \in Nat /\ code.exit + 2 * PageSize <= Space  BY <1>0, <1>1
  <2> QED  BY <2>1, AboveLeavesAPage
<1>3. Plus(tls, PageSize) = tls + PageSize
  <2> HIDE DEF tls
  <2>1. \A n \in 0..(Space - 1) : n % Space = n  BY <1>0
  <2>2. tls + PageSize \in 0..(Space - 1)  BY <1>0, <1>1, <1>2
  <2> QED  BY <2>1, <2>2 DEF Plus
<1>4. /\ stack \in Nat /\ stack % PageSize = 0 /\ tls + PageSize <= stack
      /\ stack < tls + 3 * PageSize
  <2> HIDE DEF tls
  <2>1. tls + PageSize \in Nat /\ (tls + PageSize) + 2 * PageSize <= Space
    BY <1>0, <1>1, <1>2
  <2> DEFINE x == Above(tls + PageSize)
  <2>2. /\ x \in Nat /\ x % PageSize = 0 /\ (tls + PageSize) + PageSize <= x
        /\ x < (tls + PageSize) + 2 * PageSize
    BY <2>1, AboveLeavesAPage, AboveMod
  <2>3. stack = x  BY <1>3
  <2> HIDE DEF x, stack
  <2> QED  BY <1>0, <1>2, <2>2, <2>3
<1> HIDE DEF tls, stack
<1>5. \A x \in mapped : x \notin Span(stack, cfg.stack_size)
  <2> TAKE x \in mapped
  <2>1. PICK r \in regions : x \in Extent(r)
    BY DEF KInv, LInv, Tabled, TableIsMemory, Covered
  <2>2. OfImage(r)  BY DEF MapStack, KInv, RegionsAreKnown
  <2>3. /\ r.start \in Int /\ r.size \in Int /\ x \in Int /\ x < r.start + r.size
    <3>1. r.start \in Int /\ r.size \in Int  BY DEF KInv, LInv, Tabled
    <3> QED  BY <2>1, <3>1 DEF Extent, Span
  <2>4. r.start + r.size - 1 < code.exit  BY <1>1, <2>2 DEF OfImage, Below
  <2> QED  BY <1>0, <1>1, <1>2, <1>4, <2>3, <2>4 DEF Span
<1>6. UcCanMap(stack, cfg.stack_size)
  <2>1. cfg.stack_size > 0 /\ cfg.stack_size % PageSize = 0  BY DEF SoundLoad
  <2>2. stack + cfg.stack_size <= Space  BY <1>0, <1>1, <1>2, <1>4
  <2> QED  BY <1>0, <1>4, <1>5, <2>1, <2>2, FreePages
<1> QED  BY <1>6 DEF MapStack, stack, tls

LEMMA AskedMapHeap ==
    ASSUME KInv, SoundLoad, Roomy, MapHeap
    PROVE  at' = "loaded" /\ LoadedRegions'
<1> DEFINE heap == Above(stack_exit)
<1>0. /\ Space \in Nat /\ PageSize \in Nat /\ PageSize >= 4
      /\ cfg.stack_size \in Nat /\ cfg.heap_size \in Nat
  BY KnownImage, SpaceAssumption DEF KInv
<1>1. at = "heap" /\ at \in Placing  BY DEF MapHeap, Placing
<1>2. /\ code.exit \in Nat /\ code.exit > 0 /\ place.stack \in Nat
      /\ code.exit + 7 * PageSize + cfg.stack_size + cfg.heap_size <= Space
      /\ code.exit + PageSize <= place.tls /\ place.tls + 2 * PageSize <= place.stack
      /\ stack_exit = place.stack + cfg.stack_size
  BY <1>1, PlacesInOrder DEF Roomy
<1>3. /\ place.tls \in Nat /\ place.tls < code.exit + 2 * PageSize
      /\ place.stack = place.tls + 2 * PageSize
      /\ stack_exit \in Nat /\ stack_exit % PageSize = 0
      /\ heap = stack_exit + PageSize
  BY <1>1, PlacesAreLow
<1>4. heap \in Nat /\ heap % PageSize = 0
  <2>1. (stack_exit + PageSize) % PageSize = 0  BY <1>3, PageAbove
  <2> QED  BY <1>0, <1>3, <2>1
<1> HIDE DEF heap
<1>5. \A x \in mapped : x \notin Span(heap, cfg.heap_size)
  <2> TAKE x \in mapped
  <2>1. PICK r \in regions : x \in Extent(r)
    BY DEF KInv, LInv, Tabled, TableIsMemory, Covered
  <2>2. OfImage(r) \/ OfStack(r)  BY <1>1 DEF KInv, RegionsAreKnown
  <2>3. /\ r.start \in Int /\ r.size \in Int /\ x \in Int /\ x < r.start + r.size
    <3>1. r.start \in Int /\ r.size \in Int  BY DEF KInv, LInv, Tabled
    <3> QED  BY <2>1, <3>1 DEF Extent, Span
  <2>4. r.start + r.size <= stack_exit
    <3>1. CASE OfImage(r)
      <4>1. r.start + r.size - 1 < code.exit  BY <1>2, <3>1 DEF OfImage, Below
      <4> QED  BY <1>0, <1>2, <1>3, <2>3, <4>1
    <3>2. CASE OfStack(r)  BY <1>2, <3>2 DEF OfStack
    <3> QED  BY <2>2, <3>1, <3>2
  <2> QED  BY <1>0, <1>3, <1>4, <2>3, <2>4 DEF Span
<1>6. UcCanMap(heap, cfg.heap_size)
  <2>1. cfg.heap_size > 0 /\ cfg.heap_size % PageSize = 0  BY DEF SoundLoad
  <2>2. heap + cfg.heap_size <= Space  BY <1>0, <1>2, <1>3
  <2> QED  BY <1>0, <1>4, <1>5, <2>1, <2>2, FreePages
<1>7. /\ at' = "loaded" /\ place' = [place EXCEPT !.heap = heap]
      /\ Map(heap, cfg.heap_size, <<"main", "heap">>)
      /\ UNCHANGED <<image, cfg, code>>
  BY <1>6 DEF MapHeap, asked, loading, heap
<1>8. place'.heap = heap /\ place'.stack = place.stack
  BY <1>7 DEF KInv, LInv, Typed
<1>9. \A r \in regions' : \/ OfImage(r)' \/ OfStack(r)'
                          \/ r.start = place'.heap /\ r.size = cfg'.heap_size
  <2> TAKE r \in regions'
  <2>1. CASE r \in regions /\ OfImage(r)  BY <1>7, <2>1, OfImageStays DEF KInv
  <2>2. CASE r \in regions /\ OfStack(r)  BY <1>7, <1>8, <2>2 DEF OfStack
  <2>3. CASE r \notin regions  BY <1>7, <1>8, <2>3, RegionIsAdded
  <2> QED  BY <1>1, <2>1, <2>2, <2>3 DEF KInv, RegionsAreKnown
<1> QED  BY <1>7, <1>9 DEF LoadedRegions
LEMMA AskedUserMaps ==
    ASSUME KInv, LoadedRegions, SoundLoad, NEW a \in UserPages, UserMaps(a)
    PROVE  at' = "loaded" /\ LoadedRegions' /\ UNCHANGED <<image, cfg, code>>
<1>1. /\ at = "loaded" /\ at' = "loaded" /\ user = {} /\ user' = Span(a, PageSize)
      /\ Map(a, PageSize, <<"main", "user">>) /\ UNCHANGED <<image, cfg, code, place>>
  BY DEF UserMaps, asked, loading
<1>2. \A r \in regions' : \/ OfImage(r)' \/ OfStack(r)' \/ OfUser(r)'
                          \/ r.start = place'.heap /\ r.size = cfg'.heap_size
  <2> TAKE r \in regions'
  <2>1. CASE r \in regions
    <3>1. OfImage(r) => OfImage(r)'  BY <1>1, <2>1, OfImageStays DEF KInv
    <3>2. OfStack(r) => OfStack(r)'  BY <1>1 DEF OfStack
    <3>3. OfUser(r) => OfUser(r)'  BY <1>1 DEF OfUser, Extent, Span
    <3>4. \/ OfImage(r) \/ OfStack(r) \/ OfUser(r)
          \/ r.start = place.heap /\ r.size = cfg.heap_size
      BY <1>1, <2>1 DEF LoadedRegions
    <3> QED  BY <1>1, <3>1, <3>2, <3>3, <3>4
  <2>2. CASE r \notin regions
    <3>1. Extent(r) = Span(a, PageSize) /\ r.info = <<"main", "user">>
      BY <1>1, <2>2, RegionIsAdded
    <3>2. r.info # MainHeap  BY <3>1 DEF MainHeap
    <3>3. Extent(r) \subseteq user'  BY <1>1, <3>1
    <3> QED  BY <3>2, <3>3 DEF OfUser, Extent, Span
  <2> QED  BY <2>1, <2>2
<1> QED  BY <1>1, <1>2 DEF LoadedRegions

\* The exit trap finds a page above everything.
LEMMA AskedExitTrap ==
    ASSUME KInv, LoadedRegions, SoundLoad, Roomy, ExitTrap,
           \A a \in user : a + 3 * PageSize <= Space
    PROVE  at' = "running"
<1>0. /\ Space \in Nat /\ PageSize \in Nat /\ PageSize >= 4
      /\ cfg.stack_size \in Nat /\ cfg.heap_size \in Nat
  BY KnownImage, SpaceAssumption DEF KInv
<1>1. /\ at = "loaded" /\ at \in Placing /\ at \in Placed
  BY DEF ExitTrap, Placing, Placed
<1>2. /\ code.exit \in Nat /\ code.exit > 0 /\ place.stack \in Nat
      /\ code.exit + 7 * PageSize + cfg.stack_size + cfg.heap_size <= Space
      /\ code.exit + PageSize <= place.tls
      /\ stack_exit = place.stack + cfg.stack_size
  BY <1>1, PlacesInOrder DEF Roomy
<1>3. /\ place.tls \in Nat /\ place.tls < code.exit + 2 * PageSize
      /\ place.stack = place.tls + 2 * PageSize
      /\ place.heap = stack_exit + PageSize
  BY <1>1, PlacesAreLow DEF KInv, PlacesFollow
<1>4. PICK r \in regions : IsHighest(r) /\ Trap(align_up(saturating_add(r.start + r.size, PageSize)))
  BY DEF ExitTrap
<1> DEFINE t    == r.start + r.size
           trap == align_up(saturating_add(t, PageSize))
<1>5. \A q \in regions : /\ q.start \in Nat /\ q.size \in Nat /\ q.size > 0
                         /\ q.start + q.size <= t
  BY <1>4 DEF KInv, LInv, Tabled, IsHighest
<1>6. t \in Nat /\ t >= 1 /\ t - 1 \in Extent(r)  BY <1>5 DEF Extent, Span
<1>7. t + 2 * PageSize <= Space
  <2>1. CASE OfImage(r)
    <3>1. t - 1 < code.exit
      <4>1. Below(t - 1)
        <5>1. r.start + r.size - 1 = t - 1  BY <1>5
        <5>2. PICK x : x = t - 1  OBVIOUS
        <5>3. Below(x)  BY ONLY <2>1, <5>1, <5>2 DEF OfImage
        <5> QED  BY ONLY <5>2, <5>3 DEF Below
      <4>2. code.exit # 0  BY <1>2
      <4> HIDE DEF t
      <4> QED  BY ONLY <4>1, <4>2 DEF Below
    <3> HIDE DEF t
    <3> QED  BY <1>0, <1>2, <1>6, <3>1
  <2>2. CASE OfStack(r)
    <3>1. t = stack_exit  BY <1>2, <2>2 DEF OfStack
    <3> HIDE DEF t
    <3> QED  BY <1>0, <1>2, <1>3, <1>6, <3>1
  <2>3. CASE OfUser(r)
    <3>1. (t - 1) + 3 * PageSize <= Space  BY <1>6, <2>3 DEF OfUser
    <3> HIDE DEF t
    <3> QED  BY <1>0, <1>6, <3>1
  <2>4. CASE r.start = place.heap /\ r.size = cfg.heap_size
    <3>1. t = place.heap + cfg.heap_size  BY <2>4
    <3> HIDE DEF t
    <3> QED  BY <1>0, <1>2, <1>3, <1>6, <3>1
  <2> QED  BY <1>1, <2>1, <2>2, <2>3, <2>4 DEF LoadedRegions
<1> HIDE DEF t
<1>8. saturating_add(t, PageSize) = t + PageSize
  <2>1. t + PageSize < Space  BY <1>0, <1>6, <1>7
  <2> QED  BY <2>1 DEF saturating_add
<1>9. /\ trap \in Nat /\ trap % PageSize = 0 /\ t + PageSize <= trap /\ trap < Space
  <2>1. t + PageSize \in Nat /\ (t + PageSize) + PageSize <= Space  BY <1>0, <1>6, <1>7
  <2> QED  BY <1>8, <2>1, AlignUpFits, AlignUpMod
<1> HIDE DEF trap
<1>10. trap + PageSize <= Space
  <2>1. Space % PageSize = 0 /\ PageSize > 0  BY SpaceAssumption
  <2> QED  BY <1>0, <1>9, <2>1, NextMultiple
<1>11. \A x \in mapped : x \notin Span(trap, PageSize)
  <2> TAKE x \in mapped
  <2>1. PICK q \in regions : x \in Extent(q)
    BY DEF KInv, LInv, Tabled, TableIsMemory, Covered
  <2>2. x < q.start + q.size /\ x \in Int /\ q.start + q.size \in Int /\ q.start + q.size <= t
    BY <1>5, <2>1 DEF Extent, Span
  <2>3. x < trap  BY <1>0, <1>6, <1>9, <2>2
  <2> QED  BY <1>0, <1>9, <2>2, <2>3 DEF Span
<1>12. PageSize % PageSize = 0
  <2>1. 0 \in Nat /\ 0 % PageSize = 0 /\ 0 + PageSize = PageSize  BY <1>0
  <2> QED  BY <2>1, PageAbove
<1>13. UcCanMap(trap, PageSize)
  <2>1. PageSize > 0  BY <1>0
  <2> QED  BY <1>0, <1>9, <1>10, <1>11, <1>12, <2>1, FreePages
<1> QED  BY <1>4, <1>13 DEF Trap, trap, t

\* [tls] finds its page free, unless the user took it.
LEMMA AskedMapTls ==
    ASSUME KInv, LoadedRegions, SoundLoad, Roomy, MapTls,
           Span(place.tls, PageSize) \cap user = {}
    PROVE  at' = "contents"
<1>0. /\ Space \in Nat /\ PageSize \in Nat /\ PageSize >= 4
      /\ cfg.stack_size \in Nat /\ cfg.heap_size \in Nat
  BY KnownImage, SpaceAssumption DEF KInv
<1>1. /\ at = "loaded" /\ at \in Placing /\ at \in Placed
  BY DEF MapTls, Placing, Placed
<1>2. /\ code.exit \in Nat /\ code.exit > 0
      /\ code.exit + 7 * PageSize + cfg.stack_size + cfg.heap_size <= Space
      /\ code.exit + PageSize <= place.tls
      /\ stack_exit = place.stack + cfg.stack_size
  BY <1>1, PlacesInOrder DEF Roomy
<1>3. /\ place.tls \in Nat /\ place.tls % PageSize = 0
      /\ place.tls < code.exit + 2 * PageSize
      /\ place.stack = place.tls + 2 * PageSize
      /\ place.heap = stack_exit + PageSize
  BY <1>1, PlacesAreLow DEF KInv, PlacesFollow
<1>4. \A x \in mapped : x \notin Span(place.tls, PageSize)
  <2> SUFFICES ASSUME NEW x \in mapped, x \in Span(place.tls, PageSize) PROVE FALSE  OBVIOUS
  <2>1. x \in Int /\ place.tls <= x /\ x < place.tls + PageSize  BY <1>0, <1>3 DEF Span
  <2>2. PICK r \in regions : x \in Extent(r)
    BY DEF KInv, LInv, Tabled, TableIsMemory, Covered
  <2>3. /\ r.start \in Int /\ r.size \in Int /\ r.start <= x /\ x < r.start + r.size
    <3>1. r.start \in Int /\ r.size \in Int  BY DEF KInv, LInv, Tabled
    <3> QED  BY <2>2, <3>1 DEF Extent, Span
  <2>4. ~ OfImage(r)
    <3> SUFFICES ASSUME OfImage(r) PROVE FALSE  OBVIOUS
    <3>1. r.start + r.size - 1 < code.exit  BY <1>2 DEF OfImage, Below
    <3> QED  BY <1>0, <1>2, <1>3, <2>1, <2>3, <3>1
  <2>5. ~ OfStack(r)  BY <1>0, <1>3, <2>1, <2>3 DEF OfStack
  <2>6. ~ OfUser(r)  BY <2>2 DEF OfUser
  <2>7. r.start # place.heap  BY <1>0, <1>2, <1>3, <2>1, <2>3
  <2> QED  BY <1>1, <2>2, <2>4, <2>5, <2>6, <2>7 DEF LoadedRegions
<1>5. PageSize % PageSize = 0
  <2>1. 0 \in Nat /\ 0 % PageSize = 0 /\ 0 + PageSize = PageSize  BY <1>0
  <2> QED  BY <2>1, PageAbove
<1>6. UcCanMap(place.tls, PageSize)
  <2>1. PageSize > 0 /\ place.tls + PageSize <= Space  BY <1>0, <1>2, <1>3
  <2> QED  BY <1>0, <1>3, <1>4, <1>5, <2>1, FreePages
<1> QED  BY <1>6 DEF MapTls

\* The stub's jump starts in [tls]: what is in reach of all of it is in the stub's.
LEMMA StubReaches ==
    ASSUME KInv, place.tls \in Nat, EntryInReach
    PROVE  setup_x86_entry_stub
<1>1. PageSize \in Nat /\ StubEnd \in Nat /\ StubEnd < PageSize
  BY SpaceAssumption
<1>2. place.tls + StubEnd \in Span(place.tls, PageSize)
  BY <1>1 DEF Span
<1> QED  BY <1>2 DEF EntryInReach, setup_x86_entry_stub

\* Arguments that fit find the stack mapped, and the stub the entry point in reach.
LEMMA AskedSetupStack ==
    ASSUME KInv, SoundLoad, Roomy, setup_stack, cfg.arch = "x86" => EntryInReach,
           4 * Small + cfg.strings + Frame <= cfg.stack_size
    PROVE  at' = "running"
<1>1. /\ at = "contents" /\ at \in Placing /\ at \in Placed /\ at # "running"
  BY DEF setup_stack, Placing, Placed
<1>2. /\ place.stack \in Nat /\ cfg.stack_size \in Nat
      /\ stack_exit = place.stack + cfg.stack_size
      /\ Span(place.stack, cfg.stack_size) \subseteq mapped /\ sp = stack_exit - 4
  BY <1>1, PlacesInOrder DEF KInv, PlacesFollow, Small
<1>3. sp \in Int  BY <1>2
<1>4. /\ Frame \in Nat /\ cfg.strings \in Nat /\ StringsStart = sp - 4 - cfg.strings
      /\ FrameStart \in Int
  BY <1>3, FrameNumbers
<1>5. FrameStart >= StringsStart - 3 - Frame
  <2>1. StringsStart \in Int  BY <1>3, <1>4
  <2>2. \A n \in Int : n % 4 \in 0..3  OBVIOUS
  <2>3. StringsStart % 4 \in 0..3  BY <2>1, <2>2
  <2>4. FrameStart = StringsStart - (StringsStart % 4) - Frame  BY DEF FrameStart, Small
  <2> QED  BY ONLY <1>4, <2>1, <2>3, <2>4
<1>6. 16 + cfg.strings + Frame <= cfg.stack_size  BY DEF Small
<1>7. FrameStart >= place.stack /\ sp - 1 < place.stack + cfg.stack_size
  BY <1>2, <1>3, <1>4, <1>5, <1>6
<1>8. FrameStart..(sp - 1) \subseteq Span(place.stack, cfg.stack_size)
  BY <1>2, <1>3, <1>4, <1>7 DEF Span
<1>9. FrameStart..(sp - 1) \subseteq mapped  BY <1>2, <1>8
<1>10. place.tls \in Nat  BY <1>1, PlacesAreLow DEF KInv, PlacesFollow
<1>11. cfg.arch = "x86" => setup_x86_entry_stub  BY <1>10, StubReaches
<1> QED  BY <1>9, <1>11 DEF setup_stack

FInv == DInv /\ MapsAsAsked /\ RoomAsAsked /\ LoadedRegions /\ FailsForAReason

LEMMA InitFInv == Init => FInv
<1> SUFFICES ASSUME Init PROVE FInv  OBVIOUS
<1>1. DInv  BY InitDInv
<1>2. at = "map" /\ which = "main" /\ bias = 0 /\ code.exit = 0 /\ mapped = {}
  BY DEF Init, Nowhere
<1>3. 0 % PageSize = 0  BY SpaceAssumption
<1> QED
  BY <1>1, <1>2, <1>3
  DEF FInv, MapsAsAsked, BiasAsAsked, RoomAsAsked, LoadedRegions, FailsForAReason

LEMMA NextFInv == FInv /\ [Next]_vars => FInv'
<1> SUFFICES ASSUME FInv, [Next]_vars
             PROVE  MapsAsAsked' /\ RoomAsAsked' /\ LoadedRegions' /\ FailsForAReason'
  BY NextDInv DEF FInv
<1>1. KInv /\ LInv /\ LoopGoesOn /\ DInv /\ MapsAsAsked /\ RoomAsAsked /\ LoadedRegions
  BY DEF FInv, DInv, KInv
<1>2. UNCHANGED <<image, cfg>>
  <2>1. CASE MapSegment  BY <1>1, <2>1, SegmentIsMapped
  <2>2. CASE ~ MapSegment
    BY <2>2 DEF Next, vars, RejectImage, StartInterp, MapCode, MapStack, MapHeap, UserMaps,
                ExitTrap, Trap, MapTls, setup_stack, Fail, asked
  <2> QED  BY <2>1, <2>2
<1>3. SoundLoad' = SoundLoad  BY <1>2, SoundLoadStays
<1> SUFFICES ASSUME SoundLoad, SoundLoad'
             PROVE  MapsAsAsked' /\ RoomAsAsked' /\ LoadedRegions' /\ FailsForAReason'
  BY <1>3 DEF MapsAsAsked, RoomAsAsked, LoadedRegions, FailsForAReason
<1>4. at' = "map" => RoomAsAsked' /\ LoadedRegions' /\ FailsForAReason'
  BY DEF RoomAsAsked, LoadedRegions, FailsForAReason
<1>5. at' \notin {"map", "loaded", "failed"} /\ Roomy'
         => MapsAsAsked' /\ RoomAsAsked' /\ LoadedRegions' /\ FailsForAReason'
  BY DEF MapsAsAsked, RoomAsAsked, LoadedRegions, FailsForAReason
<1>6. at' = "loaded" /\ Roomy' /\ LoadedRegions' => MapsAsAsked' /\ RoomAsAsked' /\ FailsForAReason'
  BY DEF MapsAsAsked, RoomAsAsked, FailsForAReason
<1>7. at' = "failed" => MapsAsAsked' /\ RoomAsAsked' /\ LoadedRegions'
  BY DEF MapsAsAsked, RoomAsAsked, LoadedRegions
<1>8. Roomy /\ code' = code => Roomy'  BY <1>2 DEF Roomy
<1>9. at \notin {"map", "failed"} => Roomy  BY <1>1 DEF RoomAsAsked
<1>10. CASE MapSegment  BY <1>1, <1>4, <1>10, AskedMapSegment
<1>11. CASE RejectImage
  <2>1. at = "map" /\ image.kind # "Raw" /\ ~Mappable  BY <1>11 DEF RejectImage
  <2>2. file.headers /\ PagesOfImage(file, 0) # {} /\ file.segs \in Seq(Segment)
    BY <1>1, <2>1, SoundFile
  <2>3. PICK k \in 1..Len(file.segs) : file.segs[k].memsz # 0
    BY <2>2 DEF PagesOfImage, PagesOfSegment
  <2>4. file.segs[k] \in Segment  BY <2>2
  <2>5. file.segs[k].memsz > 0  BY <2>3, <2>4 DEF Segment
  <2> QED  BY <2>1, <2>2, <2>5 DEF Mappable
<1>12. CASE StartInterp
  <2>1. at' = "map"  BY <1>12 DEF StartInterp
  <2> QED  BY <1>1, <1>4, <1>12, <2>1, AskedStartInterp
<1>13. CASE MapCode
  <2>1. at' = "stack" /\ Roomy'  BY <1>1, <1>13, AskedMapCode
  <2> QED  BY <1>5, <2>1
<1>14. CASE MapStack
  <2>1. Roomy
    <3>1. CASE at = "stack"  BY <1>9, <3>1
    <3>2. CASE at # "stack"
      <4>1. at = "map" /\ image.kind # "Raw" /\ todo = <<>>  BY <1>14, <3>2 DEF MapStack
      <4> QED  BY <1>1, <4>1, AskedLoopEnds
    <3> QED  BY <3>1, <3>2
  <2>2. at' = "heap"  BY <1>1, <1>14, <2>1, AskedMapStack
  <2>3. code' = code  BY <1>14, <2>2 DEF MapStack, Fail, loading
  <2> QED  BY <1>5, <1>8, <2>1, <2>2, <2>3
<1>15. CASE MapHeap
  <2>1. Roomy  BY <1>9, <1>15 DEF MapHeap
  <2>2. at' = "loaded" /\ LoadedRegions'  BY <1>1, <1>15, <2>1, AskedMapHeap
  <2>3. code' = code  BY <1>15 DEF MapHeap, Fail, loading
  <2> QED  BY <1>6, <1>8, <2>1, <2>2, <2>3
<1>16. CASE \E a \in UserPages : UserMaps(a)
  <2>1. PICK a \in UserPages : UserMaps(a)  BY <1>16
  <2>2. Roomy  BY <1>9, <2>1 DEF UserMaps
  <2>3. at' = "loaded" /\ LoadedRegions' /\ code' = code  BY <1>1, <2>1, AskedUserMaps
  <2> QED  BY <1>6, <1>8, <2>2, <2>3
<1>17. CASE ExitTrap
  <2>1. Roomy  BY <1>9, <1>17 DEF ExitTrap
  <2>2. /\ user' = user /\ code' = code /\ cfg.os = "BareMetal" /\ at' \in {"running", "failed"}
    BY <1>17 DEF ExitTrap, Trap, Fail, loading
  <2>3. SoundRun' => \A a \in user : a + 3 * PageSize <= Space
    BY <1>2, <2>2 DEF SoundRun
  <2>4. SoundRun' => at' = "running"  BY <1>1, <1>17, <2>1, <2>3, AskedExitTrap
  <2>5. FailsForAReason'  BY <2>4 DEF FailsForAReason
  <2> QED  BY <1>5, <1>7, <1>8, <2>1, <2>2, <2>5
<1>18. CASE MapTls
  <2>1. Roomy  BY <1>9, <1>18 DEF MapTls
  <2>2. /\ user' = user /\ place' = place /\ code' = code /\ cfg.os = "Linux"
        /\ at' \in {"contents", "failed"}
    BY <1>18 DEF MapTls, Fail, loading
  <2>3. SoundRun' => Span(place.tls, PageSize) \cap user = {}
    BY <1>2, <2>2 DEF SoundRun
  <2>4. SoundRun' => at' = "contents"  BY <1>1, <1>18, <2>1, <2>3, AskedMapTls
  <2>5. FailsForAReason'  BY <2>4 DEF FailsForAReason
  <2> QED  BY <1>5, <1>7, <1>8, <2>1, <2>2, <2>5
<1>19. CASE setup_stack
  <2>1. Roomy  BY <1>9, <1>19 DEF setup_stack
  <2>2. /\ code' = code /\ at = "contents" /\ at' \in {"running", "failed"}
    BY <1>19 DEF setup_stack, Fail, loading
  <2>3. cfg.os = "Linux"  BY <1>1, <2>2 DEF DInv, NothingYetInStack
  <2>4. Frame' = Frame  BY <1>2 DEF Frame, Width
  <2>5. SoundRun' => /\ 4 * Small + cfg.strings + Frame <= cfg.stack_size
                     /\ cfg.arch = "x86" => EntryInReach
    <3>1. UNCHANGED <<image, cfg, place, bias, which>>
      BY <1>2, <1>19 DEF setup_stack, Fail, loading
    <3>2. entry_point' = entry_point  BY <3>1 DEF entry_point, file
    <3>3. EntryInReach' => EntryInReach  BY <3>1, <3>2 DEF EntryInReach, Span
    <3> QED  BY <1>2, <2>3, <2>4, <3>3 DEF SoundRun
  <2>6. SoundRun' => at' = "running"  BY <1>1, <1>19, <2>1, <2>5, AskedSetupStack
  <2>7. FailsForAReason'  BY <2>6 DEF FailsForAReason
  <2> QED  BY <1>5, <1>7, <1>8, <2>1, <2>2, <2>7
<1>20. CASE UNCHANGED vars
  <2>1. UNCHANGED <<at, which, todo, bias, code, place, regions, mapped, user>>
    BY <1>20 DEF vars, asked, loading, machine
  <2>2. MapsAsAsked'
    <3>1. file' = file  BY <1>2, <2>1 DEF file
    <3>2. BiasAsAsked => BiasAsAsked'  BY <1>2, <2>1 DEF BiasAsAsked, PagesOfImage
    <3>3. ASSUME NEW a, OfMain(a) PROVE OfMain(a)'
      BY <1>2, <2>1, <3>3 DEF OfMain, PagesOfImage
    <3>4. ASSUME NEW n, NEW a, OfFirst(n, a) PROVE OfFirst(n, a)'
      BY <2>1, <3>1, <3>4 DEF OfFirst
    <3>5. PICK n : n = Len(file.segs) - Len(todo)  OBVIOUS
    <3>6. ASSUME NEW a, OfFirst(n, a)' PROVE OfFirst(Len(file.segs) - Len(todo), a)'
      <4>1. Len(file'.segs) - Len(todo') = n  BY <2>1, <3>1, <3>5
      <4> QED  BY <3>6, <4>1 DEF OfFirst
    <3>7. ASSUME at = "map", image.kind # "Raw"
          PROVE  \A a \in mapped : OfMain(a)' \/ OfFirst(Len(file.segs) - Len(todo), a)'
      BY <1>1, <3>3, <3>4, <3>5, <3>6, <3>7 DEF MapsAsAsked
    <3> QED  BY <1>1, <1>2, <2>1, <3>2, <3>7 DEF MapsAsAsked
  <2>3. RoomAsAsked'  BY <1>1, <1>2, <2>1 DEF RoomAsAsked, Roomy
  <2>4. LoadedRegions'
    BY <1>1, <1>2, <2>1
    DEF LoadedRegions, OfImage, Below, NamesAHeap, OfStack, OfUser, Extent, Span
  <2>5. FailsForAReason'
    <3>1. EntryInReach' => EntryInReach
      BY <1>2, <2>1 DEF EntryInReach, entry_point, file, Span
    <3> QED  BY <1>2, <2>1, <3>1 DEF FInv, FailsForAReason, SoundRun, Frame, Width, Span
  <2> QED  BY <2>2, <2>3, <2>4, <2>5
<1> QED
  BY <1>10, <1>11, <1>12, <1>13, <1>14, <1>15, <1>16, <1>17, <1>18, <1>19, <1>20 DEF Next

\* For any images, options and page of the user: a load or a preparation fails
\* only for what was asked, an i386 entry point out of the stub's reach included.
THEOREM FailuresHaveReasons == Spec => []FailsForAReason
<1>1. Spec => []FInv  BY InitFInv, NextFInv, PTL DEF Spec
<1>2. FInv => FailsForAReason  BY DEF FInv
<1> QED  BY <1>1, <1>2, PTL
=============================================================================
