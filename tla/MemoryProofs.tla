-------------------------- MODULE MemoryProofs ----------------------------
(***************************************************************************)
(* Theorems about the guest's memory.                                      *)
(*                                                                         *)
(* AddressSpace, for every layout, guard gap and argument set: the types,  *)
(* that the region table stays disjoint and backed by Unicorn's mappings,  *)
(* and what the decisions read off it are worth.                           *)
(*                                                                         *)
(* ReusableEmulator, for every prepared layout: the guest's calls and the  *)
(* restore keep one invariant of the two views of memory; what a restore   *)
(* that gets through leaves behind; when one can fail.                     *)
(***************************************************************************)
EXTENDS ReusableEmulator, TLAPS, WellFoundedInduction

\* Min of a non-empty set of naturals is one of them and below all of them.
LEMMA MinNat ==
    ASSUME NEW S \in SUBSET Nat, S # {}
    PROVE  Min(S) \in S /\ \A y \in S : Min(S) <= y
<1>1. PICK x \in S : \A y \in S : ~(<<y, x>> \in OpToRel(<, Nat))
  BY NatLessThanWellFounded, WFMin
<1>2. \A y \in S : x <= y
  <2> TAKE y \in S
  <2>1. <<y, x>> \in Nat \X Nat  OBVIOUS
  <2>2. ~(y < x)  BY <1>1, <2>1 DEF OpToRel
  <2> QED  BY <2>2
<1> QED  BY <1>2 DEF Min

\* Max of a non-empty bounded set of naturals is one of them and above them.
LEMMA MaxNat ==
    ASSUME NEW b \in Nat, NEW S \in SUBSET (0..b), S # {}
    PROVE  Max(S) \in S /\ \A y \in S : y <= Max(S)
<1> DEFINE U == {b - x : x \in S}
<1>1. U \in SUBSET Nat /\ U # {}
  <2>1. \A x \in S : b - x \in Nat  OBVIOUS
  <2> QED  BY <2>1
<1>2. Min(U) \in U /\ \A y \in U : Min(U) <= y
  <2> HIDE DEF U
  <2> QED  BY <1>1, MinNat
<1>3. PICK x \in S : Min(U) = b - x  BY <1>2
<1>4. \A y \in S : x >= y
  <2> TAKE y \in S
  <2>1. b - x <= b - y  BY <1>2, <1>3
  <2> QED  BY <2>1
<1>5. \E z \in S : \A y \in S : z >= y  BY <1>4
<1>6. Max(S) \in S /\ \A y \in S : Max(S) >= y  BY <1>5 DEF Max
<1> QED  BY <1>6

-----------------------------------------------------------------------------
\* A table of regions inside the address space, pairwise disjoint.
Table(T) ==
    /\ T \subseteq Region
    /\ \A r \in T : PagesOf(r) \subseteq Page
    /\ Disjoint(T)

LEMMA RegionFacts ==
    ASSUME NEW r \in Region
    PROVE  /\ r.start \in Nat /\ r.size \in Nat /\ r.size >= 1
           /\ RegionEnd(r) \in Nat /\ RegionEnd(r) = r.start + r.size
           /\ r.start < RegionEnd(r)
           /\ PagesOf(r) = r.start..(RegionEnd(r) - 1)
           /\ r.start \in PagesOf(r) /\ (RegionEnd(r) - 1) \in PagesOf(r)
           /\ (PagesOf(r) \subseteq Page => RegionEnd(r) <= LastPage + 1)
BY LayoutAssumption DEF Region, RegionEnd, PagesOf, Span, Page

\* The two pieces remove_range can leave of a region.
LEMMA PieceFacts ==
    ASSUME NEW r \in Region, PagesOf(r) \subseteq Page, NEW a \in Nat, NEW e \in Nat
    PROVE  /\ (r.start < a /\ a < RegionEnd(r)) =>
                  /\ Lower(r, a) \in Region
                  /\ PagesOf(Lower(r, a)) = {p \in PagesOf(r) : p < a}
                  /\ Lower(r, a).info = r.info /\ Lower(r, a).prot = r.prot
                  /\ Lower(r, a).start = r.start
           /\ (r.start < e /\ e < RegionEnd(r)) =>
                  /\ Upper(r, e) \in Region
                  /\ PagesOf(Upper(r, e)) = {p \in PagesOf(r) : e <= p}
                  /\ Upper(r, e).info = r.info /\ Upper(r, e).prot = r.prot
                  /\ Upper(r, e).start = e
<1>1. ASSUME r.start < a, a < RegionEnd(r)
      PROVE  /\ Lower(r, a) \in Region
             /\ PagesOf(Lower(r, a)) = {p \in PagesOf(r) : p < a}
             /\ Lower(r, a).info = r.info /\ Lower(r, a).prot = r.prot
             /\ Lower(r, a).start = r.start
  BY <1>1, LayoutAssumption DEF Lower, NewRegion, Region, RegionEnd, PagesOf, Span, Page
<1>2. ASSUME r.start < e, e < RegionEnd(r)
      PROVE  /\ Upper(r, e) \in Region
             /\ PagesOf(Upper(r, e)) = {p \in PagesOf(r) : e <= p}
             /\ Upper(r, e).info = r.info /\ Upper(r, e).prot = r.prot
             /\ Upper(r, e).start = e
  BY <1>2, LayoutAssumption DEF Upper, NewRegion, Region, RegionEnd, PagesOf, Span, Page
<1> QED  BY <1>1, <1>2

-----------------------------------------------------------------------------
\* Every region remove_range leaves comes from one region of the table, is
\* that region or one of its two pieces, and has no page of the range.
CutFrom(s, r, a, e) ==
    \/ s = r /\ (e <= r.start \/ RegionEnd(r) <= a)
    \/ s = Lower(r, a) /\ r.start < a /\ a < RegionEnd(r)
    \/ s = Upper(r, e) /\ r.start < e /\ e < RegionEnd(r)

LEMMA CutOrigin ==
    ASSUME NEW T, NEW a, NEW e
    PROVE  /\ \A s \in RemoveRange(T, a, e) : \E r \in T : CutFrom(s, r, a, e)
           /\ \A r \in T : \A s : CutFrom(s, r, a, e) => s \in RemoveRange(T, a, e)
BY DEF RemoveRange, CutFrom

LEMMA CutPiece ==
    ASSUME NEW r \in Region, PagesOf(r) \subseteq Page,
           NEW a \in Nat, NEW e \in Nat, a < e, NEW s, CutFrom(s, r, a, e)
    PROVE  /\ s \in Region /\ s.info = r.info /\ s.prot = r.prot
           /\ s.start >= r.start
           /\ PagesOf(s) \subseteq PagesOf(r) \ (a..(e - 1))
<1>1. CASE s = r /\ (e <= r.start \/ RegionEnd(r) <= a)  BY <1>1, RegionFacts
<1>2. CASE s = Lower(r, a) /\ r.start < a /\ a < RegionEnd(r)
  <2>1. /\ s \in Region /\ s.info = r.info /\ s.prot = r.prot /\ s.start = r.start
        /\ PagesOf(s) = {p \in PagesOf(r) : p < a}
    BY <1>2, PieceFacts
  <2>2. r.start \in Nat  BY RegionFacts
  <2>3. \A p \in PagesOf(s) : p \in PagesOf(r) /\ p \notin a..(e - 1)  BY <2>1
  <2> QED  BY <2>1, <2>2, <2>3
<1>3. CASE s = Upper(r, e) /\ r.start < e /\ e < RegionEnd(r)
  <2>1. /\ s \in Region /\ s.info = r.info /\ s.prot = r.prot /\ s.start = e
        /\ PagesOf(s) = {p \in PagesOf(r) : e <= p}
    BY <1>3, PieceFacts
  <2>2. r.start \in Nat  BY RegionFacts
  <2>3. \A p \in PagesOf(s) : p \in PagesOf(r) /\ p \notin a..(e - 1)  BY <2>1
  <2> QED  BY <1>3, <2>1, <2>2, <2>3
<1> QED  BY <1>1, <1>2, <1>3 DEF CutFrom

\* The pages of a region outside the range are all kept, by one piece each.
LEMMA CutCovers ==
    ASSUME NEW r \in Region, PagesOf(r) \subseteq Page,
           NEW a \in Nat, NEW e \in Nat, a < e,
           NEW p \in PagesOf(r), p \notin a..(e - 1)
    PROVE  \E s : CutFrom(s, r, a, e) /\ p \in PagesOf(s)
<1>0. p \in Nat /\ r.start <= p /\ p < RegionEnd(r) /\ (p < a \/ e <= p)
  BY RegionFacts
<1>1. CASE e <= r.start \/ RegionEnd(r) <= a  BY <1>1 DEF CutFrom
<1>2. CASE ~(e <= r.start \/ RegionEnd(r) <= a) /\ p < a
  <2>1. r.start < a /\ a < RegionEnd(r)  BY <1>0, <1>2, RegionFacts
  <2>2. CutFrom(Lower(r, a), r, a, e)  BY <2>1 DEF CutFrom
  <2>3. p \in PagesOf(Lower(r, a))  BY <2>1, <1>2, PieceFacts
  <2> QED  BY <2>2, <2>3
<1>3. CASE ~(e <= r.start \/ RegionEnd(r) <= a) /\ e <= p
  <2>1. r.start < e /\ e < RegionEnd(r)  BY <1>0, <1>3, RegionFacts
  <2>2. CutFrom(Upper(r, e), r, a, e)  BY <2>1 DEF CutFrom
  <2>3. p \in PagesOf(Upper(r, e))  BY <2>1, <1>3, PieceFacts
  <2> QED  BY <2>2, <2>3
<1> QED  BY <1>0, <1>1, <1>2, <1>3

\* Two pieces of one region that differ share no page.
LEMMA CutApart ==
    ASSUME NEW r \in Region, PagesOf(r) \subseteq Page,
           NEW a \in Nat, NEW e \in Nat, a < e,
           NEW s, CutFrom(s, r, a, e), NEW t, CutFrom(t, r, a, e), s # t
    PROVE  PagesOf(s) \cap PagesOf(t) = {}
<1>1. /\ (r.start < a /\ a < RegionEnd(r)) => PagesOf(Lower(r, a)) = {p \in PagesOf(r) : p < a}
      /\ (r.start < e /\ e < RegionEnd(r)) => PagesOf(Upper(r, e)) = {p \in PagesOf(r) : e <= p}
  BY PieceFacts
<1>2. r.start \in Nat /\ RegionEnd(r) \in Nat /\ PagesOf(r) \subseteq Nat
  BY RegionFacts
<1> DEFINE K(x) == x = r /\ (e <= r.start \/ RegionEnd(r) <= a)
           L(x) == x = Lower(r, a) /\ r.start < a /\ a < RegionEnd(r)
           H(x) == x = Upper(r, e) /\ r.start < e /\ e < RegionEnd(r)
<1>3. (K(s) \/ L(s) \/ H(s)) /\ (K(t) \/ L(t) \/ H(t))  BY DEF CutFrom
<1>4. ~(K(s) /\ K(t)) /\ ~(L(s) /\ L(t)) /\ ~(H(s) /\ H(t))  OBVIOUS
<1>5. \A x, y : ~(K(x) /\ L(y)) /\ ~(K(x) /\ H(y))  BY <1>2
<1>6. \A x, y : L(x) /\ H(y) => PagesOf(x) \cap PagesOf(y) = {}
  <2> TAKE x, y
  <2> HAVE L(x) /\ H(y)
  <2>1. PagesOf(x) = {p \in PagesOf(r) : p < a}  BY <1>1
  <2>2. PagesOf(y) = {p \in PagesOf(r) : e <= p}  BY <1>1
  <2>3. \A p \in PagesOf(r) : ~(p < a /\ e <= p)  BY <1>2
  <2> QED  BY <2>1, <2>2, <2>3
<1>7. PagesOf(s) \cap PagesOf(t) = PagesOf(t) \cap PagesOf(s)  OBVIOUS
<1> HIDE DEF K, L, H
<1> QED  BY <1>3, <1>4, <1>5, <1>6, <1>7

\* remove_range keeps a table a table and takes exactly the range out of it.
LEMMA CutTable ==
    ASSUME NEW T, Table(T), NEW a \in Nat, NEW e \in Nat, a < e
    PROVE  /\ Table(RemoveRange(T, a, e))
           /\ TablePages(RemoveRange(T, a, e)) = TablePages(T) \ (a..(e - 1))
           /\ \A s \in RemoveRange(T, a, e) :
                  \E r \in T : s.info = r.info /\ s.prot = r.prot /\ s.start >= r.start
                              /\ PagesOf(s) \subseteq PagesOf(r)
<1> DEFINE R == RemoveRange(T, a, e)
<1>0. \A r \in T : r \in Region /\ PagesOf(r) \subseteq Page  BY DEF Table
<1>1. \A s \in R : \E r \in T :
          /\ CutFrom(s, r, a, e) /\ s \in Region /\ s.info = r.info /\ s.prot = r.prot
          /\ s.start >= r.start /\ PagesOf(s) \subseteq PagesOf(r) \ (a..(e - 1))
  <2> TAKE s \in R
  <2>1. PICK r \in T : CutFrom(s, r, a, e)  BY CutOrigin
  <2> QED  BY <1>0, <2>1, CutPiece
<1>2. R \subseteq Region  BY <1>1
<1>3. \A s \in R : PagesOf(s) \subseteq Page  BY <1>0, <1>1
<1>4. Disjoint(R)
  <2> SUFFICES ASSUME NEW s \in R, NEW t \in R, s # t
               PROVE  PagesOf(s) \cap PagesOf(t) = {}
    BY DEF Disjoint
  <2>1. PICK r \in T : CutFrom(s, r, a, e) /\ PagesOf(s) \subseteq PagesOf(r)  BY <1>1
  <2>2. PICK q \in T : CutFrom(t, q, a, e) /\ PagesOf(t) \subseteq PagesOf(q)  BY <1>1
  <2>3. CASE r = q  BY <2>1, <2>2, <2>3, <1>0, CutApart
  <2>4. CASE r # q
    <3>1. PagesOf(r) \cap PagesOf(q) = {}  BY <2>4 DEF Table, Disjoint
    <3> QED  BY <3>1, <2>1, <2>2
  <2> QED  BY <2>3, <2>4
<1>5. TablePages(R) \subseteq TablePages(T) \ (a..(e - 1))  BY <1>1 DEF TablePages
<1>6. TablePages(T) \ (a..(e - 1)) \subseteq TablePages(R)
  <2> SUFFICES ASSUME NEW r \in T, NEW p \in PagesOf(r), p \notin a..(e - 1)
               PROVE  p \in TablePages(R)
    BY DEF TablePages
  <2>1. PICK s : CutFrom(s, r, a, e) /\ p \in PagesOf(s)  BY <1>0, CutCovers
  <2>2. s \in R  BY <2>1, CutOrigin
  <2> QED  BY <2>1, <2>2 DEF TablePages
<1> QED  BY <1>1, <1>2, <1>3, <1>4, <1>5, <1>6 DEF Table

\* A range free in the table can be entered as a new region.
LEMMA AddTable ==
    ASSUME NEW T, Table(T), NEW a \in Nat, NEW n \in Nat, n >= 1,
           Span(a, n) \subseteq Page, Span(a, n) \cap TablePages(T) = {},
           NEW pr \in Perm, NEW i \in Info
    PROVE  /\ Table(T \cup {NewRegion(a, n, pr, i)})
           /\ TablePages(T \cup {NewRegion(a, n, pr, i)}) = TablePages(T) \cup Span(a, n)
<1> DEFINE r == NewRegion(a, n, pr, i)
<1>1. a + n <= LastPage + 1 /\ a \in Page
  <2>1. a \in Span(a, n) /\ a + n - 1 \in Span(a, n)  BY DEF Span
  <2>2. a \in Page /\ a + n - 1 \in Page  BY <2>1
  <2> QED  BY <2>2, LayoutAssumption DEF Page
<1>2. r \in Region  BY <1>1, LayoutAssumption DEF NewRegion, Region, Page
<1>3. PagesOf(r) = Span(a, n)  BY DEF PagesOf, NewRegion
<1>4. \A q \in T : PagesOf(q) \cap PagesOf(r) = {}  BY <1>3 DEF TablePages
<1>5. TablePages(T \cup {r}) = TablePages(T) \cup Span(a, n)  BY <1>3 DEF TablePages
<1> HIDE DEF r
<1>6. Disjoint(T \cup {r})  BY <1>4 DEF Table, Disjoint
<1> QED  BY <1>2, <1>3, <1>5, <1>6 DEF Table, r

LEMMA FillType ==
    ASSUME NEW V, NEW f \in [Page -> V], NEW S, NEW v \in V
    PROVE  UcFill(f, S, v) \in [Page -> V]
BY DEF UcFill

-----------------------------------------------------------------------------
(***************************************************************************)
(* The inductive invariant.  TypeOK alone is not inductive: that a cut     *)
(* piece, or the region brk adds on top of the heap, fits the address      *)
(* space follows from the table being backed by mapped pages; disjointness *)
(* follows from the same fact and Unicorn's refusal to map a page twice.   *)
(***************************************************************************)
IInv == TypeOK /\ TableBacked /\ TableDisjoint /\ HeapAboveStart

LEMMA IInvTable == IInv => Table(regions)
BY DEF IInv, TypeOK, TableBacked, TableDisjoint, Table, TablePages

\* The end of the mapped heap is a page boundary of the space, not below the
\* start of the heap and not below any heap region.
LEMMA HeapEndFacts ==
    ASSUME IInv
    PROVE  /\ MappedHeapEnd \in 0..(LastPage + 1)
           /\ MappedHeapEnd >= HeapStart
           /\ \A r \in HeapRegions : RegionEnd(r) <= MappedHeapEnd
<1>1. CASE HeapRegions = {}
  BY <1>1, LayoutAssumption DEF IInv, TypeOK, HeapAboveStart, MappedHeapEnd
<1>2. CASE HeapRegions # {}
  <2> DEFINE E == {RegionEnd(r) : r \in HeapRegions}
  <2>1. LastPage + 1 \in Nat  BY LayoutAssumption
  <2>2. \A r \in HeapRegions : /\ r \in Region /\ RegionEnd(r) \in 0..(LastPage + 1)
                               /\ r.start >= HeapStart /\ r.start < RegionEnd(r)
                               /\ r.start \in Nat
    <3> TAKE r \in HeapRegions
    <3>1. r \in Region /\ PagesOf(r) \subseteq Page
      BY IInvTable DEF Table, HeapRegions
    <3>2. r.start >= HeapStart  BY DEF IInv, HeapAboveStart
    <3> QED  BY <3>1, <3>2, RegionFacts
  <2>3. E \in SUBSET (0..(LastPage + 1)) /\ E # {}  BY <1>2, <2>2
  <2>4. Max(E) \in E /\ \A y \in E : y <= Max(E)
    <3> HIDE DEF E
    <3> QED  BY <2>1, <2>3, MaxNat
  <2>5. MappedHeapEnd = Max(E)  BY <1>2 DEF MappedHeapEnd
  <2>6. PICK r \in HeapRegions : Max(E) = RegionEnd(r)  BY <2>4
  <2>7. HeapStart \in Nat  BY LayoutAssumption DEF Page
  <2> QED  BY <2>2, <2>4, <2>5, <2>6, <2>7
<1> QED  BY <1>1, <1>2

\* next_mmap_addr finds a place: past the guard gap, free in the table.
LEMMA NextMmapAddrFacts ==
    ASSUME IInv, NEW n \in Nat
    PROVE  /\ NextMmapAddr(n) \in Nat
           /\ NextMmapAddr(n) >= brk + Gap
           /\ Span(NextMmapAddr(n), n) \cap TablePages(regions) = {}
<1> DEFINE c == brk + Gap
           X == {x \in c..(c + LastPage + 1) : FreeInTable(x, n)}
<1>1. c \in Nat /\ LastPage \in Nat
  BY LayoutAssumption DEF IInv, TypeOK
<1>2. FreeInTable(c + LastPage + 1, n)
  <2>1. \A r \in regions : PagesOf(r) \subseteq 0..LastPage
    BY IInvTable DEF Table, Page
  <2>2. \A p \in Span(c + LastPage + 1, n) : p > LastPage  BY <1>1 DEF Span
  <2>3. \A p \in 0..LastPage : ~(p > LastPage)  BY <1>1
  <2> QED  BY <2>1, <2>2, <2>3 DEF FreeInTable
<1>3. X \in SUBSET Nat /\ X # {}  BY <1>1, <1>2
<1>4. Min(X) \in X
  <2> HIDE DEF X
  <2> QED  BY <1>3, MinNat
<1>5. NextMmapAddr(n) = Min(X)  BY DEF NextMmapAddr
<1>6. FreeInTable(NextMmapAddr(n), n) /\ NextMmapAddr(n) \in c..(c + LastPage + 1)
  BY <1>4, <1>5
<1> QED  BY <1>1, <1>6 DEF FreeInTable, TablePages

-----------------------------------------------------------------------------
(***************************************************************************)
(* One lemma per call: it keeps the inductive invariant and makes no       *)
(* orphan, unless it is a MAP_FIXED mmap that fails.                       *)
(***************************************************************************)
OrphanStep ==
    Orphans' \subseteq Orphans \/ (last'.call = "mmap_fixed" /\ last'.err = "ENOMEM")

LEMMA InitIInv == Init => IInv
<1> SUFFICES ASSUME Init PROVE IInv  OBVIOUS
<1> USE DEF Init
<1>1. regions \subseteq Region /\ mapped \subseteq Page
  BY LayoutAssumption DEF TablePages
<1>2. perm \in [Page -> Perm]
  <2>1. \A r \in InitRegions : r.prot \in SUBSET ALL
    BY LayoutAssumption DEF Region, Perm, ALL
  <2>2. \A p \in Page :
          UNION {r.prot : r \in {q \in InitRegions : p \in PagesOf(q)}} \in SUBSET ALL
    BY <2>1
  <2> QED  BY <2>2 DEF Perm, ALL
<1>3. data \in [Page -> Data]  BY DEF Data
<1>4. brk \in 0..(LastPage + 1) /\ brk >= HeapStart
  BY LayoutAssumption DEF Page
<1>5. last \in [call : Calls, err : Errors, val : Nat]  BY DEF Calls, Errors
<1>6. HeapAboveStart  BY <1>4, LayoutAssumption DEF HeapAboveStart, HeapRegions
<1>7. TableBacked /\ TableDisjoint
  BY LayoutAssumption DEF TableBacked, TableDisjoint
<1> QED  BY <1>1, <1>2, <1>3, <1>4, <1>5, <1>6, <1>7 DEF IInv, TypeOK

\* A step that touches neither the views nor the break.
LEMMA QuietStep ==
    ASSUME IInv, NEW c \in Calls, NEW e \in Errors, NEW v \in Nat,
           Step(c, e, v), UNCHANGED <<regions, memory, brk>>
    PROVE  IInv' /\ OrphanStep
BY DEF IInv, TypeOK, TableBacked, TableDisjoint, HeapAboveStart, HeapRegions, Step, memory,
       OrphanStep, Orphans

LEMMA BrkQueryStep == IInv /\ BrkQuery => IInv' /\ OrphanStep
BY QuietStep, LayoutAssumption DEF BrkQuery, IInv, TypeOK, Calls, Errors

LEMMA BrkStep ==
    ASSUME IInv, NEW req \in Addrs, Brk(req)
    PROVE  IInv' /\ OrphanStep
<1>0. req \in Nat /\ brk \in Nat /\ HeapStart \in Nat /\ LastPage \in Nat
  BY GuestAssumption, LayoutAssumption DEF IInv, TypeOK, Page
<1>1. CASE BrkRefused(req)
  BY <1>0, <1>1, QuietStep DEF BrkRefused, Calls, Errors
<1>2. CASE BrkMove(req)
  <2>1. brk' \in 0..(LastPage + 1) /\ brk' >= HeapStart
    BY <1>0, <1>2, HeapEndFacts DEF BrkMove, BrkAllowed
  <2>2. last' \in [call : Calls, err : Errors, val : Nat]
    BY <1>0, <1>2 DEF BrkMove, Step, Calls, Errors
  <2> QED
    BY <1>2, <2>1, <2>2
       DEF BrkMove, IInv, TypeOK, TableBacked, TableDisjoint, HeapAboveStart, HeapRegions, memory,
           OrphanStep, Orphans
<1>3. CASE BrkGrow(req)
  <2> DEFINE top == MappedHeapEnd
             S == top..(req - 1)
             r == NewRegion(top, req - top, ALL, "[heap]")
  <2>1. CASE ~UcCanMap(mapped, S)
    BY <1>3, <2>1, QuietStep DEF BrkGrow, BrkErr, Calls, Errors
  <2>2. CASE UcCanMap(mapped, S)
    <3>0. top \in Nat /\ top >= HeapStart /\ req > top
      BY <1>3, HeapEndFacts DEF BrkGrow
    <3>1. /\ regions' = regions \cup {r}
          /\ mapped' = mapped \cup S
          /\ perm' = UcFill(perm, S, ALL)
          /\ data' = UcFill(data, S, "zero")
          /\ brk' = req
          /\ Step("brk", "none", req)
      BY <1>3, <2>2 DEF BrkGrow
    <3>2. S = Span(top, req - top) /\ req - top \in Nat /\ req - top >= 1
      BY <1>0, <3>0 DEF Span
    <3>3. S \subseteq Page /\ S \cap TablePages(regions) = {}
      BY <2>2 DEF UcCanMap, IInv, TableBacked
    <3>4. Table(regions') /\ TablePages(regions') = TablePages(regions) \cup S
      <4>1. Table(regions) /\ ALL \in Perm /\ "[heap]" \in Info
        BY IInvTable DEF Perm, ALL, Info
      <4>2. Span(top, req - top) \subseteq Page /\ Span(top, req - top) \cap TablePages(regions) = {}
        BY <3>2, <3>3
      <4> HIDE DEF top, S
      <4>3. /\ Table(regions \cup {NewRegion(top, req - top, ALL, "[heap]")})
            /\ TablePages(regions \cup {NewRegion(top, req - top, ALL, "[heap]")})
                   = TablePages(regions) \cup Span(top, req - top)
        BY <3>0, <3>2, <4>1, <4>2, AddTable
      <4> QED  BY <3>1, <3>2, <4>3
    <3>5. mapped' \subseteq Page /\ perm' \in [Page -> Perm] /\ data' \in [Page -> Data]
      <4>1. ALL \in Perm /\ "zero" \in Data  BY DEF Perm, ALL, Data
      <4>2. mapped \subseteq Page /\ perm \in [Page -> Perm] /\ data \in [Page -> Data]
        BY DEF IInv, TypeOK
      <4> HIDE DEF top, S
      <4>3. mapped' \subseteq Page  BY <3>1, <3>3, <4>2
      <4>4. perm' \in [Page -> Perm]  BY <3>1, <4>1, <4>2, FillType
      <4>5. data' \in [Page -> Data]  BY <3>1, <4>1, <4>2, FillType
      <4> QED  BY <4>3, <4>4, <4>5
    <3>6. brk' \in 0..(LastPage + 1) /\ brk' >= HeapStart
      <4>1. req - 1 \in S  BY <1>0, <3>0
      <4> QED  BY <1>0, <3>0, <3>1, <3>3, <4>1 DEF Page
    <3>7. HeapAboveStart'
      BY <3>0, <3>1, <3>6 DEF IInv, HeapAboveStart, HeapRegions, NewRegion
    <3>8. last' \in [call : Calls, err : Errors, val : Nat]
      BY <1>0, <3>1 DEF Step, Calls, Errors
    <3> QED
      BY <3>1, <3>4, <3>5, <3>6, <3>7, <3>8
         DEF IInv, TypeOK, TableBacked, TableDisjoint, Table, OrphanStep, Orphans
  <2> QED  BY <2>1, <2>2
<1> QED  BY <1>1, <1>2, <1>3 DEF Brk

\* A mapping is refused only when nothing was unmapped for it: an unmapped range
\* was mapped before, so it lies in the space, and is free now.
LEMMA RefusedMmap ==
    ASSUME IInv, NEW a \in Addrs, NEW n \in Lens, NEW pr \in ProtArgs,
           NEW fixed \in BOOLEAN, NEW file \in FileArgs, Mmap(a, n, pr, fixed, file),
           LET S == Span(MmapAddr(a, n, fixed), n)
           IN  ~UcCanMap(IF fixed THEN ForcedUnmap(S) ELSE mapped, S)
    PROVE  UNCHANGED memory
<1> DEFINE at    == MmapAddr(a, n, fixed)
           S     == Span(at, n)
           under == IF fixed THEN ForcedUnmap(S) ELSE mapped
<1>1. /\ mapped' = under
      /\ perm' = UcFill(perm, mapped \ under, {})
      /\ data' = UcFill(data, mapped \ under, "zero")
  BY DEF Mmap
<1>2. n \in Nat /\ n >= 1 /\ at \in Nat
  <2>1. n \in Nat /\ n # 0 /\ a \in Nat  BY GuestAssumption DEF Mmap
  <2>2. at \in Nat  BY <2>1, NextMmapAddrFacts DEF MmapAddr
  <2> QED  BY <2>1, <2>2
<1>3. S # {}  BY <1>2 DEF Span
<1>4. ~UcCanMap(under, S)  OBVIOUS
<1>5. under = mapped
  <2>1. under = mapped \/ (under = mapped \ S /\ S \subseteq mapped)
    BY DEF ForcedUnmap, UcCanTouch
  <2>2. mapped \subseteq Page  BY DEF IInv, TypeOK
  <2> HIDE DEF under, S
  <2>3. ~(under = mapped \ S /\ S \subseteq mapped)  BY <1>3, <1>4, <2>2 DEF UcCanMap
  <2> QED  BY <2>1, <2>3
<1> HIDE DEF under
<1>6. perm' = perm  BY <1>1, <1>5 DEF UcFill, IInv, TypeOK
<1>7. data' = data  BY <1>1, <1>5 DEF UcFill, IInv, TypeOK
<1> QED  BY <1>1, <1>5, <1>6, <1>7 DEF memory

LEMMA MmapStep ==
    ASSUME IInv, NEW a \in Addrs, NEW n \in Lens, NEW pr \in ProtArgs,
           NEW fixed \in BOOLEAN, NEW file \in FileArgs, Mmap(a, n, pr, fixed, file)
    PROVE  IInv' /\ OrphanStep
<1> DEFINE at    == MmapAddr(a, n, fixed)
           S     == Span(at, n)
           table == IF fixed THEN RemoveRange(regions, at, at + n) ELSE regions
           under == IF fixed THEN ForcedUnmap(S) ELSE mapped
           call  == IF fixed THEN "mmap_fixed" ELSE "mmap"
           d     == IF file = "open" THEN "file" ELSE "zero"
<1>0. /\ a \in Nat /\ n \in Nat /\ n >= 1 /\ pr \in Perm
      /\ at \in Nat /\ LastPage \in Nat
  <2>1. a \in Nat /\ n \in Nat /\ pr \in Perm /\ LastPage \in Nat
    BY GuestAssumption, LayoutAssumption
  <2>2. n # 0  BY DEF Mmap
  <2>3. at \in Nat  BY <2>1, NextMmapAddrFacts DEF MmapAddr
  <2> QED  BY <2>1, <2>2, <2>3
<1>1. /\ Table(table)
      /\ TablePages(table) \subseteq TablePages(regions)
      /\ fixed => TablePages(table) = TablePages(regions) \ S
      /\ \A s \in table : s.info = "[heap]" => s.start >= HeapStart
  <2>1. CASE fixed
    <3>1. at < at + n /\ at + n \in Nat /\ S = at..((at + n) - 1)
      BY <1>0 DEF Span
    <3>2. /\ Table(table)
          /\ TablePages(table) = TablePages(regions) \ S
          /\ \A s \in table :
                \E r \in regions : s.info = r.info /\ s.prot = r.prot /\ s.start >= r.start
                                 /\ PagesOf(s) \subseteq PagesOf(r)
      <4>1. table = RemoveRange(regions, at, at + n)  BY <2>1
      <4>2. Table(regions)  BY IInvTable
      <4> HIDE DEF at, S, table
      <4> QED  BY <1>0, <3>1, <4>1, <4>2, CutTable
    <3>3. \A r \in regions : r.start \in Nat /\ (r.info = "[heap]" => r.start >= HeapStart)
      BY LayoutAssumption DEF IInv, TypeOK, Region, Page, HeapAboveStart, HeapRegions
    <3>4. \A s \in table : s.start \in Nat /\ HeapStart \in Nat
      BY <3>2, LayoutAssumption DEF Table, Region, Page
    <3> QED  BY <3>2, <3>3, <3>4
  <2>2. CASE ~fixed
    BY <2>2, IInvTable DEF IInv, HeapAboveStart, HeapRegions
  <2> QED  BY <2>1, <2>2
<1>2. CASE UcCanMap(under, S)
  <2> DEFINE r == NewRegion(at, n, pr, "[mmap]")
  <2>1. /\ regions' = table \cup {r}
        /\ mapped' = under \cup S
        /\ perm' = UcFill(perm, S, pr)
        /\ data' = UcFill(data, S, d)
        /\ brk' = brk
    BY <1>2 DEF Mmap
  <2>2. S \subseteq Page /\ S \cap under = {}  BY <1>2 DEF UcCanMap
  <2>3. S \cap TablePages(table) = {}
    BY <1>1, <2>2 DEF IInv, TableBacked
  <2>4. Table(regions') /\ TablePages(regions') = TablePages(table) \cup S
    <3>1. "[mmap]" \in Info  BY DEF Info
    <3>2. S = Span(at, n)  OBVIOUS
    <3> HIDE DEF at, S, table, under
    <3> QED  BY <1>0, <1>1, <2>1, <2>2, <2>3, <3>1, <3>2, AddTable
  <2>5. /\ TablePages(regions') \subseteq mapped'
        /\ mapped' \ TablePages(regions') \subseteq mapped \ TablePages(regions)
    <3>1. under \subseteq mapped  BY DEF ForcedUnmap
    <3>2. CASE ~fixed
      <4>1. table = regions /\ under = mapped  BY <3>2
      <4> QED  BY <2>1, <2>4, <4>1 DEF IInv, TableBacked
    <3>3. CASE fixed
      <4>1. mapped \ S \subseteq under  BY DEF ForcedUnmap
      <4>2. TablePages(table) = TablePages(regions) \ S  BY <1>1, <3>3
      <4> HIDE DEF under, table, S
      <4> QED  BY <2>1, <2>4, <3>1, <4>1, <4>2 DEF IInv, TableBacked
    <3> QED  BY <3>2, <3>3
  <2>6. mapped' \subseteq Page /\ perm' \in [Page -> Perm] /\ data' \in [Page -> Data]
    <3>1. under \subseteq mapped  BY DEF ForcedUnmap
    <3>2. d \in Data  BY DEF Data
    <3> HIDE DEF under, S, d
    <3> QED  BY <1>0, <2>1, <2>2, <3>1, <3>2, FillType DEF IInv, TypeOK
  <2>7. HeapAboveStart'
    BY <1>1, <2>1 DEF IInv, HeapAboveStart, HeapRegions, NewRegion
  <2>8. last' \in [call : Calls, err : Errors, val : Nat]
    <3>1. \/ Step(call, "EBADF", 0) \/ Step(call, "EIO", 0) \/ Step(call, "none", at)
      BY <1>2 DEF Mmap
    <3> QED  BY <1>0, <3>1 DEF Step, Calls, Errors
  <2> QED
    BY <2>1, <2>4, <2>5, <2>6, <2>7, <2>8
       DEF IInv, TypeOK, TableBacked, TableDisjoint, Table, OrphanStep, Orphans
<1>3. CASE ~UcCanMap(under, S)
  <2>1. regions' = table /\ Step(call, "ENOMEM", 0) /\ brk' = brk  BY <1>3 DEF Mmap
  <2>0. UNCHANGED memory  BY <1>3, RefusedMmap
  <2>2. last' \in [call : Calls, err : Errors, val : Nat]
    BY <2>1 DEF Step, Calls, Errors
  <2>3. HeapAboveStart'
    BY <1>1, <2>1 DEF IInv, HeapAboveStart, HeapRegions
  <2>4. IInv'
    BY <1>1, <2>0, <2>1, <2>2, <2>3
       DEF IInv, TypeOK, TableBacked, TableDisjoint, Table, memory
  <2>5. CASE fixed
    <3>1. call = "mmap_fixed"  BY <2>5
    <3>2. last'.call = call /\ last'.err = "ENOMEM"
      <4> HIDE DEF call
      <4> QED  BY <2>1 DEF Step
    <3> QED  BY <2>4, <3>1, <3>2 DEF OrphanStep
  <2>6. CASE ~fixed
    <3>1. table = regions  BY <2>6
    <3> HIDE DEF table
    <3>2. regions' = regions /\ mapped' = mapped  BY <2>0, <2>1, <3>1 DEF memory
    <3> QED  BY <2>4, <3>2 DEF OrphanStep, Orphans
  <2> QED  BY <2>5, <2>6
<1> QED  BY <1>2, <1>3

LEMMA MprotectStep ==
    ASSUME IInv, NEW a \in Addrs, NEW n \in Lens, NEW off \in {0, 1}, NEW pr \in ProtArgs,
           Mprotect(a, n, off, pr)
    PROVE  IInv' /\ OrphanStep
<1> DEFINE S == Span(a, n + off)
           f(r) == IF Meets(r, S) THEN [r EXCEPT !.prot = pr] ELSE r
<1>1. CASE n = 0 \/ ~UcCanTouch(mapped, S)
  BY <1>1, QuietStep DEF Mprotect, Calls, Errors
<1>2. CASE n # 0 /\ UcCanTouch(mapped, S)
  <2>1. /\ perm' = UcFill(perm, S, pr)
        /\ regions' = {f(r) : r \in regions}
        /\ Step("mprotect", "none", 0)
        /\ UNCHANGED <<mapped, data, brk>>
    BY <1>2 DEF Mprotect
  <2>2. pr \in Perm  BY GuestAssumption
  <2>3. \A r \in regions : /\ f(r) \in Region /\ f(r).start = r.start
                           /\ f(r).size = r.size /\ f(r).info = r.info
    BY <2>2 DEF IInv, TypeOK, Region
  <2>4. \A r \in regions : PagesOf(f(r)) = PagesOf(r)  BY <2>3 DEF PagesOf
  <2> HIDE DEF f
  <2>5. regions' \subseteq Region  BY <2>1, <2>3
  <2>6. TablePages(regions') = TablePages(regions)  BY <2>1, <2>4 DEF TablePages
  <2>7. TableDisjoint'
    <3> SUFFICES ASSUME NEW s \in regions', NEW t \in regions', s # t
                 PROVE  PagesOf(s) \cap PagesOf(t) = {}
      BY DEF TableDisjoint, Disjoint
    <3>1. PICK q \in regions, r \in regions : s = f(q) /\ t = f(r)  BY <2>1
    <3>2. q # r  BY <3>1
    <3> QED  BY <3>1, <3>2, <2>4 DEF IInv, TableDisjoint, Disjoint
  <2>8. HeapAboveStart'
    BY <2>1, <2>3 DEF IInv, HeapAboveStart, HeapRegions
  <2>9. perm' \in [Page -> Perm]  BY <2>1, <2>2, FillType DEF IInv, TypeOK
  <2>10. last' \in [call : Calls, err : Errors, val : Nat]
    BY <2>1 DEF Step, Calls, Errors
  <2> QED
    BY <2>1, <2>5, <2>6, <2>7, <2>8, <2>9, <2>10
       DEF IInv, TypeOK, TableBacked, OrphanStep, Orphans
<1> QED  BY <1>1, <1>2

LEMMA MunmapStep ==
    ASSUME IInv, NEW a \in Addrs, NEW n \in Lens, NEW off \in {0, 1}, Munmap(a, n, off)
    PROVE  IInv' /\ OrphanStep
<1> DEFINE S == Span(a, n)
<1>1. CASE MunmapRefused(a, n, off)
  BY <1>1, QuietStep DEF MunmapRefused, Calls, Errors
<1>2. CASE MunmapDone(a, n, off)
  <2>1. /\ mapped' = mapped \ S
        /\ perm' = UcFill(perm, S, {})
        /\ data' = UcFill(data, S, "zero")
        /\ regions' = RemoveRange(regions, a, a + n)
        /\ Step("munmap", "none", 0)
        /\ UNCHANGED brk
    BY <1>2 DEF MunmapDone
  <2>2. a \in Nat /\ n \in Nat /\ a < a + n /\ a + n \in Nat /\ S = a..((a + n) - 1)
    BY <1>2, GuestAssumption DEF MunmapDone, MunmapAllowed, Span
  <2>3. /\ Table(regions')
        /\ TablePages(regions') = TablePages(regions) \ S
        /\ \A s \in regions' :
              \E r \in regions : s.info = r.info /\ s.prot = r.prot /\ s.start >= r.start
                               /\ PagesOf(s) \subseteq PagesOf(r)
    BY <2>1, <2>2, IInvTable, CutTable
  <2>4. HeapAboveStart'
    <3>1. \A r \in regions : r.start \in Nat /\ (r.info = "[heap]" => r.start >= HeapStart)
      BY LayoutAssumption DEF IInv, TypeOK, Region, Page, HeapAboveStart, HeapRegions
    <3>2. \A s \in regions' : s.start \in Nat /\ HeapStart \in Nat
      BY <2>3, LayoutAssumption DEF Table, Region, Page
    <3>3. \A s \in regions' : s.info = "[heap]" => s.start >= HeapStart
      BY <2>3, <3>1, <3>2
    <3> QED  BY <2>1, <3>3 DEF IInv, HeapAboveStart, HeapRegions
  <2>5. perm' \in [Page -> Perm] /\ data' \in [Page -> Data]
    BY <2>1, FillType DEF IInv, TypeOK, Perm, Data
  <2>6. last' \in [call : Calls, err : Errors, val : Nat]
    BY <2>1 DEF Step, Calls, Errors
  <2> QED
    BY <2>1, <2>3, <2>4, <2>5, <2>6
       DEF IInv, TypeOK, TableBacked, TableDisjoint, Table, OrphanStep, Orphans
<1> QED  BY <1>1, <1>2 DEF Munmap

LEMMA StoreStep ==
    ASSUME IInv, NEW p \in StorePages, GuestStore(p) \/ HandlerWrite(p)
    PROVE  IInv' /\ OrphanStep
<1>1. PICK by \in {"store", "write"} : StoreTo(p, by)
  BY DEF GuestStore, HandlerWrite
<1>2. data' \in [Page -> Data]
  BY <1>1 DEF StoreTo, IInv, TypeOK, Data
<1>3. last' \in [call : Calls, err : Errors, val : Nat]
  BY <1>1 DEF StoreTo, Step, Calls, Errors
<1> QED
  BY <1>1, <1>2, <1>3
     DEF StoreTo, IInv, TypeOK, TableBacked, TableDisjoint, HeapAboveStart, HeapRegions,
         OrphanStep, Orphans

LEMMA NextIInv == IInv /\ [Next]_vars => IInv' /\ OrphanStep
<1> SUFFICES ASSUME IInv, [Next]_vars PROVE IInv' /\ OrphanStep  OBVIOUS
<1>1. CASE BrkQuery  BY <1>1, BrkQueryStep
<1>2. CASE \E req \in Addrs : Brk(req)  BY <1>2, BrkStep
<1>3. CASE \E a \in Addrs, n \in Lens, off \in {0, 1} : MmapInvalid(a, n, off)
  BY <1>3, QuietStep DEF MmapInvalid, Calls, Errors
<1>4. CASE \E a \in Addrs, n \in Lens, pr \in ProtArgs, fixed \in BOOLEAN, file \in FileArgs :
               Mmap(a, n, pr, fixed, file)
  BY <1>4, MmapStep
<1>5. CASE \E a \in Addrs, n \in Lens, off \in {0, 1}, pr \in ProtArgs : Mprotect(a, n, off, pr)
  BY <1>5, MprotectStep
<1>6. CASE \E a \in Addrs, n \in Lens, off \in {0, 1} : Munmap(a, n, off)
  BY <1>6, MunmapStep
<1>7. CASE \E p \in StorePages : GuestStore(p) \/ HandlerWrite(p)  BY <1>7, StoreStep
<1>8. CASE UNCHANGED vars
  BY <1>8 DEF vars, IInv, TypeOK, TableBacked, TableDisjoint, HeapAboveStart, HeapRegions,
              OrphanStep, Orphans
<1> QED  BY <1>1, <1>2, <1>3, <1>4, <1>5, <1>6, <1>7, <1>8 DEF Next

\* The inductive invariant holds of every behaviour of the address space.
THEOREM Invariance == Spec => []IInv
BY InitIInv, NextIInv, PTL DEF Spec

\* Every value keeps its type: cut pieces of a region and the growth of the
\* heap stay regions of the address space (VMemory, sys_brk, sys_mmap).
THEOREM TypeCorrect == Spec => []TypeOK
BY Invariance, PTL DEF IInv

\* The table never lists a page Unicorn does not map, whatever order of brk,
\* mmap, MAP_FIXED, mprotect and munmap calls, failing or not, built it.
THEOREM TableIsBacked == Spec => []TableBacked
BY Invariance, PTL DEF IInv

\* Two regions of the table never share a page, and the heap never reaches
\* below its start.
THEOREM RegionsAreDisjoint == Spec => [](TableDisjoint /\ HeapAboveStart)
BY Invariance, PTL DEF IInv

\* A page is lost from the table while Unicorn keeps it only by a MAP_FIXED
\* mmap that reports ENOMEM, with the forced unmap's error ignored.
THEOREM OrphansTraced == Spec => OrphansOnlyFromFailedFixed
<1>1. IInv /\ [Next]_vars => [OrphanStep]_vars  BY NextIInv
<1>2. Spec => [][OrphanStep]_vars  BY <1>1, Invariance, PTL DEF Spec
<1> QED  BY <1>2 DEF OrphansOnlyFromFailedFixed, OrphanStep

\* A failed mmap costs no page: MAP_FIXED unmaps the range only if all of it is
\* mapped, and then mem_map, which would be what fails, has nothing to refuse.
THEOREM FailuresLoseNoPage == Spec => FailedMmapLosesNoPage
<1> DEFINE A == (last'.call \in {"mmap", "mmap_fixed"} /\ last'.err # "none") =>
                    /\ mapped \subseteq mapped'
                    /\ last'.err = "ENOMEM" => UNCHANGED memory
<1>1. ASSUME IInv, Next PROVE A
  <2>1. CASE BrkQuery  BY <2>1 DEF BrkQuery, Step
  <2>2. ASSUME NEW req \in Addrs, Brk(req) PROVE A
    BY <2>2 DEF Brk, BrkRefused, BrkMove, BrkGrow, BrkErr, Step
  <2>3. ASSUME NEW a \in Addrs, NEW n \in Lens, NEW off \in {0, 1}, MmapInvalid(a, n, off)
        PROVE A
    BY <2>3 DEF MmapInvalid, memory, Step
  <2>4. ASSUME NEW a \in Addrs, NEW n \in Lens, NEW pr \in ProtArgs, NEW fixed \in BOOLEAN,
               NEW file \in FileArgs, Mmap(a, n, pr, fixed, file)
        PROVE A
    <3> DEFINE at    == MmapAddr(a, n, fixed)
               S     == Span(at, n)
               under == IF fixed THEN ForcedUnmap(S) ELSE mapped
               call  == IF fixed THEN "mmap_fixed" ELSE "mmap"
    <3>1. CASE UcCanMap(under, S)
      <4>1. /\ mapped' = under \cup S
            /\ Step(call, "EBADF", 0) \/ Step(call, "EIO", 0) \/ Step(call, "none", at)
        BY <2>4, <3>1 DEF Mmap
      <4>2. mapped \ S \subseteq under  BY DEF ForcedUnmap
      <4>3. last'.err # "ENOMEM"  BY <4>1 DEF Step
      <4> HIDE DEF under, S
      <4>4. mapped \subseteq mapped'  BY <4>1, <4>2
      <4> QED  BY <4>3, <4>4
    <3>2. CASE ~UcCanMap(under, S)  BY <1>1, <2>4, <3>2, RefusedMmap DEF memory
    <3> QED  BY <3>1, <3>2
  <2>5. ASSUME NEW a \in Addrs, NEW n \in Lens, NEW off \in {0, 1}, NEW pr \in ProtArgs,
               Mprotect(a, n, off, pr)
        PROVE A
    BY <2>5 DEF Mprotect, Step
  <2>6. ASSUME NEW a \in Addrs, NEW n \in Lens, NEW off \in {0, 1}, Munmap(a, n, off)
        PROVE A
    BY <2>6 DEF Munmap, MunmapRefused, MunmapDone, Step
  <2>7. ASSUME NEW p \in StorePages, GuestStore(p) \/ HandlerWrite(p) PROVE A
    BY <2>7 DEF GuestStore, HandlerWrite, StoreTo, Step
  <2> QED  BY <1>1, <2>1, <2>2, <2>3, <2>4, <2>5, <2>6, <2>7 DEF Next
<1>2. IInv /\ [Next]_vars => [A]_vars  BY <1>1
<1>3. Spec => [][A]_vars  BY <1>2, Invariance, PTL DEF Spec
<1> QED  BY <1>3 DEF FailedMmapLosesNoPage

-----------------------------------------------------------------------------
(***************************************************************************)
(* What the handlers read off the table.  A page from the end of the       *)
(* mapped heap to the requested break is no heap region's, since that end  *)
(* is the last heap region's; and no other region's, which would start     *)
(* below that end and so share the last page of the heap.                  *)
(***************************************************************************)
LEMMA HeapEndIsAHeapRegions ==
    ASSUME IInv, HeapRegions # {}
    PROVE  \E h \in HeapRegions : RegionEnd(h) = MappedHeapEnd
<1> DEFINE E == {RegionEnd(r) : r \in HeapRegions}
<1>1. LastPage + 1 \in Nat  BY LayoutAssumption
<1>2. \A r \in HeapRegions : RegionEnd(r) \in 0..(LastPage + 1)
  <2> TAKE r \in HeapRegions
  <2>1. r \in Region /\ PagesOf(r) \subseteq Page  BY IInvTable DEF Table, HeapRegions
  <2> QED  BY <2>1, RegionFacts
<1>3. E \in SUBSET (0..(LastPage + 1)) /\ E # {}  BY <1>2
<1>4. Max(E) \in E
  <2> HIDE DEF E
  <2> QED  BY <1>1, <1>3, MaxNat
<1>5. MappedHeapEnd = Max(E)  BY DEF MappedHeapEnd
<1> QED  BY <1>4, <1>5

LEMMA HeapCanGrow ==
    ASSUME IInv, HeapRegions # {}, NEW req \in Nat, WithinHeapLimit(req)
    PROVE  (MappedHeapEnd..(req - 1)) \cap TablePages(regions) = {}
<1> DEFINE top == MappedHeapEnd
<1>1. top \in Nat  BY HeapEndFacts, LayoutAssumption
<1>2. PICK h \in HeapRegions : RegionEnd(h) = top  BY HeapEndIsAHeapRegions
<1> HIDE DEF top
<1> SUFFICES ASSUME NEW r \in regions, NEW p \in PagesOf(r), p \in top..(req - 1)
             PROVE  FALSE
  BY DEF TablePages, top
<1>3. /\ r \in Region /\ h \in Region /\ h \in regions
      /\ r.start \in Nat /\ RegionEnd(r) \in Nat
      /\ r.start <= p /\ p < RegionEnd(r) /\ top <= p /\ p < req /\ p \in Nat
  <2>1. r \in Region /\ h \in Region /\ h \in regions
    BY IInvTable DEF Table, HeapRegions
  <2>2. r.start \in Nat /\ RegionEnd(r) \in Nat /\ PagesOf(r) = r.start..(RegionEnd(r) - 1)
    BY <2>1, RegionFacts
  <2> QED  BY <1>1, <2>1, <2>2
<1>4. CASE r \in HeapRegions
  <2>1. RegionEnd(r) <= top  BY <1>4, HeapEndFacts DEF top
  <2> QED  BY <1>1, <1>3, <2>1
<1>5. CASE r \notin HeapRegions /\ r.start >= top
  <2>1. req <= r.start  BY <1>5 DEF WithinHeapLimit, top
  <2> QED  BY <1>3, <2>1
<1>6. CASE r \notin HeapRegions /\ r.start < top
  <2>1. (top - 1) \in PagesOf(h)  BY <1>2, <1>3, RegionFacts
  <2>2. (top - 1) \in PagesOf(r)
    <3>1. PagesOf(r) = r.start..(RegionEnd(r) - 1)  BY <1>3, RegionFacts
    <3> QED  BY <1>1, <1>3, <1>6, <3>1
  <2>3. h # r  BY <1>6
  <2> QED  BY <1>3, <2>1, <2>2, <2>3 DEF IInv, TableDisjoint, Disjoint
<1> QED  BY <1>1, <1>3, <1>4, <1>5, <1>6

LEMMA IInvIsEnough == IInv => TableIsEnough
<1> SUFFICES ASSUME IInv, Orphans = {} PROVE
       /\ HeapRegions # {} =>
               \A req \in Addrs :
                   (BrkAllowed(req) /\ req <= LastPage + 1) =>
                       (MappedHeapEnd..(req - 1)) \cap mapped = {}
       /\ \A n \in Lens \ {0} :
               LET S == Span(NextMmapAddr(n), n)
               IN  S \subseteq Page => UcCanMap(mapped, S)
  BY DEF TableIsEnough
<1>1. mapped = TablePages(regions)  BY DEF Orphans, IInv, TableBacked
<1>2. ASSUME HeapRegions # {}, NEW req \in Addrs, BrkAllowed(req)
      PROVE  (MappedHeapEnd..(req - 1)) \cap mapped = {}
  <2>1. req \in Nat /\ WithinHeapLimit(req)  BY <1>2, GuestAssumption DEF BrkAllowed
  <2> QED  BY <1>1, <1>2, <2>1, HeapCanGrow
<1>3. ASSUME NEW n \in Lens \ {0}, Span(NextMmapAddr(n), n) \subseteq Page
      PROVE  UcCanMap(mapped, Span(NextMmapAddr(n), n))
  <2>1. n \in Nat /\ n >= 1  BY GuestAssumption
  <2>2. NextMmapAddr(n) \in Nat /\ Span(NextMmapAddr(n), n) \cap TablePages(regions) = {}
    BY <2>1, NextMmapAddrFacts
  <2>3. NextMmapAddr(n) \in Span(NextMmapAddr(n), n)  BY <2>1, <2>2 DEF Span
  <2> QED  BY <1>1, <1>3, <2>2, <2>3 DEF UcCanMap
<1> QED  BY <1>2, <1>3

\* While no page was lost from the table, what sys_brk and next_mmap_addr read
\* off it is enough: mem_map refuses neither, except past the end of the space.
THEOREM PlacementNeedsNoUnicorn == Spec => []TableIsEnough
BY Invariance, IInvIsEnough, PTL

-----------------------------------------------------------------------------
(***************************************************************************)
(* What placement leaves alone.  A range Unicorn agrees to map has no page *)
(* that was mapped, so filling it changes none of those.                   *)
(***************************************************************************)
KeepsMapped == \A p \in mapped : p \in mapped' /\ perm'[p] = perm[p] /\ data'[p] = data[p]

PlacementStep ==
    /\ last'.call \in {"brk", "mmap"} => KeepsMapped
    /\ (last'.call = "mmap" /\ last'.err = "none") =>
            last'.val \in mapped' \ mapped /\ last'.val >= brk + Gap

LEMMA MappingKeeps ==
    ASSUME IInv, NEW S, UcCanMap(mapped, S), mapped' = mapped \cup S,
           NEW pr, perm' = UcFill(perm, S, pr), NEW d, data' = UcFill(data, S, d)
    PROVE  KeepsMapped
<1>1. \A p \in mapped : p \in Page /\ p \notin S  BY DEF UcCanMap, IInv, TypeOK
<1> QED  BY <1>1 DEF KeepsMapped, UcFill

LEMMA BrkPlacement ==
    ASSUME IInv, NEW req \in Addrs, Brk(req)
    PROVE  PlacementStep
<1>1. CASE BrkRefused(req) \/ BrkMove(req)
  BY <1>1 DEF BrkRefused, BrkMove, Step, memory, PlacementStep, KeepsMapped
<1>2. CASE BrkGrow(req)
  <2> DEFINE S == MappedHeapEnd..(req - 1)
  <2>1. CASE UcCanMap(mapped, S)
    <3>1. /\ mapped' = mapped \cup S
          /\ perm' = UcFill(perm, S, ALL)
          /\ data' = UcFill(data, S, "zero")
          /\ Step("brk", "none", req)
      BY <1>2, <2>1 DEF BrkGrow
    <3>2. KeepsMapped
      <4> HIDE DEF S
      <4> QED  BY <2>1, <3>1, MappingKeeps
    <3> QED  BY <3>1, <3>2 DEF PlacementStep, Step
  <2>2. CASE ~UcCanMap(mapped, S)
    BY <1>2, <2>2 DEF BrkGrow, BrkErr, Step, memory, PlacementStep, KeepsMapped
  <2> QED  BY <2>1, <2>2
<1> QED  BY <1>1, <1>2 DEF Brk

LEMMA MmapPlacement ==
    ASSUME IInv, NEW a \in Addrs, NEW n \in Lens, NEW pr \in ProtArgs,
           NEW fixed \in BOOLEAN, NEW file \in FileArgs, Mmap(a, n, pr, fixed, file)
    PROVE  PlacementStep
<1> DEFINE at    == MmapAddr(a, n, fixed)
           S     == Span(at, n)
           under == IF fixed THEN ForcedUnmap(S) ELSE mapped
           call  == IF fixed THEN "mmap_fixed" ELSE "mmap"
           d     == IF file = "open" THEN "file" ELSE "zero"
<1>1. CASE fixed
  <2>1. \E e, v : Step("mmap_fixed", e, v)  BY <1>1 DEF Mmap
  <2> QED  BY <2>1 DEF Step, PlacementStep
<1>2. CASE ~fixed /\ ~UcCanMap(mapped, S)
  <2>1. Step("mmap", "ENOMEM", 0) /\ UNCHANGED memory  BY <1>2, RefusedMmap DEF Mmap
  <2> QED  BY <2>1 DEF Step, memory, PlacementStep, KeepsMapped
<1>3. CASE ~fixed /\ UcCanMap(mapped, S)
  <2>1. /\ mapped' = mapped \cup S
        /\ perm' = UcFill(perm, S, pr)
        /\ data' = UcFill(data, S, d)
        /\ \/ Step("mmap", "EBADF", 0) \/ Step("mmap", "EIO", 0) \/ Step("mmap", "none", at)
    BY <1>3 DEF Mmap
  <2>2. n \in Nat /\ n >= 1
    <3>1. n \in Nat /\ n # 0  BY GuestAssumption DEF Mmap
    <3> QED  BY <3>1
  <2>3. at \in Nat /\ at >= brk + Gap  BY <1>3, <2>2, NextMmapAddrFacts DEF MmapAddr
  <2>4. at \in S  BY <2>2, <2>3 DEF Span
  <2> HIDE DEF at, S, d
  <2>5. KeepsMapped  BY <1>3, <2>1, MappingKeeps
  <2>6. at \in mapped' \ mapped  BY <1>3, <2>1, <2>4 DEF UcCanMap
  <2> QED  BY <2>1, <2>3, <2>5, <2>6 DEF PlacementStep, Step
<1> QED  BY <1>1, <1>2, <1>3

LEMMA NextPlacement == IInv /\ [Next]_vars => [PlacementStep]_vars
<1> SUFFICES ASSUME IInv, Next PROVE PlacementStep  OBVIOUS
<1>1. CASE BrkQuery  BY <1>1 DEF BrkQuery, Step, memory, PlacementStep, KeepsMapped
<1>2. CASE \E req \in Addrs : Brk(req)  BY <1>2, BrkPlacement
<1>3. CASE \E a \in Addrs, n \in Lens, off \in {0, 1} : MmapInvalid(a, n, off)
  BY <1>3 DEF MmapInvalid, Step, memory, PlacementStep, KeepsMapped
<1>4. CASE \E a \in Addrs, n \in Lens, pr \in ProtArgs, fixed \in BOOLEAN, file \in FileArgs :
               Mmap(a, n, pr, fixed, file)
  BY <1>4, MmapPlacement
<1>5. CASE \E a \in Addrs, n \in Lens, off \in {0, 1}, pr \in ProtArgs : Mprotect(a, n, off, pr)
  BY <1>5 DEF Mprotect, Step, PlacementStep
<1>6. CASE \E a \in Addrs, n \in Lens, off \in {0, 1} : Munmap(a, n, off)
  BY <1>6 DEF Munmap, MunmapRefused, MunmapDone, Step, PlacementStep
<1>7. CASE \E p \in StorePages : GuestStore(p) \/ HandlerWrite(p)
  BY <1>7 DEF GuestStore, HandlerWrite, StoreTo, Step, PlacementStep
<1> QED  BY <1>1, <1>2, <1>3, <1>4, <1>5, <1>6, <1>7 DEF Next

\* brk and mmap without MAP_FIXED leave every page that was mapped as it was,
\* and mmap answers a page nobody had, past the guard gap.
THEOREM PlacementIsHarmless == Spec => PlacementDisturbsNothing
<1>1. Spec => [][PlacementStep]_vars  BY NextPlacement, Invariance, PTL DEF Spec
<1> QED  BY <1>1 DEF PlacementDisturbsNothing, PlacementStep, KeepsMapped

-----------------------------------------------------------------------------
(***************************************************************************)
(* Protections.  What remove_range leaves of a region keeps its recorded   *)
(* protection, and a new region records the one its pages were given.      *)
(***************************************************************************)
Agrees(T, f) == \A r \in T : \A p \in PagesOf(r) : f[p] = r.prot

LEMMA CutAgrees ==
    ASSUME NEW T, Table(T), NEW f, Agrees(T, f), NEW a \in Nat, NEW e \in Nat, a < e
    PROVE  Agrees(RemoveRange(T, a, e), f)
BY CutTable DEF Agrees

LEMMA FillAgrees ==
    ASSUME NEW T, Table(T), NEW f, Agrees(T, f), NEW S, S \cap TablePages(T) = {}, NEW v
    PROVE  Agrees(T, UcFill(f, S, v))
BY DEF Agrees, Table, TablePages, UcFill

\* Entering a new region over a range the table does not list.
LEMMA AddAgrees ==
    ASSUME NEW T, Table(T), NEW f, Agrees(T, f), NEW a \in Nat, NEW n \in Nat,
           Span(a, n) \subseteq Page, Span(a, n) \cap TablePages(T) = {}, NEW pr, NEW i
    PROVE  Agrees(T \cup {NewRegion(a, n, pr, i)}, UcFill(f, Span(a, n), pr))
<1>1. Agrees(T, UcFill(f, Span(a, n), pr))  BY FillAgrees
<1>2. PagesOf(NewRegion(a, n, pr, i)) = Span(a, n) /\ NewRegion(a, n, pr, i).prot = pr
  BY DEF PagesOf, NewRegion
<1>3. \A p \in Span(a, n) : UcFill(f, Span(a, n), pr)[p] = pr  BY DEF UcFill
<1> QED  BY <1>1, <1>2, <1>3 DEF Agrees

LEMMA BrkAgrees ==
    ASSUME IInv, PermAgree, NEW req \in Addrs, Brk(req)
    PROVE  PermAgree'
<1>1. CASE BrkRefused(req) \/ BrkMove(req)
  BY <1>1 DEF BrkRefused, BrkMove, memory, PermAgree
<1>2. CASE BrkGrow(req)
  <2> DEFINE top == MappedHeapEnd
             S == top..(req - 1)
  <2>1. CASE UcCanMap(mapped, S)
    <3>1. /\ regions' = regions \cup {NewRegion(top, req - top, ALL, "[heap]")}
          /\ perm' = UcFill(perm, S, ALL)
      BY <1>2, <2>1 DEF BrkGrow
    <3>2. top \in Nat /\ req \in Nat /\ req > top
      BY <1>2, HeapEndFacts, GuestAssumption, LayoutAssumption DEF BrkGrow
    <3>3. S = Span(top, req - top) /\ req - top \in Nat  BY <3>2 DEF Span
    <3>4. S \subseteq Page /\ S \cap TablePages(regions) = {}
      BY <2>1 DEF UcCanMap, IInv, TableBacked
    <3>5. Table(regions) /\ Agrees(regions, perm)  BY IInvTable DEF Agrees, PermAgree
    <3> HIDE DEF top, S
    <3>6. Agrees(regions', perm')  BY <3>1, <3>2, <3>3, <3>4, <3>5, AddAgrees
    <3> QED  BY <3>6 DEF Agrees, PermAgree
  <2>2. CASE ~UcCanMap(mapped, S)
    BY <1>2, <2>2 DEF BrkGrow, BrkErr, memory, PermAgree
  <2> QED  BY <2>1, <2>2
<1> QED  BY <1>1, <1>2 DEF Brk

LEMMA MmapAgrees ==
    ASSUME IInv, PermAgree, NEW a \in Addrs, NEW n \in Lens, NEW pr \in ProtArgs,
           NEW fixed \in BOOLEAN, NEW file \in FileArgs, Mmap(a, n, pr, fixed, file)
    PROVE  PermAgree'
<1> DEFINE at    == MmapAddr(a, n, fixed)
           S     == Span(at, n)
           table == IF fixed THEN RemoveRange(regions, at, at + n) ELSE regions
           under == IF fixed THEN ForcedUnmap(S) ELSE mapped
<1>0. n \in Nat /\ n >= 1 /\ at \in Nat
  <2>1. n \in Nat /\ n # 0 /\ a \in Nat  BY GuestAssumption DEF Mmap
  <2>2. at \in Nat  BY <2>1, NextMmapAddrFacts DEF MmapAddr
  <2> QED  BY <2>1, <2>2
<1>1. Table(table) /\ Agrees(table, perm) /\ TablePages(table) \subseteq TablePages(regions)
      /\ (fixed => TablePages(table) \cap S = {})
  <2>1. Table(regions) /\ Agrees(regions, perm)  BY IInvTable DEF Agrees, PermAgree
  <2>2. CASE fixed
    <3>1. at < at + n /\ at + n \in Nat /\ S = at..((at + n) - 1)  BY <1>0 DEF Span
    <3>2. table = RemoveRange(regions, at, at + n)  BY <2>2
    <3> HIDE DEF at, S, table
    <3>3. Table(table) /\ TablePages(table) = TablePages(regions) \ S
      BY <1>0, <2>1, <3>1, <3>2, CutTable
    <3>4. Agrees(table, perm)  BY <1>0, <2>1, <3>1, <3>2, CutAgrees
    <3> QED  BY <3>3, <3>4
  <2>3. CASE ~fixed  BY <2>1, <2>3
  <2> QED  BY <2>2, <2>3
<1>2. CASE UcCanMap(under, S)
  <2>1. regions' = table \cup {NewRegion(at, n, pr, "[mmap]")} /\ perm' = UcFill(perm, S, pr)
    BY <1>2 DEF Mmap
  <2>2. S \subseteq Page  BY <1>2 DEF UcCanMap
  <2>3. S \cap TablePages(table) = {}
    <3>1. CASE fixed  BY <1>1, <3>1
    <3>2. CASE ~fixed
      <4>1. under = mapped  BY <3>2
      <4> QED  BY <1>1, <1>2, <4>1 DEF UcCanMap, IInv, TableBacked
    <3> QED  BY <3>1, <3>2
  <2>4. S = Span(at, n)  OBVIOUS
  <2> HIDE DEF at, S, table, under
  <2>5. Agrees(regions', perm')  BY <1>0, <1>1, <2>1, <2>2, <2>3, <2>4, AddAgrees
  <2> QED  BY <2>5 DEF Agrees, PermAgree
<1>3. CASE ~UcCanMap(under, S)
  <2>1. regions' = table /\ perm' = perm  BY <1>3, RefusedMmap DEF Mmap, memory
  <2> QED  BY <1>1, <2>1 DEF Agrees, PermAgree
<1> QED  BY <1>2, <1>3

LEMMA MunmapAgrees ==
    ASSUME IInv, PermAgree, NEW a \in Addrs, NEW n \in Lens, NEW off \in {0, 1}, Munmap(a, n, off)
    PROVE  PermAgree'
<1>1. CASE MunmapRefused(a, n, off)  BY <1>1 DEF MunmapRefused, memory, PermAgree
<1>2. CASE MunmapDone(a, n, off)
  <2> DEFINE S == Span(a, n)
  <2>1. regions' = RemoveRange(regions, a, a + n) /\ perm' = UcFill(perm, S, {})
    BY <1>2 DEF MunmapDone
  <2>2. a \in Nat /\ n \in Nat /\ a < a + n /\ a + n \in Nat /\ S = a..((a + n) - 1)
    BY <1>2, GuestAssumption DEF MunmapDone, MunmapAllowed, Span
  <2>3. Table(regions) /\ Agrees(regions, perm)  BY IInvTable DEF Agrees, PermAgree
  <2> HIDE DEF S
  <2>4. Table(regions') /\ TablePages(regions') \cap S = {}  BY <2>1, <2>2, <2>3, CutTable
  <2>5. Agrees(regions', perm)  BY <2>1, <2>2, <2>3, CutAgrees
  <2>6. Agrees(regions', perm')  BY <2>1, <2>4, <2>5, FillAgrees
  <2> QED  BY <2>6 DEF Agrees, PermAgree
<1> QED  BY <1>1, <1>2 DEF Munmap

\* An mprotect that changes a region's protection changes it on all of the
\* region's pages or, where the table goes wrong, on some of them only.
LEMMA MprotectAgrees ==
    ASSUME IInv, PermAgree, NEW a \in Addrs, NEW n \in Lens, NEW off \in {0, 1},
           NEW pr \in ProtArgs, Mprotect(a, n, off, pr),
           \A r \in regions : ~PartlyProtected(r)
    PROVE  PermAgree'
<1> DEFINE S == Span(a, n + off)
<1>1. CASE n = 0 \/ ~UcCanTouch(mapped, S)
  BY <1>1 DEF Mprotect, memory, PermAgree
<1>2. CASE n # 0 /\ UcCanTouch(mapped, S)
  <2>1. /\ perm' = UcFill(perm, S, pr)
        /\ regions' = {IF Meets(r, S) THEN [r EXCEPT !.prot = pr] ELSE r : r \in regions}
    BY <1>2 DEF Mprotect
  <2> HIDE DEF S
  <2>2. ASSUME NEW r \in regions, NEW p \in PagesOf(r)
        PROVE  perm'[p] = IF Meets(r, S) THEN pr ELSE r.prot
    <3>1. PagesOf(r) \subseteq Page  BY IInvTable DEF Table
    <3>2. \A q \in PagesOf(r) : perm[q] = r.prot  BY DEF PermAgree
    <3>3. \A q \in PagesOf(r) : perm'[q] = IF q \in S THEN pr ELSE perm[q]
      BY <2>1, <3>1 DEF UcFill
    <3>4. CASE ~Meets(r, S)
      <4>1. p \notin S  BY <3>4 DEF Meets
      <4> QED  BY <3>2, <3>3, <3>4, <4>1
    <3>5. CASE Meets(r, S)
      <4>1. PICK q \in PagesOf(r) : q \in S  BY <3>5 DEF Meets
      <4>2. perm'[q] = perm[q] \/ perm'[p] # perm[p]  BY DEF PartlyProtected
      <4>3. perm'[q] = pr /\ perm[q] = r.prot /\ perm[p] = r.prot  BY <3>2, <3>3, <4>1
      <4>4. perm'[p] = pr  BY <3>3, <4>2, <4>3
      <4> QED  BY <3>5, <4>4
    <3> QED  BY <3>4, <3>5
  <2>3. \A r \in regions :
            LET t == IF Meets(r, S) THEN [r EXCEPT !.prot = pr] ELSE r
            IN  /\ PagesOf(t) = PagesOf(r)
                /\ t.prot = IF Meets(r, S) THEN pr ELSE r.prot
    BY IInvTable DEF Table, Region, PagesOf
  <2>4. ASSUME NEW t \in regions', NEW p \in PagesOf(t) PROVE perm'[p] = t.prot
    <3>1. PICK r \in regions : t = IF Meets(r, S) THEN [r EXCEPT !.prot = pr] ELSE r
      BY <2>1
    <3>2. p \in PagesOf(r)  BY <2>3, <3>1
    <3>3. t.prot = IF Meets(r, S) THEN pr ELSE r.prot  BY <2>3, <3>1
    <3> QED  BY <2>2, <3>2, <3>3
  <2> QED  BY <2>4 DEF PermAgree, PagesOf
<1> QED  BY <1>1, <1>2

DivergenceStep ==
    PermAgree =>
        \/ PermAgree'
        \/ last'.call = "mprotect" /\ \E r \in regions : PartlyProtected(r)

LEMMA NextDivergence == IInv /\ [Next]_vars => [DivergenceStep]_vars
<1> SUFFICES ASSUME IInv, Next, PermAgree
             PROVE  PermAgree' \/ (last'.call = "mprotect" /\ \E r \in regions : PartlyProtected(r))
  BY DEF DivergenceStep
<1>1. CASE BrkQuery  BY <1>1 DEF BrkQuery, memory, PermAgree
<1>2. CASE \E req \in Addrs : Brk(req)  BY <1>2, BrkAgrees
<1>3. CASE \E a \in Addrs, n \in Lens, off \in {0, 1} : MmapInvalid(a, n, off)
  BY <1>3 DEF MmapInvalid, memory, PermAgree
<1>4. CASE \E a \in Addrs, n \in Lens, pr \in ProtArgs, fixed \in BOOLEAN, file \in FileArgs :
               Mmap(a, n, pr, fixed, file)
  BY <1>4, MmapAgrees
<1>5. ASSUME NEW a \in Addrs, NEW n \in Lens, NEW off \in {0, 1}, NEW pr \in ProtArgs,
             Mprotect(a, n, off, pr)
      PROVE  PermAgree' \/ (last'.call = "mprotect" /\ \E r \in regions : PartlyProtected(r))
  <2>1. last'.call = "mprotect"  BY <1>5 DEF Mprotect, Step
  <2>2. (\A r \in regions : ~PartlyProtected(r)) => PermAgree'  BY <1>5, MprotectAgrees
  <2> QED  BY <2>1, <2>2
<1>6. CASE \E a \in Addrs, n \in Lens, off \in {0, 1} : Munmap(a, n, off)
  BY <1>6, MunmapAgrees
<1>7. CASE \E p \in StorePages : GuestStore(p) \/ HandlerWrite(p)
  BY <1>7 DEF GuestStore, HandlerWrite, StoreTo, PermAgree
<1> QED  BY <1>1, <1>2, <1>3, <1>4, <1>5, <1>6, <1>7 DEF Next

\* Splitting, growing, mapping over and unmapping regions keep the recorded
\* protection the one Unicorn enforces, and so does mprotect of whole regions:
\* only a step that reprotects some pages of a region makes the two differ.
THEOREM OnlyMprotectDiverges == Spec => DivergenceOnlyByMprotect
<1>1. Spec => [][DivergenceStep]_vars  BY NextDivergence, Invariance, PTL DEF Spec
<1> QED  BY <1>1 DEF DivergenceOnlyByMprotect, DivergenceStep

-----------------------------------------------------------------------------
\* The restore of ReusableEmulator, between runs of the guest.

PiecePages(piece) == piece[1]..(piece[2] - 1)

\* A piece of a listed region, as the first loop of the restore unmaps it.
Piece(piece) ==
    /\ piece \in Nat \X Nat
    /\ piece[1] < piece[2]
    /\ PiecePages(piece) \subseteq TablePages(regions)

(***************************************************************************)
(* What each phase may rely on.  The pieces still to unmap are listed, so  *)
(* mapped, and apart; a region the second loop is done with is mapped and  *)
(* protected as the snapshot says, and stays so because the snapshot's     *)
(* regions are apart; the rewriting runs on the snapshot's own table.      *)
(***************************************************************************)
UnmapInv ==
    /\ \A piece \in todo : Piece(piece)
    /\ \A p, q \in todo : p # q => PiecePages(p) \cap PiecePages(q) = {}

Reprotected(r) ==
    /\ PagesOf(r) \subseteq mapped
    /\ \A p \in PagesOf(r) : perm[p] = r.prot

RemapInv ==
    /\ todo \subseteq SnapRegions
    /\ \A r \in SnapRegions \ todo : Reprotected(r)

RewriteInv ==
    /\ todo \subseteq WritableSnap
    /\ regions = SnapRegions
    /\ \A r \in SnapRegions : Reprotected(r)
    /\ \A r \in WritableSnap \ todo : \A p \in PagesOf(r) : data[p] = "image"

PhaseInv ==
    /\ phase = "unmap" => UnmapInv
    /\ phase = "remap" => RemapInv
    /\ phase = "rewrite" => RewriteInv

RInv ==
    /\ IInv
    /\ phase \in Phases /\ proc \in {"snapshot", "changed"}
    /\ PhaseInv

-----------------------------------------------------------------------------
\* The pieces of a region that stick out of the snapshot are runs of its pages,
\* and two of them never touch.
LEMMA StrayFacts ==
    ASSUME NEW r \in Region, PagesOf(r) \subseteq Page, NEW p \in StrayPieces(r)
    PROVE  /\ p \in Nat \X Nat /\ p[1] < p[2]
           /\ PiecePages(p) \subseteq PagesOf(r) \ SnapPages
           /\ (p[1] - 1) \notin PagesOf(r) \ SnapPages
           /\ p[2] \notin PagesOf(r) \ SnapPages
<1>1. PagesOf(r) \subseteq Nat /\ 1..(LastPage + 1) \subseteq Nat
  BY LayoutAssumption DEF Page
<1> QED  BY <1>1 DEF StrayPieces, PiecePages

LEMMA StrayApart ==
    ASSUME NEW r \in Region, PagesOf(r) \subseteq Page,
           NEW p \in StrayPieces(r), NEW q \in StrayPieces(r), p # q
    PROVE  PiecePages(p) \cap PiecePages(q) = {}
<1> DEFINE stray == PagesOf(r) \ SnapPages
<1>1. /\ p \in Nat \X Nat /\ p[1]..(p[2] - 1) \subseteq stray
      /\ (p[1] - 1) \notin stray /\ p[2] \notin stray
      /\ q \in Nat \X Nat /\ q[1]..(q[2] - 1) \subseteq stray
      /\ (q[1] - 1) \notin stray /\ q[2] \notin stray
  BY StrayFacts DEF PiecePages
<1> HIDE DEF stray
<1> SUFFICES ASSUME NEW x \in PiecePages(p), x \in PiecePages(q) PROVE FALSE  OBVIOUS
<1>2. x \in Int /\ p[1] <= x /\ x < p[2] /\ q[1] <= x /\ x < q[2]
  BY <1>1 DEF PiecePages
<1>3. ~(p[1] < q[1])
  <2>1. p[1] < q[1] => (q[1] - 1) \in p[1]..(p[2] - 1)  BY <1>1, <1>2
  <2> QED  BY <1>1, <2>1
<1>4. ~(q[1] < p[1])
  <2>1. q[1] < p[1] => (p[1] - 1) \in q[1]..(q[2] - 1)  BY <1>1, <1>2
  <2> QED  BY <1>1, <2>1
<1>5. ~(p[2] < q[2])
  <2>1. p[2] < q[2] => p[2] \in q[1]..(q[2] - 1)  BY <1>1, <1>2
  <2> QED  BY <1>1, <2>1
<1>6. ~(q[2] < p[2])
  <2>1. q[2] < p[2] => q[2] \in p[1]..(p[2] - 1)  BY <1>1, <1>2
  <2> QED  BY <1>1, <2>1
<1>7. p[1] = q[1] /\ p[2] = q[2]  BY <1>1, <1>3, <1>4, <1>5, <1>6
<1> QED  BY <1>1, <1>7

\* The snapshot's regions: inside the space, apart, and all of them regions.
LEMMA SnapFacts ==
    /\ SnapRegions \subseteq Region
    /\ \A r \in SnapRegions : PagesOf(r) \subseteq Page /\ PagesOf(r) \subseteq SnapPages
    /\ \A r \in SnapRegions, s \in SnapRegions : r # s => PagesOf(r) \cap PagesOf(s) = {}
    /\ Table(SnapRegions)
    /\ SnapPages \subseteq Page
BY LayoutAssumption DEF SnapRegions, SnapPages, TablePages, Disjoint, Table

\* The layout's part of RInv sees neither the phase nor what is left to do.
LEMMA IInvUnchanged == IInv /\ UNCHANGED vars => IInv'
BY DEF vars, memory, IInv, TypeOK, TableBacked, TableDisjoint, HeapAboveStart, HeapRegions

-----------------------------------------------------------------------------
(***************************************************************************)
(* One lemma per phase: it keeps the invariant, and where it fails.        *)
(***************************************************************************)
Holes == ~(SnapPages \subseteq TablePages(regions))

FailStep == (phase # "failed" /\ phase' = "failed") => phase = "remap" /\ Holes

Restored ==
    /\ regions' = SnapRegions
    /\ SnapPages \subseteq mapped'
    /\ PermAgree'
    /\ \A r \in SnapRegions : "W" \in r.prot => \A p \in PagesOf(r) : data'[p] = "image"
    /\ proc' = "snapshot"

StartStep == Starts => Restored

LEMMA InitRInv == RunInit => RInv
<1> SUFFICES ASSUME RunInit PROVE RInv  OBVIOUS
<1>1. IInv  BY InitIInv DEF RunInit
<1> QED  BY <1>1 DEF RunInit, RInv, PhaseInv, Phases

LEMMA RunInputStep == RInv /\ RunInput => RInv' /\ FailStep /\ StartStep
<1> SUFFICES ASSUME RInv, RunInput PROVE RInv' /\ FailStep /\ StartStep  OBVIOUS
<1>0. /\ phase' = "unmap" /\ UNCHANGED <<vars, proc>>
      /\ todo' = UNION {StrayPieces(r) : r \in regions}
  BY DEF RunInput
<1>1. IInv'  BY <1>0, IInvUnchanged DEF RInv
<1>2. Table(regions)  BY IInvTable DEF RInv
<1>3. \A r \in regions : r \in Region /\ PagesOf(r) \subseteq Page  BY <1>2 DEF Table
<1>4. regions' = regions  BY <1>0 DEF vars
<1>5. \A piece \in todo' : \E r \in regions : piece \in StrayPieces(r)  BY <1>0
<1>6. UnmapInv'
  <2>1. ASSUME NEW piece \in todo' PROVE Piece(piece)'
    <3>1. PICK r \in regions : piece \in StrayPieces(r)  BY <1>5, <2>1
    <3>2. piece \in Nat \X Nat /\ piece[1] < piece[2] /\ PiecePages(piece) \subseteq PagesOf(r)
      BY <1>3, <3>1, StrayFacts
    <3> QED  BY <3>2, <1>4 DEF Piece, TablePages
  <2>2. ASSUME NEW p \in todo', NEW q \in todo', p # q
        PROVE  PiecePages(p) \cap PiecePages(q) = {}
    <3>1. PICK r \in regions : p \in StrayPieces(r)  BY <1>5, <2>2
    <3>2. PICK s \in regions : q \in StrayPieces(s)  BY <1>5, <2>2
    <3>3. CASE r = s  BY <1>3, <2>2, <3>1, <3>2, <3>3, StrayApart
    <3>4. CASE r # s
      <4>1. PiecePages(p) \subseteq PagesOf(r) /\ PiecePages(q) \subseteq PagesOf(s)
        BY <1>3, <3>1, <3>2, StrayFacts
      <4>2. PagesOf(r) \cap PagesOf(s) = {}  BY <1>2, <3>4 DEF Table, Disjoint
      <4> QED  BY <4>1, <4>2
    <3> QED  BY <3>3, <3>4
  <2> QED  BY <2>1, <2>2 DEF UnmapInv, PiecePages
<1> QED  BY <1>0, <1>1, <1>6 DEF RInv, PhaseInv, Phases, FailStep, StartStep, Starts

LEMMA UnmapStep == RInv /\ Unmap => RInv' /\ FailStep /\ StartStep
<1> SUFFICES ASSUME RInv, Unmap PROVE RInv' /\ FailStep /\ StartStep  OBVIOUS
<1>0. phase = "unmap" /\ IInv /\ UnmapInv /\ Table(regions)
  BY IInvTable DEF Unmap, RInv, PhaseInv
<1>1. ASSUME NEW piece \in todo, UnmapStray(piece)
      PROVE  RInv' /\ FailStep /\ StartStep
  <2> DEFINE a == piece[1]
             e == piece[2]
             S == a..(e - 1)
  <2>1. /\ a \in Nat /\ e \in Nat /\ a < e
        /\ S \subseteq TablePages(regions) /\ S = PiecePages(piece)
    BY <1>0, <1>1 DEF UnmapInv, Piece, PiecePages
  <2>2. UcCanTouch(mapped, S)
    BY <1>0, <2>1 DEF UcCanTouch, IInv, TableBacked
  <2>3. /\ mapped' = mapped \ S
        /\ perm' = UcFill(perm, S, {})
        /\ data' = UcFill(data, S, "zero")
        /\ regions' = RemoveRange(regions, a, e)
        /\ todo' = todo \ {piece}
        /\ UNCHANGED <<brk, last, phase, proc>>
    BY <1>1, <2>2 DEF UnmapStray
  <2> HIDE DEF a, e, S
  <2>4. /\ Table(regions')
        /\ TablePages(regions') = TablePages(regions) \ S
        /\ \A s \in regions' :
              \E r \in regions : s.info = r.info /\ s.prot = r.prot /\ s.start >= r.start
                               /\ PagesOf(s) \subseteq PagesOf(r)
    BY <1>0, <2>1, <2>3, CutTable DEF S
  <2>5. HeapAboveStart'
    <3>1. \A r \in regions : r.start \in Nat /\ (r.info = "[heap]" => r.start >= HeapStart)
      BY <1>0, LayoutAssumption DEF IInv, TypeOK, Region, Page, HeapAboveStart, HeapRegions
    <3>2. \A s \in regions' : s.start \in Nat /\ HeapStart \in Nat
      BY <2>4, LayoutAssumption DEF Table, Region, Page
    <3>3. \A s \in regions' : s.info = "[heap]" => s.start >= HeapStart
      BY <2>4, <3>1, <3>2
    <3> QED  BY <1>0, <2>3, <3>3 DEF IInv, HeapAboveStart, HeapRegions
  <2>6. perm' \in [Page -> Perm] /\ data' \in [Page -> Data]
    BY <1>0, <2>3, FillType DEF IInv, TypeOK, Perm, Data
  <2>7. IInv'
    BY <1>0, <2>3, <2>4, <2>5, <2>6
       DEF IInv, TypeOK, TableBacked, TableDisjoint, Table
  <2>8. UnmapInv'
    <3>1. ASSUME NEW p \in todo' PROVE Piece(p)'
      <4>1. p \in todo /\ p # piece  BY <2>3, <3>1
      <4>2. PiecePages(p) \cap S = {}  BY <1>0, <1>1, <2>1, <4>1 DEF UnmapInv
      <4>3. Piece(p)  BY <1>0, <4>1 DEF UnmapInv
      <4> QED  BY <2>4, <4>2, <4>3 DEF Piece
    <3> QED  BY <1>0, <2>3, <3>1 DEF UnmapInv, PiecePages
  <2> QED
    BY <1>0, <2>3, <2>7, <2>8 DEF RInv, PhaseInv, FailStep, StartStep, Starts
<1>2. ASSUME todo = {}, phase' = "remap", todo' = SnapRegions, UNCHANGED <<vars, proc>>
      PROVE  RInv' /\ FailStep /\ StartStep
  <2>1. IInv'  BY <1>0, <1>2, IInvUnchanged
  <2>2. RemapInv'  BY <1>2 DEF RemapInv
  <2> QED
    BY <1>0, <1>2, <2>1, <2>2 DEF RInv, PhaseInv, Phases, FailStep, StartStep, Starts
<1> QED  BY <1>1, <1>2 DEF Unmap

LEMMA RemapStep == RInv /\ Remap => RInv' /\ FailStep /\ StartStep
<1> SUFFICES ASSUME RInv, Remap PROVE RInv' /\ FailStep /\ StartStep  OBVIOUS
<1>0. phase = "remap" /\ IInv /\ RemapInv  BY DEF Remap, RInv, PhaseInv
<1>1. ASSUME NEW r \in todo, RemapRegion(r)
      PROVE  RInv' /\ FailStep /\ StartStep
  <2> DEFINE S == PagesOf(r)
             works == IF IsRangeMapped(r) THEN UcCanTouch(mapped, S) ELSE UcCanMap(mapped, S)
  <2>0. r \in SnapRegions /\ S \subseteq Page /\ S \subseteq SnapPages /\ r.prot \in Perm
    BY <1>0, <1>1, SnapFacts DEF RemapInv, Region
  <2>1. CASE ~works
    <3>1. Fail  BY <1>1, <2>1 DEF RemapRegion
    <3>2. ~IsRangeMapped(r)
      BY <1>0, <2>1 DEF IsRangeMapped, UcCanTouch, IInv, TableBacked
    <3>3. Holes  BY <2>0, <3>2 DEF IsRangeMapped, Holes
    <3>4. IInv'  BY <1>0, <3>1, IInvUnchanged DEF Fail
    <3> QED
      BY <1>0, <3>1, <3>3, <3>4 DEF Fail, RInv, PhaseInv, Phases, FailStep, StartStep, Starts
  <2>2. CASE works
    <3>1. /\ mapped' = mapped \cup S
          /\ perm' = UcFill(perm, S, r.prot)
          /\ \/ data' = data
             \/ data' = UcFill(data, S, "zero")
          /\ todo' = todo \ {r}
          /\ UNCHANGED <<regions, brk, last, phase, proc>>
      BY <1>1, <2>2 DEF RemapRegion, RemapPerm
    <3>2. perm' \in [Page -> Perm] /\ data' \in [Page -> Data]
      <4>1. perm \in [Page -> Perm] /\ data \in [Page -> Data] /\ "zero" \in Data
        BY <1>0 DEF IInv, TypeOK, Data
      <4>2. UcFill(perm, S, r.prot) \in [Page -> Perm]  BY <2>0, <4>1, FillType
      <4>3. UcFill(data, S, "zero") \in [Page -> Data]  BY <4>1, FillType
      <4> QED  BY <3>1, <4>1, <4>2, <4>3
    <3>3. IInv'
      BY <1>0, <2>0, <3>1, <3>2
         DEF IInv, TypeOK, TableBacked, TableDisjoint, HeapAboveStart, HeapRegions
    <3>4. ASSUME NEW s \in SnapRegions, s \notin todo'
          PROVE  Reprotected(s)'
      <4>1. CASE s = r
        BY <2>0, <3>1, <4>1 DEF Reprotected, UcFill
      <4>2. CASE s # r
        <5>1. Reprotected(s)  BY <1>0, <3>1, <3>4, <4>2 DEF RemapInv
        <5>2. PagesOf(s) \cap S = {} /\ PagesOf(s) \subseteq Page
          BY <2>0, <4>2, SnapFacts
        <5> QED  BY <3>1, <5>1, <5>2 DEF Reprotected, UcFill
      <4> QED  BY <4>1, <4>2
    <3>5. RemapInv'  BY <1>0, <3>1, <3>4 DEF RemapInv
    <3> QED
      BY <1>0, <3>1, <3>3, <3>5 DEF RInv, PhaseInv, FailStep, StartStep, Starts
  <2> QED  BY <2>1, <2>2
<1>2. ASSUME todo = {}, regions' = SnapRegions, phase' = "rewrite", todo' = WritableSnap,
             UNCHANGED <<memory, brk, last, proc>>
      PROVE  RInv' /\ FailStep /\ StartStep
  <2>1. \A r \in SnapRegions : Reprotected(r)  BY <1>0, <1>2 DEF RemapInv
  <2>2. RewriteInv'
    BY <1>2, <2>1 DEF RewriteInv, Reprotected, memory
  <2>3. Table(regions')  BY <1>2, SnapFacts
  <2>4. TableBacked'
    BY <1>2, <2>1 DEF TableBacked, TablePages, Reprotected, memory
  <2>5. HeapAboveStart'
    BY <1>0, <1>2, LayoutAssumption
       DEF IInv, HeapAboveStart, HeapRegions, SnapRegions
  <2>6. IInv'
    BY <1>0, <1>2, <2>3, <2>4, <2>5 DEF IInv, TypeOK, TableDisjoint, Table, memory
  <2> QED
    BY <1>0, <1>2, <2>2, <2>6 DEF RInv, PhaseInv, Phases, FailStep, StartStep, Starts
<1> QED  BY <1>1, <1>2 DEF Remap

LEMMA RewriteStep == RInv /\ Rewrite => RInv' /\ FailStep /\ StartStep
<1> SUFFICES ASSUME RInv, Rewrite PROVE RInv' /\ FailStep /\ StartStep  OBVIOUS
<1>0. phase = "rewrite" /\ IInv /\ RewriteInv  BY DEF Rewrite, RInv, PhaseInv
<1>1. ASSUME NEW r \in todo, RewriteRegion(r)
      PROVE  RInv' /\ FailStep /\ StartStep
  <2> DEFINE S == PagesOf(r)
  <2>1. r \in SnapRegions /\ UcCanTouch(mapped, S) /\ S \subseteq Page
    BY <1>0, <1>1, SnapFacts DEF RewriteInv, WritableSnap, Reprotected, UcCanTouch
  <2>2. /\ data' = UcFill(data, S, "image")
        /\ todo' = todo \ {r}
        /\ UNCHANGED <<regions, mapped, perm, brk, last, phase, proc>>
    BY <1>1, <2>1 DEF RewriteRegion
  <2>3. data' \in [Page -> Data]
    BY <1>0, <2>2, FillType DEF IInv, TypeOK, Data
  <2>4. IInv'
    BY <1>0, <2>2, <2>3
       DEF IInv, TypeOK, TableBacked, TableDisjoint, HeapAboveStart, HeapRegions
  <2>5. ASSUME NEW s \in WritableSnap, s \notin todo', NEW p \in PagesOf(s)
        PROVE  data'[p] = "image"
    <3>1. p \in Page  BY <2>5, SnapFacts DEF WritableSnap
    <3>2. s = r \/ s \notin todo  BY <2>2, <2>5
    <3> QED  BY <1>0, <2>2, <2>5, <3>1, <3>2 DEF RewriteInv, UcFill
  <2>6. RewriteInv'  BY <1>0, <2>2, <2>5 DEF RewriteInv, Reprotected
  <2> QED
    BY <1>0, <2>2, <2>4, <2>6 DEF RInv, PhaseInv, FailStep, StartStep, Starts
<1>2. ASSUME StartGuest PROVE RInv' /\ FailStep /\ StartStep
  <2>0. /\ todo = {} /\ proc' = "snapshot" /\ phase' = "running"
        /\ regions' = regions /\ mapped' = mapped /\ perm' = perm /\ data' = data
        /\ UNCHANGED vars
    BY <1>2 DEF StartGuest, vars, memory
  <2>1. IInv'  BY <1>0, <2>0, IInvUnchanged
  <2>2. \A r \in SnapRegions : Reprotected(r)  BY <1>0 DEF RewriteInv
  <2>3. SnapPages \subseteq mapped'
    BY <2>0, <2>2 DEF SnapPages, TablePages, Reprotected
  <2>4. PermAgree'
    BY <1>0, <2>0, <2>2 DEF PermAgree, RewriteInv, Reprotected
  <2>5. \A r \in SnapRegions : "W" \in r.prot => \A p \in PagesOf(r) : data'[p] = "image"
    BY <1>0, <2>0 DEF RewriteInv, WritableSnap
  <2>6. Restored  BY <1>0, <2>0, <2>3, <2>4, <2>5 DEF Restored, RewriteInv
  <2> QED
    BY <1>0, <2>0, <2>1, <2>6 DEF RInv, PhaseInv, Phases, FailStep, StartStep
<1> QED  BY <1>1, <1>2 DEF Rewrite

\* The run itself: the guest's calls are those of AddressSpace.
LEMMA RunStep ==
    RInv /\ (GuestCall \/ GuestChangesProcess \/ GuestStops) => RInv' /\ FailStep /\ StartStep
<1> SUFFICES ASSUME RInv, GuestCall \/ GuestChangesProcess \/ GuestStops
             PROVE  RInv' /\ FailStep /\ StartStep
  OBVIOUS
<1>1. phase = "running" /\ phase' \in {"running", "idle"} /\ proc' \in {proc, "changed"}
  BY DEF GuestCall, GuestChangesProcess, GuestStops, runVars
<1>2. IInv'
  <2>1. Next \/ UNCHANGED vars  BY DEF GuestCall, GuestChangesProcess, GuestStops
  <2> QED  BY <2>1, NextIInv DEF RInv
<1> QED  BY <1>1, <1>2 DEF RInv, PhaseInv, Phases, FailStep, StartStep, Starts

LEMMA RunNextRInv == RInv /\ [RunNext]_allVars => RInv' /\ FailStep /\ StartStep
<1> SUFFICES ASSUME RInv, [RunNext]_allVars PROVE RInv' /\ FailStep /\ StartStep  OBVIOUS
<1>1. CASE UNCHANGED allVars
  <2>1. IInv'  BY <1>1, IInvUnchanged DEF RInv, allVars
  <2>2. PhaseInv'
    BY <1>1 DEF RInv, PhaseInv, UnmapInv, Piece, PiecePages, RemapInv, RewriteInv, Reprotected,
                allVars, vars, memory, runVars
  <2> QED
    BY <1>1, <2>1, <2>2 DEF RInv, allVars, runVars, FailStep, StartStep, Starts
<1> QED
  BY <1>1, RunInputStep, UnmapStep, RemapStep, RewriteStep, RunStep DEF RunNext

\* The invariant holds through every run and restore.
THEOREM RunInvariance == RunSpec => []RInv
BY InitRInv, RunNextRInv, PTL DEF RunSpec

\* Through runs, restores and their failures the two views of memory keep what
\* one run keeps: every listed page is mapped, regions are disjoint, and the
\* heap stays above its start (fuzzing.rs, memory.rs).
THEOREM RestoreKeepsTable == RunSpec => [](RunTypeOK /\ TableBacked /\ TableDisjoint /\ HeapAboveStart)
<1>1. RInv => RunTypeOK /\ TableBacked /\ TableDisjoint /\ HeapAboveStart
  BY DEF RInv, IInv, TypeOK, RunTypeOK
<1> QED  BY <1>1, RunInvariance, PTL

\* ReusableEmulator::restore_snapshot: an input starts on the snapshot's table,
\* protections, process state and writable contents.
THEOREM SnapshotComesBack == RunSpec => SnapshotIsRestored
<1>1. RInv /\ [RunNext]_allVars => [StartStep]_allVars  BY RunNextRInv
<1>2. RunSpec => [][StartStep]_allVars  BY <1>1, RunInvariance, PTL DEF RunSpec
<1> QED  BY <1>2 DEF SnapshotIsRestored, StartStep, Restored

\* restore_memory_layout fails only in its second loop, and only over a hole
\* the guest made in the snapshot's layout.
THEOREM RestoreFailsOverHoles == RunSpec => FailureNeedsAHole
<1>1. RInv /\ [RunNext]_allVars => [FailStep]_allVars  BY RunNextRInv
<1>2. RunSpec => [][FailStep]_allVars  BY <1>1, RunInvariance, PTL DEF RunSpec
<1> QED  BY <1>2 DEF FailureNeedsAHole, FailStep, Holes
=============================================================================
