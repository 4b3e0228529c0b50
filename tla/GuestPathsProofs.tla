-------------------------- MODULE GuestPathsProofs --------------------------
(***************************************************************************)
(* GuestPaths, for any directories, names, numbers and moves.              *)
(*                                                                         *)
(* A trail is where a path leads, name by name.  What a walk along one     *)
(* does is shown by the least step at which it would not, since the        *)
(* provers know no induction.  In a tree one path at most leads to a       *)
(* directory (OnePath), so that a kept path that goes through a changed    *)
(* entry begins with the path of that entry (CrossingIsPrefix), which is   *)
(* what GoneThrough asks.                                                  *)
(*                                                                         *)
(* Every step is one of Quiet, which leaves names and numbers alone, or of *)
(* Loud; the three theorems have one lemma for each.                       *)
(***************************************************************************)
EXTENDS GuestPaths, WellFoundedInduction, TLAPS

\* Every non-empty set of naturals has a least element.
LEMMA LeastNat ==
    ASSUME NEW S \in SUBSET Nat, S # {}
    PROVE  \E x \in S : \A y \in S : x <= y
<1>1. PICK x \in S : \A y \in S : ~(<<y, x>> \in OpToRel(<, Nat))
  BY NatLessThanWellFounded, WFMin
<1>2. \A y \in S : x <= y
  <2> TAKE y \in S
  <2>1. <<y, x>> \in Nat \X Nat  OBVIOUS
  <2>2. ~(y < x)  BY <1>1, <2>1 DEF OpToRel
  <2> QED  BY <2>2
<1> QED  BY <1>2

IsTrail(g, in, from, path, n) ==
    g = [i \in 0..n |-> IF i = 0 THEN from ELSE Entry(in, g[i - 1], path[i])]

\* A walk of n names has a trail.
LEMMA TrailExists ==
    ASSUME NEW in, NEW from, NEW path, NEW n \in Nat
    PROVE  \E g : IsTrail(g, in, from, path, n)
<1> DEFINE Bad == {k \in Nat : ~ \E g : IsTrail(g, in, from, path, k)}
<1> SUFFICES ASSUME Bad # {} PROVE FALSE  OBVIOUS
<1>1. PICK m \in Bad : \A k \in Bad : m <= k  BY LeastNat
<1>2. CASE m = 0
  <2> DEFINE g == [i \in 0..0 |-> from]
  <2>1. IsTrail(g, in, from, path, 0)  BY DEF IsTrail
  <2> QED  BY <1>2, <2>1
<1>3. CASE m > 0
  <2>1. m - 1 \in Nat /\ m - 1 \notin Bad  BY <1>1, <1>3
  <2>2. PICK g : IsTrail(g, in, from, path, m - 1)  BY <2>1
  <2> DEFINE h == [i \in 0..m |-> IF i = m THEN Entry(in, g[m - 1], path[m]) ELSE g[i]]
  <2>3. \A i \in 0..m : h[i] = IF i = 0 THEN from ELSE Entry(in, h[i - 1], path[i])
    <3> SUFFICES ASSUME NEW i \in 0..m
                 PROVE  h[i] = IF i = 0 THEN from ELSE Entry(in, h[i - 1], path[i])
      OBVIOUS
    <3>1. \A j \in 0..(m - 1) : g[j] = IF j = 0 THEN from ELSE Entry(in, g[j - 1], path[j])
      BY <2>2 DEF IsTrail
    <3>2. CASE i = m  BY <1>3, <3>2
    <3>3. CASE i # m
      <4>1. i \in 0..(m - 1) /\ h[i] = g[i]  BY <3>3
      <4>2. i # 0 => h[i - 1] = g[i - 1]  BY <4>1
      <4> QED  BY <3>1, <4>1, <4>2
    <3> QED  BY <3>2, <3>3
  <2>4. IsTrail(h, in, from, path, m)
    <3>1. h = [i \in 0..m |-> h[i]]  OBVIOUS
    <3> QED  BY <2>3, <3>1 DEF IsTrail
  <2> QED  BY <2>4
<1> QED  BY <1>2, <1>3

LEMMA TrailIs ==
    ASSUME NEW in, NEW from, NEW path, Len(path) \in Nat
    PROVE  /\ DOMAIN Trail(in, from, path) = 0..Len(path)
           /\ Trail(in, from, path)[0] = from
           /\ \A i \in 1..Len(path) :
                Trail(in, from, path)[i] = Entry(in, Trail(in, from, path)[i - 1], path[i])
<1>1. \E g : g = [i \in 0..Len(path) |-> IF i = 0 THEN from ELSE Entry(in, g[i - 1], path[i])]
  <2>1. \E g : IsTrail(g, in, from, path, Len(path))  BY TrailExists
  <2> QED  BY <2>1 DEF IsTrail
<1> DEFINE T == Trail(in, from, path)
<1>2. T = [i \in 0..Len(path) |-> IF i = 0 THEN from ELSE Entry(in, T[i - 1], path[i])]
  BY <1>1 DEF Trail
<1> HIDE DEF T
<1>3. DOMAIN T = 0..Len(path)  BY <1>2
<1>4. \A i \in 0..Len(path) : T[i] = IF i = 0 THEN from ELSE Entry(in, T[i - 1], path[i])
  BY <1>2
<1> QED  BY <1>3, <1>4 DEF T

\* A trail is the only function that goes where the entries lead.
LEMMA TrailUnique ==
    ASSUME NEW in, NEW from, NEW path, Len(path) \in Nat, NEW g,
           g[0] = from, \A i \in 1..Len(path) : g[i] = Entry(in, g[i - 1], path[i])
    PROVE  \A i \in 0..Len(path) : Trail(in, from, path)[i] = g[i]
<1> DEFINE T == Trail(in, from, path)
           Bad == {i \in 0..Len(path) : T[i] # g[i]}
<1>1. T[0] = from /\ \A i \in 1..Len(path) : T[i] = Entry(in, T[i - 1], path[i])
  BY TrailIs
<1> HIDE DEF T
<1>2. ASSUME Bad # {} PROVE FALSE
  <2>1. Bad \subseteq Nat  OBVIOUS
  <2>2. PICK m \in Bad : \A k \in Bad : m <= k  BY <1>2, <2>1, LeastNat
  <2>3. m \in 1..Len(path)  BY <1>1, <2>2
  <2>4. m - 1 \in 0..Len(path) /\ ~(m <= m - 1)  BY <2>3
  <2>5. T[m - 1] = g[m - 1]  BY <2>2, <2>4
  <2> QED  BY <1>1, <2>2, <2>3, <2>5
<1> QED  BY <1>2 DEF T

\* A beginning of a path follows the beginning of its trail.
LEMMA TrailOfPrefix ==
    ASSUME NEW in, NEW from, NEW path \in Seq(Names), NEW k \in 0..Len(path)
    PROVE  /\ \A i \in 0..k : Trail(in, from, SubSeq(path, 1, k))[i] = Trail(in, from, path)[i]
           /\ Walk(in, from, SubSeq(path, 1, k)) = Trail(in, from, path)[k]
<1> DEFINE p == SubSeq(path, 1, k)
           g == Trail(in, from, path)
<1>1. Len(p) = k /\ k \in Nat /\ \A i \in 1..k : p[i] = path[i]  OBVIOUS
<1>2. g[0] = from /\ \A i \in 1..Len(path) : g[i] = Entry(in, g[i - 1], path[i])
  BY TrailIs
<1> HIDE DEF p, g
<1>3. \A i \in 1..k : g[i] = Entry(in, g[i - 1], p[i])  BY <1>1, <1>2
<1>4. \A i \in 0..k : Trail(in, from, p)[i] = g[i]  BY <1>1, <1>2, <1>3, TrailUnique
<1> QED  BY <1>1, <1>4 DEF Walk, p, g

LEMMA PrefixFacts ==
    ASSUME NEW q \in Seq(Names), NEW k \in 0..Len(q)
    PROVE  /\ SubSeq(q, 1, k) \in Seq(Names) /\ Len(SubSeq(q, 1, k)) = k
           /\ \A i \in 1..k : SubSeq(q, 1, k)[i] = q[i]
OBVIOUS

LEMMA FrontAndLast ==
    ASSUME NEW p \in Seq(Names), p # <<>>
    PROVE  /\ Front(p) \in Seq(Names) /\ Last(p) \in Names /\ Len(Front(p)) = Len(p) - 1
           /\ \A i \in 1..(Len(p) - 1) : Front(p)[i] = p[i]
           /\ \A q \in Seq(Names) : q # <<>> /\ Front(q) = Front(p) /\ Last(q) = Last(p) => q = p
<1>1. Len(p) \in Nat /\ Len(p) >= 1  OBVIOUS
<1>2. ASSUME NEW q \in Seq(Names), q # <<>>
      PROVE  /\ Len(q) \in Nat /\ Len(q) >= 1
             /\ Len(Front(q)) = Len(q) - 1 /\ Front(q) \in Seq(Names)
             /\ \A i \in 1..(Len(q) - 1) : Front(q)[i] = q[i]
  <2>1. Len(q) \in Nat /\ Len(q) >= 1  BY <1>2
  <2>2. Len(q) - 1 \in 0..Len(q)  BY <2>1
  <2> QED  BY <2>1, <2>2, PrefixFacts DEF Front
<1>3. Last(p) \in Names  BY <1>1 DEF Last
<1>4. ASSUME NEW q \in Seq(Names), q # <<>>, Front(q) = Front(p), Last(q) = Last(p) PROVE q = p
  <2>1. Len(q) = Len(p)  BY <1>1, <1>2, <1>4
  <2>2. ASSUME NEW i \in 1..Len(p) PROVE q[i] = p[i]
    <3>1. CASE i = Len(p)  BY <1>4, <2>1, <3>1 DEF Last
    <3>2. CASE i # Len(p)
      <4>1. i \in 1..(Len(p) - 1)  BY <1>1, <3>2
      <4>2. Front(q)[i] = q[i] /\ Front(p)[i] = p[i]  BY <1>2, <1>4, <2>1, <4>1
      <4> QED  BY <1>4, <4>2
    <3> QED  BY <3>1, <3>2
  <2> QED  BY <2>1, <2>2
<1> QED  BY <1>2, <1>3, <1>4

LEMMA WalkFront ==
    ASSUME NEW in, NEW from, NEW path \in Seq(Names), path # <<>>
    PROVE  /\ Walk(in, from, path) = Entry(in, Walk(in, from, Front(path)), Last(path))
           /\ Walk(in, from, Front(path)) = Trail(in, from, path)[Len(path) - 1]
<1>1. Len(path) \in Nat /\ Len(path) - 1 \in 0..Len(path) /\ Len(path) \in 1..Len(path)
  OBVIOUS
<1>2. Walk(in, from, Front(path)) = Trail(in, from, path)[Len(path) - 1]
  BY <1>1, TrailOfPrefix DEF Front
<1>3. Trail(in, from, path)[Len(path)]
        = Entry(in, Trail(in, from, path)[Len(path) - 1], path[Len(path)])
  BY <1>1, TrailIs
<1> QED  BY <1>2, <1>3 DEF Walk, Last

LEMMA WalkNowhere ==
    ASSUME NEW in, NEW from
    PROVE  Walk(in, from, <<>>) = from
<1>1. Len(<<>>) = 0  OBVIOUS
<1> QED  BY <1>1, TrailIs DEF Walk

\* To walk two paths is to walk the second from where the first leads.
LEMMA WalkOn ==
    ASSUME NEW in, NEW from, NEW p \in Seq(Names), NEW q \in Seq(Names)
    PROVE  Walk(in, from, p \o q) = Walk(in, Walk(in, from, p), q)
<1> DEFINE r == p \o q
           t == Trail(in, from, r)
           g == [i \in 0..Len(q) |-> t[Len(p) + i]]
<1>1. /\ Len(p) \in Nat /\ Len(q) \in Nat /\ Len(r) = Len(p) + Len(q) /\ Len(r) \in Nat
      /\ \A i \in 1..Len(p) : r[i] = p[i]
      /\ \A i \in 1..Len(q) : r[Len(p) + i] = q[i]
  OBVIOUS
<1> HIDE DEF r
<1>2. t[0] = from /\ \A i \in 1..Len(r) : t[i] = Entry(in, t[i - 1], r[i])
  <2>1. Len(r) \in Nat  BY <1>1
  <2> QED  BY ONLY <2>1, TrailIs
<1>3. Walk(in, from, p) = t[Len(p)]
  <2> HIDE DEF t
  <2>1. ASSUME NEW i \in 1..Len(p) PROVE t[i] = Entry(in, t[i - 1], p[i])
    <3>1. i \in 1..Len(r)  BY <1>1
    <3> QED  BY <1>1, <1>2, <3>1
  <2>2. \A i \in 0..Len(p) : Trail(in, from, p)[i] = t[i]  BY <1>1, <1>2, <2>1, TrailUnique
  <2> QED  BY <1>1, <2>2 DEF Walk
<1> HIDE DEF t
<1>4. g[0] = t[Len(p)]  BY <1>1
<1>5. ASSUME NEW i \in 1..Len(q) PROVE g[i] = Entry(in, g[i - 1], q[i])
  <2>1. /\ i \in 0..Len(q) /\ i - 1 \in 0..Len(q) /\ Len(p) + i \in 1..Len(r)
        /\ Len(p) + (i - 1) = (Len(p) + i) - 1
    BY <1>1
  <2>2. g[i] = t[Len(p) + i] /\ g[i - 1] = t[(Len(p) + i) - 1]  BY <2>1
  <2> HIDE DEF g
  <2> QED  BY <1>1, <1>2, <2>1, <2>2
<1>6. Len(q) \in 0..Len(q) /\ g[Len(q)] = t[Len(p) + Len(q)]  BY <1>1
<1> HIDE DEF g
<1>7. Trail(in, t[Len(p)], q)[Len(q)] = g[Len(q)]
  BY <1>1, <1>4, <1>5, <1>6, TrailUnique
<1> QED  BY <1>1, <1>3, <1>6, <1>7 DEF Walk, t, r

-----------------------------------------------------------------------------
Folders == Dirs \cup {Root}
Directories(in) == in \in [Folders -> [Names -> Objects \cup {None}]]

LEMMA EntryFacts ==
    ASSUME NEW in, Directories(in), NEW d, NEW n
    PROVE  /\ Entry(in, d, n) \in Objects \cup {None}
           /\ d \in Folders /\ n \in Names => Entry(in, d, n) = in[d][n]
           /\ d \notin Folders => Entry(in, d, n) = None
           /\ Entry(in, d, n) # None => d \in Folders /\ n \in Names
BY DEF Entry, Directories

LEMMA NoneIsNoFolder == /\ None \notin Folders /\ None \notin Objects /\ Root \notin Objects
                        /\ None # Root /\ Dirs \cap Files = {} /\ Root \notin Files
                        /\ Dirs \subseteq Objects /\ Files \subseteq Objects
                        /\ Folders \cap Files = {}
BY PathAssumption DEF Folders, Objects

LEMMA TrailType ==
    ASSUME NEW in, Directories(in), NEW path, Len(path) \in Nat
    PROVE  /\ \A i \in 0..Len(path) : Trail(in, Root, path)[i] \in Objects \cup {None, Root}
           /\ Walk(in, Root, path) \in Objects \cup {None, Root}
<1>1. \A i \in 1..Len(path) : Trail(in, Root, path)[i] \in Objects \cup {None}
  BY TrailIs, EntryFacts
<1>2. Trail(in, Root, path)[0] = Root  BY TrailIs
<1>3. \A i \in 0..Len(path) : i = 0 \/ i \in 1..Len(path)  OBVIOUS
<1>4. Len(path) \in 0..Len(path)  OBVIOUS
<1> QED  BY <1>1, <1>2, <1>3, <1>4 DEF Walk

\* Behind what is no directory there is nothing.
LEMMA LostStaysLost ==
    ASSUME NEW in, Directories(in), NEW from, NEW path, Len(path) \in Nat,
           NEW i \in 0..Len(path), Trail(in, from, path)[i] \notin Folders,
           NEW j \in (i + 1)..Len(path)
    PROVE  Trail(in, from, path)[j] = None
<1> DEFINE T == Trail(in, from, path)
           Bad == {k \in (i + 1)..Len(path) : T[k] # None}
<1>1. \A k \in 1..Len(path) : T[k] = Entry(in, T[k - 1], path[k])  BY TrailIs
<1>2. T[i] \notin Folders  OBVIOUS
<1> HIDE DEF T
<1>3. ASSUME Bad # {} PROVE FALSE
  <2>1. Bad \subseteq Nat  OBVIOUS
  <2>2. PICK m \in Bad : \A k \in Bad : m <= k  BY <1>3, <2>1, LeastNat
  <2>3. m \in 1..Len(path) /\ m - 1 \in i..Len(path) /\ ~(m <= m - 1)  OBVIOUS
  <2>4. CASE m - 1 = i  BY <1>1, <1>2, <2>2, <2>3, <2>4, EntryFacts
  <2>5. CASE m - 1 # i
    <3>1. m - 1 \in (i + 1)..Len(path)  BY <2>3, <2>5
    <3>2. T[m - 1] = None  BY <2>2, <2>3, <3>1
    <3>3. T[m - 1] \notin Folders  BY <3>2, NoneIsNoFolder
    <3> QED  BY <1>1, <2>2, <2>3, <3>3, EntryFacts
  <2> QED  BY <2>4, <2>5
<1> QED  BY <1>3 DEF T

\* In a tree one path at most leads to a directory.
LEMMA OnePath ==
    ASSUME NEW in, Directories(in), IsTree(in), NEW p \in Seq(Names), NEW q \in Seq(Names),
           Walk(in, Root, p) = Walk(in, Root, q), Walk(in, Root, p) \in Folders
    PROVE  p = q
<1> DEFINE Same(a, b) == Walk(in, Root, a) = Walk(in, Root, b) /\ Walk(in, Root, a) \in Folders
           Bad == {k \in Nat : \E a, b \in Seq(Names) : Len(a) = k /\ Same(a, b) /\ a # b}
<1>1. ASSUME Bad # {} PROVE FALSE
  <2>1. PICK m \in Bad : \A k \in Bad : m <= k  BY <1>1, LeastNat
  <2>2. PICK a, b \in Seq(Names) : Len(a) = m /\ Same(a, b) /\ a # b  BY <2>1
  <2>3. ASSUME NEW c \in Seq(Names), c # <<>>
        PROVE  /\ Walk(in, Root, c) = Entry(in, Walk(in, Root, Front(c)), Last(c))
               /\ Front(c) \in Seq(Names) /\ Last(c) \in Names /\ Len(Front(c)) = Len(c) - 1
               /\ \A d \in Seq(Names) : d # <<>> /\ Front(d) = Front(c) /\ Last(d) = Last(c) => d = c
    BY <2>3, WalkFront, FrontAndLast
  <2>4. Walk(in, Root, <<>>) = Root  BY WalkNowhere
  <2>5. ASSUME NEW c \in Seq(Names), c # <<>> PROVE Walk(in, Root, c) # Root
    BY <2>3, <2>5, EntryFacts, NoneIsNoFolder
  <2>6. a # <<>> /\ b # <<>>  BY <2>2, <2>4, <2>5
  <2> DEFINE d == Walk(in, Root, Front(a))
             e == Walk(in, Root, Front(b))
  <2>7. Entry(in, d, Last(a)) = Entry(in, e, Last(b)) /\ Entry(in, d, Last(a)) \in Folders
    BY <2>2, <2>3, <2>6
  <2> HIDE DEF d, e
  <2>8. d \in Folders /\ e \in Folders /\ in[d][Last(a)] = in[e][Last(b)]
        /\ in[d][Last(a)] \in Dirs
    <3>1. Entry(in, d, Last(a)) # None /\ Entry(in, e, Last(b)) # None
      BY <2>7, NoneIsNoFolder
    <3>2. d \in Folders /\ e \in Folders  BY <3>1, EntryFacts
    <3>3. Last(a) \in Names /\ Last(b) \in Names  BY <2>3, <2>6
    <3>4. in[d][Last(a)] = in[e][Last(b)] /\ in[d][Last(a)] \in Folders
      BY <2>7, <3>2, <3>3, EntryFacts
    <3>5. Entry(in, d, Last(a)) # Root  BY EntryFacts, NoneIsNoFolder
    <3> QED  BY <2>7, <3>2, <3>3, <3>4, <3>5, EntryFacts DEF Folders
  <2>9. d = e /\ Last(a) = Last(b)
    <3>1. Last(a) \in Names /\ Last(b) \in Names  BY <2>3, <2>6
    <3> QED  BY <2>8, <3>1 DEF IsTree, Folders
  <2>10. Front(a) # Front(b)  BY <2>2, <2>3, <2>6, <2>9
  <2>11. Same(Front(a), Front(b))  BY <2>8, <2>9 DEF d, e
  <2>12. m - 1 \in Nat /\ Len(Front(a)) = m - 1 /\ Front(a) \in Seq(Names) /\ Front(b) \in Seq(Names)
    BY <2>2, <2>3, <2>6
  <2>13. m - 1 \in Bad  BY <2>10, <2>11, <2>12
  <2>14. m <= m - 1  BY <2>1, <2>13
  <2> QED  BY <2>12, <2>14
<1>2. Same(p, q)  OBVIOUS
<1>3. Len(p) \in Nat  OBVIOUS
<1> HIDE DEF Same
<1> QED  BY <1>1, <1>2, <1>3

-----------------------------------------------------------------------------
\* A path goes through the entry of directory d with name n.
Crosses(in, path, d, n) ==
    \E i \in 1..Len(path) : Trail(in, Root, path)[i - 1] = d /\ path[i] = n

LEMMA WalkElsewhere ==
    ASSUME NEW in, Directories(in), NEW in2, Directories(in2), NEW path \in Seq(Names),
           \A d \in Folders, n \in Names : in2[d][n] = in[d][n] \/ ~Crosses(in, path, d, n)
    PROVE  Walk(in2, Root, path) = Walk(in, Root, path)
<1> DEFINE g == Trail(in, Root, path)
<1>1. Len(path) \in Nat  OBVIOUS
<1>2. g[0] = Root /\ \A i \in 1..Len(path) : g[i] = Entry(in, g[i - 1], path[i])
  BY <1>1, TrailIs
<1>3. \A i \in 1..Len(path) : path[i] \in Names /\ Crosses(in, path, g[i - 1], path[i])
  BY DEF Crosses
<1> HIDE DEF g
<1>4. ASSUME NEW i \in 1..Len(path) PROVE g[i] = Entry(in2, g[i - 1], path[i])
  <2>1. CASE g[i - 1] \in Folders
    <3>1. in2[g[i - 1]][path[i]] = in[g[i - 1]][path[i]]  BY <1>3, <2>1
    <3> QED  BY <1>2, <1>3, <2>1, <3>1, EntryFacts
  <2>2. CASE g[i - 1] \notin Folders  BY <1>2, <2>2, EntryFacts
  <2> QED  BY <2>1, <2>2
<1>5. \A i \in 0..Len(path) : Trail(in2, Root, path)[i] = g[i]
  BY <1>1, <1>2, <1>4, TrailUnique
<1> QED  BY <1>1, <1>5 DEF Walk, g

\* In a tree a path that goes through another path's last entry begins with it.
LEMMA CrossingIsPrefix ==
    ASSUME NEW in, Directories(in), IsTree(in), NEW path \in Seq(Names), path # <<>>,
           NEW kept \in Seq(Names), Walk(in, Root, Front(path)) \in Folders,
           Crosses(in, kept, Walk(in, Root, Front(path)), Last(path))
    PROVE  IsPrefix(path, kept)
<1>1. PICK i \in 1..Len(kept) : /\ Trail(in, Root, kept)[i - 1] = Walk(in, Root, Front(path))
                                /\ kept[i] = Last(path)
  BY DEF Crosses
<1>2. i - 1 \in 0..Len(kept) /\ i \in 0..Len(kept) /\ i \in Nat /\ i >= 1  OBVIOUS
<1> DEFINE p == SubSeq(kept, 1, i - 1)
           q == SubSeq(kept, 1, i)
<1>3. Walk(in, Root, p) = Walk(in, Root, Front(path))  BY <1>1, <1>2, TrailOfPrefix
<1>4. p \in Seq(Names) /\ Len(p) = i - 1 /\ \A k \in 1..(i - 1) : p[k] = kept[k]
  BY <1>2, PrefixFacts
<1>5. q \in Seq(Names) /\ Len(q) = i /\ \A k \in 1..i : q[k] = kept[k]
  BY <1>2, PrefixFacts
<1> HIDE DEF p, q
<1>6. p = Front(path)  BY <1>3, <1>4, FrontAndLast, OnePath
<1>7. /\ Front(path) \in Seq(Names) /\ Len(Front(path)) = Len(path) - 1 /\ Len(path) \in Nat
      /\ \A k \in 1..(Len(path) - 1) : Front(path)[k] = path[k]
      /\ path[Len(path)] = Last(path)
  BY FrontAndLast DEF Last
<1>8. Len(path) = i  BY <1>2, <1>4, <1>6, <1>7
<1>9. ASSUME NEW k \in 1..i PROVE path[k] = q[k]
  <2>1. CASE k = i  BY <1>1, <1>2, <1>5, <1>7, <1>8, <2>1
  <2>2. CASE k # i
    <3>1. k \in 1..(i - 1)  BY <1>2, <2>2
    <3>2. path[k] = kept[k]  BY <1>4, <1>6, <1>7, <1>8, <3>1
    <3> QED  BY <1>5, <3>2
  <2> QED  BY <2>1, <2>2
<1>10. path = q  BY <1>5, <1>8, <1>9
<1>11. SubSeq(path, 1, Len(path)) = path  OBVIOUS
<1> QED  BY <1>2, <1>8, <1>10, <1>11 DEF IsPrefix, q

\* A path that goes through what is no directory ends there or nowhere.
LEMMA CrossingNoFolder ==
    ASSUME NEW in, Directories(in), NEW path \in Seq(Names), NEW d \in Folders, NEW n \in Names,
           in[d][n] \notin Folders, Crosses(in, path, d, n)
    PROVE  Walk(in, Root, path) \in {in[d][n], None}
<1>1. PICK i \in 1..Len(path) : Trail(in, Root, path)[i - 1] = d /\ path[i] = n  BY DEF Crosses
<1>2. Len(path) \in Nat /\ i \in 0..Len(path)  OBVIOUS
<1>3. Trail(in, Root, path)[i] = in[d][n]  BY <1>1, <1>2, TrailIs, EntryFacts
<1>4. CASE i = Len(path)  BY <1>3, <1>4 DEF Walk
<1>5. CASE i # Len(path)
  <2>1. Len(path) \in (i + 1)..Len(path)  BY <1>2, <1>5
  <2>2. Trail(in, Root, path)[Len(path)] = None  BY <1>2, <1>3, <2>1, LostStaysLost
  <2> QED  BY <2>2 DEF Walk
<1> QED  BY <1>4, <1>5

\* What counts of a place that relative names start from.
SamePlace(x, y) == x = y \/ (x \notin Folders /\ y \notin Folders)

\* An entry that was no directory and becomes none: what else a path leads to
\* stays, and no directory appears or goes.
LEMMA FileChanged ==
    ASSUME NEW in, Directories(in), NEW in2, Directories(in2), NEW path \in Seq(Names),
           NEW d \in Folders, NEW n \in Names, in[d][n] \notin Folders, in2[d][n] \notin Folders,
           \A e \in Folders, m \in Names : (e = d /\ m = n) \/ in2[e][m] = in[e][m]
    PROVE  /\ SamePlace(Walk(in2, Root, path), Walk(in, Root, path))
           /\ Walk(in, Root, path) \in {in[d][n], None} \/ Walk(in2, Root, path) = Walk(in, Root, path)
<1>1. Crosses(in, path, d, n) => Walk(in, Root, path) \in {in[d][n], None}
  BY CrossingNoFolder
<1>2. Crosses(in2, path, d, n) => Walk(in2, Root, path) \in {in2[d][n], None}
  BY CrossingNoFolder
<1>3. ~Crosses(in, path, d, n) => Walk(in2, Root, path) = Walk(in, Root, path)
  BY WalkElsewhere
<1>4. ~Crosses(in2, path, d, n) => Walk(in, Root, path) = Walk(in2, Root, path)
  BY WalkElsewhere
<1> QED  BY <1>1, <1>2, <1>3, <1>4, NoneIsNoFolder DEF SamePlace

-----------------------------------------------------------------------------
LEMMA NamePath ==
    ASSUME NEW name \in Name
    PROVE  name.abs \in BOOLEAN /\ name.path \in Seq(Names)
<1>1. PICK n \in 0..Depth : name.path \in [1..n -> Names]  BY DEF Name, Paths
<1>2. n \in Nat  BY PathAssumption
<1> QED  BY <1>1, <1>2 DEF Name

LEMMA NoFdcwd == AT_FDCWD \notin Fds
<1>1. Fds \subseteq Nat  BY PathAssumption
<1> QED  BY <1>1 DEF AT_FDCWD

LEMMA PathFacts ==
    ASSUME NEW dirfd \in Dirfds, NEW name \in Name \cup {Exe}
    PROVE  /\ name.abs => get_path_at(dirfd, name) = name.path
           /\ ~name.abs /\ dirfd = AT_FDCWD => get_path_at(dirfd, name) = Cwd \o name.path
           /\ ~name.abs /\ dirfd \in Fds /\ Listed(dirfd)
                => get_path_at(dirfd, name) = files[dirfd] \o name.path
           /\ ~name.abs /\ dirfd \in Fds /\ ~Listed(dirfd) => get_path_at(dirfd, name) = None
<1>1. name.abs \in BOOLEAN
  <2>1. CASE name \in Name  BY <2>1, NamePath
  <2>2. CASE name = Exe
    <3>1. Exe.abs = TRUE  BY DEF Exe
    <3> QED  BY <2>2, <3>1
  <2> QED  BY <2>1, <2>2
<1> QED  BY <1>1, NoFdcwd DEF get_path_at, Dirfds

LEMMA MeantFacts ==
    ASSUME NEW dirfd \in Dirfds, NEW name
    PROVE  /\ name = Exe => Meant(dirfd, name) = Program
           /\ name # Exe /\ Empty(name) => Meant(dirfd, name) = NoName
           /\ name # Exe /\ ~Empty(name) =>
                Meant(dirfd, name) = Walk(tree, IF name.abs THEN Root ELSE Directory(dirfd), name.path)
BY DEF Meant, Empty, Exe

LEMMA PathIsNames ==
    ASSUME TypeOK, NEW dirfd \in Dirfds, NEW name \in Name, get_path_at(dirfd, name) # None
    PROVE  get_path_at(dirfd, name) \in Seq(Names)
<1>1. name.abs \in BOOLEAN /\ name.path \in Seq(Names) /\ Cwd \in Seq(Names)
  BY NamePath, PathAssumption
<1>2. CASE name.abs  BY <1>1, <1>2, PathFacts
<1>3. CASE ~name.abs /\ dirfd = AT_FDCWD
  <2>1. get_path_at(dirfd, name) = Cwd \o name.path  BY <1>3, PathFacts
  <2> QED  BY <1>1, <2>1
<1>4. CASE ~name.abs /\ dirfd \in Fds
  <2>1. Listed(dirfd)  BY <1>1, <1>4, PathFacts
  <2>2. files[dirfd] \in Seq(Names)  BY <1>4, <2>1 DEF TypeOK, Listed
  <2>3. get_path_at(dirfd, name) = files[dirfd] \o name.path  BY <1>4, <2>1, PathFacts
  <2> QED  BY <1>1, <2>2, <2>3
<1> QED  BY <1>2, <1>3, <1>4 DEF Dirfds

\* No entry has the name of the special link.
LEMMA ExeIsNothing == ASSUME NEW dirfd \in Dirfds PROVE Find(get_path_at(dirfd, Exe)) = None
<1>1. Exe.abs = TRUE /\ Exe.path = <<Program>>  BY DEF Exe
<1>2. get_path_at(dirfd, Exe) = <<Program>>  BY <1>1, PathFacts
<1>3. Len(<<Program>>) = 1 /\ <<Program>>[1] = Program  OBVIOUS
<1>4. Trail(tree, Root, <<Program>>)[1]
        = Entry(tree, Trail(tree, Root, <<Program>>)[0], Program)
  BY <1>3, TrailIs
<1>5. Program \notin Names  BY PathAssumption
<1>6. Entry(tree, Trail(tree, Root, <<Program>>)[0], Program) = None  BY <1>5 DEF Entry
<1> QED  BY <1>2, <1>3, <1>4, <1>6 DEF Find, Walk

-----------------------------------------------------------------------------
(***************************************************************************)
(* What calls do, apart from their answers.                                *)
(***************************************************************************)
Calls == {"ask", "stat", "change"}
Buffers == {"bad", "good"}

\* A call that is refused, rejected or only asks leaves names and numbers alone.
Rejected(call) ==
    \E truth, told : /\ Rejects(call, truth, told)
                     /\ \/ told = truth
                        \/ call = "stat" /\ truth = Errno("EBADF") /\ told = last_errno

AskedName(call, dirfd, name, buf) ==
    LET path == get_path_at(dirfd, name)
    IN  /\ path # None /\ Find(path) # None
        /\ HostDoes(call, dirfd, name, Find(path), Answer(buf)) /\ SameNames

AskedExe(call, dirfd, buf) == HostDoes(call, dirfd, Exe, Program, Answer(buf)) /\ SameNames

AskedNumber(call, fd, object, buf) ==
    /\ (fd \in Fds /\ object = held[fd]) \/ (fd = AT_FDCWD /\ object = HostCwd)
    /\ HostDoesNumber(call, fd, object, Answer(buf)) /\ SameNames

Quiet ==
    \E call \in Calls :
        \/ HostRefuses(call) \/ Rejected(call)
        \/ \E dirfd \in Dirfds, buf \in Buffers :
            \/ \E name \in Name : AskedName(call, dirfd, name, buf)
            \/ AskedExe(call, dirfd, buf)
            \/ \E object : AskedNumber(call, dirfd, object, buf)

\* The calls that change names or numbers.
Loud ==
    \/ \E fd \in Fds : sys_dup(fd) \/ sys_fcntl_dupfd(fd) \/ sys_close(fd)
    \/ \E dirfd \in Dirfds, name \in Name, create \in BOOLEAN : Opens(dirfd, name, create)
    \/ \E name \in Name : sys_unlink(name)
    \/ \E old_dfd, new_dfd \in Dirfds, old, new \in Name, flag \in {"none", "exchange"} :
          sys_renameat2(old_dfd, old, new_dfd, new, flag)

LEMMA RefusedIsQuiet == ASSUME NEW call \in Calls, HostRefuses(call) PROVE Quiet
BY DEF Quiet

LEMMA RejectedIsQuiet == ASSUME NEW call \in Calls, Rejected(call) PROVE Quiet
BY DEF Quiet

LEMMA RejectsIsQuiet ==
    ASSUME NEW call \in Calls, NEW truth, Rejects(call, truth, truth) PROVE Quiet
<1>1. Rejected(call)  BY DEF Rejected
<1> QED  BY <1>1, RejectedIsQuiet

LEMMA AsksIsQuiet ==
    ASSUME NEW call \in Calls, NEW dirfd \in Dirfds, NEW name \in Name \cup {Exe},
           NEW buf \in Buffers, Asks(call, dirfd, name, buf)
    PROVE  Quiet
<1> DEFINE path == get_path_at(dirfd, name)
<1>1. path # None  BY DEF Asks, OnPath
<1>2. \/ HostRefuses(call)
      \/ Find(path) # None /\ HostDoes(call, dirfd, name, Find(path), Answer(buf)) /\ SameNames
  BY DEF Asks, OnPath
<1>3. CASE HostRefuses(call)  BY <1>3, RefusedIsQuiet
<1>4. CASE /\ Find(path) # None
           /\ HostDoes(call, dirfd, name, Find(path), Answer(buf)) /\ SameNames
  <2>1. name # Exe  BY <1>4, ExeIsNothing
  <2>2. name \in Name  BY <2>1
  <2>3. AskedName(call, dirfd, name, buf)  BY <1>1, <1>4 DEF AskedName
  <2> QED  BY <2>2, <2>3 DEF Quiet
<1> QED  BY <1>2, <1>3, <1>4

LEMMA OfNumberIsQuiet ==
    ASSUME NEW call \in Calls, NEW fd \in Dirfds, NEW object, NEW buf \in Buffers,
           (fd \in Fds /\ object = held[fd]) \/ (fd = AT_FDCWD /\ object = HostCwd),
           OfNumber(call, fd, object, buf)
    PROVE  Quiet
<1>1. CASE object = None
  <2>1. HostRefuses(call)  BY <1>1 DEF OfNumber
  <2> QED  BY <2>1, RefusedIsQuiet
<1>2. CASE object # None
  <2>1. AskedNumber(call, fd, object, buf)  BY <1>2 DEF OfNumber, AskedNumber
  <2> QED  BY <2>1 DEF Quiet
<1> QED  BY <1>1, <1>2

LEMMA AtEmptyPathIsQuiet ==
    ASSUME NEW dirfd \in Dirfds, NEW buf \in Buffers, AtEmptyPath(dirfd, buf)
    PROVE  Quiet
<1> DEFINE object == IF dirfd = AT_FDCWD THEN HostCwd ELSE held[dirfd]
<1>1. (dirfd \in Fds /\ object = held[dirfd]) \/ (dirfd = AT_FDCWD /\ object = HostCwd)
  BY NoFdcwd DEF Dirfds
<1>2. OfNumber("stat", dirfd, object, buf)  BY DEF AtEmptyPath
<1>3. "stat" \in Calls  BY DEF Calls
<1> HIDE DEF object
<1> QED  BY <1>1, <1>2, <1>3, OfNumberIsQuiet

LEMMA QuestionsAreQuiet == ASSUME Questions PROVE Quiet
<1>1. "ask" \in Calls /\ "stat" \in Calls /\ "good" \in Buffers /\ AT_FDCWD \in Dirfds
  BY DEF Calls, Buffers, Dirfds
<1>2. \A dirfd : At(dirfd) \subseteq Name \cup {Exe}  BY DEF At
<1>3. PICK buf \in Buffers :
       \/ \E fd \in Fds : sys_fstat(fd, buf) \/ sys_fgetxattr(fd, buf)
       \/ \E name \in At(AT_FDCWD) :
             \/ sys_access(name) \/ sys_chmod(name)
             \/ sys_getxattr(name, buf) \/ sys_statfs(name, buf) \/ sys_stat(name, buf)
             \/ sys_readlink(name, buf)
             \/ \E small \in BOOLEAN : sys_statfs64(name, small, buf)
       \/ \E dirfd \in Dirfds, at_empty_path \in BOOLEAN : \E name \in At(dirfd) :
             \/ sys_newfstatat(dirfd, name, at_empty_path, buf)
             \/ sys_statx(dirfd, name, at_empty_path, buf)
             \/ sys_readlinkat(dirfd, name, buf)
  BY DEF Questions, Buffers
<1>4. ASSUME NEW fd \in Fds, sys_fstat(fd, buf) \/ sys_fgetxattr(fd, buf) PROVE Quiet
  <2>1. OfNumber("ask", fd, held[fd], buf) /\ fd \in Dirfds
    BY <1>4 DEF sys_fstat, sys_fgetxattr, Dirfds
  <2> QED  BY <1>1, <2>1, OfNumberIsQuiet
<1>5. ASSUME NEW dirfd \in Dirfds, NEW name \in At(dirfd), NEW at_empty_path \in BOOLEAN,
             sys_newfstatat(dirfd, name, at_empty_path, buf)
      PROVE  Quiet
  <2>1. CASE at_empty_path /\ Empty(name)
    <3>1. AtEmptyPath(dirfd, buf)  BY <1>5, <2>1 DEF sys_newfstatat
    <3> QED  BY <3>1, AtEmptyPathIsQuiet
  <2>2. CASE NoPath("stat", last_errno)
    <3>1. Rejected("stat")  BY <2>2 DEF NoPath, Rejected
    <3> QED  BY <1>1, <3>1, RejectedIsQuiet
  <2>3. CASE Asks("stat", dirfd, name, buf)  BY <1>1, <1>2, <2>3, AsksIsQuiet
  <2> QED  BY <1>5, <2>1, <2>2, <2>3 DEF sys_newfstatat
<1>6. ASSUME NEW dirfd \in Dirfds, NEW name \in At(dirfd), NEW at_empty_path \in BOOLEAN,
             sys_statx(dirfd, name, at_empty_path, buf)
      PROVE  Quiet
  <2>1. CASE at_empty_path /\ Empty(name)
    <3>1. AtEmptyPath(dirfd, buf)  BY <1>6, <2>1 DEF sys_statx
    <3> QED  BY <3>1, AtEmptyPathIsQuiet
  <2>2. CASE NoPath("ask", Errno("EBADF"))  BY <1>1, <2>2, RejectsIsQuiet DEF NoPath
  <2>3. CASE Asks("ask", dirfd, name, buf)  BY <1>1, <1>2, <2>3, AsksIsQuiet
  <2> QED  BY <1>6, <2>1, <2>2, <2>3 DEF sys_statx
<1>7. ASSUME NEW dirfd \in Dirfds, NEW name \in At(dirfd), sys_readlinkat(dirfd, name, buf)
      PROVE  Quiet
  <2>1. CASE name = Exe
    <3>1. AskedExe("ask", dirfd, buf)  BY <1>7, <2>1 DEF sys_readlinkat, AskedExe
    <3> QED  BY <1>1, <3>1 DEF Quiet
  <2>2. CASE name # Exe /\ NoPath("ask", Errno("EBADF"))
    BY <1>1, <2>2, RejectsIsQuiet DEF NoPath
  <2>3. CASE name # Exe /\ Asks("ask", dirfd, name, buf)  BY <1>1, <1>2, <2>3, AsksIsQuiet
  <2> QED  BY <1>7, <2>1, <2>2, <2>3 DEF sys_readlinkat
<1>8. ASSUME NEW name \in At(AT_FDCWD), NEW small \in BOOLEAN, sys_statfs64(name, small, buf)
      PROVE  Quiet
  <2>1. CASE ~small
    <3>1. Asks("ask", AT_FDCWD, name, buf)  BY <1>8, <2>1 DEF sys_statfs64
    <3> QED  BY <1>1, <1>2, <3>1, AsksIsQuiet
  <2>2. CASE small
    <3>1. HostRefuses("ask") \/ Rejects("ask", Errno("EINVAL"), Errno("EINVAL"))
      BY <1>8, <2>2 DEF sys_statfs64, OnPath
    <3> QED  BY <1>1, <3>1, RefusedIsQuiet, RejectsIsQuiet
  <2> QED  BY <2>1, <2>2
<1>9. ASSUME NEW name \in At(AT_FDCWD),
             \/ sys_access(name) \/ sys_chmod(name)
             \/ sys_getxattr(name, buf) \/ sys_statfs(name, buf)
      PROVE  Quiet
  <2>1. Asks("ask", AT_FDCWD, name, "good") \/ Asks("ask", AT_FDCWD, name, buf)
    BY <1>9 DEF sys_access, sys_chmod, sys_getxattr, sys_statfs
  <2> QED  BY <1>1, <1>2, <2>1, AsksIsQuiet
<1>10. ASSUME NEW name \in At(AT_FDCWD), sys_stat(name, buf) \/ sys_readlink(name, buf)
       PROVE  Quiet
  BY <1>1, <1>5, <1>7, <1>10 DEF sys_stat, sys_readlink
<1> QED  BY <1>3, <1>4, <1>5, <1>6, <1>7, <1>8, <1>9, <1>10

LEMMA OpenatIsKnown ==
    ASSUME NEW dirfd \in Dirfds, NEW name \in Name, NEW create \in BOOLEAN,
           sys_openat(dirfd, name, create)
    PROVE  Quiet \/ Loud
<1>1. "change" \in Calls  BY DEF Calls
<1>2. CASE Unreadable("change")  BY <1>1, <1>2, RejectsIsQuiet DEF Unreadable
<1>3. CASE NoPath("change", Errno("EBADF"))  BY <1>1, <1>3, RejectsIsQuiet DEF NoPath
<1>4. CASE HostRefuses("change")  BY <1>1, <1>4, RefusedIsQuiet
<1>5. CASE Opens(dirfd, name, create)  BY <1>5 DEF Loud
<1> QED  BY <1>2, <1>3, <1>4, <1>5 DEF sys_openat

LEMMA NextIsKnown == ASSUME Next PROVE Quiet \/ Loud
<1>1. CASE Numbers  BY <1>1 DEF Numbers, Loud
<1>2. CASE Questions  BY <1>2, QuestionsAreQuiet
<1>3. CASE Changes
  <2>1. PICK dirfd \in Dirfds : \E name \in At(dirfd) \ {Exe} :
        \/ dirfd = AT_FDCWD /\ sys_unlink(name)
        \/ \E create \in BOOLEAN : IF dirfd = AT_FDCWD THEN sys_open(name, create)
                                                      ELSE sys_openat(dirfd, name, create)
        \/ \E new_dfd \in {AT_FDCWD, dirfd}, flag \in {"none", "exchange"} :
           \E new \in At(new_dfd) \ {Exe} :
               IF dirfd = AT_FDCWD /\ flag = "none"
               THEN sys_rename(name, new)
               ELSE sys_renameat2(dirfd, name, new_dfd, new, flag)
    BY <1>3 DEF Changes
  <2>6. PICK name \in At(dirfd) \ {Exe} :
        \/ dirfd = AT_FDCWD /\ sys_unlink(name)
        \/ \E create \in BOOLEAN : IF dirfd = AT_FDCWD THEN sys_open(name, create)
                                                      ELSE sys_openat(dirfd, name, create)
        \/ \E new_dfd \in {AT_FDCWD, dirfd}, flag \in {"none", "exchange"} :
           \E new \in At(new_dfd) \ {Exe} :
               IF dirfd = AT_FDCWD /\ flag = "none"
               THEN sys_rename(name, new)
               ELSE sys_renameat2(dirfd, name, new_dfd, new, flag)
    BY <2>1
  <2>2. name \in Name /\ AT_FDCWD \in Dirfds  BY DEF At, Dirfds
  <2>3. CASE dirfd = AT_FDCWD /\ sys_unlink(name)  BY <2>2, <2>3 DEF Loud
  <2>4. CASE \E create \in BOOLEAN : IF dirfd = AT_FDCWD THEN sys_open(name, create)
                                                        ELSE sys_openat(dirfd, name, create)
    <3>1. \E create \in BOOLEAN : sys_openat(dirfd, name, create)  BY <2>4 DEF sys_open
    <3> QED  BY <2>2, <3>1, OpenatIsKnown
  <2>5. CASE \E new_dfd \in {AT_FDCWD, dirfd}, flag \in {"none", "exchange"} :
             \E new \in At(new_dfd) \ {Exe} :
                 IF dirfd = AT_FDCWD /\ flag = "none"
                 THEN sys_rename(name, new)
                 ELSE sys_renameat2(dirfd, name, new_dfd, new, flag)
    <3>4. PICK new_dfd \in {AT_FDCWD, dirfd}, flag \in {"none", "exchange"} :
               \E new \in At(new_dfd) \ {Exe} :
                 IF dirfd = AT_FDCWD /\ flag = "none"
                 THEN sys_rename(name, new)
                 ELSE sys_renameat2(dirfd, name, new_dfd, new, flag)
      BY <2>5
    <3>1. PICK new \in At(new_dfd) \ {Exe} :
                 IF dirfd = AT_FDCWD /\ flag = "none"
                 THEN sys_rename(name, new)
                 ELSE sys_renameat2(dirfd, name, new_dfd, new, flag)
      BY <3>4
    <3>2. new_dfd \in Dirfds /\ new \in Name  BY <2>2 DEF At
    <3>3. \/ sys_renameat2(dirfd, name, new_dfd, new, flag)
          \/ dirfd = AT_FDCWD /\ sys_renameat2(AT_FDCWD, name, AT_FDCWD, new, "none")
      BY <3>1 DEF sys_rename
    <3> QED  BY <2>2, <3>2, <3>3 DEF Loud
  <2> QED  BY <2>6, <2>3, <2>4, <2>5
<1> QED  BY <1>1, <1>2, <1>3 DEF Next

-----------------------------------------------------------------------------
LEMMA EndsFacts ==
    ASSUME NEW call, NEW via, NEW did, NEW meant, NEW truth, NEW res,
           Ends(call, via, did, meant, truth, res)
    PROVE  /\ last'.call = call /\ last'.truth = truth /\ last'.res = res
           /\ \/ last'.did = last'.meant
              \/ last'.via = via /\ last'.did = did /\ last'.meant = meant
           /\ did = meant => last'.did = last'.meant
BY DEF Ends

Answers ==
    \/ last'.res.is = "ok" /\ last'.truth.is = "ok"
    \/ last'.res = last'.truth
    \/ last'.res.is = "Err"
    \/ last'.call = "stat" /\ last'.truth = Errno("EBADF") /\ last'.res = last_errno

LEMMA ResultKinds ==
    /\ \A v : Ok(v).is = "ok"
    /\ \A buf : Answer(buf).is = "ok" \/ Answer(buf).is = "Err"
    /\ Ok(0).is = "ok"
BY DEF Ok, Answer, Err

LEMMA RefusalAnswers == ASSUME NEW call, HostRefuses(call) PROVE Answers
<1>1. last'.truth = Errno(HostErrno) /\ last'.res = Errno(HostErrno)
  BY EndsFacts DEF HostRefuses
<1> QED  BY <1>1 DEF Answers

LEMMA RejectionAnswers == ASSUME NEW call, Rejected(call) PROVE Answers
<1>1. PICK truth, told : /\ Rejects(call, truth, told)
                         /\ \/ told = truth
                            \/ call = "stat" /\ truth = Errno("EBADF") /\ told = last_errno
  BY DEF Rejected
<1>2. last'.call = call /\ last'.truth = truth /\ last'.res = told
  BY <1>1, EndsFacts DEF Rejects
<1> QED  BY <1>1, <1>2 DEF Answers

LEMMA DeedAnswers ==
    ASSUME NEW call, NEW dirfd, NEW name, NEW object, NEW res,
           res.is = "ok" \/ res.is = "Err",
           \/ HostDoes(call, dirfd, name, object, res)
           \/ HostDoesNumber(call, dirfd, object, res)
    PROVE  Answers
<1>1. last'.truth = Ok(0) /\ last'.res = res
  BY EndsFacts DEF HostDoes, HostDoesNumber
<1> QED  BY <1>1, ResultKinds DEF Answers

LEMMA QuietAnswers == ASSUME Quiet PROVE Answers
<1>1. PICK call \in Calls :
        \/ HostRefuses(call) \/ Rejected(call)
        \/ \E dirfd \in Dirfds, buf \in Buffers :
            \/ \E name \in Name : AskedName(call, dirfd, name, buf)
            \/ AskedExe(call, dirfd, buf)
            \/ \E object : AskedNumber(call, dirfd, object, buf)
  BY DEF Quiet
<1>2. ASSUME NEW dirfd \in Dirfds, NEW buf \in Buffers, NEW name \in Name,
             AskedName(call, dirfd, name, buf)
      PROVE  Answers
  BY <1>2, DeedAnswers, ResultKinds DEF AskedName
<1>3. ASSUME NEW dirfd \in Dirfds, NEW buf \in Buffers, AskedExe(call, dirfd, buf)
      PROVE  Answers
  BY <1>3, DeedAnswers, ResultKinds DEF AskedExe
<1>4. ASSUME NEW dirfd \in Dirfds, NEW buf \in Buffers, NEW object,
             AskedNumber(call, dirfd, object, buf)
      PROVE  Answers
  BY <1>4, DeedAnswers, ResultKinds DEF AskedNumber
<1> QED  BY <1>1, <1>2, <1>3, <1>4, RefusalAnswers, RejectionAnswers

LEMMA LoudAnswers == ASSUME Loud PROVE Answers
<1>1. ASSUME NEW fd \in Fds, sys_dup(fd) \/ sys_fcntl_dupfd(fd) \/ sys_close(fd) PROVE Answers
  <2>1. \/ HostDoesNumber("change", fd, held[fd], Ok(Lowest))
        \/ HostDoesNumber("change", fd, held[fd], Ok(0))
    BY <1>1 DEF sys_dup, sys_fcntl_dupfd, sys_close
  <2> QED  BY <2>1, DeedAnswers, ResultKinds
<1>2. ASSUME NEW dirfd \in Dirfds, NEW name \in Name, NEW create \in BOOLEAN,
             Opens(dirfd, name, create)
      PROVE  Answers
  <2> DEFINE path == get_path_at(dirfd, name)
  <2>1. \/ HostDoes("change", dirfd, name, Find(path), Ok(Lowest))
        \/ Ends("change", Via(dirfd, name), <<Find(Front(path))>>,
                <<MeantParent(dirfd, name)>>, Ok(0), Ok(Lowest))
    BY <1>2 DEF Opens
  <2> HIDE DEF path
  <2>2. CASE HostDoes("change", dirfd, name, Find(path), Ok(Lowest))
    BY <2>2, DeedAnswers, ResultKinds
  <2>3. CASE Ends("change", Via(dirfd, name), <<Find(Front(path))>>,
                  <<MeantParent(dirfd, name)>>, Ok(0), Ok(Lowest))
    <3>1. last'.truth = Ok(0) /\ last'.res = Ok(Lowest)  BY <2>3, EndsFacts
    <3> QED  BY <3>1, ResultKinds DEF Answers
  <2> QED  BY <2>1, <2>2, <2>3
<1>3. ASSUME NEW name \in Name, sys_unlink(name) PROVE Answers
  <2> DEFINE path == get_path_at(AT_FDCWD, name)
  <2>1. \/ HostRefuses("change")
        \/ HostDoes("change", AT_FDCWD, name, Find(path), Ok(0))
    BY <1>3 DEF sys_unlink, OnPath
  <2> HIDE DEF path
  <2> QED  BY <2>1, RefusalAnswers, DeedAnswers, ResultKinds
<1>4. ASSUME NEW old_dfd \in Dirfds, NEW new_dfd \in Dirfds, NEW old \in Name, NEW new \in Name,
             NEW flag \in {"none", "exchange"},
             sys_renameat2(old_dfd, old, new_dfd, new, flag)
      PROVE  Answers
  <2> DEFINE from == get_path_at(old_dfd, old)
             to == get_path_at(new_dfd, new)
  <2>1. \/ Rejects("change", Errno("EBADF"), Errno("EBADF"))
        \/ HostRefuses("change")
        \/ Ends("change", Via(old_dfd, old) \cup Via(new_dfd, new),
                <<Find(from), Find(Front(to))>>,
                <<Meant(old_dfd, old), MeantParent(new_dfd, new)>>, Ok(0), Ok(0))
    BY <1>4 DEF sys_renameat2, NoPath
  <2> HIDE DEF from, to
  <2>2. CASE Rejects("change", Errno("EBADF"), Errno("EBADF"))
    <3>1. Rejected("change")  BY <2>2 DEF Rejected
    <3> QED  BY <3>1, RejectionAnswers
  <2>3. CASE Ends("change", Via(old_dfd, old) \cup Via(new_dfd, new),
                  <<Find(from), Find(Front(to))>>,
                  <<Meant(old_dfd, old), MeantParent(new_dfd, new)>>, Ok(0), Ok(0))
    <3>1. last'.truth = Ok(0) /\ last'.res = Ok(0)  BY <2>3, EndsFacts
    <3> QED  BY <3>1, ResultKinds DEF Answers
  <2> QED  BY <2>1, <2>2, <2>3, RefusalAnswers
<1> QED  BY <1>1, <1>2, <1>3, <1>4 DEF Loud

\* For any tree, names and numbers: the guest is told what happened in the call,
\* but for answers that cannot be copied out and the stat calls of a directory
\* number the table lacks, which read the errno of an earlier call.
THEOREM AnswersAreOfThisCall == Spec => AnswerIsOfThisCall
<1>1. Next => Answers  BY NextIsKnown, QuietAnswers, LoudAnswers
<1>2. [Next]_vars => [Answers]_vars  BY <1>1
<1> QED  BY <1>2, PTL DEF Spec, AnswerIsOfThisCall, Answers

-----------------------------------------------------------------------------
(***************************************************************************)
(* The inductive invariant: the host's directories are a tree, and what    *)
(* KeptPathIsTrue says of the kept paths holds of the current directory's. *)
(***************************************************************************)
Home == Walk(Tree, Root, Cwd)
CwdIsTrue == AT_FDCWD \in touched \/ SamePlace(Find(Cwd), Home)

PInv == TypeOK /\ IsTree(tree) /\ KeptPathIsTrue /\ CwdIsTrue

LEMMA InitPInv == Init => PInv
<1> SUFFICES ASSUME Init PROVE PInv  OBVIOUS
<1>1. IsTree(tree) /\ tree = Tree  BY PathAssumption DEF Init
<1>2. TypeOK  BY PathAssumption DEF Init, TypeOK
<1>3. KeptPathIsTrue  BY DEF Init, KeptPathIsTrue, Listed
<1>4. CwdIsTrue  BY <1>1 DEF CwdIsTrue, SamePlace, Find, Home
<1> QED  BY <1>1, <1>2, <1>3, <1>4 DEF PInv

LEMMA TreeType == TypeOK => Directories(tree)
BY DEF TypeOK, Directories, Folders

LEMMA LowestIsFree == Free # {} => Lowest \in Free /\ Lowest \in Fds /\ held[Lowest] = None
<1> SUFFICES ASSUME Free # {} PROVE Lowest \in Free  BY DEF Free
<1>1. Free \in SUBSET Nat  BY PathAssumption DEF Free
<1>2. \E fd \in Free : \A other \in Free : fd <= other  BY <1>1, LeastNat
<1> QED  BY <1>2 DEF Lowest

LEMMA FindType ==
    ASSUME TypeOK, NEW path \in Seq(Names)
    PROVE  /\ Find(path) \in Objects \cup {None, Root}
           /\ path # <<>> =>
                /\ Find(path) = Entry(tree, Find(Front(path)), Last(path))
                /\ Last(path) \in Names
                /\ Find(path) # None => Find(Front(path)) \in Folders
<1>1. Directories(tree) /\ Len(path) \in Nat  BY TreeType
<1>2. Find(path) \in Objects \cup {None, Root}  BY <1>1, TrailType DEF Find
<1>3. ASSUME path # <<>>
      PROVE  /\ Find(path) = Entry(tree, Find(Front(path)), Last(path))
             /\ Last(path) \in Names
             /\ Find(path) # None => Find(Front(path)) \in Folders
  <2>1. Find(path) = Entry(tree, Find(Front(path)), Last(path))  BY <1>3, WalkFront DEF Find
  <2> QED  BY <1>1, <1>3, <2>1, FrontAndLast, EntryFacts
<1> QED  BY <1>2, <1>3

LEMMA FindNowhere == Find(<<>>) = Root
BY WalkNowhere DEF Find

\* A call that changes one number keeps what is known of the others.
LEMMA NumberKeeps ==
    ASSUME PInv, NEW fd \in Fds, NEW object \in Objects \cup {Root, None},
           NEW path \in Seq(Names) \cup {None}, Opened(fd, object, path), UNCHANGED tree,
           touched' \subseteq Dirfds, errno' \in {NoErrno, HostErrno},
           \A other \in Dirfds : other \in touched /\ other # fd => other \in touched',
           path # None => object # None /\ (fd \in touched' \/ Find(path) = object)
    PROVE  PInv'
<1>1. TypeOK'  BY DEF PInv, TypeOK, Opened
<1>2. IsTree(tree)'  BY DEF PInv, IsTree
<1>3. \A p : Find(p)' = Find(p)'  OBVIOUS
<1>4. ASSUME NEW other \in Fds, Listed(other)'
      PROVE  held'[other] # None /\ (other \notin touched' => Walk(tree', Root, files'[other]) = held'[other])
  <2>1. CASE other = fd
    <3>1. held'[fd] = object /\ files'[fd] = path  BY DEF PInv, TypeOK, Opened
    <3> QED  BY <1>4, <2>1, <3>1 DEF Listed, Find
  <2>2. CASE other # fd
    <3>1. held'[other] = held[other] /\ files'[other] = files[other]
      BY <2>2 DEF PInv, TypeOK, Opened
    <3>2. Listed(other) /\ other \in Dirfds  BY <1>4, <3>1 DEF Listed, Dirfds
    <3> QED  BY <2>2, <3>1, <3>2 DEF PInv, KeptPathIsTrue, Find
  <2> QED  BY <2>1, <2>2
<1>5. KeptPathIsTrue'  BY <1>4 DEF KeptPathIsTrue, Find
<1>6. AT_FDCWD \in touched => AT_FDCWD \in touched'  BY NoFdcwd DEF Dirfds
<1>7. CwdIsTrue'  BY <1>6 DEF PInv, CwdIsTrue, Find, Home
<1> QED  BY <1>1, <1>2, <1>5, <1>7 DEF PInv

LEMMA PutFacts ==
    ASSUME Directories(tree), NEW path \in Seq(Names), path # <<>>,
           Find(Front(path)) \in Folders, NEW object \in Objects \cup {None}
    PROVE  /\ Directories(Put(path, object))
           /\ \A d \in Folders, n \in Names :
                Put(path, object)[d][n] = IF d = Find(Front(path)) /\ n = Last(path)
                                          THEN object ELSE tree[d][n]
           /\ IsTree(tree) /\ object \notin Dirs => IsTree(Put(path, object))
<1> DEFINE e == Find(Front(path))
           m == Last(path)
           in == Put(path, object)
<1>1. e \in Folders /\ m \in Names  BY FrontAndLast
<1>2. in = [tree EXCEPT ![e][m] = object]  BY DEF Put
<1> HIDE DEF e, m, in
<1>3. Directories(in)  BY <1>1, <1>2 DEF Directories
<1>4. \A d \in Folders, n \in Names : in[d][n] = IF d = e /\ n = m THEN object ELSE tree[d][n]
  BY <1>1, <1>2 DEF Directories
<1>5. IsTree(tree) /\ object \notin Dirs => IsTree(in)
  BY <1>4 DEF IsTree, Folders
<1> QED  BY <1>3, <1>4, <1>5 DEF e, m, in

\* A new file disturbs no kept path, and its own leads to it.
LEMMA CreateKeeps ==
    ASSUME PInv, NEW path \in Seq(Names), NEW f \in Files, CanCreate(path), Free # {},
           tree' = Put(path, f), Opened(Lowest, f, path), touched' = touched \ {Lowest},
           errno' \in {NoErrno, HostErrno}
    PROVE  PInv'
<1> DEFINE d == Find(Front(path))
           n == Last(path)
<1>1. /\ Directories(tree) /\ path # <<>> /\ Find(path) = None /\ d \in Folders /\ n \in Names
      /\ Lowest \in Fds /\ f \notin Folders /\ f \in Objects /\ f # None /\ f \notin Dirs
  <2>1. Directories(tree) /\ DOMAIN tree = Folders  BY TreeType DEF PInv, Directories
  <2>2. path # <<>> /\ Find(path) = None /\ d \in Folders  BY <2>1 DEF CanCreate
  <2>3. n \in Names  BY <2>2, FrontAndLast
  <2> QED  BY <2>1, <2>2, <2>3, LowestIsFree, NoneIsNoFolder DEF Folders
<1>2. /\ Directories(tree') /\ IsTree(tree')
      /\ \A e \in Folders, m \in Names : tree'[e][m] = IF e = d /\ m = n THEN f ELSE tree[e][m]
  BY <1>1, PutFacts DEF PInv
<1>3. tree[d][n] = None
  <2>1. Find(path) = Entry(tree, d, n)  BY <1>1, FindType DEF PInv
  <2> QED  BY <1>1, <2>1, EntryFacts
<1>4. ASSUME NEW p \in Seq(Names)
      PROVE  /\ SamePlace(Walk(tree', Root, p), Find(p))
             /\ Find(p) # None => Walk(tree', Root, p) = Find(p)
  <2>1. tree[d][n] \notin Folders /\ tree'[d][n] \notin Folders
    BY <1>1, <1>2, <1>3, NoneIsNoFolder
  <2>2. \A e \in Folders, m \in Names : (e = d /\ m = n) \/ tree'[e][m] = tree[e][m]
    BY <1>2
  <2> HIDE DEF d, n
  <2>3. /\ SamePlace(Walk(tree', Root, p), Walk(tree, Root, p))
        /\ Walk(tree, Root, p) \in {tree[d][n], None} \/ Walk(tree', Root, p) = Walk(tree, Root, p)
    BY <1>1, <1>2, <2>1, <2>2, FileChanged
  <2> QED  BY <1>3, <2>3 DEF Find
<1>5. Walk(tree', Root, path) = f
  <2>1. Front(path) \in Seq(Names)  BY <1>1, FrontAndLast
  <2>2. Walk(tree', Root, Front(path)) = d  BY <1>1, <1>4, <2>1, NoneIsNoFolder
  <2>3. Walk(tree', Root, path) = Entry(tree', d, n)  BY <1>1, <2>2, WalkFront
  <2>4. tree'[d][n] = f  BY <1>1, <1>2
  <2> HIDE DEF d, n
  <2> QED  BY <1>1, <1>2, <2>3, <2>4, EntryFacts
<1> HIDE DEF d, n
<1>6. TypeOK'  BY <1>1, <1>2 DEF PInv, TypeOK, Opened, Directories, Folders
<1>7. ASSUME NEW other \in Fds, Listed(other)'
      PROVE  held'[other] # None /\ (other \notin touched' => Walk(tree', Root, files'[other]) = held'[other])
  <2>1. CASE other = Lowest
    <3>1. held'[other] = f /\ files'[other] = path  BY <1>1, <2>1 DEF PInv, TypeOK, Opened
    <3> QED  BY <1>1, <1>5, <3>1
  <2>2. CASE other # Lowest
    <3>1. held'[other] = held[other] /\ files'[other] = files[other]
      BY <2>2 DEF PInv, TypeOK, Opened
    <3>2. Listed(other) /\ files[other] \in Seq(Names)
      BY <1>7, <3>1 DEF Listed, PInv, TypeOK
    <3>3. held[other] # None /\ (other \notin touched' => Find(files[other]) = held[other])
      BY <2>2, <3>2 DEF PInv, KeptPathIsTrue
    <3> QED  BY <1>4, <3>1, <3>2, <3>3
  <2> QED  BY <2>1, <2>2
<1>8. KeptPathIsTrue'  BY <1>7 DEF KeptPathIsTrue, Find
<1>9. CwdIsTrue'
  <2>1. AT_FDCWD \in touched => AT_FDCWD \in touched'  BY <1>1, NoFdcwd
  <2>2. SamePlace(Walk(tree', Root, Cwd), Find(Cwd))  BY <1>4, PathAssumption
  <2> QED  BY <2>1, <2>2 DEF PInv, CwdIsTrue, SamePlace, Find, Home
<1> QED  BY <1>2, <1>6, <1>8, <1>9 DEF PInv

\* What renames and unlinks touch are the paths that go through them.
LEMMA MovesKeep ==
    ASSUME PInv, NEW paths \in SUBSET Seq(Names), Moves(paths), UNCHANGED <<held, files>>,
           Directories(tree'), IsTree(tree'), errno' \in {NoErrno, HostErrno},
           \A p \in paths : p # <<>> /\ Find(Front(p)) \in Folders,
           \A d \in Folders, n \in Names :
              tree'[d][n] = tree[d][n] \/ \E p \in paths : d = Find(Front(p)) /\ n = Last(p)
    PROVE  PInv'
<1>1. touched' = touched \cup UNION {GoneThrough(path) : path \in paths}  BY DEF Moves
<1>2. ASSUME NEW fd \in Dirfds, KeptPath(fd) \in Seq(Names), KeptPath(fd) # None, fd \notin touched'
      PROVE  fd \notin touched /\ Walk(tree', Root, KeptPath(fd)) = Find(KeptPath(fd))
  <2>1. fd \notin touched /\ \A p \in paths : ~IsPrefix(p, KeptPath(fd))
    BY <1>1, <1>2 DEF GoneThrough
  <2>2. Directories(tree) /\ IsTree(tree)  BY TreeType DEF PInv
  <2>3. ASSUME NEW d \in Folders, NEW n \in Names
        PROVE  tree'[d][n] = tree[d][n] \/ ~Crosses(tree, KeptPath(fd), d, n)
    <3>1. CASE tree'[d][n] # tree[d][n]
      <4>1. PICK p \in paths : d = Find(Front(p)) /\ n = Last(p)  BY <3>1
      <4>2. p \in Seq(Names) /\ p # <<>> /\ Walk(tree, Root, Front(p)) \in Folders
        BY DEF Find
      <4>3. ~IsPrefix(p, KeptPath(fd))  BY <2>1
      <4> QED  BY <1>2, <2>2, <4>1, <4>2, <4>3, CrossingIsPrefix DEF Find
    <3> QED  BY <3>1
  <2>4. Walk(tree', Root, KeptPath(fd)) = Walk(tree, Root, KeptPath(fd))
    BY <1>2, <2>2, <2>3, WalkElsewhere
  <2> QED  BY <2>1, <2>4 DEF Find
<1>3. TypeOK'
  <2>1. touched' \subseteq Dirfds  BY <1>1 DEF PInv, TypeOK, GoneThrough
  <2> QED  BY <2>1 DEF PInv, TypeOK, Directories, Folders
<1>4. ASSUME NEW fd \in Fds, Listed(fd)'
      PROVE  held'[fd] # None /\ (fd \notin touched' => Walk(tree', Root, files'[fd]) = held'[fd])
  <2>1. Listed(fd) /\ files[fd] \in Seq(Names) /\ files[fd] # None
    BY <1>4 DEF Listed, PInv, TypeOK
  <2>2. KeptPath(fd) = files[fd] /\ fd \in Dirfds  BY NoFdcwd DEF KeptPath, Dirfds
  <2>3. fd \notin touched' =>
          fd \notin touched /\ Walk(tree', Root, files[fd]) = Find(files[fd])
    BY <1>2, <2>1, <2>2
  <2> QED  BY <2>1, <2>3 DEF PInv, KeptPathIsTrue
<1>5. KeptPathIsTrue'  BY <1>4 DEF KeptPathIsTrue, Find
<1>6. CwdIsTrue'
  <2>1. KeptPath(AT_FDCWD) = Cwd /\ AT_FDCWD \in Dirfds /\ Cwd \in Seq(Names) /\ Cwd # None
    BY PathAssumption DEF KeptPath, Dirfds
  <2>2. AT_FDCWD \notin touched' =>
          AT_FDCWD \notin touched /\ Walk(tree', Root, Cwd) = Find(Cwd)
    BY <1>2, <2>1
  <2> QED  BY <2>2 DEF PInv, CwdIsTrue, SamePlace, Find, Home
<1> QED  BY <1>3, <1>5, <1>6 DEF PInv

LEMMA UnlinkKeeps ==
    ASSUME PInv, NEW path \in Seq(Names), Find(path) \in Files, tree' = Put(path, None),
           Moves({path}), UNCHANGED <<held, files>>, errno' \in {NoErrno, HostErrno}
    PROVE  PInv'
<1>1. path # <<>> /\ Find(path) # None  BY FindNowhere, NoneIsNoFolder
<1>2. Find(Front(path)) \in Folders  BY <1>1, FindType DEF PInv
<1>3. Directories(tree) /\ IsTree(tree) /\ None \notin Dirs  BY TreeType, NoneIsNoFolder DEF PInv
<1>4. /\ Directories(tree') /\ IsTree(tree')
      /\ \A d \in Folders, n \in Names :
            tree'[d][n] = IF d = Find(Front(path)) /\ n = Last(path) THEN None ELSE tree[d][n]
  BY <1>1, <1>2, <1>3, PutFacts
<1>5. \A d \in Folders, n \in Names :
         tree'[d][n] = tree[d][n] \/ \E p \in {path} : d = Find(Front(p)) /\ n = Last(p)
  BY <1>4
<1>6. \A p \in {path} : p # <<>> /\ Find(Front(p)) \in Folders  BY <1>1, <1>2
<1>7. {path} \in SUBSET Seq(Names)  OBVIOUS
<1> QED  BY <1>4, <1>5, <1>6, <1>7, MovesKeep

LEMMA RenameKeeps ==
    ASSUME PInv, NEW from \in Seq(Names), NEW to \in Seq(Names), NEW flag,
           Find(from) # None, HostRenames(Find(from), flag, from, to), Moves({from, to}),
           UNCHANGED <<held, files>>, errno' \in {NoErrno, HostErrno}
    PROVE  PInv'
<1> DEFINE c == Find(Front(from))
           k == Last(from)
           d == Find(Front(to))
           n == Last(to)
           left == IF flag = "exchange" THEN Find(to) ELSE None
<1>1. Directories(tree) /\ IsTree(tree) /\ DOMAIN tree = Folders
  BY TreeType DEF PInv, Directories
<1>2. /\ from # <<>> /\ to # <<>> /\ ~IsPrefix(from, to) /\ d \in Folders
      /\ tree' = [tree EXCEPT ![c][k] = left, ![d][n] = Find(from)]
  BY <1>1 DEF HostRenames
<1>3. c \in Folders /\ k \in Names /\ n \in Names  BY <1>2, FindType DEF PInv
<1>4. Find(from) = tree[c][k] /\ Find(to) = tree[d][n]
  <2>1. Find(from) = Entry(tree, c, k) /\ Find(to) = Entry(tree, d, n)
    BY <1>2, FindType DEF PInv
  <2> HIDE DEF c, k, d, n
  <2> QED  BY <1>1, <1>2, <1>3, <2>1, EntryFacts
<1>5. c # d \/ k # n
  <2>1. ASSUME c = d, k = n PROVE FALSE
    <3>1. Front(from) \in Seq(Names) /\ Front(to) \in Seq(Names)  BY <1>2, FrontAndLast
    <3>2. Front(from) = Front(to)  BY <1>1, <1>2, <2>1, <3>1, OnePath DEF Find
    <3>3. from = to  BY <1>2, <2>1, <3>2, FrontAndLast
    <3>4. IsPrefix(from, from)  BY DEF IsPrefix
    <3> QED  BY <1>2, <3>3, <3>4
  <2> QED  BY <2>1
<1>6. left = IF flag = "exchange" THEN tree[d][n] ELSE None  BY <1>4
<1> HIDE DEF c, k, d, n, left
<1>7. tree[c][k] \in Objects \cup {None} /\ left \in Objects \cup {None}
  BY <1>1, <1>2, <1>3, <1>6 DEF Directories
<1>8. Directories(tree')
  BY <1>1, <1>2, <1>3, <1>4, <1>7 DEF Directories
<1>9. \A a \in Folders, b \in Names :
        tree'[a][b] = IF a = d /\ b = n THEN tree[c][k]
                      ELSE IF a = c /\ b = k THEN left ELSE tree[a][b]
  BY <1>1, <1>2, <1>3, <1>4, <1>5 DEF Directories
<1>10. IsTree(tree')
  <2> SUFFICES ASSUME NEW a \in Folders, NEW e \in Folders, NEW b \in Names, NEW m \in Names,
                      tree'[a][b] = tree'[e][m], tree'[a][b] \in Dirs
               PROVE  a = e /\ b = m
    BY DEF IsTree, Folders
  <2>1. \A x, y \in Folders, i, j \in Names :
          tree[x][i] = tree[y][j] /\ tree[x][i] \in Dirs => x = y /\ i = j
    BY <1>1 DEF IsTree, Folders
  <2>2. left \in Dirs => left = tree[d][n]  BY <1>6, NoneIsNoFolder
  <2>3. ASSUME NEW x \in Folders, NEW i \in Names, tree'[x][i] \in Dirs
        PROVE  \E y \in Folders, j \in Names :
                  /\ tree'[x][i] = tree[y][j]
                  /\ x = d /\ i = n => y = c /\ j = k
                  /\ x = c /\ i = k => y = d /\ j = n
                  /\ ~(x = d /\ i = n) /\ ~(x = c /\ i = k) => y = x /\ j = i
    <3>1. CASE x = d /\ i = n
      <4>1. tree'[x][i] = tree[c][k]  BY <1>9, <3>1
      <4> QED  BY <1>3, <1>5, <3>1, <4>1
    <3>2. CASE ~(x = d /\ i = n) /\ x = c /\ i = k
      <4>1. tree'[x][i] = left  BY <1>9, <3>2
      <4>2. tree'[x][i] = tree[d][n]  BY <2>2, <2>3, <4>1
      <4> QED  BY <1>2, <1>3, <3>2, <4>2
    <3>3. CASE ~(x = d /\ i = n) /\ ~(x = c /\ i = k)
      <4>1. tree'[x][i] = tree[x][i]  BY <1>9, <3>3
      <4> QED  BY <3>3, <4>1
    <3> QED  BY <3>1, <3>2, <3>3
  <2>4. PICK y \in Folders, j \in Names :
                  /\ tree'[a][b] = tree[y][j]
                  /\ a = d /\ b = n => y = c /\ j = k
                  /\ a = c /\ b = k => y = d /\ j = n
                  /\ ~(a = d /\ b = n) /\ ~(a = c /\ b = k) => y = a /\ j = b
    BY <2>3
  <2>5. PICK z \in Folders, l \in Names :
                  /\ tree'[e][m] = tree[z][l]
                  /\ e = d /\ m = n => z = c /\ l = k
                  /\ e = c /\ m = k => z = d /\ l = n
                  /\ ~(e = d /\ m = n) /\ ~(e = c /\ m = k) => z = e /\ l = m
    BY <2>3
  <2>6. y = z /\ j = l
    <3>1. tree[y][j] = tree[z][l] /\ tree[y][j] \in Dirs  BY <2>4, <2>5
    <3> QED  BY <2>1, <3>1
  <2> QED  BY ONLY <1>5, <2>4, <2>5, <2>6
<1>11. \A p \in {from, to} : p # <<>> /\ Find(Front(p)) \in Folders  BY <1>2, <1>3 DEF c, d
<1>12. \A a \in Folders, b \in Names :
         tree'[a][b] = tree[a][b] \/ \E p \in {from, to} : a = Find(Front(p)) /\ b = Last(p)
  BY <1>9 DEF c, d, k, n
<1>13. {from, to} \in SUBSET Seq(Names)  OBVIOUS
<1> QED  BY <1>8, <1>10, <1>11, <1>12, <1>13, MovesKeep

-----------------------------------------------------------------------------
LEMMA QuietKeeps == ASSUME PInv, Quiet \/ UNCHANGED vars PROVE PInv'
<1>1. UNCHANGED <<tree, held, files, touched>> /\ errno' \in {NoErrno, HostErrno}
  <2>1. CASE UNCHANGED vars  BY <2>1 DEF vars, PInv, TypeOK
  <2>2. CASE Quiet
    <3>1. SameNames /\ errno' \in {errno, HostErrno}
      BY <2>2 DEF Quiet, HostRefuses, Rejected, Rejects, AskedName, AskedExe, AskedNumber,
                  HostDoes, HostDoesNumber
    <3> QED  BY <3>1 DEF SameNames, PInv, TypeOK
  <2> QED  BY <2>1, <2>2
<1>2. TypeOK'  BY <1>1 DEF PInv, TypeOK
<1>3. IsTree(tree)'  BY <1>1 DEF PInv, IsTree
<1>4. KeptPathIsTrue'  BY <1>1 DEF PInv, KeptPathIsTrue, Listed, Find
<1>5. CwdIsTrue'  BY <1>1 DEF PInv, CwdIsTrue, Find, Home
<1> QED  BY <1>2, <1>3, <1>4, <1>5 DEF PInv

LEMMA RefusalIsQuiet == HostRefuses("change") => Quiet
BY RefusedIsQuiet DEF Calls

LEMMA DeedsKeepErrno ==
    ASSUME PInv, NEW call, NEW fd, NEW name, NEW object, NEW res,
           HostDoes(call, fd, name, object, res) \/ HostDoesNumber(call, fd, object, res)
    PROVE  errno' \in {NoErrno, HostErrno}
BY DEF HostDoes, HostDoesNumber, PInv, TypeOK

LEMMA NumbersKeep ==
    ASSUME PInv, NEW fd \in Fds, sys_dup(fd) \/ sys_fcntl_dupfd(fd) \/ sys_close(fd)
    PROVE  PInv'
<1>1. held[fd] \in Objects \cup {Root, None} /\ files[fd] \in Seq(Names) \cup {None} /\ touched \subseteq Dirfds
  BY DEF PInv, TypeOK
<1>2. CASE sys_dup(fd)
  <2>1. Lowest \in Fds /\ Lowest \in Dirfds  BY <1>2, LowestIsFree DEF sys_dup, Dirfds
  <2>2. errno' \in {NoErrno, HostErrno}  BY <1>2, DeedsKeepErrno DEF sys_dup
  <2>3. /\ Opened(Lowest, held[fd], files[fd]) /\ UNCHANGED tree
        /\ touched' = IF fd \in touched THEN touched \cup {Lowest} ELSE touched \ {Lowest}
    BY <1>2 DEF sys_dup
  <2>4. held[fd] # None /\ (fd \notin touched => Find(files[fd]) = held[fd])
    BY <1>2 DEF sys_dup, PInv, KeptPathIsTrue
  <2> QED  BY <1>1, <2>1, <2>2, <2>3, <2>4, NumberKeeps
<1>3. CASE sys_fcntl_dupfd(fd)
  <2>1. Lowest \in Fds  BY <1>3, LowestIsFree DEF sys_fcntl_dupfd
  <2>2. errno' \in {NoErrno, HostErrno}  BY <1>3, DeedsKeepErrno DEF sys_fcntl_dupfd
  <2>3. /\ Opened(Lowest, held[fd], None) /\ UNCHANGED tree /\ touched' = touched \ {Lowest}
    BY <1>3 DEF sys_fcntl_dupfd
  <2> QED  BY <1>1, <2>1, <2>2, <2>3, NumberKeeps
<1>4. CASE sys_close(fd)
  <2>1. errno' \in {NoErrno, HostErrno}  BY <1>4, DeedsKeepErrno DEF sys_close
  <2>2. /\ Opened(fd, None, None) /\ UNCHANGED tree /\ touched' = touched \ {fd}
    BY <1>4 DEF sys_close
  <2> QED  BY <1>1, <2>1, <2>2, NumberKeeps
<1> QED  BY <1>2, <1>3, <1>4

LEMMA OpensKeeps ==
    ASSUME PInv, NEW dirfd \in Dirfds, NEW name \in Name, NEW create \in BOOLEAN,
           Opens(dirfd, name, create)
    PROVE  PInv'
<1> DEFINE path == get_path_at(dirfd, name)
<1>1. path # None /\ Free # {} /\ touched' = touched \ {Lowest}  BY DEF Opens
<1>2. path \in Seq(Names) /\ Lowest \in Fds  BY <1>1, PathIsNames, LowestIsFree DEF PInv
<1>3. touched \subseteq Dirfds  BY DEF PInv, TypeOK
<1>4. CASE /\ Find(path) # None /\ Opened(Lowest, Find(path), path) /\ UNCHANGED tree
           /\ HostDoes("change", dirfd, name, Find(path), Ok(Lowest))
  <2> HIDE DEF path
  <2>1. errno' \in {NoErrno, HostErrno}  BY <1>4, DeedsKeepErrno
  <2>2. Find(path) \in Objects \cup {Root, None}  BY <1>2, FindType DEF PInv
  <2> QED  BY <1>1, <1>2, <1>3, <1>4, <2>1, <2>2, NumberKeeps
<1>5. ASSUME NEW f \in Unused, CanCreate(path), tree' = Put(path, f), Opened(Lowest, f, path),
             UNCHANGED errno
      PROVE  PInv'
  <2> HIDE DEF path
  <2>1. f \in Files  BY DEF Unused
  <2>2. errno' \in {NoErrno, HostErrno}  BY <1>5 DEF PInv, TypeOK
  <2> QED  BY <1>1, <1>2, <1>5, <2>1, <2>2, CreateKeeps
<1> QED  BY <1>4, <1>5 DEF Opens

LEMMA LoudKeeps == ASSUME PInv, Loud PROVE PInv'
<1>1. ASSUME NEW name \in Name, sys_unlink(name) PROVE PInv'
  <2> DEFINE path == get_path_at(AT_FDCWD, name)
  <2>1. path # None /\ AT_FDCWD \in Dirfds  BY <1>1 DEF sys_unlink, OnPath, Dirfds
  <2>2. path \in Seq(Names)  BY <2>1, PathIsNames DEF PInv
  <2>3. \/ HostRefuses("change")
        \/ /\ Find(path) \in Files /\ tree' = Put(path, None) /\ Moves({path})
           /\ HostDoes("change", AT_FDCWD, name, Find(path), Ok(0))
           /\ UNCHANGED <<held, files>>
    BY <1>1 DEF sys_unlink, OnPath
  <2> HIDE DEF path
  <2>4. CASE HostRefuses("change")  BY <2>4, RefusalIsQuiet, QuietKeeps
  <2>5. CASE /\ Find(path) \in Files /\ tree' = Put(path, None) /\ Moves({path})
             /\ HostDoes("change", AT_FDCWD, name, Find(path), Ok(0))
             /\ UNCHANGED <<held, files>>
    <3>1. errno' \in {NoErrno, HostErrno}  BY <2>5, DeedsKeepErrno
    <3> QED  BY <2>2, <2>5, <3>1, UnlinkKeeps
  <2> QED  BY <2>3, <2>4, <2>5
<1>2. ASSUME NEW old_dfd \in Dirfds, NEW new_dfd \in Dirfds, NEW old \in Name, NEW new \in Name,
             NEW flag \in {"none", "exchange"},
             sys_renameat2(old_dfd, old, new_dfd, new, flag)
      PROVE  PInv'
  <2> DEFINE from == get_path_at(old_dfd, old)
             to == get_path_at(new_dfd, new)
  <2>1. \/ Rejects("change", Errno("EBADF"), Errno("EBADF"))
        \/ HostRefuses("change")
        \/ /\ None \notin {from, to} /\ Find(from) # None
           /\ HostRenames(Find(from), flag, from, to) /\ Moves({from, to})
           /\ UNCHANGED <<held, files, errno>>
    BY <1>2 DEF sys_renameat2, NoPath
  <2>2. CASE Rejects("change", Errno("EBADF"), Errno("EBADF"))
    <3>1. "change" \in Calls  BY DEF Calls
    <3> QED  BY <2>2, <3>1, RejectsIsQuiet, QuietKeeps
  <2>3. CASE HostRefuses("change")  BY <2>3, RefusalIsQuiet, QuietKeeps
  <2>4. CASE /\ None \notin {from, to} /\ Find(from) # None
             /\ HostRenames(Find(from), flag, from, to) /\ Moves({from, to})
             /\ UNCHANGED <<held, files, errno>>
    <3>1. from # None /\ to # None  BY <2>4
    <3>2. from \in Seq(Names) /\ to \in Seq(Names)  BY <3>1, PathIsNames DEF PInv
    <3> HIDE DEF from, to
    <3>3. errno' \in {NoErrno, HostErrno}  BY <2>4 DEF PInv, TypeOK
    <3> QED  BY <2>4, <3>2, <3>3, RenameKeeps
  <2> QED  BY <2>1, <2>2, <2>3, <2>4
<1> QED  BY <1>1, <1>2, NumbersKeep, OpensKeeps DEF Loud

LEMMA NextPInv == PInv /\ [Next]_vars => PInv'
BY NextIsKnown, QuietKeeps, LoudKeeps

LEMMA PathsAlways == Spec => []PInv
BY InitPInv, NextPInv, PTL DEF Spec

\* For any directories, names, numbers and moves: the path that FD_TABLE keeps
\* leads to what the number refers to, until a rename or an unlink goes through it.
THEOREM KeptPathsStayTrue == Spec => []KeptPathIsTrue
<1>1. PInv => KeptPathIsTrue  BY DEF PInv
<1> QED  BY <1>1, PathsAlways, PTL

-----------------------------------------------------------------------------
(***************************************************************************)
(* What a call acts on, and what its names stand for.                      *)
(***************************************************************************)
Meets ==
    \/ last'.did = last'.meant
    \/ last'.via \cap touched # {}
    \/ NoName \in ToSet(last'.meant)
    \/ last'.did = <<HostCwd>>

LEMMA EndsMeets ==
    ASSUME NEW call, NEW via, NEW did, NEW meant, NEW truth, NEW res,
           Ends(call, via, did, meant, truth, res),
           did = meant \/ via \cap touched # {} \/ NoName \in ToSet(meant) \/ did = <<HostCwd>>
    PROVE  Meets
BY EndsFacts DEF Meets

LEMMA InPair ==
    /\ \A x : x \in ToSet(<<x>>)
    /\ \A x, y : x \in ToSet(<<x, y>>) /\ y \in ToSet(<<x, y>>)
<1>1. ASSUME NEW x PROVE x \in ToSet(<<x>>)
  <2>1. 1 \in DOMAIN <<x>> /\ <<x>>[1] = x  OBVIOUS
  <2> QED  BY <2>1 DEF ToSet
<1>2. ASSUME NEW x, NEW y PROVE x \in ToSet(<<x, y>>) /\ y \in ToSet(<<x, y>>)
  <2>1. 1 \in DOMAIN <<x, y>> /\ 2 \in DOMAIN <<x, y>> /\ <<x, y>>[1] = x /\ <<x, y>>[2] = y
    OBVIOUS
  <2> QED  BY <2>1 DEF ToSet
<1> QED  BY <1>1, <1>2

LEMMA ExeIsNoName == Exe \notin Name
<1>1. Exe.path = <<Program>> /\ Len(<<Program>>) = 1 /\ <<Program>>[1] = Program  BY DEF Exe
<1>2. <<Program>> \in Seq(Names) => Program \in Names  BY <1>1
<1> QED  BY <1>1, <1>2, NamePath, PathAssumption

\* A relative name is joined to the path kept for its directory.
LEMMA PathIsJoined ==
    ASSUME NEW dirfd \in Dirfds, NEW name \in Name, ~name.abs, get_path_at(dirfd, name) # None
    PROVE  /\ dirfd = AT_FDCWD \/ (dirfd \in Fds /\ Listed(dirfd))
           /\ get_path_at(dirfd, name) = KeptPath(dirfd) \o name.path
<1>1. CASE dirfd = AT_FDCWD  BY <1>1, PathFacts DEF KeptPath
<1>2. CASE dirfd \in Fds
  <2>1. Listed(dirfd)  BY <1>2, PathFacts
  <2>2. dirfd # AT_FDCWD  BY <1>2, NoFdcwd
  <2> QED  BY <1>2, <2>1, <2>2, PathFacts DEF KeptPath
<1> QED  BY <1>1, <1>2 DEF Dirfds

\* Where nothing has gone through it, that path leads to the directory.
LEMMA StartIsTrue ==
    ASSUME PInv, NEW dirfd \in Dirfds, dirfd \notin touched,
           dirfd = AT_FDCWD \/ (dirfd \in Fds /\ Listed(dirfd))
    PROVE  SamePlace(Find(KeptPath(dirfd)), Directory(dirfd))
<1>1. CASE dirfd = AT_FDCWD
  <2>1. KeptPath(dirfd) = Cwd /\ Directory(dirfd) = Home
    BY <1>1 DEF KeptPath, Directory, Home
  <2> QED  BY <1>1, <2>1 DEF PInv, CwdIsTrue
<1>2. CASE dirfd \in Fds /\ Listed(dirfd)
  <2>1. KeptPath(dirfd) = files[dirfd] /\ Directory(dirfd) = held[dirfd]
    BY <1>2, NoFdcwd DEF KeptPath, Directory
  <2> QED  BY <1>2, <2>1 DEF PInv, KeptPathIsTrue, SamePlace
<1> QED  BY <1>1, <1>2

LEMMA KeptPathType ==
    ASSUME TypeOK, NEW dirfd \in Dirfds, dirfd = AT_FDCWD \/ (dirfd \in Fds /\ Listed(dirfd))
    PROVE  KeptPath(dirfd) \in Seq(Names)
BY PathAssumption DEF KeptPath, TypeOK, Listed

LEMMA WalkFromSame ==
    ASSUME Directories(tree), NEW x, NEW y, SamePlace(x, y), NEW q \in Seq(Names), q # <<>>
    PROVE  Walk(tree, x, q) = Walk(tree, y, q)
<1>1. Len(q) \in Nat /\ 0 \in 0..Len(q) /\ Len(q) \in (0 + 1)..Len(q)  OBVIOUS
<1>2. ASSUME NEW z, z \notin Folders PROVE Walk(tree, z, q) = None
  <2>1. Trail(tree, z, q)[0] \notin Folders  BY <1>1, <1>2, TrailIs
  <2> QED  BY <1>1, <2>1, LostStaysLost DEF Walk
<1> QED  BY <1>2 DEF SamePlace

LEMMA JoinFacts ==
    ASSUME NEW p \in Seq(Names), NEW q \in Seq(Names)
    PROVE  /\ p \o q \in Seq(Names) /\ Len(p \o q) = Len(p) + Len(q)
           /\ \A i \in 1..Len(p) : (p \o q)[i] = p[i]
           /\ \A i \in 1..Len(q) : (p \o q)[Len(p) + i] = q[i]
OBVIOUS

LEMMA SameSeq ==
    ASSUME NEW p \in Seq(Names), NEW q \in Seq(Names), Len(p) = Len(q),
           \A i \in 1..Len(p) : p[i] = q[i]
    PROVE  p = q
OBVIOUS

LEMMA FrontOfJoined ==
    ASSUME NEW p \in Seq(Names), NEW q \in Seq(Names), q # <<>>
    PROVE  Front(p \o q) = p \o Front(q)
<1> DEFINE r == p \o q
           g == Front(q)
           f == p \o g
<1>1. /\ Len(p) \in Nat /\ Len(q) \in Nat /\ Len(q) >= 1 /\ Len(r) = Len(p) + Len(q)
      /\ r \in Seq(Names)
      /\ \A i \in 1..Len(p) : r[i] = p[i]
      /\ \A i \in 1..Len(q) : r[Len(p) + i] = q[i]
  OBVIOUS
<1>2. r # <<>>  BY <1>1
<1>3. /\ g \in Seq(Names) /\ Len(g) = Len(q) - 1
      /\ \A i \in 1..(Len(q) - 1) : g[i] = q[i]
  BY FrontAndLast
<1> HIDE DEF g
<1>4. /\ Len(f) = Len(p) + (Len(q) - 1) /\ f \in Seq(Names)
      /\ \A i \in 1..Len(p) : f[i] = p[i]
      /\ \A i \in 1..(Len(q) - 1) : f[Len(p) + i] = g[i]
  <2>1. /\ f \in Seq(Names) /\ Len(f) = Len(p) + Len(g)
        /\ \A i \in 1..Len(p) : f[i] = p[i]
        /\ \A i \in 1..Len(g) : f[Len(p) + i] = g[i]
    BY <1>3, JoinFacts
  <2> HIDE DEF f
  <2> QED  BY <1>3, <2>1
<1> HIDE DEF r, f
<1>5. /\ Front(r) \in Seq(Names) /\ Len(Front(r)) = Len(r) - 1
      /\ \A i \in 1..(Len(r) - 1) : Front(r)[i] = r[i]
  BY <1>1, <1>2, FrontAndLast
<1>6. ASSUME NEW i \in 1..(Len(r) - 1) PROVE Front(r)[i] = f[i]
  <2>1. CASE i <= Len(p)
    <3>1. i \in 1..Len(p)  BY <1>1, <2>1
    <3> QED  BY <1>1, <1>4, <1>5, <3>1
  <2>2. CASE i > Len(p)
    <3>1. PICK j \in 1..(Len(q) - 1) : i = Len(p) + j
      <4>1. i - Len(p) \in 1..(Len(q) - 1) /\ i = Len(p) + (i - Len(p))  BY <1>1, <2>2
      <4> QED  BY <4>1
    <3>2. j \in 1..Len(q)  BY <1>1
    <3>3. r[i] = q[j] /\ f[i] = g[j] /\ g[j] = q[j]  BY <1>1, <1>3, <1>4, <3>1, <3>2
    <3> QED  BY <1>5, <3>3
  <2> QED  BY <1>1, <2>1, <2>2
<1>7. Len(Front(r)) = Len(f)  BY <1>1, <1>4, <1>5
<1>8. \A i \in 1..Len(Front(r)) : Front(r)[i] = f[i]  BY <1>5, <1>6, <1>7
<1>9. Front(r) = f  BY <1>4, <1>5, <1>7, <1>8, SameSeq
<1> QED  BY <1>9 DEF r, f, g

LEMMA FindsMeant ==
    ASSUME PInv, NEW dirfd \in Dirfds, NEW name \in Name, get_path_at(dirfd, name) # None
    PROVE  \/ Find(get_path_at(dirfd, name)) = Meant(dirfd, name)
           \/ Via(dirfd, name) \cap touched # {}
           \/ Meant(dirfd, name) = NoName
<1>1. name # Exe /\ name.abs \in BOOLEAN /\ name.path \in Seq(Names)
  BY ExeIsNoName, NamePath
<1>2. CASE Empty(name)  BY <1>1, <1>2, MeantFacts
<1>3. CASE name.abs
  <2>1. ~Empty(name)  BY <1>3 DEF Empty
  <2> QED  BY <1>1, <1>3, <2>1, MeantFacts, PathFacts DEF Find
<1>4. CASE ~name.abs /\ ~Empty(name)
  <2>1. CASE dirfd \in touched  BY <1>4, <2>1 DEF Via
  <2>2. CASE dirfd \notin touched
    <3>1. /\ dirfd = AT_FDCWD \/ (dirfd \in Fds /\ Listed(dirfd))
          /\ get_path_at(dirfd, name) = KeptPath(dirfd) \o name.path
      BY <1>4, PathIsJoined
    <3>2. KeptPath(dirfd) \in Seq(Names)  BY <3>1, KeptPathType DEF PInv
    <3>3. Find(KeptPath(dirfd) \o name.path) = Walk(tree, Find(KeptPath(dirfd)), name.path)
      BY <1>1, <3>2, WalkOn DEF Find
    <3>4. SamePlace(Find(KeptPath(dirfd)), Directory(dirfd))  BY <2>2, <3>1, StartIsTrue
    <3>5. name.path # <<>>  BY <1>4 DEF Empty
    <3>6. Walk(tree, Find(KeptPath(dirfd)), name.path) = Walk(tree, Directory(dirfd), name.path)
      BY <1>1, <3>4, <3>5, WalkFromSame, TreeType DEF PInv
    <3>7. Meant(dirfd, name) = Walk(tree, Directory(dirfd), name.path)
      BY <1>1, <1>4, MeantFacts
    <3> QED  BY <3>1, <3>3, <3>6, <3>7
  <2> QED  BY <2>1, <2>2
<1> QED  BY <1>1, <1>2, <1>3, <1>4

LEMMA FindsParent ==
    ASSUME PInv, NEW dirfd \in Dirfds, NEW name \in Name, get_path_at(dirfd, name) # None,
           Find(Front(get_path_at(dirfd, name))) \in Folders
    PROVE  \/ Find(Front(get_path_at(dirfd, name))) = MeantParent(dirfd, name)
           \/ Via(dirfd, name) \cap touched # {}
           \/ MeantParent(dirfd, name) = NoName
<1>1. name.abs \in BOOLEAN /\ name.path \in Seq(Names)  BY NamePath
<1>2. CASE name.path = <<>>  BY <1>2 DEF MeantParent
<1>3. CASE name.path # <<>> /\ name.abs
  BY <1>1, <1>3, PathFacts DEF MeantParent, Find
<1>4. CASE name.path # <<>> /\ ~name.abs
  <2>1. CASE dirfd \in touched  BY <1>4, <2>1 DEF Via
  <2>2. CASE dirfd \notin touched
    <3> DEFINE kept == KeptPath(dirfd)
               front == Front(name.path)
    <3>1. /\ dirfd = AT_FDCWD \/ (dirfd \in Fds /\ Listed(dirfd))
          /\ get_path_at(dirfd, name) = kept \o name.path
      BY <1>4, PathIsJoined
    <3>2. kept \in Seq(Names)  BY <3>1, KeptPathType DEF PInv
    <3>3. front \in Seq(Names)  BY <1>1, <1>4, FrontAndLast
    <3>4. Front(get_path_at(dirfd, name)) = kept \o front
      BY <1>1, <1>4, <3>1, <3>2, FrontOfJoined
    <3>5. SamePlace(Find(kept), Directory(dirfd))  BY <2>2, <3>1, StartIsTrue
    <3>6. MeantParent(dirfd, name) = Walk(tree, Directory(dirfd), front)
      BY <1>4 DEF MeantParent
    <3> HIDE DEF kept, front
    <3>7. Find(kept \o front) = Walk(tree, Find(kept), front)  BY <3>2, <3>3, WalkOn DEF Find
    <3>8. Walk(tree, Find(kept), front) = Walk(tree, Directory(dirfd), front)
      <4>1. CASE front = <<>>
        <5>1. Find(kept) \in Folders  BY <3>4, <3>7, <4>1, WalkNowhere
        <5>2. Find(kept) = Directory(dirfd)  BY <3>5, <5>1 DEF SamePlace
        <5> QED  BY <5>2
      <4>2. CASE front # <<>>
        BY <3>3, <3>5, <4>2, WalkFromSame, TreeType DEF PInv
      <4> QED  BY <4>1, <4>2
    <3> QED  BY <3>4, <3>6, <3>7, <3>8
  <2> QED  BY <2>1, <2>2
<1> QED  BY <1>1, <1>2, <1>3, <1>4

LEMMA DoesAsMeant ==
    ASSUME PInv, NEW call, NEW dirfd \in Dirfds, NEW name \in Name, NEW res,
           get_path_at(dirfd, name) # None,
           HostDoes(call, dirfd, name, Find(get_path_at(dirfd, name)), res)
    PROVE  Meets
<1> DEFINE object == Find(get_path_at(dirfd, name))
           meant == Meant(dirfd, name)
<1>1. object = meant \/ Via(dirfd, name) \cap touched # {} \/ meant = NoName
  BY FindsMeant
<1>2. Ends(call, Via(dirfd, name), <<object>>, <<meant>>, Ok(0), res)  BY DEF HostDoes
<1> HIDE DEF object, meant
<1> QED  BY <1>1, <1>2, EndsMeets, InPair

LEMMA DoesNumberAsMeant ==
    ASSUME NEW call, NEW fd \in Dirfds, NEW object, NEW res,
           HostDoesNumber(call, fd, object, res),
           (fd \in Fds /\ object = held[fd]) \/ (fd = AT_FDCWD /\ object = HostCwd)
    PROVE  Meets
<1>1. Ends(call, {}, <<object>>, <<Directory(fd)>>, Ok(0), res)  BY DEF HostDoesNumber
<1>2. object = Directory(fd) \/ object = HostCwd  BY NoFdcwd DEF Directory
<1> QED  BY <1>1, <1>2, EndsMeets

LEMMA RefusalMeets == ASSUME NEW call, HostRefuses(call) PROVE Meets
<1>1. Ends(call, {}, <<>>, <<>>, Errno(HostErrno), Errno(HostErrno))  BY DEF HostRefuses
<1> QED  BY <1>1, EndsMeets

LEMMA RejectionMeets == ASSUME NEW call, NEW truth, NEW told, Rejects(call, truth, told) PROVE Meets
<1>1. Ends(call, {}, <<>>, <<>>, truth, told)  BY DEF Rejects
<1> QED  BY <1>1, EndsMeets

LEMMA QuietMeets == ASSUME PInv, Quiet PROVE Meets
<1>1. PICK call \in Calls :
        \/ HostRefuses(call) \/ Rejected(call)
        \/ \E dirfd \in Dirfds, buf \in Buffers :
            \/ \E name \in Name : AskedName(call, dirfd, name, buf)
            \/ AskedExe(call, dirfd, buf)
            \/ \E object : AskedNumber(call, dirfd, object, buf)
  BY DEF Quiet
<1>2. Rejected(call) => Meets  BY RejectionMeets DEF Rejected
<1>3. ASSUME NEW dirfd \in Dirfds, NEW buf \in Buffers, NEW name \in Name,
             AskedName(call, dirfd, name, buf)
      PROVE  Meets
  BY <1>3, DoesAsMeant DEF AskedName
<1>4. ASSUME NEW dirfd \in Dirfds, NEW buf \in Buffers, AskedExe(call, dirfd, buf)
      PROVE  Meets
  <2>1. Meant(dirfd, Exe) = Program  BY MeantFacts
  <2>2. Ends(call, Via(dirfd, Exe), <<Program>>, <<Meant(dirfd, Exe)>>, Ok(0), Answer(buf))
    BY <1>4 DEF AskedExe, HostDoes
  <2> QED  BY <2>1, <2>2, EndsMeets
<1>5. ASSUME NEW dirfd \in Dirfds, NEW buf \in Buffers, NEW object,
             AskedNumber(call, dirfd, object, buf)
      PROVE  Meets
  BY <1>5, DoesNumberAsMeant DEF AskedNumber
<1> QED  BY <1>1, <1>2, <1>3, <1>4, <1>5, RefusalMeets

LEMMA LoudMeets == ASSUME PInv, Loud PROVE Meets
<1>1. ASSUME NEW fd \in Fds, sys_dup(fd) \/ sys_fcntl_dupfd(fd) \/ sys_close(fd) PROVE Meets
  <2>1. \/ HostDoesNumber("change", fd, held[fd], Ok(Lowest))
        \/ HostDoesNumber("change", fd, held[fd], Ok(0))
    BY <1>1 DEF sys_dup, sys_fcntl_dupfd, sys_close
  <2>2. fd \in Dirfds  BY DEF Dirfds
  <2> QED  BY <2>1, <2>2, DoesNumberAsMeant
<1>2. ASSUME NEW dirfd \in Dirfds, NEW name \in Name, NEW create \in BOOLEAN,
             Opens(dirfd, name, create)
      PROVE  Meets
  <2> DEFINE path == get_path_at(dirfd, name)
             meant == MeantParent(dirfd, name)
  <2>1. path # None /\ DOMAIN tree = Folders
    BY <1>2 DEF Opens, PInv, TypeOK, Folders
  <2>2. \/ HostDoes("change", dirfd, name, Find(path), Ok(Lowest))
        \/ /\ CanCreate(path)
           /\ Ends("change", Via(dirfd, name), <<Find(Front(path))>>, <<meant>>, Ok(0), Ok(Lowest))
    BY <1>2 DEF Opens
  <2>3. CASE HostDoes("change", dirfd, name, Find(path), Ok(Lowest))
    BY <2>1, <2>3, DoesAsMeant
  <2>4. CASE /\ CanCreate(path)
             /\ Ends("change", Via(dirfd, name), <<Find(Front(path))>>, <<meant>>, Ok(0), Ok(Lowest))
    <3>1. Find(Front(path)) \in Folders  BY <2>1, <2>4 DEF CanCreate
    <3>2. Find(Front(path)) = meant \/ Via(dirfd, name) \cap touched # {} \/ meant = NoName
      BY <2>1, <3>1, FindsParent
    <3> HIDE DEF path, meant
    <3> QED  BY <2>4, <3>2, EndsMeets, InPair
  <2> QED  BY <2>2, <2>3, <2>4
<1>3. ASSUME NEW name \in Name, sys_unlink(name) PROVE Meets
  <2>1. get_path_at(AT_FDCWD, name) # None /\ AT_FDCWD \in Dirfds
    BY <1>3 DEF sys_unlink, OnPath, Dirfds
  <2>2. \/ HostRefuses("change")
        \/ HostDoes("change", AT_FDCWD, name, Find(get_path_at(AT_FDCWD, name)), Ok(0))
    BY <1>3 DEF sys_unlink, OnPath
  <2> QED  BY <2>1, <2>2, RefusalMeets, DoesAsMeant
<1>4. ASSUME NEW old_dfd \in Dirfds, NEW new_dfd \in Dirfds, NEW old \in Name, NEW new \in Name,
             NEW flag \in {"none", "exchange"},
             sys_renameat2(old_dfd, old, new_dfd, new, flag)
      PROVE  Meets
  <2> DEFINE from == get_path_at(old_dfd, old)
             to == get_path_at(new_dfd, new)
             meant == Meant(old_dfd, old)
             parent == MeantParent(new_dfd, new)
  <2>1. \/ Rejects("change", Errno("EBADF"), Errno("EBADF"))
        \/ HostRefuses("change")
        \/ /\ from # None /\ to # None /\ Find(Front(to)) \in DOMAIN tree
           /\ Ends("change", Via(old_dfd, old) \cup Via(new_dfd, new),
                   <<Find(from), Find(Front(to))>>, <<meant, parent>>, Ok(0), Ok(0))
    BY <1>4 DEF sys_renameat2, NoPath, HostRenames
  <2>2. CASE /\ from # None /\ to # None /\ Find(Front(to)) \in DOMAIN tree
             /\ Ends("change", Via(old_dfd, old) \cup Via(new_dfd, new),
                     <<Find(from), Find(Front(to))>>, <<meant, parent>>, Ok(0), Ok(0))
    <3>1. DOMAIN tree = Folders  BY DEF PInv, TypeOK, Folders
    <3>2. Find(from) = meant \/ Via(old_dfd, old) \cap touched # {} \/ meant = NoName
      BY <2>2, FindsMeant
    <3>3. Find(Front(to)) = parent \/ Via(new_dfd, new) \cap touched # {} \/ parent = NoName
      BY <2>2, <3>1, FindsParent
    <3> HIDE DEF from, to, meant, parent
    <3>4. \/ <<Find(from), Find(Front(to))>> = <<meant, parent>>
          \/ (Via(old_dfd, old) \cup Via(new_dfd, new)) \cap touched # {}
          \/ NoName \in ToSet(<<meant, parent>>)
      BY <3>2, <3>3, InPair
    <3> QED  BY <2>2, <3>4, EndsMeets
  <2> QED  BY <2>1, <2>2, RefusalMeets, RejectionMeets
<1> QED  BY <1>1, <1>2, <1>3, <1>4 DEF Loud

\* For any directories, names, numbers and moves: a call acts on what its names
\* stand for in Linux, but where a rename has gone through the kept path of their
\* directory, for an empty name, and for AT_EMPTY_PATH with AT_FDCWD.
THEOREM CallsMeetTheirNames == Spec => ActsOnWhatWasMeant
<1>1. PInv /\ [Next]_vars => [Meets]_vars  BY NextIsKnown, QuietMeets, LoudMeets
<1> QED  BY <1>1, PathsAlways, PTL DEF Spec, ActsOnWhatWasMeant, Meets
=============================================================================
