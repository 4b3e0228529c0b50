------------------------- MODULE GuestProcessProofs -------------------------
(***************************************************************************)
(* Theorems about GuestProcess: the process the guest was told of is the   *)
(* one Valkyrie keeps, and the coverage map is the one of the blocks run,  *)
(* for any number of signals, slots, blocks, inputs and runs.              *)
(***************************************************************************)
EXTENDS GuestProcess, FiniteSetTheorems, SequenceTheorems, TLAPS

(***************************************************************************)
(* The inductive invariant.  A slot of the GDT is what the guest reckons,  *)
(* or a descriptor of zeros where it reckons the slot free; only the       *)
(* coverage part has blocks; and prev_loc is the one of the last block of  *)
(* the run, or 0, unless clear_coverage has left one.                      *)
(***************************************************************************)
Indices == 0..(MapLen - 1)
Content == Desc \cup {Free}

AreasAgree ==
    /\ area \in [Slots -> Content]
    /\ \A e \in Slots : gdt[e] = area[e] \/ (gdt[e] = "zeros" /\ area[e] = Free)

Capped(n) == IF n < Cap THEN n ELSE Cap
PrevOf(t) == IF Len(t) = 0 THEN 0 ELSE Next_prev(t[Len(t)])

OnlyCoverageRuns == part # "coverage" => map = Clear /\ prev = 0 /\ trace = <<>>

TraceIsMapped ==
    /\ trace \in Seq(Blocks)
    /\ last.by # "prev_loc" =>
           /\ prev = PrevOf(trace)
           /\ \A i \in Indices : map[i] = Capped(Cardinality(EdgesTo(trace, i)))

PInv == TypeOK /\ AreasAgree /\ OnlyCoverageRuns /\ TraceIsMapped

\* What the action properties say of a step.
KnownStep ==
    Known => \/ Known' /\ (part # "answers" => last'.told = last'.was)
             \/ last'.by \in {"same", "shorter", "zeros"}
             \/ /\ Known' /\ last'.by \in {"overrun", "stale_tail"}
                /\ last'.told.act = last'.was.act
             \/ last'.res.is = "Err"

AreaStep ==
    last'.call = "area" /\ last'.by = "any" =>
        /\ last'.res = Ok(0) => gdt[last'.told] = Free
        /\ last'.res = Errno("ESRCH") =>
              \A e \in Slots : area[e] # Free \/ gdt[e] = "zeros"

AnswerStep ==
    part = "answers" =>
        \/ last'.res.is = "ok" /\ last'.told = last'.was
        \/ last'.res.is = "errno" /\ last'.told = 0
        \/ last'.res.is = "Err"
        \/ last'.by = "x86"
        \/ last'.call = "uname" /\ last'.res = Errno("EFAULT")

Faithful == KnownStep /\ AreaStep /\ AnswerStep

-----------------------------------------------------------------------------
(***************************************************************************)
(* Coverage: the edges of a run, block by block.                           *)
(***************************************************************************)
LEMMA SlotIsIndex ==
    ASSUME NEW loc \in Nat
    PROVE  /\ \A from \in Indices : Slot(loc, from) \in Indices
           /\ Next_prev(loc) \in Indices /\ 0 \in Indices
<1>1. MapLen \in Nat \ {0} /\ loc % MapLen \in Indices
  BY ProcessAssumption DEF Indices
<1>2. Next_prev(loc) \in Indices
  BY <1>1 DEF Next_prev, Indices
<1>3. ASSUME NEW from \in Indices PROVE Slot(loc, from) \in Indices
  <2>1. ExclusiveOr(loc % MapLen, from) \in Nat
    BY <1>1, <1>3, ProcessAssumption DEF Indices
  <2>. QED BY <1>1, <2>1 DEF Slot, Indices
<1>. QED BY <1>1, <1>2, <1>3 DEF Indices

LEMMA EdgesAreFinite ==
    ASSUME NEW t \in Seq(Blocks), NEW i
    PROVE  IsFiniteSet(EdgesTo(t, i)) /\ Cardinality(EdgesTo(t, i)) \in Nat
<1>1. Len(t) \in Nat
  BY LenProperties
<1>2. IsFiniteSet(1..Len(t)) /\ EdgesTo(t, i) \subseteq 1..Len(t)
  BY <1>1, FS_Interval DEF EdgesTo
<1>3. IsFiniteSet(EdgesTo(t, i))
  BY <1>2, FS_Subset
<1>. QED BY <1>3, FS_CardinalityType

\* The next block adds one edge, to the slot it leads to from prev_loc.
LEMMA EdgesOfAppend ==
    ASSUME NEW t \in Seq(Blocks), NEW loc \in Blocks, NEW i
    PROVE  Cardinality(EdgesTo(Append(t, loc), i)) =
               IF i = Slot(loc, PrevOf(t)) THEN Cardinality(EdgesTo(t, i)) + 1
                                           ELSE Cardinality(EdgesTo(t, i))
<1> DEFINE u == Append(t, loc)
           m == Len(t) + 1
<1>1. /\ Len(t) \in Nat /\ Len(u) = m
      /\ \A n \in 1..Len(t) : u[n] = t[n]
      /\ u[m] = loc
  BY LenProperties
<1>. HIDE DEF u
<1>2. \A n \in 1..Len(t) : n \in EdgesTo(u, i) <=> n \in EdgesTo(t, i)
  <2>. TAKE n \in 1..Len(t)
  <2>1. u[n] = t[n] /\ (n # 1 => u[n - 1] = t[n - 1]) /\ n \in 1..Len(u)
    BY <1>1
  <2>2. Slot(u[n], IF n = 1 THEN 0 ELSE Next_prev(u[n - 1])) =
        Slot(t[n], IF n = 1 THEN 0 ELSE Next_prev(t[n - 1]))
    BY <2>1
  <2>. QED BY <2>1, <2>2 DEF EdgesTo
<1>3. m \in EdgesTo(u, i) <=> i = Slot(loc, PrevOf(t))
  <2>1. m \in 1..Len(u) /\ u[m] = loc
    BY <1>1
  <2>2. (IF m = 1 THEN 0 ELSE Next_prev(u[m - 1])) = PrevOf(t)
    BY <1>1 DEF PrevOf
  <2>. QED BY <2>1, <2>2 DEF EdgesTo
<1>4. EdgesTo(u, i) = EdgesTo(t, i) \cup (IF i = Slot(loc, PrevOf(t)) THEN {m} ELSE {})
  <2>1. \A n : n \in EdgesTo(u, i) => n \in 1..m
    BY <1>1 DEF EdgesTo
  <2>2. \A n : n \in EdgesTo(t, i) => n \in 1..Len(t)
    BY DEF EdgesTo
  <2>3. \A n \in 1..m : n \in 1..Len(t) \/ n = m
    BY <1>1
  <2>4. \A n \in 1..Len(t) : n # m
    BY <1>1
  <2>. QED BY <2>1, <2>2, <2>3, <2>4, <1>2, <1>3
<1>5. m \notin EdgesTo(t, i)
  BY <1>1 DEF EdgesTo
<1>6. IsFiniteSet(EdgesTo(t, i))
  BY EdgesAreFinite
<1>7. CASE i = Slot(loc, PrevOf(t))
  <2>1. EdgesTo(u, i) = EdgesTo(t, i) \cup {m}
    BY <1>4, <1>7
  <2>2. Cardinality(EdgesTo(u, i)) = Cardinality(EdgesTo(t, i)) + 1
    BY <1>5, <1>6, <2>1, FS_AddElement
  <2>. QED BY <2>2, <1>7 DEF u
<1>8. CASE i # Slot(loc, PrevOf(t))
  <2>1. EdgesTo(u, i) = EdgesTo(t, i)
    BY <1>4, <1>8
  <2>. QED BY <2>1, <1>8 DEF u
<1>. QED BY <1>7, <1>8

LEMMA NoEdges == \A i : Cardinality(EdgesTo(<<>>, i)) = 0
<1>1. ASSUME NEW i PROVE EdgesTo(<<>>, i) = {}
  BY EmptySeq DEF EdgesTo
<1>. QED BY <1>1, FS_EmptySet

LEMMA ClearIsEmpty ==
    /\ Clear \in [Indices -> 0..Cap] /\ PrevOf(<<>>) = 0 /\ <<>> \in Seq(Blocks)
    /\ \A i \in Indices : Clear[i] = Capped(Cardinality(EdgesTo(<<>>, i)))
<1>1. Cap \in Nat
  BY ProcessAssumption
<1>2. Len(<<>>) = 0 /\ <<>> \in Seq(Blocks)
  BY EmptySeq
<1>. QED BY <1>1, <1>2, NoEdges DEF Clear, Indices, PrevOf, Capped

LEMMA InitProcess == Init => PInv
<1>. SUFFICES ASSUME Init PROVE PInv
  OBVIOUS
<1>1. MapLen \in Nat \ {0} /\ Signals \in Nat
  BY ProcessAssumption
<1>2. TypeOK
  BY <1>1, ClearIsEmpty
     DEF Init, TypeOK, FirstMask, NoAction, FirstGdt, Free, Indices
<1>3. AreasAgree
  BY DEF Init, AreasAgree, FirstGdt, Content
<1>4. OnlyCoverageRuns
  BY DEF Init, OnlyCoverageRuns
<1>5. TraceIsMapped
  BY ClearIsEmpty DEF Init, TraceIsMapped
<1>. QED BY <1>2, <1>3, <1>4, <1>5 DEF PInv

LEMMA BlockStep ==
    ASSUME PInv, part = "coverage", NEW loc \in Blocks, block(loc)
    PROVE  PInv' /\ Faithful
<1>1. /\ map' = Saturates(map, Slot(loc, prev)) /\ prev' = Next_prev(loc)
      /\ trace' = Append(trace, loc)
      /\ last' = [Quiet EXCEPT !.by = last.by]
      /\ UNCHANGED <<part, mask, action, setting, gdt, blocked, installed, believed, area, shared>>
  BY DEF block, Same, process, told
<1>2. /\ loc \in Nat /\ Cap \in Nat /\ prev \in Indices /\ map \in [Indices -> 0..Cap]
      /\ trace \in Seq(Blocks)
  BY ProcessAssumption DEF PInv, TypeOK, TraceIsMapped, Indices
<1>3. Slot(loc, prev) \in Indices /\ Next_prev(loc) \in Indices
  BY <1>2, SlotIsIndex
<1>4. /\ map' \in [Indices -> 0..Cap]
      /\ \A i \in Indices : map'[i] = IF i = Slot(loc, prev)
                                      THEN IF map[i] < Cap THEN map[i] + 1 ELSE Cap
                                      ELSE map[i]
  BY <1>1, <1>2, <1>3 DEF Saturates
<1>5. TypeOK'
  BY <1>1, <1>3, <1>4 DEF PInv, TypeOK, Indices
<1>6. last'.by = last.by /\ last'.told = 0 /\ last'.was = 0 /\ last'.call = "none"
  BY <1>1 DEF Quiet
<1>7. trace' \in Seq(Blocks)
  BY <1>1, <1>2
<1>8. ASSUME last.by # "prev_loc"
      PROVE  /\ prev' = PrevOf(trace')
             /\ \A i \in Indices : map'[i] = Capped(Cardinality(EdgesTo(trace', i)))
  <2>1. prev' = PrevOf(trace')
    <3>1. /\ Len(trace) \in Nat /\ Len(Append(trace, loc)) = Len(trace) + 1
          /\ Append(trace, loc)[Len(trace) + 1] = loc
      BY <1>2, LenProperties
    <3>. QED BY <3>1, <1>1 DEF PrevOf
  <2>2. prev = PrevOf(trace)
    BY <1>8 DEF PInv, TraceIsMapped
  <2>3. ASSUME NEW i \in Indices PROVE map'[i] = Capped(Cardinality(EdgesTo(trace', i)))
    <3> DEFINE c == Cardinality(EdgesTo(trace, i))
    <3>1. c \in Nat
      BY <1>2, EdgesAreFinite
    <3>2. map[i] = Capped(c)
      BY <1>8 DEF PInv, TraceIsMapped
    <3>3. Cardinality(EdgesTo(trace', i)) = IF i = Slot(loc, prev) THEN c + 1 ELSE c
      BY <1>1, <1>2, <2>2, EdgesOfAppend
    <3>. HIDE DEF c
    <3>. QED BY <3>1, <3>2, <3>3, <1>2, <1>4 DEF Capped
  <2>. QED BY <2>1, <2>3
<1>9. TraceIsMapped'
  BY <1>6, <1>7, <1>8 DEF TraceIsMapped
<1>10. AreasAgree' /\ OnlyCoverageRuns'
  BY <1>1 DEF PInv, AreasAgree, OnlyCoverageRuns
<1>11. Faithful
  BY <1>1, <1>6 DEF Faithful, KnownStep, AreaStep, AnswerStep, Known
<1>. QED BY <1>5, <1>9, <1>10, <1>11 DEF PInv

LEMMA ClearStep ==
    ASSUME PInv, part = "coverage", clear_coverage
    PROVE  PInv' /\ Faithful
<1>1. /\ map' = Clear /\ trace' = <<>>
      /\ last' = [Quiet EXCEPT !.by = IF prev = 0 THEN "start" ELSE "prev_loc"]
      /\ UNCHANGED <<part, mask, action, setting, gdt, blocked, installed, believed, area, shared, prev>>
  BY DEF clear_coverage, Same, process, told
<1>2. /\ last'.told = 0 /\ last'.was = 0 /\ last'.call = "none"
      /\ last'.by # "prev_loc" => prev = 0
  BY <1>1 DEF Quiet
<1>3. TypeOK'
  BY <1>1, ClearIsEmpty DEF PInv, TypeOK, Indices
<1>4. TraceIsMapped'
  BY <1>1, <1>2, ClearIsEmpty DEF TraceIsMapped
<1>5. AreasAgree' /\ OnlyCoverageRuns'
  BY <1>1 DEF PInv, AreasAgree, OnlyCoverageRuns
<1>6. Faithful
  BY <1>1, <1>2 DEF Faithful, KnownStep, AreaStep, AnswerStep, Known
<1>. QED BY <1>3, <1>4, <1>5, <1>6 DEF PInv

\* The next input finds the process, the areas and, in a shared map, the coverage
\* of the snapshot.
LEMMA RunInputStep ==
    ASSUME PInv, run_input
    PROVE  PInv' /\ Faithful
<1>1. /\ mask' = FirstMask /\ action' = NoAction /\ setting' = FirstSetting /\ gdt' = FirstGdt
      /\ blocked' = {} /\ installed' = 0 /\ believed' = FirstSetting /\ area' = FirstGdt
      /\ trace' = <<>> /\ last' = Quiet /\ part' = part
  BY DEF run_input, restore_snapshot
<1>2. map' = Clear /\ prev' = 0
  <2>1. CASE shared
    BY <2>1 DEF run_input, clear_coverage_map
  <2>2. CASE ~shared
    <3>1. part # "coverage"
      BY <2>2 DEF run_input
    <3>. QED BY <2>2, <3>1 DEF run_input, PInv, OnlyCoverageRuns
  <2>. QED BY <2>1, <2>2
<1>3. MapLen \in Nat \ {0} /\ Signals \in Nat
  BY ProcessAssumption
<1>4. TypeOK'
  BY <1>1, <1>2, <1>3, ClearIsEmpty
     DEF PInv, TypeOK, FirstMask, NoAction, FirstGdt, Indices
<1>5. TraceIsMapped'
  BY <1>1, <1>2, ClearIsEmpty DEF TraceIsMapped
<1>6. AreasAgree' /\ OnlyCoverageRuns'
  BY <1>1, <1>2 DEF AreasAgree, OnlyCoverageRuns, FirstGdt, Content
<1>7. Faithful
  BY <1>1 DEF Faithful, KnownStep, AreaStep, AnswerStep, Known, FirstMask, NoAction, Quiet, Ok
<1>. QED BY <1>4, <1>5, <1>6, <1>7 DEF PInv

-----------------------------------------------------------------------------
(***************************************************************************)
(* System calls: the coverage stays as it is.                              *)
(***************************************************************************)
LEMMA CallKeepsCoverage ==
    ASSUME PInv, part # "coverage", UNCHANGED <<part, coverage>>
    PROVE  TraceIsMapped' /\ OnlyCoverageRuns' /\ UNCHANGED <<map, prev, trace>>
<1>1. map' = Clear /\ prev' = 0 /\ trace' = <<>> /\ UNCHANGED <<map, prev, trace, part>>
  BY DEF PInv, OnlyCoverageRuns, coverage
<1>. QED BY <1>1, ClearIsEmpty DEF TraceIsMapped, OnlyCoverageRuns

\* An answer that is what it should be, or is an action of another length.
Answered(answer, was, by) ==
    \/ answer = was
    \/ by \in {"overrun", "stale_tail"} /\ answer.act = was.act

\* A call that leaves the process and says so.
LEMMA SameProcessStep ==
    ASSUME PInv, part # "coverage", NEW call, NEW answer, NEW was, NEW by, NEW r,
           Return(call, answer, was, by, r), UNCHANGED <<process, told>>,
           Known => \/ part = "answers" \/ by \in {"shorter", "same"} \/ r.is = "Err"
                    \/ Answered(answer, was, by),
           AreaStep, AnswerStep
    PROVE  PInv' /\ Faithful
<1>1. /\ UNCHANGED <<part, coverage, mask, action, setting, gdt, blocked, installed, believed, area>>
      /\ last' = [call |-> call, told |-> answer, was |-> was, by |-> by, res |-> r]
  BY DEF Return, process, told
<1>2. PInv'
  BY <1>1, CallKeepsCoverage DEF PInv, TypeOK, AreasAgree
<1>3. KnownStep
  BY <1>1 DEF KnownStep, Known, Answered
<1>. QED BY <1>2, <1>3 DEF Faithful

LEMMA FailsStep ==
    ASSUME PInv, part # "coverage", NEW call, NEW by, NEW r, Fails(call, by, r),
           r.is \in {"errno", "Err"}, call = "area" => r # Errno("ESRCH") /\ r # Ok(0)
    PROVE  PInv' /\ Faithful
<1>1. Return(call, 0, 0, by, r) /\ UNCHANGED <<process, told>>
  BY DEF Fails
<1>2. AreaStep /\ AnswerStep
  BY <1>1 DEF Return, AreaStep, AnswerStep
<1>. QED BY <1>1, <1>2, SameProcessStep DEF Answered

LEMMA SigprocmaskStep ==
    ASSUME PInv, part = "signals", NEW len \in 0..Signals, NEW old \in Pointer,
           NEW set \in Pointer \cup {"same_as_old"}, NEW S \in SUBSET (1..len),
           NEW how \in {"SIG_BLOCK", "SIG_UNBLOCK", "SIG_SETMASK", "invalid"},
           sys_rt_sigprocmask(how, set, S, old, len)
    PROVE  PInv' /\ Faithful
<1> DEFINE current == Cut(mask.on, len)
           new == IF set = "same_as_old" THEN current ELSE S
           by == IF set = "same_as_old" THEN "same"
                 ELSE IF len < mask.len THEN "shorter" ELSE "other"
           Replies(r) == IF old = "good" THEN Return("sigprocmask", current, Cut(blocked, len), by, r)
                                        ELSE Return("sigprocmask", 0, 0, by, r)
<1>0. Signals \in Nat /\ len \in Nat
  BY ProcessAssumption
<1>1. /\ part # "coverage" /\ part # "answers" /\ part # "areas"
      /\ mask.on \subseteq 1..mask.len /\ mask.len \in Nat
  BY <1>0 DEF PInv, TypeOK
<1>a. ASSUME NEW r, Replies(r)
      PROVE  \E answer, was : /\ Return("sigprocmask", answer, was, by, r)
                              /\ mask.on = blocked => answer = was
  BY <1>a
<1>2. CASE len = 0
  <2>1. Fails("sigprocmask", by, Errno("EINVAL"))
    BY <1>0, <1>2 DEF sys_rt_sigprocmask
  <2>. QED BY <2>1, <1>1, FailsStep DEF Errno
<1>3. CASE len > 0 /\ old = "bad"
  <2>1. Fails("sigprocmask", by, Err)
    BY <1>0, <1>3 DEF sys_rt_sigprocmask
  <2>. QED BY <2>1, <1>1, FailsStep DEF Err
<1>4. CASE \E r : Replies(r) /\ UNCHANGED <<process, told>>
  <2>1. PICK r : Replies(r) /\ UNCHANGED <<process, told>>
    BY <1>4
  <2>2. PICK answer, was : Return("sigprocmask", answer, was, by, r) /\ (Known => answer = was)
    <3>1. PICK answer, was : /\ Return("sigprocmask", answer, was, by, r)
                             /\ mask.on = blocked => answer = was
      BY <1>a, <2>1
    <3>. QED BY <3>1 DEF Known
  <2>. HIDE DEF by
  <2>3. AreaStep /\ AnswerStep
    BY <2>2, <1>1 DEF Return, AreaStep, AnswerStep
  <2>. QED BY <2>1, <2>2, <2>3, <1>1, SameProcessStep DEF Answered
<1>5. CASE /\ len > 0 /\ set \in {"good", "same_as_old"} /\ how # "invalid"
           /\ mask' = [len |-> len, on |-> Merged(how, current, new)]
           /\ blocked' = Merged(how, blocked, S)
           /\ Replies(Ok(0))
           /\ UNCHANGED <<action, setting, gdt, installed, believed, area>>
  <2>1. /\ UNCHANGED <<part, coverage>> /\ last'.by = by /\ last'.call = "sigprocmask"
        /\ mask.on = blocked => last'.told = last'.was
    <3>1. PICK answer, was : /\ Return("sigprocmask", answer, was, by, Ok(0))
                             /\ mask.on = blocked => answer = was
      BY <1>a, <1>5
    <3>. QED BY <3>1 DEF Return
  <2>2. current \subseteq 1..len /\ new \subseteq 1..len
    BY DEF Cut
  <2>3. Merged(how, current, new) \subseteq 1..len
    BY <2>2, <1>5 DEF Merged
  <2>4. PInv'
    BY <1>0, <1>1, <1>5, <2>1, <2>3, CallKeepsCoverage DEF PInv, TypeOK, AreasAgree
  <2>5. KnownStep
    <3>1. CASE by \in {"same", "shorter"}
      BY <3>1, <2>1 DEF KnownStep
    <3>2. CASE by \notin {"same", "shorter"}
      <4>1. set # "same_as_old" /\ ~(len < mask.len)
        BY <3>2
      <4>2. current = mask.on /\ new = S
        BY <4>1, <1>0, <1>1 DEF Cut
      <4>3. Known => Known' /\ last'.told = last'.was
        BY <4>2, <1>5, <2>1 DEF Known
      <4>. QED BY <4>3 DEF KnownStep
    <3>. QED BY <3>1, <3>2
  <2>. QED BY <2>1, <2>4, <2>5, <1>1 DEF Faithful, AreaStep, AnswerStep
<1>6. CASE len > 0 /\ old # "bad" /\ set = "null"
  BY <1>0, <1>6, <1>4 DEF sys_rt_sigprocmask
<1>7. CASE len > 0 /\ old # "bad" /\ set = "bad"
  BY <1>0, <1>7, <1>4 DEF sys_rt_sigprocmask
<1>8. CASE len > 0 /\ old # "bad" /\ set \in {"good", "same_as_old"}
  <2>1. \/ Replies(Errno("EINVAL")) /\ UNCHANGED <<process, told>>
        \/ /\ how # "invalid"
           /\ mask' = [len |-> len, on |-> Merged(how, current, new)]
           /\ blocked' = Merged(how, blocked, S)
           /\ Replies(Ok(0))
           /\ UNCHANGED <<action, setting, gdt, installed, believed, area>>
    BY <1>0, <1>8 DEF sys_rt_sigprocmask
  <2>. HIDE DEF Replies, current, new
  <2>. QED BY <2>1, <1>4, <1>5, <1>8
<1>. QED BY <1>0, <1>2, <1>3, <1>6, <1>7, <1>8 DEF Pointer

\* The old action is right in itself, and whole when its length is the one asked.
LEMMA OldActionIsTold ==
    ASSUME PInv, NEW len \in 1..Signals, NEW old \in Pointer, old = "good",
           action.act = installed
    PROVE  Answered(OldAction(len), [act |-> installed, len |-> len], OldFits(old, len))
<1>1. len \in Nat /\ action.len \in Nat
  BY ProcessAssumption DEF PInv, TypeOK
<1>2. OldAction(len).len \in Nat /\ OldAction(len).act = installed
  BY <1>1 DEF OldAction
<1>3. CASE OldAction(len).len = len
  BY <1>3 DEF OldAction, Answered
<1>4. CASE OldAction(len).len > len
  <2>1. OldFits(old, len) = "overrun"
    BY <1>1, <1>2, <1>4 DEF OldFits
  <2>. QED BY <1>2, <2>1 DEF Answered
<1>5. CASE OldAction(len).len < len
  <2>1. OldFits(old, len) = "stale_tail"
    BY <1>1, <1>2, <1>5 DEF OldFits
  <2>. QED BY <1>2, <2>1 DEF Answered
<1>. QED BY <1>1, <1>2, <1>3, <1>4, <1>5

LEMMA OldFitsIsNamed ==
    ASSUME NEW len \in Nat, action.len \in Nat, NEW old
    PROVE  OldFits(old, len) \in {"other", "overrun", "stale_tail"}
<1>1. OldAction(len).len \in Nat
  BY DEF OldAction
<1>2. OldAction(len).len = len \/ OldAction(len).len > len \/ OldAction(len).len < len
  BY <1>1
<1>. QED BY <1>2 DEF OldFits

LEMMA SigactionStep ==
    ASSUME PInv, part = "signals", NEW len \in 0..Signals, NEW old \in Pointer,
           NEW act \in Pointer \cup {"same_as_old"}, NEW a \in {1, 2},
           sys_rt_sigaction(act, a, old, len)
    PROVE  PInv' /\ Faithful
<1> DEFINE by == IF act = "same_as_old" THEN "same" ELSE OldFits(old, len)
           new == IF act = "same_as_old" THEN action.act ELSE a
           was == [act |-> installed, len |-> len]
           Replies(r) == IF old = "good" THEN Return("sigaction", OldAction(len), was, by, r)
                                        ELSE Return("sigaction", 0, 0, by, r)
<1>0. Signals \in Nat /\ len \in Nat
  BY ProcessAssumption
<1>1. part # "coverage" /\ part # "answers" /\ part # "areas"
  OBVIOUS
<1>c. len \in Nat /\ action.len \in Nat
  BY <1>0 DEF PInv, TypeOK
<1>a. ASSUME NEW r, Replies(r), len > 0
      PROVE  \E answer, w : /\ Return("sigaction", answer, w, by, r)
                            /\ Known => by = "same" \/ Answered(answer, w, by)
  <2>1. CASE old # "good"
    BY <1>a, <2>1 DEF Answered
  <2>2. CASE old = "good"
    <3>1. Known => Answered(OldAction(len), was, OldFits(old, len))
      <4>1. len \in 1..Signals
        BY <1>0, <1>a
      <4>. QED BY <4>1, <2>2, OldActionIsTold DEF Known
    <3>2. Return("sigaction", OldAction(len), was, by, r)
      BY <1>a, <2>2
    <3>3. Known => by = "same" \/ Answered(OldAction(len), was, by)
      BY <3>1
    <3>. HIDE DEF by, was
    <3>. QED BY <3>2, <3>3
  <2>. QED BY <2>1, <2>2
<1>2. CASE len = 0
  <2>1. Fails("sigaction", by, Errno("EINVAL"))
    BY <1>0, <1>2 DEF sys_rt_sigaction
  <2>. QED BY <2>1, <1>1, FailsStep DEF Errno
<1>3. CASE len > 0 /\ old = "bad"
  <2>1. Fails("sigaction", by, Err)
    BY <1>0, <1>3 DEF sys_rt_sigaction
  <2>. QED BY <2>1, <1>1, FailsStep DEF Err
<1>b. CASE Fails("sigaction", by, Err)
  BY <1>b, <1>1, FailsStep DEF Err
<1>4. CASE len > 0 /\ \E r : Replies(r) /\ UNCHANGED <<process, told>>
  <2>1. PICK r : Replies(r) /\ UNCHANGED <<process, told>>
    BY <1>4
  <2>2. PICK answer, w : /\ Return("sigaction", answer, w, by, r)
                         /\ Known => by = "same" \/ Answered(answer, w, by)
    BY <1>a, <1>4, <2>1
  <2>. HIDE DEF by
  <2>3. AreaStep /\ AnswerStep
    BY <2>2, <1>1 DEF Return, AreaStep, AnswerStep
  <2>. QED BY <2>1, <2>2, <2>3, <1>1, SameProcessStep
<1>5. CASE /\ len > 0 /\ act \in {"good", "same_as_old"}
           /\ action' = [act |-> new, len |-> len]
           /\ installed' = a
           /\ Replies(Ok(0))
           /\ UNCHANGED <<mask, setting, gdt, blocked, believed, area>>
  <2>1. /\ UNCHANGED <<part, coverage>> /\ last'.by = by /\ last'.call = "sigaction"
        /\ Known => by = "same" \/ Answered(last'.told, last'.was, by)
    <3>1. PICK answer, w : /\ Return("sigaction", answer, w, by, Ok(0))
                           /\ Known => by = "same" \/ Answered(answer, w, by)
      BY <1>a, <1>5
    <3>. HIDE DEF by
    <3>. QED BY <3>1 DEF Return
  <2>2. PInv'
    BY <1>0, <1>1, <1>5, <2>1, CallKeepsCoverage DEF PInv, TypeOK, AreasAgree
  <2>3. KnownStep
    <3>1. CASE act = "same_as_old"
      BY <3>1, <2>1 DEF KnownStep
    <3>2. CASE act # "same_as_old"
      <4>1. Known => Known' /\ Answered(last'.told, last'.was, by)
        <5>1. by # "same"
          <6>1. OldFits(old, len) \in {"other", "overrun", "stale_tail"}
            BY <1>0, <1>c, OldFitsIsNamed DEF Pointer
          <6>. QED BY <6>1, <3>2
        <5>2. Known => Known'
          BY <3>2, <1>5 DEF Known
        <5>. QED BY <2>1, <5>1, <5>2
      <4>2. last'.by = by
        BY <2>1
      <4>. HIDE DEF by
      <4>. QED BY <4>1, <4>2 DEF KnownStep, Answered
    <3>. QED BY <3>1, <3>2
  <2>. QED BY <2>1, <2>2, <2>3, <1>1 DEF Faithful, AreaStep, AnswerStep
<1>6. \/ len = 0
      \/ len > 0 /\ old = "bad"
      \/ Fails("sigaction", by, Err)
      \/ len > 0 /\ Replies(Ok(0)) /\ UNCHANGED <<process, told>>
      \/ len > 0 /\ Replies(Err) /\ UNCHANGED <<process, told>>
      \/ /\ len > 0 /\ act \in {"good", "same_as_old"}
         /\ action' = [act |-> new, len |-> len]
         /\ installed' = a
         /\ Replies(Ok(0))
         /\ UNCHANGED <<mask, setting, gdt, blocked, believed, area>>
  BY DEF sys_rt_sigaction
<1>. HIDE DEF Replies, new, by
<1>. QED BY <1>6, <1>2, <1>3, <1>b, <1>4, <1>5

LEMMA StoreStep ==
    ASSUME PInv, part = "settings", NEW s, NEW v, NEW r, Store(s, v, r)
    PROVE  PInv' /\ Faithful
<1>1. /\ UNCHANGED <<part, coverage, mask, action, gdt, blocked, installed, area>>
      /\ setting' = [setting EXCEPT ![s] = v] /\ believed' = [believed EXCEPT ![s] = v]
      /\ last'.call = "set" /\ last'.told = last'.was
  BY DEF Store, Return
<1>2. PInv'
  BY <1>1, CallKeepsCoverage DEF PInv, TypeOK, AreasAgree
<1>3. KnownStep
  BY <1>1 DEF KnownStep, Known
<1>. QED BY <1>1, <1>2, <1>3 DEF Faithful, AreaStep, AnswerStep

LEMMA RecallStep ==
    ASSUME PInv, part = "settings", NEW s, NEW r, Recall(s, r)
    PROVE  PInv' /\ Faithful
<1>1. Return("get", setting[s], believed[s], s, r) /\ UNCHANGED <<process, told>>
  BY DEF Recall
<1>2. AreaStep /\ AnswerStep /\ (Known => setting[s] = believed[s])
  BY <1>1 DEF Return, AreaStep, AnswerStep, Known
<1>. QED BY <1>1, <1>2, SameProcessStep DEF Answered

LEMMA SettingCallsStep ==
    ASSUME PInv, part = "settings", SettingCalls
    PROVE  PInv' /\ Faithful
<1>0. Err.is = "Err" /\ \A e : Errno(e).is = "errno"
  BY DEF Err, Errno
<1>1. ASSUME NEW ptr \in Pointer, sys_arch_prctl_get(ptr)
      PROVE  PInv' /\ Faithful
  BY <1>0, <1>1, RecallStep, FailsStep DEF sys_arch_prctl_get
<1>2. ASSUME NEW v, sys_arch_prctl_set(v)
      PROVE  PInv' /\ Faithful
  BY <1>2, StoreStep DEF sys_arch_prctl_set
<1>3. ASSUME NEW s, NEW ptr \in Pointer, sys_prctl_get(s, ptr)
      PROVE  PInv' /\ Faithful
  <2>1. \/ \E r : Recall(s, r)
        \/ Fails("get", s, Errno("EFAULT")) \/ Fails("get", s, Err)
    BY <1>3 DEF sys_prctl_get, Pointer
  <2>. QED BY <1>0, <2>1, RecallStep, FailsStep
<1>4. ASSUME NEW s, NEW v, NEW ptr \in Pointer, sys_prctl_set(s, v, ptr)
      PROVE  PInv' /\ Faithful
  <2>1. \/ Store(s, v, Ok(0))
        \/ Fails("set", s, Errno("EFAULT")) \/ Fails("set", s, Err)
    BY <1>4 DEF sys_prctl_set, Pointer
  <2>. QED BY <1>0, <2>1, StoreStep, FailsStep
<1>. QED BY <1>1, <1>2, <1>3, <1>4 DEF SettingCalls

\* Entry -1 finds a free slot if there is one.
LEMMA FreeEntry ==
    /\ \A e \in find_free_tls_entry : e \in Slots /\ gdt[e] = Free
    /\ find_free_tls_entry = {} => \A e \in Slots : gdt[e] # Free
<1>1. \A e \in Slots : e = 6 \/ e = 7 \/ e = 8
  BY DEF Slots
<1>2. 6 \in Slots /\ 7 \in Slots /\ 8 \in Slots
  BY DEF Slots
<1>3. ASSUME NEW e \in Slots, gdt[e] = Free PROVE find_free_tls_entry # {}
  <2>1. CASE gdt[6] = Free
    <3>1. 6 \in find_free_tls_entry
      BY <1>1, <1>2, <2>1 DEF find_free_tls_entry
    <3>. QED BY <3>1
  <2>2. CASE gdt[6] # Free /\ gdt[7] = Free
    <3>1. 7 \in find_free_tls_entry
      BY <1>1, <1>2, <2>2 DEF find_free_tls_entry
    <3>. QED BY <3>1
  <2>3. CASE gdt[6] # Free /\ gdt[7] # Free
    <3>1. 8 \in find_free_tls_entry
      BY <1>1, <1>2, <1>3, <2>3 DEF find_free_tls_entry
    <3>. QED BY <3>1
  <2>. QED BY <2>1, <2>2, <2>3
<1>. QED BY <1>3 DEF find_free_tls_entry

LEMMA SetThreadAreaStep ==
    ASSUME PInv, part = "areas", NEW ptr \in Pointer, NEW asked \in Slots \cup {AnyEntry, 5},
           NEW desc \in Desc, sys_set_thread_area(ptr, asked, desc)
    PROVE  PInv' /\ Faithful
<1> DEFINE by == IF asked = AnyEntry THEN "any" ELSE "asked"
<1>0. /\ Err.is = "Err" /\ \A e : Errno(e).is = "errno" /\ Errno(e) # Ok(0) /\ Err # Errno(e)
      /\ Err # Ok(0) /\ \A e, f : e # f => Errno(e) # Errno(f)
  BY DEF Err, Errno, Ok
<1>1. CASE ptr = "null"
  <2>1. Fails("area", by, Errno("EFAULT"))
    BY <1>1 DEF sys_set_thread_area
  <2>. QED BY <2>1, <1>0, FailsStep
<1>2. CASE ptr = "bad"
  <2>1. Fails("area", by, Err)
    BY <1>2 DEF sys_set_thread_area
  <2>. QED BY <2>1, <1>0, FailsStep
<1>3. CASE ptr = "good" /\ EntryFor(asked) = {}
  <2>1. Fails("area", by, Errno(IF asked = AnyEntry THEN "ESRCH" ELSE "EINVAL"))
    BY <1>3 DEF sys_set_thread_area
  <2>2. CASE asked # AnyEntry
    <3>1. Fails("area", by, Errno("EINVAL"))
      BY <2>1, <2>2
    <3>. QED BY <3>1, <1>0, FailsStep
  <2>3. CASE asked = AnyEntry
    <3>1. Return("area", 0, 0, by, Errno("ESRCH")) /\ UNCHANGED <<process, told>>
      BY <2>1, <2>3 DEF Fails
    <3>2. \A e \in Slots : gdt[e] # Free
      BY <1>3, <2>3, FreeEntry DEF EntryFor
    <3>3. \A e \in Slots : area[e] # Free \/ gdt[e] = "zeros"
      BY <3>2 DEF PInv, AreasAgree
    <3>4. AreaStep /\ AnswerStep
      BY <3>1, <3>3, <1>0 DEF Return, AreaStep, AnswerStep
    <3>. QED BY <3>1, <3>4, SameProcessStep DEF Answered
  <2>. QED BY <2>2, <2>3
<1>4. CASE ptr = "good" /\ EntryFor(asked) # {}
  <2>1. PICK e \in EntryFor(asked) :
            \/ Fails("area", "invalid", Errno("EINVAL"))
            \/ /\ gdt' = [gdt EXCEPT ![e] = Descriptor(desc)]
               /\ area' = [area EXCEPT ![e] = Area(desc)]
               /\ Return("area", e, e, IF desc = "zeros" THEN desc ELSE by, Ok(0))
               /\ UNCHANGED <<mask, action, setting, blocked, installed, believed>>
    BY <1>4 DEF sys_set_thread_area
  <2>2. CASE Fails("area", "invalid", Errno("EINVAL"))
    BY <2>2, <1>0, FailsStep
  <2>3. CASE /\ gdt' = [gdt EXCEPT ![e] = Descriptor(desc)]
             /\ area' = [area EXCEPT ![e] = Area(desc)]
             /\ Return("area", e, e, IF desc = "zeros" THEN desc ELSE by, Ok(0))
             /\ UNCHANGED <<mask, action, setting, blocked, installed, believed>>
    <3>1. /\ UNCHANGED <<part, coverage>> /\ last'.told = e /\ last'.was = e /\ last'.res = Ok(0)
          /\ last'.by = IF desc = "zeros" THEN desc ELSE by
      BY <2>3 DEF Return
    <3>2. /\ Descriptor(desc) \in Content /\ Area(desc) \in Content
          /\ \/ Descriptor(desc) = Area(desc)
             \/ desc = "zeros" /\ Descriptor(desc) = "zeros" /\ Area(desc) = Free
      BY DEF Descriptor, Area, Content, Desc, Free
    <3>3. gdt \in [Slots -> Content] /\ area \in [Slots -> Content]
      BY DEF PInv, TypeOK, AreasAgree, Content
    <3>4. /\ gdt' \in [Slots -> Content] /\ area' \in [Slots -> Content]
          /\ \A f \in Slots : gdt'[f] = IF f = e THEN Descriptor(desc) ELSE gdt[f]
          /\ \A f \in Slots : area'[f] = IF f = e THEN Area(desc) ELSE area[f]
      BY <2>3, <3>2, <3>3
    <3>5. PInv'
      <4>1. AreasAgree'
        BY <3>2, <3>4 DEF PInv, AreasAgree
      <4>2. TypeOK'
        BY <2>3, <3>1, <3>4, CallKeepsCoverage DEF PInv, TypeOK, Content
      <4>. QED BY <3>1, <4>1, <4>2, CallKeepsCoverage DEF PInv
    <3>6. KnownStep
      <4>1. CASE desc = "zeros"
        BY <3>1, <4>1 DEF KnownStep
      <4>2. CASE desc # "zeros"
        <5>1. gdt = area => gdt' = area'
          BY <4>2, <2>3, <3>2
        <5>. QED BY <5>1, <2>3, <3>1 DEF KnownStep, Known
      <4>. QED BY <4>1, <4>2
    <3>7. AreaStep
      <4>1. asked = AnyEntry => gdt[e] = Free
        BY FreeEntry DEF EntryFor
      <4>. QED BY <3>1, <4>1, <1>0 DEF AreaStep
    <3>8. AnswerStep
      BY DEF AnswerStep
    <3>. QED BY <3>5, <3>6, <3>7, <3>8 DEF Faithful
  <2>. QED BY <2>1, <2>2, <2>3
<1>. QED BY <1>1, <1>2, <1>3, <1>4 DEF Pointer

-----------------------------------------------------------------------------
(***************************************************************************)
(* Answers of several fields.                                              *)
(***************************************************************************)
LEMMA WrittenStep ==
    ASSUME PInv, part = "answers", NEW call \in {"answer", "uname"}, NEW fields \in Nat,
           NEW mapped \in Nat, NEW failure, Written(call, fields, mapped, failure),
           failure = Err \/ (call = "uname" /\ failure = Errno("EFAULT"))
    PROVE  PInv' /\ Faithful
<1> DEFINE n == IF mapped < fields THEN mapped ELSE fields
           r == IF n < fields THEN failure ELSE Ok(0)
<1>1. Return(call, n, fields, "other", r) /\ UNCHANGED <<process, told>>
  BY DEF Written
<1>2. r = Err \/ (call = "uname" /\ r = Errno("EFAULT")) \/ (r = Ok(0) /\ n = fields)
  OBVIOUS
<1>. HIDE DEF n, r
<1>3. /\ last'.call = call /\ last'.told = n /\ last'.was = fields /\ last'.res = r
  BY <1>1 DEF Return
<1>4. AreaStep
  BY <1>3 DEF AreaStep
<1>5. AnswerStep
  BY <1>2, <1>3 DEF AnswerStep, Err, Ok
<1>. QED BY <1>1, <1>4, <1>5, SameProcessStep

LEMMA AnswersStep ==
    ASSUME PInv, part = "answers", Answers
    PROVE  PInv' /\ Faithful
<1>0. Err.is = "Err" /\ Errno("host").is = "errno"
  BY DEF Err, Errno
<1>1. PICK mapped \in 0..6 :
        \/ sys_uname(mapped) \/ sys_clock_gettime(mapped) \/ sys_ugetrlimit(mapped)
        \/ sys_getrandom(mapped) \/ sys_time(mapped) \/ sys_set_tid_address(mapped)
        \/ sys_get_robust_list(mapped) \/ \E a \in Arch : sys_prlimit64(a, mapped)
  BY DEF Answers
<1>2. CASE sys_uname(mapped)
  BY <1>2, WrittenStep DEF sys_uname
<1>3. CASE Fails("answer", "other", Errno("host"))
  BY <1>0, <1>3, FailsStep
<1>4. CASE Written("answer", 1, mapped, Err) \/ Written("answer", 2, mapped, Err)
  BY <1>4, WrittenStep
<1>5. ASSUME NEW a \in Arch, sys_prlimit64(a, mapped)
      PROVE  PInv' /\ Faithful
  <2> DEFINE limits == IF a = "x86" THEN 1 ELSE 2
             n == IF mapped < limits THEN mapped ELSE limits
             r == IF n < limits THEN Err ELSE Ok(0)
  <2>1. Return("answer", n, 2, a, r) /\ UNCHANGED <<process, told>>
    BY <1>5 DEF sys_prlimit64
  <2>2. a = "x86" \/ r = Err \/ (r = Ok(0) /\ n = 2)
    OBVIOUS
  <2>. HIDE DEF n, r
  <2>3. /\ last'.call = "answer" /\ last'.told = n /\ last'.was = 2 /\ last'.res = r
        /\ last'.by = a
    BY <2>1 DEF Return
  <2>4. AreaStep /\ AnswerStep
    BY <2>2, <2>3 DEF AreaStep, AnswerStep, Err, Ok
  <2>. QED BY <2>1, <2>4, SameProcessStep
<1>. QED
  BY <1>1, <1>2, <1>3, <1>4, <1>5
     DEF sys_clock_gettime, sys_ugetrlimit, sys_getrandom, sys_time, sys_set_tid_address,
         sys_get_robust_list

-----------------------------------------------------------------------------
(***************************************************************************)
(* Every step is faithful.                                                 *)
(***************************************************************************)
LEMMA SignalCallsStep ==
    ASSUME PInv, part = "signals", SignalCalls
    PROVE  PInv' /\ Faithful
BY SigprocmaskStep, SigactionStep DEF SignalCalls

LEMMA NextProcess ==
    ASSUME PInv, Next
    PROVE  PInv' /\ Faithful
<1>1. CASE part = "areas" /\ AreaCalls
  BY <1>1, SetThreadAreaStep DEF AreaCalls
<1>2. CASE part = "coverage" /\ (clear_coverage \/ \E loc \in Blocks : block(loc))
  BY <1>2, ClearStep, BlockStep
<1>. QED
  BY <1>1, <1>2, SignalCallsStep, SettingCallsStep, AnswersStep, RunInputStep DEF Next

LEMMA StutterProcess == ASSUME PInv, UNCHANGED vars PROVE PInv'
BY DEF vars, process, coverage, told, PInv, TypeOK, AreasAgree, OnlyCoverageRuns, TraceIsMapped,
       EdgesTo, PrevOf

\* The inductive invariant: types, areas as the guest reckons them, and the map
\* and prev_loc of the blocks run.
THEOREM ProcessInvariance == Spec => []PInv
<1>1. PInv /\ [Next]_vars => PInv'
  BY NextProcess, StutterProcess
<1>. QED BY <1>1, InitProcess, PTL DEF Spec

\* The map is the one of the blocks run since it was cleared, whatever ran
\* before, unless clear_coverage left a prev_loc.
THEOREM CoverageIsExact == Spec => []CoverageIsOfThisRun
<1>1. PInv => CoverageIsOfThisRun
  BY DEF PInv, TraceIsMapped, CoverageIsOfThisRun, Capped, Indices
<1>. QED BY <1>1, ProcessInvariance, PTL

\* What the guest was told of its process is what the next call finds, and the
\* next input's guest finds the snapshot's, but for the five named cases.
THEOREM ProcessStaysKnown == Spec => ProcessIsKnown
<1>1. PInv /\ [Next]_vars => [KnownStep]_vars
  BY NextProcess DEF Faithful
<1>. QED BY <1>1, ProcessInvariance, PTL DEF Spec, ProcessIsKnown, KnownStep

\* An area given for entry -1 was free, and ESRCH means that none is.
THEOREM AreasStayApart == Spec => AreasAreApart
<1>1. PInv /\ [Next]_vars => [AreaStep]_vars
  BY NextProcess DEF Faithful
<1>. QED BY <1>1, ProcessInvariance, PTL DEF Spec, AreasAreApart, AreaStep

\* A success comes with the whole answer and an errno with none of it, but for
\* uname, the i386 guest's prlimit64, and Err.
THEOREM AnswersAreWhole == Spec => AnswerIsWhole
<1>1. PInv /\ [Next]_vars => [AnswerStep]_vars
  BY NextProcess DEF Faithful
<1>. QED BY <1>1, ProcessInvariance, PTL DEF Spec, AnswerIsWhole, AnswerStep
=============================================================================
