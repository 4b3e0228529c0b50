---------------------------- MODULE GuestProcess ----------------------------
(***************************************************************************)
(* What Valkyrie keeps of the guest's process from one system call to the  *)
(* next, and from one input of a ReusableEmulator to the next: the signal  *)
(* mask and action, the settings of prctl and arch_prctl, the thread areas *)
(* of an i386 guest, and the coverage map (src/src/os/syscall/common.rs,   *)
(* thread.rs, memory.rs, src/src/fuzzing.rs).                              *)
(*                                                                         *)
(* The parts share no state: a behaviour uses the calls of one.  Beside    *)
(* each is what the guest was told of it.  A buffer is given by how many   *)
(* of its fields are mapped.                                               *)
(***************************************************************************)
EXTENDS Syscall, Sequences, FiniteSets

CONSTANTS
    Parts,      \* parts to study
    Signals,    \* one signal in each unit of a signal set: 1..Signals
    MapLen,     \* slots of the coverage map
    Cap,        \* 255, scaled down: where a slot saturates
    Blocks,     \* addresses of basic blocks, shifted right by 4
    ExclusiveOr(_, _),      \* ^ of two slots
    MaxTrace    \* bound on the blocks of a run

Part == {"signals", "settings", "areas", "coverage", "answers"}

ASSUME ProcessAssumption ==
    /\ Parts \subseteq Part
    /\ {Signals, MapLen, Cap, MaxTrace} \subseteq Nat /\ MapLen > 0
    /\ Blocks \subseteq Nat
    /\ \A i, j \in 0..(MapLen - 1) : ExclusiveOr(i, j) \in Nat

VARIABLES
    part,      \* never changes
    mask,      \* guest_rt_sigmask: its length in units and the signals set
    action,    \* guest_rt_sigactions of one signal: the action and its length
    setting,   \* guest_prctl_name, guest_pdeathsig, guest_dumpable, FsBase
    gdt,       \* the descriptors 6 to 8
    map, prev, \* the coverage map and prev_loc
    shared,    \* the map is a ReusableEmulator's
    trace,     \* blocks run since the map was cleared
    blocked, installed, believed, area,     \* what the guest was told of each
    last       \* the last call

process  == <<mask, action, setting, gdt>>
coverage == <<map, prev, shared, trace>>
told     == <<blocked, installed, believed, area>>
vars     == <<part, process, coverage, told, last>>

NoAction == [act |-> 0, len |-> 0]
Setting  == {"name", "pdeathsig", "dumpable", "FsBase"}
Slots    == 6..8
Free     == "free"

\* Valkyrie::new, OsLinux::prepare_execution: what capture_snapshot finds.
FirstMask    == [len |-> 0, on |-> {}]
FirstSetting == [s \in Setting |-> IF s = "pdeathsig" THEN 0 ELSE 1]
FirstGdt     == [e \in Slots |-> Free]
Clear        == [i \in 0..(MapLen - 1) |-> 0]

Quiet == [call |-> "none", told |-> 0, was |-> 0, by |-> "none", res |-> Ok(0)]

Init ==
    /\ part \in Parts
    /\ mask = FirstMask /\ blocked = {}
    /\ action = NoAction /\ installed = 0
    /\ setting = FirstSetting /\ believed = FirstSetting
    /\ gdt = FirstGdt /\ area = FirstGdt
    /\ shared \in BOOLEAN /\ (part # "coverage" => ~shared)
    /\ map = Clear /\ prev = 0 /\ trace = <<>>
    /\ last = Quiet

\* The end of a call: told is what it wrote for the guest (0 for nothing), was
\* what it should have been, by what sets the call apart.
Return(call, answer, was, by, r) ==
    /\ last' = [call |-> call, told |-> answer, was |-> was, by |-> by, res |-> r]
    /\ UNCHANGED <<part, coverage>>

Fails(call, by, r) == Return(call, 0, 0, by, r) /\ UNCHANGED <<process, told>>

-----------------------------------------------------------------------------
(***************************************************************************)
(* Signals.  set may be the buffer that old is written to.                 *)
(***************************************************************************)
\* resize_sigmask
Cut(on, len) == on \cap (1..len)

Merged(how, on, new) ==
    CASE how = "SIG_BLOCK"   -> on \cup new
      [] how = "SIG_UNBLOCK" -> on \ new
      [] how = "SIG_SETMASK" -> new

sys_rt_sigprocmask(how, set, S, old, len) ==
    LET current == Cut(mask.on, len)
        new     == IF set = "same_as_old" THEN current ELSE S
        by      == IF set = "same_as_old" THEN "same"
                   ELSE IF len < mask.len THEN "shorter" ELSE "other"
        answer(r) == IF old = "good" THEN Return("sigprocmask", current, Cut(blocked, len), by, r)
                                     ELSE Return("sigprocmask", 0, 0, by, r)
        same    == UNCHANGED <<process, told>>
    IN  \/ len = 0 /\ Fails("sigprocmask", by, Errno("EINVAL"))
        \/ len > 0 /\ old = "bad" /\ Fails("sigprocmask", by, Err)
        \/ len > 0 /\ old # "bad" /\ set = "null" /\ answer(Ok(0)) /\ same
        \/ len > 0 /\ old # "bad" /\ set = "bad" /\ answer(Err) /\ same
        \/ /\ len > 0 /\ old # "bad" /\ set \in {"good", "same_as_old"}
           /\ \/ how = "invalid" /\ answer(Errno("EINVAL")) /\ same
              \/ /\ how # "invalid"
                 /\ mask' = [len |-> len, on |-> Merged(how, current, new)]
                 /\ blocked' = Merged(how, blocked, S)
                 /\ answer(Ok(0))
                 /\ UNCHANGED <<action, setting, gdt, installed, believed, area>>

\* The old action comes with the length it was stored with, zeros with the one
\* asked for.
OldAction(len) == [act |-> action.act, len |-> IF action.len = 0 THEN len ELSE action.len]

\* Longer than asked for, it goes on past the guest's buffer, where the write may
\* fail; shorter, it leaves the end of the buffer as it was.
OldFits(old, len) ==
    CASE old # "good" \/ OldAction(len).len = len -> "other"
      [] old = "good" /\ OldAction(len).len > len -> "overrun"
      [] old = "good" /\ OldAction(len).len < len -> "stale_tail"

sys_rt_sigaction(act, a, old, len) ==
    LET by == IF act = "same_as_old" THEN "same" ELSE OldFits(old, len)
        new == IF act = "same_as_old" THEN action.act ELSE a
        answer(r) ==
            IF old = "good"
            THEN Return("sigaction", OldAction(len), [act |-> installed, len |-> len], by, r)
            ELSE Return("sigaction", 0, 0, by, r)
        same == UNCHANGED <<process, told>>
    IN  \/ len = 0 /\ Fails("sigaction", by, Errno("EINVAL"))
        \/ len > 0 /\ old = "bad" /\ Fails("sigaction", by, Err)
        \/ len > 0 /\ OldFits(old, len) = "overrun" /\ Fails("sigaction", by, Err)
        \/ len > 0 /\ old # "bad" /\ act = "null" /\ answer(Ok(0)) /\ same
        \/ len > 0 /\ old # "bad" /\ act = "bad" /\ answer(Err) /\ same
        \/ /\ len > 0 /\ old # "bad" /\ act \in {"good", "same_as_old"}
           /\ action' = [act |-> new, len |-> len]
           /\ installed' = a
           /\ answer(Ok(0))
           /\ UNCHANGED <<mask, setting, gdt, blocked, believed, area>>

-----------------------------------------------------------------------------
(***************************************************************************)
(* prctl and arch_prctl: a value set by pointer (the name) or as it is,    *)
(* and asked for by pointer or in the result register (dumpable).          *)
(***************************************************************************)
Store(s, v, r) ==
    /\ setting' = [setting EXCEPT ![s] = v]
    /\ believed' = [believed EXCEPT ![s] = v]
    /\ Return("set", 0, 0, s, r)
    /\ UNCHANGED <<mask, action, gdt, blocked, installed, area>>

sys_prctl_set(s, v, ptr) ==
    CASE s = "name" /\ ptr = "null" -> Fails("set", s, Errno("EFAULT"))
      [] s = "name" /\ ptr = "bad"  -> Fails("set", s, Err)
      [] OTHER                      -> Store(s, v, Ok(0))

Recall(s, r) ==
    Return("get", setting[s], believed[s], s, r) /\ UNCHANGED <<process, told>>

sys_prctl_get(s, ptr) ==
    CASE s = "dumpable"                   -> Recall(s, Ok(setting[s]))
      [] s # "dumpable" /\ ptr = "null"   -> Fails("get", s, Errno("EFAULT"))
      [] s # "dumpable" /\ ptr = "bad"    -> Fails("get", s, Err)
      [] s # "dumpable" /\ ptr = "good"   -> Recall(s, Ok(0))

\* ARCH_SET_FS and ARCH_GET_FS; the GS pair is the same.
sys_arch_prctl_set(v) == Store("FsBase", v, Ok(0))
sys_arch_prctl_get(ptr) ==
    IF ptr = "good" THEN Recall("FsBase", Ok(0)) ELSE Fails("get", "FsBase", Err)

-----------------------------------------------------------------------------
(***************************************************************************)
(* set_thread_area.  The guest describes an area by its base, asks for an  *)
(* area to be freed ("empty"), or passes a descriptor of zeros.  A         *)
(* descriptor of zeros is installed: its access byte is not 0.             *)
(***************************************************************************)
Desc == {"base_1", "base_2", "empty", "zeros"}

\* The first slot whose descriptor is 0.
find_free_tls_entry == {e \in Slots : gdt[e] = Free /\ \A f \in Slots : gdt[f] = Free => e <= f}

AnyEntry == -1
TakesFirstSlot(asked) == IF asked = AnyEntry THEN {6} ELSE {asked} \cap Slots      \* mutant

EntryFor(asked) == IF asked = AnyEntry THEN find_free_tls_entry ELSE {asked} \cap Slots

\* What the emulator writes, and what Linux would: it frees for zeros as well.
Descriptor(desc) == IF desc = "empty" THEN Free ELSE desc
Area(desc) == IF desc \in {"empty", "zeros"} THEN Free ELSE desc

sys_set_thread_area(ptr, asked, desc) ==
    LET by == IF asked = AnyEntry THEN "any" ELSE "asked"
    IN  CASE ptr = "null" -> Fails("area", by, Errno("EFAULT"))
          [] ptr = "bad"  -> Fails("area", by, Err)
          [] ptr = "good" /\ EntryFor(asked) = {} ->
                Fails("area", by, Errno(IF asked = AnyEntry THEN "ESRCH" ELSE "EINVAL"))
          [] ptr = "good" /\ EntryFor(asked) # {} -> \E e \in EntryFor(asked) :
                \/ Fails("area", "invalid", Errno("EINVAL"))    \* its limit or contents
                \/ /\ gdt' = [gdt EXCEPT ![e] = Descriptor(desc)]
                   /\ area' = [area EXCEPT ![e] = Area(desc)]
                   /\ Return("area", e, e, IF desc = "zeros" THEN desc ELSE by, Ok(0))
                   /\ UNCHANGED <<mask, action, setting, blocked, installed, believed>>

-----------------------------------------------------------------------------
(***************************************************************************)
(* Coverage: the block hook of install_block_coverage, and of              *)
(* ReusableEmulator, whose prev_loc is reset with the map.                 *)
(***************************************************************************)
Slot(loc, from) == ExclusiveOr(loc % MapLen, from) % MapLen
Next_prev(loc) == (loc % MapLen) \div 2

Wraps(m, i) == [m EXCEPT ![i] = (@ + 1) % (Cap + 1)]                         \* mutant

Saturates(m, i) == [m EXCEPT ![i] = IF @ < Cap THEN @ + 1 ELSE Cap]

Same == UNCHANGED <<part, process, told>>

block(loc) ==
    /\ Len(trace) < MaxTrace
    /\ map' = Saturates(map, Slot(loc, prev))
    /\ prev' = Next_prev(loc)
    /\ trace' = Append(trace, loc)
    /\ last' = [Quiet EXCEPT !.by = last.by]
    /\ Same /\ UNCHANGED shared

\* clear_coverage has only the map; the next run starts where the last ended.
clear_coverage ==
    /\ ~shared
    /\ map' = Clear /\ trace' = <<>>
    /\ last' = [Quiet EXCEPT !.by = IF prev = 0 THEN "start" ELSE "prev_loc"]
    /\ Same /\ UNCHANGED <<prev, shared>>

-----------------------------------------------------------------------------
(***************************************************************************)
(* run_input: restore_snapshot, then clear_coverage_map.  The next guest   *)
(* has been told nothing.                                                  *)
(***************************************************************************)
RestoreForgetsMask ==                                                       \* mutant
    /\ action' = NoAction /\ setting' = FirstSetting
    /\ gdt' = FirstGdt /\ UNCHANGED mask

restore_snapshot ==
    /\ mask' = FirstMask /\ action' = NoAction
    /\ setting' = FirstSetting /\ gdt' = FirstGdt

clear_coverage_map == map' = Clear /\ prev' = 0

run_input ==
    /\ part = "coverage" => shared
    /\ restore_snapshot
    /\ IF shared THEN clear_coverage_map ELSE UNCHANGED <<map, prev>>
    /\ trace' = <<>>
    /\ blocked' = {} /\ installed' = 0 /\ believed' = FirstSetting /\ area' = FirstGdt
    /\ last' = Quiet
    /\ UNCHANGED <<part, shared>>

-----------------------------------------------------------------------------
(***************************************************************************)
(* Answers written field by field: `fields` of them, of which the guest's  *)
(* buffer has `mapped`.  told counts those written.                        *)
(***************************************************************************)
Written(call, fields, mapped, failure) ==
    LET n == IF mapped < fields THEN mapped ELSE fields
    IN  Return(call, n, fields, "other", IF n < fields THEN failure ELSE Ok(0))
        /\ UNCHANGED <<process, told>>

UnameGoesOn(mapped) == Written("uname", 6, mapped, Ok(0))                    \* mutant

sys_uname(mapped) == Written("uname", 6, mapped, Errno("EFAULT"))

\* clock_gettime, clock_gettime64, ugetrlimit; getrandom, time; get_robust_list.
sys_clock_gettime(mapped) ==
    \/ Fails("answer", "other", Errno("host"))
    \/ Written("answer", 2, mapped, Err)
sys_ugetrlimit(mapped) == sys_clock_gettime(mapped)
sys_getrandom(mapped) ==
    \/ Fails("answer", "other", Errno("host"))
    \/ Written("answer", 1, mapped, Err)
sys_time(mapped) == Written("answer", 1, mapped, Err)
sys_set_tid_address(mapped) == Written("answer", 1, mapped, Err)
sys_get_robust_list(mapped) == Written("answer", 2, mapped, Err)

\* Two words of the guest's width: on i386, one of the two 64-bit limits.
sys_prlimit64(arch, mapped) ==
    LET limits == IF arch = "x86" THEN 1 ELSE 2
        n == IF mapped < limits THEN mapped ELSE limits
    IN  Return("answer", n, 2, arch, IF n < limits THEN Err ELSE Ok(0))
        /\ UNCHANGED <<process, told>>

-----------------------------------------------------------------------------
SignalCalls ==
    \E len \in 0..Signals, old \in Pointer, p \in Pointer \cup {"same_as_old"} :
        /\ p = "same_as_old" => old = "good"
        /\ \/ \E how \in {"SIG_BLOCK", "SIG_UNBLOCK", "SIG_SETMASK", "invalid"}, S \in SUBSET (1..len) :
                 sys_rt_sigprocmask(how, p, S, old, len)
           \/ \E a \in {1, 2} : sys_rt_sigaction(p, a, old, len)

SettingCalls ==
    \E ptr \in Pointer, v \in {-1, 0, 1} :
        \/ sys_arch_prctl_get(ptr) \/ sys_arch_prctl_set(v)
        \/ \E s \in Setting \ {"FsBase"} : sys_prctl_get(s, ptr) \/ sys_prctl_set(s, v, ptr)

AreaCalls ==
    \E ptr \in Pointer, asked \in Slots \cup {AnyEntry, 5}, desc \in Desc :
        sys_set_thread_area(ptr, asked, desc)

Answers ==
    \E mapped \in 0..6 :
        \/ sys_uname(mapped) \/ sys_clock_gettime(mapped) \/ sys_ugetrlimit(mapped)
        \/ sys_getrandom(mapped) \/ sys_time(mapped) \/ sys_set_tid_address(mapped)
        \/ sys_get_robust_list(mapped) \/ \E arch \in Arch : sys_prlimit64(arch, mapped)

Next ==
    \/ part = "signals"  /\ SignalCalls
    \/ part = "settings" /\ SettingCalls
    \/ part = "areas"    /\ AreaCalls
    \/ part = "coverage" /\ (clear_coverage \/ \E loc \in Blocks : block(loc))
    \/ part = "answers"  /\ Answers
    \/ run_input

Spec == Init /\ [][Next]_vars
-----------------------------------------------------------------------------
(***************************************************************************)
(* Properties.                                                             *)
(***************************************************************************)
TypeOK ==
    /\ part \in Parts
    /\ mask.on \subseteq 1..mask.len /\ mask.len \in 0..Signals
    /\ action.len \in 0..Signals
    /\ gdt \in [Slots -> Desc \cup {Free}]
    /\ map \in [0..(MapLen - 1) -> 0..Cap] /\ prev \in 0..(MapLen - 1)

Known ==
    /\ mask.on = blocked /\ action.act = installed
    /\ setting = believed /\ gdt = area

\* What the guest was told of its process is what the next call finds, and what
\* a call tells it: the masks and actions of SIG_BLOCK, SIG_UNBLOCK and
\* SIG_SETMASK in any order, prctl and arch_prctl settings, thread areas; and
\* the guest of the next input finds the process of the snapshot.  Its account
\* breaks in five ways only: a set shorter than the last one drops the signals
\* beyond it, a set or action in the buffer of the old one is overwritten before
\* it is read, a call that ended in an Err reads as a success, a descriptor of
\* zeros takes an area instead of freeing it, and an old action that was stored
\* with another length is told with that length: what is kept is right, but past
\* the end of the guest's buffer it writes, or of its own end it leaves, bytes
\* that are no answer.
ProcessIsKnown ==
    [][Known => \/ Known' /\ (part # "answers" => last'.told = last'.was)
                \/ last'.by \in {"same", "shorter", "zeros"}
                \/ /\ Known' /\ last'.by \in {"overrun", "stale_tail"}
                   /\ last'.told.act = last'.was.act
                \/ last'.res.is = "Err"]_vars

\* An area given for entry -1 was free, whatever the guest has set, freed and
\* overwritten before; and the guest is told that there is none only when it
\* has three, or has left zeros in one.
AreasAreApart ==
    [][last'.call = "area" /\ last'.by = "any" =>
           /\ last'.res = Ok(0) => gdt[last'.told] = Free
           /\ last'.res = Errno("ESRCH") =>
                 \A e \in Slots : area[e] # Free \/ gdt[e] = "zeros"]_vars

\* The number of times the blocks of t lead to slot i from prev_loc.
EdgesTo(t, i) ==
    {n \in 1..Len(t) : i = Slot(t[n], IF n = 1 THEN 0 ELSE Next_prev(t[n - 1]))}

\* The coverage map is the one of the blocks run since it was cleared, however
\* many runs came before, so that the same input gives the same map.  It is not
\* after clear_coverage alone, which keeps the prev_loc of the last run.
CoverageIsOfThisRun ==
    \/ last.by = "prev_loc"
    \/ \A i \in 0..(MapLen - 1) :
          map[i] = LET n == Cardinality(EdgesTo(trace, i)) IN IF n < Cap THEN n ELSE Cap

\* A guest told of success has its whole answer, and one told of an errno has
\* none of it.  prlimit64 fills one limit of an i386 guest's two, and uname says
\* EFAULT after it has written fields; Err reads as success with any part.
AnswerIsWhole ==
    [][part = "answers" =>
        \/ last'.res.is = "ok" /\ last'.told = last'.was
        \/ last'.res.is = "errno" /\ last'.told = 0
        \/ last'.res.is = "Err"
        \/ last'.by = "x86"
        \/ last'.call = "uname" /\ last'.res = Errno("EFAULT")]_vars
=============================================================================
