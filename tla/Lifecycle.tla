----------------------------- MODULE Lifecycle -----------------------------
(***************************************************************************)
(* The life of one Valkyrie (src/lib.rs): run() called again and again     *)
(* through run_valkyrie (src/fuzzing.rs), which catches the panic of a     *)
(* fault, or the Valkyrie given to ReusableEmulator::new and run by        *)
(* run_input.  os is the configured OsType: it selects the OsLinux or the  *)
(* OsBlob runner and whether the exit trap is used.                        *)
(*                                                                         *)
(* vk holds Valkyrie's fields, machine what the run changes in Unicorn,    *)
(* call the place in the code of the call that runs, story what the guest  *)
(* has done in it, last the call's result and the step that failed it.     *)
(* Instruction count and timeout may end a guest at any time.              *)
(***************************************************************************)
EXTENDS Integers

CONSTANTS
    StackEnd,   \* words of the stack: 0..StackEnd-1 are mapped, StackEnd is not
    Slack,      \* words above the loader's stack pointer
    Statuses,   \* exit statuses
    MaxCalls    \* bound on the calls

ASSUME LifecycleAssumption ==
    /\ StackEnd \in Nat /\ Slack \in 0..StackEnd
    /\ MaxCalls \in Nat

VARIABLES
    os, vk, machine, call, story, last, calls,
    reopened    \* [tls] was free again, or still, after a first preparation

vars == <<os, vk, machine, call, story, last, calls, reopened>>

NoStatus == "none"
NoSlot == -1
Linux == os = "Linux"

Quiet == [exited |-> NoStatus, crashed |-> FALSE]

(***************************************************************************)
(* Valkyrie::new.  trap is exit_trap_addr, initial_sp the word that holds  *)
(* the trap's address; syscall_hooks and trap_hooks count the code hooks   *)
(* installed for the two.  tls says whether a page of [tls] is mapped: the *)
(* user may have mapped one before the first call (users_page).            *)
(***************************************************************************)
Init ==
    /\ os \in {"Linux", "BareMetal"}
    /\ vk = [vstate |-> "NotSet", exit_status |-> NoStatus, crashed |-> FALSE,
             soft_unicorn_errors |-> FALSE, prepared |-> FALSE,
             trap |-> FALSE, initial_sp |-> NoSlot]
    /\ \E users_page \in IF Linux THEN BOOLEAN ELSE {FALSE} :
          machine = [sp |-> StackEnd - Slack, tls |-> users_page, users_page |-> users_page,
                     syscall_hooks |-> 0, trap_hooks |-> 0, saved_sp |-> NoSlot]
    /\ call = [op |-> "none", at |-> "idle"]
    /\ story = Quiet
    /\ last = [op |-> "none", res |-> "none", why |-> "none"]
    /\ calls = 0
    /\ reopened = FALSE

Idle == call.at = "idle"
At(step) == call.at = step
Goto(step) == call' = [call EXCEPT !.at = step]

Ends(res, why) ==
    /\ call' = [call EXCEPT !.at = "idle"]
    /\ last' = [op |-> call.op, res |-> res, why |-> why]
Return(res) == Ends(res, "none")
Fails(why) == Ends("Err", why)

ResetKeepsCrashed(v) ==                                                     \* mutant
    [v EXCEPT !.vstate = "NotSet", !.exit_status = NoStatus]

reset_execution_state(v) ==
    [v EXCEPT !.vstate = "NotSet", !.exit_status = NoStatus, !.crashed = FALSE]

(***************************************************************************)
(* The three calls.  A Valkyrie given to ReusableEmulator::new is no       *)
(* longer the user's; when new fails, it is dropped.                       *)
(***************************************************************************)
Owned == last.op \in {"new", "run_input"}
Dropped == last.op = "new" /\ last.res = "Err"

Call(op) ==
    /\ Idle /\ calls < MaxCalls
    /\ calls' = calls + 1
    /\ story' = Quiet
    /\ UNCHANGED <<os, last, reopened>>

run ==
    /\ Call("run") /\ ~Owned
    /\ vk' = reset_execution_state(vk)
    /\ call' = [op |-> "run", at |-> "install_syscall_hook"]
    /\ UNCHANGED machine

new ==
    /\ Call("new") /\ ~Owned
    /\ vk' = [reset_execution_state(vk) EXCEPT !.soft_unicorn_errors = TRUE]
    /\ call' = [op |-> "new", at |-> "install_syscall_hook"]
    /\ UNCHANGED machine

\* run_input: the restore brings memory and registers back, or fails before the reset.
run_input ==
    /\ Call("run_input") /\ Owned /\ ~Dropped
    /\ vk' = reset_execution_state(vk)
    /\ machine' = [machine EXCEPT !.sp = machine.saved_sp, !.tls = Linux]
    /\ call' = [op |-> "run_input", at |-> "run_prepared"]

run_input_fails ==
    /\ Idle /\ calls < MaxCalls /\ Owned /\ ~Dropped
    /\ calls' = calls + 1
    /\ last' = [op |-> "run_input", res |-> "Err", why |-> "restore"]
    /\ UNCHANGED <<os, vk, machine, call, story, reopened>>

\* Between calls the user may unmap what is in the place of [tls]: mem and uc
\* are public.
UserUnmapsTls ==
    /\ Idle /\ ~Owned /\ machine.tls
    /\ machine' = [machine EXCEPT !.tls = FALSE]
    /\ reopened' = (reopened \/ calls > 0)
    /\ UNCHANGED <<os, vk, call, story, last, calls>>

(***************************************************************************)
(* prepare_initial_run: the system call hook, the trap page with its hook, *)
(* and the trap's address as the return address on the stack.  Unicorn may *)
(* fail to install a hook or to map a page.                                *)
(***************************************************************************)
install_syscall_hook ==
    /\ At("install_syscall_hook")
    /\ \/ /\ machine' = [machine EXCEPT !.syscall_hooks = IF Linux THEN @ + 1 ELSE @]
          /\ Goto("setup_trap") /\ UNCHANGED last
       \/ Linux /\ Fails("hook") /\ UNCHANGED machine
    /\ UNCHANGED <<os, vk, story, calls, reopened>>

NeedsTrap == ~Linux /\ ~vk.trap

setup_trap ==
    /\ At("setup_trap")
    /\ \/ ~NeedsTrap /\ Goto("write_exit_trap") /\ UNCHANGED <<vk, machine, last>>
       \/ /\ NeedsTrap
          /\ vk' = [vk EXCEPT !.trap = TRUE]
          /\ machine' = [machine EXCEPT !.trap_hooks = @ + 1]
          /\ Goto("write_exit_trap") /\ UNCHANGED last
       \/ NeedsTrap /\ Fails("trap_page") /\ UNCHANGED <<vk, machine>>
    /\ UNCHANGED <<os, story, calls, reopened>>

WriteTrapAbove ==                                                           \* mutant
    /\ At("write_exit_trap")
    /\ vk' = IF Linux THEN vk ELSE [vk EXCEPT !.initial_sp = machine.sp]
    /\ IF Linux \/ machine.sp + 1 < StackEnd
       THEN Goto("prepared") /\ UNCHANGED last
       ELSE Fails("trap_slot")
    /\ UNCHANGED <<os, machine, story, calls, reopened>>

write_exit_trap ==
    /\ At("write_exit_trap")
    /\ vk' = IF Linux THEN vk ELSE [vk EXCEPT !.initial_sp = machine.sp]
    /\ IF Linux \/ machine.sp < StackEnd
       THEN Goto("prepared") /\ UNCHANGED last
       ELSE Fails("trap_slot")
    /\ UNCHANGED <<os, machine, story, calls, reopened>>

(***************************************************************************)
(* The runner's prepare_execution.  OsLinux maps [tls], which fails where  *)
(* a page is mapped already or Unicorn cannot map, sets up what is in it,  *)
(* the stack and the entry stub, each of which may fail with [tls] mapped. *)
(* OsBlob only sets the state.  run goes on to emu_start; new keeps the    *)
(* range, takes the snapshot and installs the coverage hook, which fail    *)
(* too, the latter for an empty map always.                                *)
(***************************************************************************)
MapTolerated == FALSE                                                       \* mutant
MapRefused == machine.tls

prepare_execution ==
    /\ At("prepared")
    /\ vk' = IF call.op = "run" \/ ~Linux THEN [vk EXCEPT !.vstate = "Running"] ELSE vk
    /\ \/ Linux /\ MapRefused /\ Fails("tls") /\ UNCHANGED <<machine, reopened>>
       \/ Linux /\ ~MapRefused /\ Fails("map") /\ reopened' = TRUE /\ UNCHANGED machine
       \/ /\ ~(Linux /\ MapRefused)
          /\ machine' = [machine EXCEPT !.tls = Linux]
          /\ Goto("setup_stack") /\ UNCHANGED <<last, reopened>>
    /\ UNCHANGED <<os, story, calls>>

setup_stack_fails ==
    /\ At("setup_stack") /\ Linux
    /\ Fails("stack")
    /\ UNCHANGED <<os, vk, machine, story, calls, reopened>>

set_prepared_execution_range ==
    /\ At("setup_stack") /\ call.op = "new"
    /\ vk' = [vk EXCEPT !.prepared = TRUE]
    /\ machine' = [machine EXCEPT !.saved_sp = machine.sp]
    /\ Return("Ok") \/ Fails("snapshot") \/ Fails("coverage")
    /\ UNCHANGED <<os, story, calls, reopened>>

run_prepared ==
    /\ \/ At("setup_stack") /\ call.op = "run"
       \/ At("run_prepared") /\ vk.prepared
    /\ vk' = [vk EXCEPT !.vstate = "Running"]
    /\ Goto("guest")
    /\ UNCHANGED <<os, machine, story, last, calls, reopened>>

(***************************************************************************)
(* The guest.  A bare-metal guest keeps its stack balanced: it pops        *)
(* nothing that it has not pushed but its return address.  A Linux guest   *)
(* may unmap [tls], which the next run() then maps again, or map there.    *)
(***************************************************************************)
GuestRuns ==
    /\ At("guest") /\ ~Linux
    /\ \E sp \in {machine.sp - 1, machine.sp + 1} \cap (0..vk.initial_sp) :
          machine' = [machine EXCEPT !.sp = sp]
    /\ UNCHANGED <<os, vk, call, story, last, calls, reopened>>

GuestMapsTls(mapped) ==
    /\ At("guest") /\ Linux
    /\ machine' = [machine EXCEPT !.tls = mapped]
    /\ reopened' = (reopened \/ (call.op = "run" /\ ~mapped))
    /\ UNCHANGED <<os, vk, call, story, last, calls>>

\* sys_exit and sys_exit_group.
GuestExits(status) ==
    /\ At("guest") /\ Linux
    /\ vk' = [vk EXCEPT !.exit_status = status, !.vstate = "Ended"]
    /\ story' = [story EXCEPT !.exited = status]
    /\ Goto("stopped")
    /\ UNCHANGED <<os, machine, last, calls, reopened>>

\* sys_tgkill of the guest itself: SIGSEGV and SIGTRAP are crashes, SIGKILL and
\* SIGSTOP are not.
GuestIsKilled(crash) ==
    /\ At("guest") /\ Linux
    /\ vk' = [vk EXCEPT !.crashed = @ \/ crash, !.vstate = "Ended"]
    /\ story' = [story EXCEPT !.crashed = crash]
    /\ Goto("stopped")
    /\ UNCHANGED <<os, machine, last, calls, reopened>>

\* The return from the entry point reaches the trap page, whose hook stops Unicorn.
GuestReturns ==
    /\ At("guest") /\ ~Linux
    /\ machine.sp = vk.initial_sp
    /\ machine' = [machine EXCEPT !.sp = @ + 1]
    /\ Goto("stopped")
    /\ UNCHANGED <<os, vk, story, last, calls, reopened>>

\* The exit point, the instruction count or the timeout.
GuestEnds ==
    /\ At("guest")
    /\ Goto("stopped")
    /\ UNCHANGED <<os, vk, machine, story, last, calls, reopened>>

GuestFaults ==
    /\ At("guest")
    /\ story' = [story EXCEPT !.crashed = TRUE]
    /\ Goto("faulted")
    /\ UNCHANGED <<os, vk, machine, last, calls, reopened>>

(***************************************************************************)
(* emu_start returns.  handle_unicorn_error makes a fault a soft crash or  *)
(* panics, which leaves vstate as it is; run_valkyrie catches the panic.   *)
(***************************************************************************)
Stops ==
    /\ At("stopped")
    /\ vk' = [vk EXCEPT !.vstate = "Ended"]
    /\ Return(IF vk.crashed THEN "Crash" ELSE "Ok")
    /\ UNCHANGED <<os, machine, story, calls, reopened>>

handle_unicorn_error ==
    /\ At("faulted")
    /\ vk' = IF vk.soft_unicorn_errors
             THEN [vk EXCEPT !.crashed = TRUE, !.vstate = "Ended"]
             ELSE [vk EXCEPT !.crashed = TRUE]
    /\ Return("Crash")
    /\ UNCHANGED <<os, machine, story, calls, reopened>>

Step ==
    \/ install_syscall_hook \/ setup_trap \/ write_exit_trap
    \/ prepare_execution \/ setup_stack_fails \/ set_prepared_execution_range
    \/ run_prepared
    \/ GuestRuns \/ GuestReturns \/ GuestEnds \/ GuestFaults
    \/ \E mapped \in BOOLEAN : GuestMapsTls(mapped)
    \/ \E status \in Statuses : GuestExits(status)
    \/ \E crash \in BOOLEAN : GuestIsKilled(crash)
    \/ Stops \/ handle_unicorn_error

Next == run \/ new \/ run_input \/ run_input_fails \/ UserUnmapsTls \/ Step

Spec == Init /\ [][Next]_vars

----------------------------------------------------------------------------
(* Properties.                                                             *)

TypeOK ==
    /\ os \in {"Linux", "BareMetal"}
    /\ vk \in [vstate : {"NotSet", "Running", "Ended"},
               exit_status : Statuses \cup {NoStatus}, crashed : BOOLEAN,
               soft_unicorn_errors : BOOLEAN, prepared : BOOLEAN,
               trap : BOOLEAN, initial_sp : 0..StackEnd \cup {NoSlot}]
    /\ machine \in [sp : 0..StackEnd, tls : BOOLEAN, users_page : BOOLEAN,
                    syscall_hooks : 0..MaxCalls, trap_hooks : 0..MaxCalls,
                    saved_sp : 0..StackEnd \cup {NoSlot}]
    /\ call.op \in {"none", "run", "new", "run_input"}
    /\ call.at \in {"idle", "install_syscall_hook", "setup_trap", "write_exit_trap", "prepared",
                    "setup_stack", "run_prepared", "guest", "stopped", "faulted"}
    /\ story \in [exited : Statuses \cup {NoStatus}, crashed : BOOLEAN]
    /\ calls \in 0..MaxCalls /\ reopened \in BOOLEAN

(***************************************************************************)
(* Whenever the guest runs, each of its system calls is handled once and   *)
(* its return is trapped once.  Every run() adds a system call hook that   *)
(* is never removed; what keeps a guest from meeting two is that a second  *)
(* preparation fails where [tls] is mapped.  So a guest meets two only     *)
(* when that place was free again: a guest of run() or the user has        *)
(* unmapped it, or an earlier preparation could not map it.                *)
(***************************************************************************)
OneHandlerEach ==
    At("guest") => /\ Linux => machine.syscall_hooks = 1 \/ reopened
                   /\ ~Linux => machine.syscall_hooks = 0
                   /\ machine.trap_hooks = IF Linux THEN 0 ELSE 1

(***************************************************************************)
(* What a call reports is about the run it made: the verdict and the       *)
(* fields a fuzzer reads afterwards tell of this guest's exit or crash and *)
(* of no earlier one, and the state is Ended but after a caught panic.     *)
(***************************************************************************)
VerdictIsOfThisRun ==
    Idle /\ last.op \in {"run", "run_input"} /\ last.res \in {"Ok", "Crash"} =>
        /\ last.res = "Crash" <=> story.crashed
        /\ vk.crashed = story.crashed
        /\ vk.exit_status = story.exited
        /\ vk.vstate = "Ended" \/ (story.crashed /\ ~vk.soft_unicorn_errors)

(***************************************************************************)
(* When a Valkyrie is used up.  The trap's address has no room in a        *)
(* bare-metal stack at the earliest after the guest has returned Slack     *)
(* times: each return leaves the stack pointer one word higher, and        *)
(* nothing but a restore brings it back, no matter which calls fail.  The  *)
(* first preparation of a Linux Valkyrie finds [tls] mapped only where the *)
(* user has mapped a page.                                                 *)
(***************************************************************************)
FailsOnlyWhenUsedUp ==
    /\ Idle /\ last.why = "trap_slot" => calls > Slack
    /\ Idle /\ last.why = "tls" => calls > 1 \/ machine.users_page
====
