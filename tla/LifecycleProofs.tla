-------------------------- MODULE LifecycleProofs --------------------------
(***************************************************************************)
(* Theorems about Lifecycle, for any stack and number of calls.            *)
(***************************************************************************)
EXTENDS Lifecycle, TLAPS

Preparing == {"install_syscall_hook", "setup_trap", "write_exit_trap", "prepared"}
Ready     == {"setup_stack", "run_prepared", "guest", "stopped", "faulted"}


\* The fields of the records, as far as the proofs need them.
VkShape ==
    vk \in [vstate : {"NotSet", "Running", "Ended"},
            exit_status : Statuses \cup {NoStatus}, crashed : BOOLEAN,
            soft_unicorn_errors : BOOLEAN, prepared : BOOLEAN,
            trap : BOOLEAN, initial_sp : Int]

MachineShape ==
    machine \in [sp : Int, tls : BOOLEAN, users_page : BOOLEAN, syscall_hooks : Nat,
                 trap_hooks : Nat, saved_sp : Int]

CallShape ==
    /\ call \in [op : {"none", "run", "new", "run_input"}, at : {"idle"} \cup Preparing \cup Ready]
    /\ last.op \in {"none", "run", "new", "run_input"}

StoryShape == story \in [exited : Statuses \cup {NoStatus}, crashed : BOOLEAN]

Shape ==
    /\ os \in {"Linux", "BareMetal"}
    /\ VkShape /\ MachineShape /\ CallShape /\ StoryShape
    /\ calls \in Nat /\ reopened \in BOOLEAN

\* Which call runs: run_input exactly on a Valkyrie that new has taken.
CallIsOpen ==
    /\ Idle \/ (call.op # "none" /\ ~Dropped)
    /\ ~Idle => (call.op = "run_input" <=> Owned)
    /\ call.op = "run_input" => call.at \in {"idle"} \cup (Ready \ {"setup_stack"})
    /\ call.at = "run_prepared" => call.op = "run_input"
    /\ call.at \in {"guest", "stopped", "faulted"} => call.op # "new"
    /\ ~Idle => calls > 0

(***************************************************************************)
(* The handlers.  A Linux Valkyrie that has not mapped [tls] has no hook   *)
(* between calls; the hook of a second preparation is installed over a     *)
(* mapped [tls], so that the call fails before the guest runs.  Once the   *)
(* place is reopened there may be any number.  The user prepares nothing   *)
(* any more when ReusableEmulator has the Valkyrie.                        *)
(***************************************************************************)
LinuxHandlers ==
    /\ machine.trap_hooks = 0
    /\ calls = 0 => machine.syscall_hooks = 0
    /\ ~reopened /\ ~Owned /\ ~machine.tls =>
            /\ call.at \in {"idle"} \cup Preparing
            /\ machine.syscall_hooks = IF call.at \in {"idle", "install_syscall_hook"} THEN 0 ELSE 1
    /\ ~reopened /\ (call.at \in Ready \/ (Owned /\ ~Dropped)) => machine.syscall_hooks = 1

BareMetalHandlers ==
    /\ machine.syscall_hooks = 0
    /\ machine.trap_hooks = IF vk.trap THEN 1 ELSE 0
    /\ call.at \in {"write_exit_trap", "prepared"} \cup Ready \/ (Owned /\ ~Dropped) => vk.trap

\* What the fields tell of the guest at each place of a call.
FieldsAreTrue ==
    /\ call.at \in Preparing \cup (Ready \ {"stopped", "faulted"}) =>
            story = Quiet /\ vk.exit_status = NoStatus /\ vk.crashed = FALSE
    /\ call.at = "stopped" => vk.crashed = story.crashed /\ vk.exit_status = story.exited
    /\ call.at = "faulted" => story.crashed /\ vk.exit_status = story.exited

IInv ==
    /\ Shape
    /\ CallIsOpen
    /\ IF Linux THEN LinuxHandlers ELSE BareMetalHandlers
    /\ FieldsAreTrue
    /\ VerdictIsOfThisRun

USE DEF VkShape, MachineShape, CallShape, StoryShape
USE DEF Idle, At, Goto, Ends, Return, Fails, Linux, Quiet, NoStatus, NoSlot, Owned, Dropped, Preparing, Ready

LEMMA InitIInv == Init => IInv
<1>. SUFFICES ASSUME Init PROVE IInv  OBVIOUS
<1>1. PICK users_page \in BOOLEAN :
        /\ users_page => Linux
        /\ machine = [sp |-> StackEnd - Slack, tls |-> users_page, users_page |-> users_page,
                      syscall_hooks |-> 0, trap_hooks |-> 0, saved_sp |-> NoSlot]
  BY DEF Init
<1>2. VkShape /\ CallShape /\ StoryShape /\ os \in {"Linux", "BareMetal"}
  BY DEF Init
<1>3. MachineShape /\ calls \in Nat /\ reopened \in BOOLEAN
  <2>1. StackEnd - Slack \in Int /\ NoSlot \in Int  BY LifecycleAssumption
  <2>2. MachineShape  BY <1>1, <2>1
  <2>. QED BY <2>2 DEF Init
<1>4. CallIsOpen /\ FieldsAreTrue /\ VerdictIsOfThisRun
  BY DEF Init, CallIsOpen, FieldsAreTrue, VerdictIsOfThisRun
<1>5. IF Linux THEN LinuxHandlers ELSE BareMetalHandlers
  BY <1>1 DEF Init, LinuxHandlers, BareMetalHandlers
<1>. QED BY <1>2, <1>3, <1>4, <1>5 DEF IInv, Shape

LEMMA TypesKept ==
    ASSUME Shape, [Next]_vars
    PROVE  Shape'
<1>1. CASE run
  <2>1. VkShape'
    BY <1>1 DEF Shape, run, Call, reset_execution_state
  <2>2. MachineShape'
    BY <1>1 DEF Shape, run, Call, reset_execution_state
  <2>3. CallShape'
    BY <1>1 DEF Shape, run, Call, reset_execution_state
  <2>4. StoryShape'
    BY <1>1 DEF Shape, run, Call, reset_execution_state
  <2>5. os' \in {"Linux", "BareMetal"} /\ calls' \in Nat /\ reopened' \in BOOLEAN
    BY <1>1 DEF Shape, run, Call, reset_execution_state
  <2>. QED BY <2>1, <2>2, <2>3, <2>4, <2>5 DEF Shape
<1>2. CASE new
  <2>1. VkShape'
    BY <1>2 DEF Shape, new, Call, reset_execution_state
  <2>2. MachineShape'
    BY <1>2 DEF Shape, new, Call, reset_execution_state
  <2>3. CallShape'
    BY <1>2 DEF Shape, new, Call, reset_execution_state
  <2>4. StoryShape'
    BY <1>2 DEF Shape, new, Call, reset_execution_state
  <2>5. os' \in {"Linux", "BareMetal"} /\ calls' \in Nat /\ reopened' \in BOOLEAN
    BY <1>2 DEF Shape, new, Call, reset_execution_state
  <2>. QED BY <2>1, <2>2, <2>3, <2>4, <2>5 DEF Shape
<1>3. CASE run_input
  <2>1. VkShape'
    BY <1>3 DEF Shape, run_input, Call, reset_execution_state
  <2>2. MachineShape'
    BY <1>3 DEF Shape, run_input, Call, reset_execution_state
  <2>3. CallShape'
    BY <1>3 DEF Shape, run_input, Call, reset_execution_state
  <2>4. StoryShape'
    BY <1>3 DEF Shape, run_input, Call, reset_execution_state
  <2>5. os' \in {"Linux", "BareMetal"} /\ calls' \in Nat /\ reopened' \in BOOLEAN
    BY <1>3 DEF Shape, run_input, Call, reset_execution_state
  <2>. QED BY <2>1, <2>2, <2>3, <2>4, <2>5 DEF Shape
<1>4. CASE run_input_fails
  BY <1>4 DEF Shape, run_input_fails
<1>5. CASE install_syscall_hook
  BY <1>5 DEF Shape, install_syscall_hook
<1>6. CASE setup_trap
  <2>1. UNCHANGED <<os, story, calls, reopened>>
    BY <1>6 DEF setup_trap
  <2>2. vk' = vk \/ vk' = [vk EXCEPT !.trap = TRUE]
    BY <1>6 DEF setup_trap
  <2>3. machine' = machine \/ machine' = [machine EXCEPT !.trap_hooks = @ + 1]
    BY <1>6 DEF setup_trap
  <2>4. CallShape'
    BY <1>6 DEF setup_trap, Shape
  <2>5. VkShape'
    BY <2>2 DEF Shape
  <2>6. MachineShape'
    BY <2>3 DEF Shape
  <2>. QED BY <2>1, <2>4, <2>5, <2>6 DEF Shape
<1>7. CASE write_exit_trap
  BY <1>7 DEF Shape, write_exit_trap
<1>8. CASE prepare_execution
  <2>1. VkShape'
    <3>1. vk' = vk \/ vk' = [vk EXCEPT !.vstate = "Running"]
      BY <1>8 DEF prepare_execution
    <3>. QED BY <3>1 DEF Shape
  <2>2. MachineShape'
    <3>1. machine' = machine \/ \E b \in BOOLEAN : machine' = [machine EXCEPT !.tls = b]
      BY <1>8 DEF prepare_execution
    <3>. QED BY <3>1 DEF Shape
  <2>3. CallShape'
    <3>1. \/ /\ call' = [call EXCEPT !.at = "idle"]
             /\ \E why \in {"tls", "map"} : last' = [op |-> call.op, res |-> "Err", why |-> why]
          \/ call' = [call EXCEPT !.at = "setup_stack"] /\ UNCHANGED last
      BY <1>8 DEF prepare_execution
    <3>. QED BY <3>1 DEF Shape
  <2>4. StoryShape' /\ os' \in {"Linux", "BareMetal"} /\ calls' \in Nat /\ reopened' \in BOOLEAN
    BY <1>8 DEF Shape, prepare_execution
  <2>. QED BY <2>1, <2>2, <2>3, <2>4 DEF Shape
<1>9. CASE setup_stack_fails
  BY <1>9 DEF Shape, setup_stack_fails
<1>10. CASE set_prepared_execution_range
  <2>1. VkShape'
    BY <1>10 DEF Shape, set_prepared_execution_range
  <2>2. MachineShape'
    BY <1>10 DEF Shape, set_prepared_execution_range
  <2>3. CallShape'
    BY <1>10 DEF Shape, set_prepared_execution_range
  <2>4. StoryShape'
    BY <1>10 DEF Shape, set_prepared_execution_range
  <2>5. os' \in {"Linux", "BareMetal"} /\ calls' \in Nat
    BY <1>10 DEF Shape, set_prepared_execution_range
  <2>6. reopened' \in BOOLEAN
    BY <1>10 DEF Shape, set_prepared_execution_range
  <2>. QED BY <2>1, <2>2, <2>3, <2>4, <2>5, <2>6 DEF Shape
<1>11. CASE run_prepared
  <2>1. VkShape'
    BY <1>11, LifecycleAssumption DEF Shape, run_prepared
  <2>2. MachineShape'
    BY <1>11, LifecycleAssumption DEF Shape, run_prepared
  <2>3. CallShape'
    BY <1>11, LifecycleAssumption DEF Shape, run_prepared
  <2>4. StoryShape'
    BY <1>11, LifecycleAssumption DEF Shape, run_prepared
  <2>5. os' \in {"Linux", "BareMetal"} /\ calls' \in Nat /\ reopened' \in BOOLEAN
    BY <1>11, LifecycleAssumption DEF Shape, run_prepared
  <2>. QED BY <2>1, <2>2, <2>3, <2>4, <2>5 DEF Shape
<1>12. CASE GuestRuns
  <2>1. PICK sp \in Int : machine' = [machine EXCEPT !.sp = sp]
    <3>1. {machine.sp - 1, machine.sp + 1} \subseteq Int  BY DEF Shape
    <3>. QED BY <1>12, <3>1 DEF GuestRuns
  <2>2. UNCHANGED <<os, vk, call, story, last, calls, reopened>>
    BY <1>12 DEF GuestRuns
  <2>. QED BY <2>1, <2>2 DEF Shape
<1>13. CASE GuestReturns
  BY <1>13 DEF Shape, GuestReturns
<1>14. CASE GuestEnds
  BY <1>14 DEF Shape, GuestEnds
<1>15. CASE GuestFaults
  <2>1. StoryShape'
    BY <1>15 DEF Shape, GuestFaults
  <2>2. CallShape'
    BY <1>15 DEF Shape, GuestFaults
  <2>3. /\ VkShape' /\ MachineShape' /\ os' \in {"Linux", "BareMetal"}
        /\ calls' \in Nat /\ reopened' \in BOOLEAN
    BY <1>15 DEF Shape, GuestFaults
  <2>. QED BY <2>1, <2>2, <2>3 DEF Shape
<1>16. CASE Stops
  BY <1>16 DEF Shape, Stops
<1>17. CASE handle_unicorn_error
  <2>1. VkShape'
    BY <1>17 DEF Shape, handle_unicorn_error
  <2>2. MachineShape'
    BY <1>17 DEF Shape, handle_unicorn_error
  <2>3. CallShape'
    BY <1>17 DEF Shape, handle_unicorn_error
  <2>4. StoryShape'
    BY <1>17 DEF Shape, handle_unicorn_error
  <2>5. os' \in {"Linux", "BareMetal"} /\ calls' \in Nat
    BY <1>17 DEF Shape, handle_unicorn_error
  <2>6. reopened' \in BOOLEAN
    BY <1>17 DEF Shape, handle_unicorn_error
  <2>. QED BY <2>1, <2>2, <2>3, <2>4, <2>5, <2>6 DEF Shape
<1>18. ASSUME NEW status \in Statuses, GuestExits(status) PROVE Shape'
  <2>1. VkShape'
    BY <1>18 DEF Shape, GuestExits
  <2>2. MachineShape'
    BY <1>18 DEF Shape, GuestExits
  <2>3. CallShape'
    BY <1>18 DEF Shape, GuestExits
  <2>4. StoryShape'
    BY <1>18 DEF Shape, GuestExits
  <2>5. os' \in {"Linux", "BareMetal"} /\ calls' \in Nat /\ reopened' \in BOOLEAN
    BY <1>18 DEF Shape, GuestExits
  <2>. QED BY <2>1, <2>2, <2>3, <2>4, <2>5 DEF Shape
<1>19. ASSUME NEW crash \in BOOLEAN, GuestIsKilled(crash) PROVE Shape'
  <2>1. VkShape'
    BY <1>19 DEF Shape, GuestIsKilled
  <2>2. MachineShape'
    BY <1>19 DEF Shape, GuestIsKilled
  <2>3. CallShape'
    BY <1>19 DEF Shape, GuestIsKilled
  <2>4. StoryShape'
    BY <1>19 DEF Shape, GuestIsKilled
  <2>5. os' \in {"Linux", "BareMetal"} /\ calls' \in Nat /\ reopened' \in BOOLEAN
    BY <1>19 DEF Shape, GuestIsKilled
  <2>. QED BY <2>1, <2>2, <2>3, <2>4, <2>5 DEF Shape
<1>21. ASSUME NEW mapped \in BOOLEAN, GuestMapsTls(mapped) PROVE Shape'
  BY <1>21 DEF Shape, GuestMapsTls
<1>22. CASE UserUnmapsTls
  <2>1. VkShape'
    BY <1>22 DEF Shape, UserUnmapsTls
  <2>2. MachineShape'
    BY <1>22 DEF Shape, UserUnmapsTls
  <2>3. CallShape'
    BY <1>22 DEF Shape, UserUnmapsTls
  <2>4. StoryShape'
    BY <1>22 DEF Shape, UserUnmapsTls
  <2>5. os' \in {"Linux", "BareMetal"} /\ calls' \in Nat
    BY <1>22 DEF Shape, UserUnmapsTls
  <2>6. reopened' \in BOOLEAN
    BY <1>22 DEF Shape, UserUnmapsTls
  <2>. QED BY <2>1, <2>2, <2>3, <2>4, <2>5, <2>6 DEF Shape
<1>20. CASE UNCHANGED vars
  <2>1. VkShape'
    BY <1>20 DEF Shape, vars
  <2>2. MachineShape'
    BY <1>20 DEF Shape, vars
  <2>3. CallShape'
    BY <1>20 DEF Shape, vars
  <2>4. StoryShape'
    BY <1>20 DEF Shape, vars
  <2>5. os' \in {"Linux", "BareMetal"} /\ calls' \in Nat /\ reopened' \in BOOLEAN
    BY <1>20 DEF Shape, vars
  <2>. QED BY <2>1, <2>2, <2>3, <2>4, <2>5 DEF Shape
<1>. QED BY <1>1, <1>2, <1>3, <1>4, <1>5, <1>6, <1>7, <1>8, <1>9, <1>10, <1>11, <1>12, <1>13, <1>14, <1>15, <1>16, <1>17, <1>18, <1>19, <1>20, <1>21, <1>22 DEF Next, Step

LEMMA OpenKept ==
    ASSUME Shape, CallIsOpen, [Next]_vars
    PROVE  CallIsOpen'
<1>1. CASE run
  BY <1>1 DEF Shape, CallIsOpen, run, Call, reset_execution_state
<1>2. CASE new
  BY <1>2 DEF Shape, CallIsOpen, new, Call, reset_execution_state
<1>3. CASE run_input
  BY <1>3 DEF Shape, CallIsOpen, run_input, Call, reset_execution_state
<1>4. CASE run_input_fails
  BY <1>4 DEF Shape, CallIsOpen, run_input_fails
<1>5. CASE install_syscall_hook
  BY <1>5 DEF Shape, CallIsOpen, install_syscall_hook
<1>6. CASE setup_trap
  BY <1>6 DEF Shape, CallIsOpen, NeedsTrap, setup_trap
<1>7. CASE write_exit_trap
  BY <1>7 DEF Shape, CallIsOpen, write_exit_trap
<1>8. CASE prepare_execution
  BY <1>8 DEF Shape, CallIsOpen, prepare_execution, MapRefused
<1>9. CASE setup_stack_fails
  BY <1>9 DEF Shape, CallIsOpen, setup_stack_fails
<1>10. CASE set_prepared_execution_range
  BY <1>10 DEF Shape, CallIsOpen, set_prepared_execution_range
<1>11. CASE run_prepared
  BY <1>11 DEF Shape, CallIsOpen, run_prepared
<1>12. CASE GuestRuns
  BY <1>12 DEF Shape, CallIsOpen, GuestRuns
<1>13. CASE GuestReturns
  BY <1>13 DEF Shape, CallIsOpen, GuestReturns
<1>14. CASE GuestEnds
  BY <1>14 DEF Shape, CallIsOpen, GuestEnds
<1>15. CASE GuestFaults
  BY <1>15 DEF Shape, CallIsOpen, GuestFaults
<1>16. CASE Stops
  BY <1>16 DEF Shape, CallIsOpen, Stops
<1>17. CASE handle_unicorn_error
  BY <1>17 DEF Shape, CallIsOpen, handle_unicorn_error
<1>18. ASSUME NEW status \in Statuses, GuestExits(status) PROVE CallIsOpen'
  BY <1>18 DEF Shape, CallIsOpen, GuestExits
<1>19. ASSUME NEW crash \in BOOLEAN, GuestIsKilled(crash) PROVE CallIsOpen'
  BY <1>19 DEF Shape, CallIsOpen, GuestIsKilled
<1>21. ASSUME NEW mapped \in BOOLEAN, GuestMapsTls(mapped) PROVE CallIsOpen'
  BY <1>21 DEF Shape, CallIsOpen, GuestMapsTls
<1>22. CASE UserUnmapsTls
  BY <1>22 DEF Shape, CallIsOpen, UserUnmapsTls
<1>20. CASE UNCHANGED vars
  BY <1>20 DEF Shape, CallIsOpen, vars
<1>. QED BY <1>1, <1>2, <1>3, <1>4, <1>5, <1>6, <1>7, <1>8, <1>9, <1>10, <1>11, <1>12, <1>13, <1>14, <1>15, <1>16, <1>17, <1>18, <1>19, <1>20, <1>21, <1>22 DEF Next, Step

LEMMA HandlersKept ==
    ASSUME Shape, CallIsOpen, IF Linux THEN LinuxHandlers ELSE BareMetalHandlers, [Next]_vars
    PROVE  (IF Linux THEN LinuxHandlers ELSE BareMetalHandlers)'
<1>1. CASE run
  BY <1>1 DEF Shape, CallIsOpen, LinuxHandlers, BareMetalHandlers, run, Call, reset_execution_state
<1>2. CASE new
  BY <1>2 DEF Shape, CallIsOpen, LinuxHandlers, BareMetalHandlers, new, Call, reset_execution_state
<1>3. CASE run_input
  BY <1>3 DEF Shape, CallIsOpen, LinuxHandlers, BareMetalHandlers, run_input, Call, reset_execution_state
<1>4. CASE run_input_fails
  BY <1>4 DEF Shape, CallIsOpen, LinuxHandlers, BareMetalHandlers, run_input_fails
<1>5. CASE install_syscall_hook
  BY <1>5 DEF Shape, CallIsOpen, LinuxHandlers, BareMetalHandlers, install_syscall_hook
<1>6. CASE setup_trap
  BY <1>6 DEF Shape, CallIsOpen, LinuxHandlers, BareMetalHandlers, NeedsTrap, setup_trap
<1>7. CASE write_exit_trap
  BY <1>7 DEF Shape, CallIsOpen, LinuxHandlers, BareMetalHandlers, write_exit_trap
<1>8. CASE prepare_execution
  <2>1. UNCHANGED <<os, story, calls>>
    BY <1>8 DEF prepare_execution
  <2>2. vk' = vk \/ vk' = [vk EXCEPT !.vstate = "Running"]
    BY <1>8 DEF prepare_execution
  <2>3. CASE Linux /\ call'.at = "idle"
    BY <1>8, <2>1, <2>2, <2>3 DEF Shape, CallIsOpen, LinuxHandlers, BareMetalHandlers, MapRefused, prepare_execution
  <2>4. CASE Linux /\ call'.at # "idle"
    <3>1. ~machine.tls /\ machine' = [machine EXCEPT !.tls = TRUE] /\ UNCHANGED reopened
      BY <1>8, <2>4 DEF prepare_execution, MapRefused, Shape
    <3>2. call' = [call EXCEPT !.at = "setup_stack"] /\ UNCHANGED last
      BY <1>8, <2>4 DEF prepare_execution, Shape
    <3>3. At("prepared") /\ ~Owned
      BY <1>8 DEF prepare_execution, CallIsOpen
    <3>4. machine.trap_hooks = 0 /\ calls # 0 /\ (~reopened => machine.syscall_hooks = 1)
      <4>1. calls # 0  BY <3>3 DEF CallIsOpen, Shape
      <4>2. LinuxHandlers  BY <2>4
      <4>3. machine.trap_hooks = 0  BY <4>2 DEF LinuxHandlers
      <4>4. ~reopened => machine.syscall_hooks = IF call.at \in {"idle", "install_syscall_hook"} THEN 0 ELSE 1
        BY <3>1, <3>3, <4>2 DEF LinuxHandlers
      <4>5. call.at \notin {"idle", "install_syscall_hook"}  BY <3>3
      <4>. QED BY <4>1, <4>3, <4>4, <4>5
    <3>5. machine'.trap_hooks = 0 /\ machine'.syscall_hooks = machine.syscall_hooks
      BY <3>1, <3>4 DEF Shape
    <3>6. machine'.tls = TRUE
      BY <3>1 DEF Shape
    <3>7. call'.at = "setup_stack"
      BY <3>2 DEF Shape
    <3>. QED BY <2>1, <2>4, <3>1, <3>2, <3>3, <3>4, <3>5, <3>6, <3>7 DEF LinuxHandlers
  <2>5. CASE ~Linux
    <3>1. machine' = [machine EXCEPT !.tls = FALSE]
      BY <1>8, <2>5 DEF prepare_execution, Shape
    <3>2. call' = [call EXCEPT !.at = "setup_stack"] /\ UNCHANGED last
      BY <1>8, <2>5 DEF prepare_execution
    <3>. QED BY <1>8, <2>1, <2>2, <2>5, <3>1, <3>2 DEF Shape, CallIsOpen, LinuxHandlers, BareMetalHandlers, MapRefused, prepare_execution
  <2>. QED BY <2>3, <2>4, <2>5
<1>9. CASE setup_stack_fails
  BY <1>9 DEF Shape, CallIsOpen, LinuxHandlers, BareMetalHandlers, setup_stack_fails
<1>10. CASE set_prepared_execution_range
  BY <1>10 DEF Shape, CallIsOpen, LinuxHandlers, BareMetalHandlers, set_prepared_execution_range
<1>11. CASE run_prepared
  BY <1>11 DEF Shape, CallIsOpen, LinuxHandlers, BareMetalHandlers, run_prepared
<1>12. CASE GuestRuns
  BY <1>12 DEF Shape, CallIsOpen, LinuxHandlers, BareMetalHandlers, GuestRuns
<1>13. CASE GuestReturns
  BY <1>13 DEF Shape, CallIsOpen, LinuxHandlers, BareMetalHandlers, GuestReturns
<1>14. CASE GuestEnds
  BY <1>14 DEF Shape, CallIsOpen, LinuxHandlers, BareMetalHandlers, GuestEnds
<1>15. CASE GuestFaults
  BY <1>15 DEF Shape, CallIsOpen, LinuxHandlers, BareMetalHandlers, GuestFaults
<1>16. CASE Stops
  BY <1>16 DEF Shape, CallIsOpen, LinuxHandlers, BareMetalHandlers, Stops
<1>17. CASE handle_unicorn_error
  BY <1>17 DEF Shape, CallIsOpen, LinuxHandlers, BareMetalHandlers, handle_unicorn_error
<1>18. ASSUME NEW status \in Statuses, GuestExits(status) PROVE (IF Linux THEN LinuxHandlers ELSE BareMetalHandlers)'
  BY <1>18 DEF Shape, CallIsOpen, LinuxHandlers, BareMetalHandlers, GuestExits
<1>19. ASSUME NEW crash \in BOOLEAN, GuestIsKilled(crash) PROVE (IF Linux THEN LinuxHandlers ELSE BareMetalHandlers)'
  BY <1>19 DEF Shape, CallIsOpen, LinuxHandlers, BareMetalHandlers, GuestIsKilled
<1>21. ASSUME NEW mapped \in BOOLEAN, GuestMapsTls(mapped) PROVE (IF Linux THEN LinuxHandlers ELSE BareMetalHandlers)'
  <2>1. /\ At("guest") /\ Linux /\ UNCHANGED <<os, vk, call, story, last, calls>>
        /\ machine' = [machine EXCEPT !.tls = mapped]
    BY <1>21 DEF GuestMapsTls
  <2>2. ~reopened' => ~reopened /\ (call.op = "run" => mapped)
    BY <1>21 DEF GuestMapsTls
  <2>3. call.op = "run_input" => Owned
    BY <2>1 DEF CallIsOpen
  <2>4. call.op # "new"
    BY <2>1 DEF CallIsOpen
  <2>. QED BY <2>1, <2>2, <2>3, <2>4 DEF Shape, CallIsOpen, LinuxHandlers
<1>22. CASE UserUnmapsTls
  <2>1. /\ Idle /\ ~Owned /\ machine.tls /\ UNCHANGED <<os, vk, call, story, last, calls>>
        /\ machine' = [machine EXCEPT !.tls = FALSE]
    BY <1>22 DEF UserUnmapsTls
  <2>2. ~reopened' => ~reopened /\ calls = 0
    BY <1>22 DEF UserUnmapsTls, Shape
  <2>. QED BY <2>1, <2>2 DEF Shape, CallIsOpen, LinuxHandlers, BareMetalHandlers
<1>20. CASE UNCHANGED vars
  BY <1>20 DEF Shape, CallIsOpen, LinuxHandlers, BareMetalHandlers, vars
<1>. QED BY <1>1, <1>2, <1>3, <1>4, <1>5, <1>6, <1>7, <1>8, <1>9, <1>10, <1>11, <1>12, <1>13, <1>14, <1>15, <1>16, <1>17, <1>18, <1>19, <1>20, <1>21, <1>22 DEF Next, Step

LEMMA FieldsKept ==
    ASSUME Shape, FieldsAreTrue, VerdictIsOfThisRun, [Next]_vars
    PROVE  (FieldsAreTrue /\ VerdictIsOfThisRun)'
<1>1. CASE run
  BY <1>1 DEF Shape, CallIsOpen, FieldsAreTrue, VerdictIsOfThisRun, run, Call, reset_execution_state
<1>2. CASE new
  BY <1>2 DEF Shape, CallIsOpen, FieldsAreTrue, VerdictIsOfThisRun, new, Call, reset_execution_state
<1>3. CASE run_input
  BY <1>3 DEF Shape, CallIsOpen, FieldsAreTrue, VerdictIsOfThisRun, run_input, Call, reset_execution_state
<1>4. CASE run_input_fails
  BY <1>4 DEF Shape, CallIsOpen, FieldsAreTrue, VerdictIsOfThisRun, run_input_fails
<1>5. CASE install_syscall_hook
  BY <1>5 DEF Shape, CallIsOpen, FieldsAreTrue, VerdictIsOfThisRun, install_syscall_hook
<1>6. CASE setup_trap
  BY <1>6 DEF Shape, CallIsOpen, FieldsAreTrue, VerdictIsOfThisRun, NeedsTrap, setup_trap
<1>7. CASE write_exit_trap
  BY <1>7 DEF Shape, CallIsOpen, FieldsAreTrue, VerdictIsOfThisRun, write_exit_trap
<1>8. CASE prepare_execution
  BY <1>8 DEF Shape, CallIsOpen, FieldsAreTrue, VerdictIsOfThisRun, prepare_execution, MapRefused
<1>9. CASE setup_stack_fails
  BY <1>9 DEF Shape, CallIsOpen, FieldsAreTrue, VerdictIsOfThisRun, setup_stack_fails
<1>10. CASE set_prepared_execution_range
  BY <1>10 DEF Shape, CallIsOpen, FieldsAreTrue, VerdictIsOfThisRun, set_prepared_execution_range
<1>11. CASE run_prepared
  BY <1>11 DEF Shape, CallIsOpen, FieldsAreTrue, VerdictIsOfThisRun, run_prepared
<1>12. CASE GuestRuns
  BY <1>12 DEF Shape, CallIsOpen, FieldsAreTrue, VerdictIsOfThisRun, GuestRuns
<1>13. CASE GuestReturns
  BY <1>13 DEF Shape, CallIsOpen, FieldsAreTrue, VerdictIsOfThisRun, GuestReturns
<1>14. CASE GuestEnds
  BY <1>14 DEF Shape, CallIsOpen, FieldsAreTrue, VerdictIsOfThisRun, GuestEnds
<1>15. CASE GuestFaults
  BY <1>15 DEF Shape, CallIsOpen, FieldsAreTrue, VerdictIsOfThisRun, GuestFaults
<1>16. CASE Stops
  BY <1>16 DEF Shape, CallIsOpen, FieldsAreTrue, VerdictIsOfThisRun, Stops
<1>17. CASE handle_unicorn_error
  BY <1>17 DEF Shape, CallIsOpen, FieldsAreTrue, VerdictIsOfThisRun, handle_unicorn_error
<1>18. ASSUME NEW status \in Statuses, GuestExits(status) PROVE (FieldsAreTrue /\ VerdictIsOfThisRun)'
  BY <1>18 DEF Shape, CallIsOpen, FieldsAreTrue, VerdictIsOfThisRun, GuestExits
<1>19. ASSUME NEW crash \in BOOLEAN, GuestIsKilled(crash) PROVE (FieldsAreTrue /\ VerdictIsOfThisRun)'
  BY <1>19 DEF Shape, CallIsOpen, FieldsAreTrue, VerdictIsOfThisRun, GuestIsKilled
<1>21. ASSUME NEW mapped \in BOOLEAN, GuestMapsTls(mapped) PROVE (FieldsAreTrue /\ VerdictIsOfThisRun)'
  BY <1>21 DEF Shape, CallIsOpen, FieldsAreTrue, VerdictIsOfThisRun, GuestMapsTls
<1>22. CASE UserUnmapsTls
  BY <1>22 DEF Shape, CallIsOpen, FieldsAreTrue, VerdictIsOfThisRun, UserUnmapsTls
<1>20. CASE UNCHANGED vars
  BY <1>20 DEF Shape, CallIsOpen, FieldsAreTrue, VerdictIsOfThisRun, vars
<1>. QED BY <1>1, <1>2, <1>3, <1>4, <1>5, <1>6, <1>7, <1>8, <1>9, <1>10, <1>11, <1>12, <1>13, <1>14, <1>15, <1>16, <1>17, <1>18, <1>19, <1>20, <1>21, <1>22 DEF Next, Step

LEMMA NextIInv == IInv /\ [Next]_vars => IInv'
BY TypesKept, OpenKept, HandlersKept, FieldsKept DEF IInv

(***************************************************************************)
(* Whenever a guest runs, one code hook handles its system calls on Linux, *)
(* unless the place of [tls] was free again for a second preparation, and  *)
(* one traps its return on bare metal, after any number of calls.          *)
(***************************************************************************)
THEOREM OneHandlerAlways == Spec => []OneHandlerEach
<1>1. IInv => OneHandlerEach
  BY DEF IInv, LinuxHandlers, BareMetalHandlers, OneHandlerEach
<1>. QED BY <1>1, InitIInv, NextIInv, PTL DEF Spec

(***************************************************************************)
(* The verdict of a call, the exit status and the crash flag are those of  *)
(* the guest this call ran.                                                *)
(***************************************************************************)
THEOREM VerdictsAreTrue == Spec => []VerdictIsOfThisRun
<1>1. IInv => VerdictIsOfThisRun
  BY DEF IInv
<1>. QED BY <1>1, InitIInv, NextIInv, PTL DEF Spec

----------------------------------------------------------------------------
(***************************************************************************)
(* How far the stack pointer can have risen: one word for each call before *)
(* the one that runs, whose guest may still return.  A guest stays at or   *)
(* below the word its trap was written to, and a restore brings back the   *)
(* pointer of the one preparation there was.                               *)
(***************************************************************************)
Base == StackEnd - Slack

StackIsBounded ==
    /\ machine.sp <= Base + calls
    /\ call.at \in Preparing \cup (Ready \ {"stopped", "faulted"}) => machine.sp < Base + calls
    /\ machine.saved_sp <= Base + calls
    /\ vk.initial_sp < Base + calls

\* A page at [tls] is the user's or was mapped by an earlier call or by this one.
TlsHasAReason ==
    machine.tls => machine.users_page \/ calls > 1 \/ (calls = 1 /\ call.at \notin Preparing)

LEMMA InitStack == Init => StackIsBounded /\ TlsHasAReason /\ FailsOnlyWhenUsedUp
BY LifecycleAssumption DEF Init, StackIsBounded, TlsHasAReason, Base, FailsOnlyWhenUsedUp

LEMMA StackKept ==
    ASSUME Shape, StackIsBounded, [Next]_vars
    PROVE  StackIsBounded'
<1>1. CASE run
  BY <1>1, LifecycleAssumption DEF Shape, StackIsBounded, Base, run, Call, reset_execution_state
<1>2. CASE new
  BY <1>2, LifecycleAssumption DEF Shape, StackIsBounded, Base, new, Call, reset_execution_state
<1>3. CASE run_input
  BY <1>3, LifecycleAssumption DEF Shape, StackIsBounded, Base, run_input, Call, reset_execution_state
<1>4. CASE run_input_fails
  BY <1>4, LifecycleAssumption DEF Shape, StackIsBounded, Base, run_input_fails
<1>5. CASE install_syscall_hook
  BY <1>5, LifecycleAssumption DEF Shape, StackIsBounded, Base, install_syscall_hook
<1>6. CASE setup_trap
  BY <1>6, LifecycleAssumption DEF Shape, StackIsBounded, Base, NeedsTrap, setup_trap
<1>7. CASE write_exit_trap
  BY <1>7, LifecycleAssumption DEF Shape, StackIsBounded, Base, write_exit_trap
<1>8. CASE prepare_execution
  BY <1>8, LifecycleAssumption DEF Shape, StackIsBounded, Base, prepare_execution, MapRefused
<1>9. CASE setup_stack_fails
  BY <1>9, LifecycleAssumption DEF Shape, StackIsBounded, Base, setup_stack_fails
<1>10. CASE set_prepared_execution_range
  BY <1>10, LifecycleAssumption DEF Shape, StackIsBounded, Base, set_prepared_execution_range
<1>11. CASE run_prepared
  BY <1>11, LifecycleAssumption DEF Shape, StackIsBounded, Base, run_prepared
<1>12. CASE GuestRuns
  BY <1>12, LifecycleAssumption DEF Shape, StackIsBounded, Base, GuestRuns
<1>13. CASE GuestReturns
  BY <1>13, LifecycleAssumption DEF Shape, StackIsBounded, Base, GuestReturns
<1>14. CASE GuestEnds
  BY <1>14, LifecycleAssumption DEF Shape, StackIsBounded, Base, GuestEnds
<1>15. CASE GuestFaults
  BY <1>15, LifecycleAssumption DEF Shape, StackIsBounded, Base, GuestFaults
<1>16. CASE Stops
  BY <1>16, LifecycleAssumption DEF Shape, StackIsBounded, Base, Stops
<1>17. CASE handle_unicorn_error
  BY <1>17, LifecycleAssumption DEF Shape, StackIsBounded, Base, handle_unicorn_error
<1>18. ASSUME NEW status \in Statuses, GuestExits(status) PROVE StackIsBounded'
  BY <1>18, LifecycleAssumption DEF Shape, StackIsBounded, Base, GuestExits
<1>19. ASSUME NEW crash \in BOOLEAN, GuestIsKilled(crash) PROVE StackIsBounded'
  BY <1>19, LifecycleAssumption DEF Shape, StackIsBounded, Base, GuestIsKilled
<1>21. ASSUME NEW mapped \in BOOLEAN, GuestMapsTls(mapped) PROVE StackIsBounded'
  BY <1>21, LifecycleAssumption DEF Shape, StackIsBounded, Base, GuestMapsTls
<1>22. CASE UserUnmapsTls
  BY <1>22, LifecycleAssumption DEF Shape, StackIsBounded, Base, UserUnmapsTls
<1>20. CASE UNCHANGED vars
  BY <1>20 DEF Shape, StackIsBounded, Base, vars
<1>. QED BY <1>1, <1>2, <1>3, <1>4, <1>5, <1>6, <1>7, <1>8, <1>9, <1>10, <1>11, <1>12, <1>13, <1>14, <1>15, <1>16, <1>17, <1>18, <1>19, <1>20, <1>21, <1>22 DEF Next, Step

LEMMA FailsKept ==
    ASSUME Shape, IF Linux THEN LinuxHandlers ELSE BareMetalHandlers,
           CallIsOpen, StackIsBounded, TlsHasAReason, FailsOnlyWhenUsedUp, [Next]_vars
    PROVE  (TlsHasAReason /\ FailsOnlyWhenUsedUp)'
<1>1. CASE run
  BY <1>1, LifecycleAssumption DEF Shape, CallIsOpen, LinuxHandlers, BareMetalHandlers, StackIsBounded, TlsHasAReason, Base, FailsOnlyWhenUsedUp, run, Call, reset_execution_state
<1>2. CASE new
  BY <1>2, LifecycleAssumption DEF Shape, CallIsOpen, LinuxHandlers, BareMetalHandlers, StackIsBounded, TlsHasAReason, Base, FailsOnlyWhenUsedUp, new, Call, reset_execution_state
<1>3. CASE run_input
  BY <1>3, LifecycleAssumption DEF Shape, CallIsOpen, LinuxHandlers, BareMetalHandlers, StackIsBounded, TlsHasAReason, Base, FailsOnlyWhenUsedUp, run_input, Call, reset_execution_state
<1>4. CASE run_input_fails
  BY <1>4, LifecycleAssumption DEF Shape, CallIsOpen, LinuxHandlers, BareMetalHandlers, StackIsBounded, TlsHasAReason, Base, FailsOnlyWhenUsedUp, run_input_fails
<1>5. CASE install_syscall_hook
  BY <1>5, LifecycleAssumption DEF Shape, CallIsOpen, LinuxHandlers, BareMetalHandlers, StackIsBounded, TlsHasAReason, Base, FailsOnlyWhenUsedUp, install_syscall_hook
<1>6. CASE setup_trap
  BY <1>6, LifecycleAssumption DEF Shape, CallIsOpen, LinuxHandlers, BareMetalHandlers, StackIsBounded, TlsHasAReason, Base, FailsOnlyWhenUsedUp, NeedsTrap, setup_trap
<1>7. CASE write_exit_trap
  BY <1>7, LifecycleAssumption DEF Shape, CallIsOpen, LinuxHandlers, BareMetalHandlers, StackIsBounded, TlsHasAReason, Base, FailsOnlyWhenUsedUp, write_exit_trap
<1>8. CASE prepare_execution
  <2>1. UNCHANGED <<os, calls>> /\ At("prepared")
    BY <1>8 DEF prepare_execution
  <2>2. CASE Linux /\ MapRefused /\ Fails("tls") /\ UNCHANGED machine
    BY <2>1, <2>2 DEF MapRefused, Shape, CallIsOpen, TlsHasAReason, FailsOnlyWhenUsedUp
  <2>3. CASE Linux /\ ~MapRefused /\ Fails("map") /\ UNCHANGED machine
    BY <2>1, <2>3 DEF MapRefused, Shape, CallIsOpen, TlsHasAReason, FailsOnlyWhenUsedUp
  <2>4. CASE Goto("setup_stack") /\ UNCHANGED last /\ machine' = [machine EXCEPT !.tls = Linux]
    BY <2>1, <2>4 DEF Shape, CallIsOpen, TlsHasAReason, FailsOnlyWhenUsedUp
  <2>. QED BY <1>8, <2>2, <2>3, <2>4 DEF prepare_execution
<1>9. CASE setup_stack_fails
  BY <1>9, LifecycleAssumption DEF Shape, CallIsOpen, LinuxHandlers, BareMetalHandlers, StackIsBounded, TlsHasAReason, Base, FailsOnlyWhenUsedUp, setup_stack_fails
<1>10. CASE set_prepared_execution_range
  BY <1>10, LifecycleAssumption DEF Shape, CallIsOpen, LinuxHandlers, BareMetalHandlers, StackIsBounded, TlsHasAReason, Base, FailsOnlyWhenUsedUp, set_prepared_execution_range
<1>11. CASE run_prepared
  BY <1>11, LifecycleAssumption DEF Shape, CallIsOpen, LinuxHandlers, BareMetalHandlers, StackIsBounded, TlsHasAReason, Base, FailsOnlyWhenUsedUp, run_prepared
<1>12. CASE GuestRuns
  BY <1>12, LifecycleAssumption DEF Shape, CallIsOpen, LinuxHandlers, BareMetalHandlers, StackIsBounded, TlsHasAReason, Base, FailsOnlyWhenUsedUp, GuestRuns
<1>13. CASE GuestReturns
  BY <1>13, LifecycleAssumption DEF Shape, CallIsOpen, LinuxHandlers, BareMetalHandlers, StackIsBounded, TlsHasAReason, Base, FailsOnlyWhenUsedUp, GuestReturns
<1>14. CASE GuestEnds
  BY <1>14, LifecycleAssumption DEF Shape, CallIsOpen, LinuxHandlers, BareMetalHandlers, StackIsBounded, TlsHasAReason, Base, FailsOnlyWhenUsedUp, GuestEnds
<1>15. CASE GuestFaults
  BY <1>15, LifecycleAssumption DEF Shape, CallIsOpen, LinuxHandlers, BareMetalHandlers, StackIsBounded, TlsHasAReason, Base, FailsOnlyWhenUsedUp, GuestFaults
<1>16. CASE Stops
  BY <1>16, LifecycleAssumption DEF Shape, CallIsOpen, LinuxHandlers, BareMetalHandlers, StackIsBounded, TlsHasAReason, Base, FailsOnlyWhenUsedUp, Stops
<1>17. CASE handle_unicorn_error
  BY <1>17, LifecycleAssumption DEF Shape, CallIsOpen, LinuxHandlers, BareMetalHandlers, StackIsBounded, TlsHasAReason, Base, FailsOnlyWhenUsedUp, handle_unicorn_error
<1>18. ASSUME NEW status \in Statuses, GuestExits(status) PROVE (TlsHasAReason /\ FailsOnlyWhenUsedUp)'
  BY <1>18, LifecycleAssumption DEF Shape, CallIsOpen, LinuxHandlers, BareMetalHandlers, StackIsBounded, TlsHasAReason, Base, FailsOnlyWhenUsedUp, GuestExits
<1>19. ASSUME NEW crash \in BOOLEAN, GuestIsKilled(crash) PROVE (TlsHasAReason /\ FailsOnlyWhenUsedUp)'
  BY <1>19, LifecycleAssumption DEF Shape, CallIsOpen, LinuxHandlers, BareMetalHandlers, StackIsBounded, TlsHasAReason, Base, FailsOnlyWhenUsedUp, GuestIsKilled
<1>21. ASSUME NEW mapped \in BOOLEAN, GuestMapsTls(mapped) PROVE (TlsHasAReason /\ FailsOnlyWhenUsedUp)'
  BY <1>21, LifecycleAssumption DEF Shape, CallIsOpen, LinuxHandlers, BareMetalHandlers, StackIsBounded, TlsHasAReason, Base, FailsOnlyWhenUsedUp, GuestMapsTls
<1>22. CASE UserUnmapsTls
  BY <1>22, LifecycleAssumption DEF Shape, CallIsOpen, LinuxHandlers, BareMetalHandlers, StackIsBounded, TlsHasAReason, Base, FailsOnlyWhenUsedUp, UserUnmapsTls
<1>20. CASE UNCHANGED vars
  BY <1>20 DEF Shape, CallIsOpen, LinuxHandlers, BareMetalHandlers, StackIsBounded, TlsHasAReason, Base, FailsOnlyWhenUsedUp, vars
<1>. QED BY <1>1, <1>2, <1>3, <1>4, <1>5, <1>6, <1>7, <1>8, <1>9, <1>10, <1>11, <1>12, <1>13, <1>14, <1>15, <1>16, <1>17, <1>18, <1>19, <1>20, <1>21, <1>22 DEF Next, Step

(***************************************************************************)
(* The trap's address has no room only in a bare-metal stack that has      *)
(* climbed to its end by one return a call, and a first preparation finds  *)
(* [tls] mapped only by the user.                                          *)
(***************************************************************************)
THEOREM FailuresAreEarned == Spec => []FailsOnlyWhenUsedUp
<1>. DEFINE SInv == IInv /\ StackIsBounded /\ TlsHasAReason /\ FailsOnlyWhenUsedUp
<1>1. Init => SInv
  BY InitIInv, InitStack
<1>2. SInv /\ [Next]_vars => SInv'
  BY NextIInv, StackKept, FailsKept DEF IInv
<1>. QED BY <1>1, <1>2, PTL DEF Spec
====
