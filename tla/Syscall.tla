------------------------------- MODULE Syscall -------------------------------
(***************************************************************************)
(* What a system call's handler returns and what the guest reads of it:    *)
(* src/src/os/register_syscall.rs, arch/x86.rs, arch/x86_64.rs, common.rs. *)
(*                                                                         *)
(* A handler returns Ok(v), Ok(-errno), or Err: a buffer of the guest that *)
(* is not mapped, or a VMemory::read or write of no bytes.  The dispatcher *)
(* logs an Err and stores 0, as it does for numbers it does not know and   *)
(* calls it does not implement.  An i386 register keeps the lower half of  *)
(* the value, and hands its own content zero-extended to the handlers.     *)
(***************************************************************************)
EXTENDS Integers

CONSTANTS
    Word,       \* 2^32, scaled down: the values of an i386 register
    MaxErrno    \* 4095, scaled down: the highest errno

ASSUME WordAssumption ==
    /\ Word \in Nat /\ MaxErrno \in Nat
    /\ 0 < MaxErrno /\ MaxErrno < Word

Arch == {"x86", "x86_64"}

Ok(v)    == [is |-> "ok", val |-> v]
Errno(e) == [is |-> "errno", val |-> e]
Err      == [is |-> "Err", val |-> 0]

\* A pointer argument of the guest: 0, not mapped (throughout), or mapped.
Pointer == {"null", "bad", "good"}

\* get_reg: the argument a handler sees when the guest passes v.
Argument(arch, v) == IF arch = "x86" THEN v % Word ELSE v

\* handle_x86_64_syscall, with syscall_name_from_no and dispatch_syscall_by_name
Register64(r) == IF r.is = "Err" THEN Ok(0) ELSE r

\* handle_x86_syscall: set_reg truncates, and the top values read as -errno.
Register32(r) ==
    LET v == r.val % Word
    IN  IF r.is # "ok" THEN Register64(r)
                       ELSE IF v < Word - MaxErrno THEN Ok(v) ELSE Errno("truncated")

\* What the guest reads in its result register.
Register(arch, r) == IF arch = "x86" THEN Register32(r) ELSE Register64(r)

\* A number outside the table, or of a call without a handler.
Unimplemented == Err
=============================================================================
