------------------------------ MODULE GuestIO ------------------------------
(***************************************************************************)
(* Data through one descriptor: the calls of src/src/os/syscall/io.rs and  *)
(* network.rs that read, write, seek, wait and set, seen from a guest that *)
(* keeps account of what it was told.                                      *)
(*                                                                         *)
(* The descriptor is of one kind throughout, and is named by its own       *)
(* number or by a copy the table does not list: one of fcntl(F_DUPFD), or  *)
(* a dup of 0, 1 or 2.  A handler checks for null pointers, reads its      *)
(* inputs from the guest's memory, calls the host, and writes its outputs; *)
(* an Err of a later part leaves what the earlier parts did.  Data are     *)
(* counted, not named.                                                     *)
(***************************************************************************)
EXTENDS Syscall, Sequences

CONSTANTS
    Kinds,       \* kinds of descriptor to study
    Archs,       \* guests to study
    MaxLen,      \* most units a stream ever holds (a bound of the model)
    Counts,      \* byte counts the guest passes
    Deltas       \* offsets the guest seeks by

Kind    == {"stdin", "stdout", "file", "dir", "sock", "timer", "epoll"}
Setting == {"connecting", "connected", "shut", "nonblock", "watched", "armed", "option"}

ASSUME StreamAssumption ==
    /\ Kinds \subseteq Kind /\ Archs \subseteq Arch
    /\ MaxLen \in Nat /\ 2 * MaxLen < Word
    /\ Counts \subseteq Nat /\ Deltas \subseteq Int

VARIABLES
    kind, arch,  \* never change
    at,          \* where the next read of the description starts
    len,         \* what the stream has held so far: length, arrivals, stdin_data
    hostStdin,   \* where the host's own descriptor 0 is
    ahead,       \* what io::stdin() has read of it and not yet handed out
    sent,        \* the guest's output as the host got it, numbered by its order
    waiting,     \* what io::stdout() keeps until the end of a line
    host,        \* settings in force on the host
    known,       \* where the guest reckons the next read starts
    counted,     \* how much of its output the guest was told was taken
    believed,    \* settings the guest was told are in force
    last         \* the last call: name, number used, result

input  == <<at, len, hostStdin, ahead>>
output == <<sent, waiting>>
guest  == <<known, counted, believed>>
vars   == <<kind, arch, input, output, host, guest, last>>

Fds == {"own", "copy"}
Buffer == Pointer \ {"null"}      \* where a handler does not tell 0 from unmapped

Init ==
    /\ kind \in Kinds /\ arch \in Archs
    /\ kind \notin {"stdin", "file", "dir"} => arch = "x86_64"      \* seeks alone differ
    /\ len \in 0..MaxLen /\ (kind \in {"sock", "timer", "epoll"} => len = 0)
    /\ at = 0 /\ hostStdin = 0 /\ ahead = 0 /\ sent = <<>> /\ waiting = <<>>
    /\ known = 0 /\ counted = 0 /\ host = {} /\ believed = {}
    /\ last = [call |-> "none", via |-> "own", res |-> Ok(0)]

\* FD_TABLE has the number: host_fd_for_guest also knows 0, 1 and 2.
Listed(via) == via = "own" /\ kind \in {"file", "dir"}
HasHostFd(via) == via = "own" /\ kind \in {"file", "dir", "stdin", "stdout"}

Least(a, b) == IF a < b THEN a ELSE b
Left(from, to) == IF from < to THEN to - from ELSE 0

(***************************************************************************)
(* Ends of a call.  Told(r) and ToldOf(r): what the guest reads of r.      *)
(***************************************************************************)
Return(call, via, r) ==
    /\ last' = [call |-> call, via |-> via, res |-> r]
    /\ UNCHANGED <<kind, arch>>

Told(r)   == Register(arch, r).is = "ok"
ToldOf(r) == IF Told(r) THEN Register(arch, r).val ELSE 0

\* Outputs written one after the other: the first bad pointer is an Err.
Wrote(outs, r) == IF "bad" \in outs THEN Err ELSE r

\* The call ended before the host was asked, or the host refused it, or it has
\* no effect.
Nothing(call, via, r) == Return(call, via, r) /\ UNCHANGED <<input, output, host, guest>>

Refused(call, via) == Nothing(call, via, Errno("host"))

-----------------------------------------------------------------------------
(***************************************************************************)
(* Taking data: read, recvfrom, getdents64, epoll_wait.  The data is gone  *)
(* from the stream before it is copied to the guest.                       *)
(***************************************************************************)
Gave(call, via, n, r) ==
    /\ known' = known + ToldOf(r)
    /\ Return(call, via, r)
    /\ UNCHANGED <<len, output, host, counted, believed>>

Take(call, via, n, r) ==
    /\ at' = at + n
    /\ UNCHANGED <<hostStdin, ahead>>
    /\ Gave(call, via, n, r)

Copied(n, buf) == Wrote(IF n > 0 THEN {buf} ELSE {}, Ok(n))

\* Number 0: stdin_data while there is any, else io::stdin() and its buffer.
\* A copy of 0 is the host's descriptor.
ReadStdinData(count, buf) ==
    LET n == Least(count, Left(at, len))
    IN  len > 0 /\ Take("read", "own", n, Copied(n, buf))

ReadHostStdin(count, buf) ==
    /\ len = 0
    /\ \E more \in 0..Left(hostStdin, MaxLen) :
           LET n == Least(count, ahead + more)
           IN  /\ ahead > 0 => more = 0
               /\ hostStdin' = hostStdin + more
               /\ ahead' = ahead + more - n
               /\ UNCHANGED at
               /\ Gave("read", "own", n, Copied(n, buf))

ReadCopyOfStdin(count, buf) ==
    LET n == Least(count, Left(hostStdin, MaxLen))
    IN  /\ hostStdin' = hostStdin + n
        /\ UNCHANGED <<at, ahead>>
        /\ Gave("read", "copy", n, Copied(n, buf))

ReadStream(via, count, buf) ==
    LET n == Least(count, Left(at, len))
    IN  /\ kind \in {"file", "sock", "timer"}
        /\ kind # "file" => n > 0              \* or else the call blocks
        /\ Take("read", via, n, Copied(n, buf))

sys_read(via, count, buf) ==
    \/ count = 0 /\ Nothing("read", via, Ok(0))
    \/ count > 0 /\ (kind = "stdin" /\ via = "own" => len = 0) /\ Refused("read", via)
    \/ /\ count > 0
       /\ \/ kind = "stdin" /\ via = "own" /\ ReadStdinData(count, buf)
          \/ kind = "stdin" /\ via = "own" /\ ReadHostStdin(count, buf)
          \/ kind = "stdin" /\ via = "copy" /\ ReadCopyOfStdin(count, buf)
          \/ ReadStream(via, count, buf)

sys_recvfrom(via, count, buf, addr) ==
    \/ Refused("recvfrom", via)
    \/ LET n == Least(count, Left(at, len))
       IN  /\ kind = "sock" /\ (count > 0 => n > 0)
           /\ Take("recvfrom", via, n, Wrote({addr} \cup (IF n > 0 THEN {buf} ELSE {}), Ok(n)))

sys_getdents64(via, count, buf) ==
    LET n == Least(count, Left(at, len))
    IN  CASE count = 0       -> Nothing("getdents64", via, Ok(0))
          [] count > 0 /\ (~HasHostFd(via) \/ kind # "dir") ->
                                Nothing("getdents64", via, Errno("EBADF or ENOTDIR"))
          [] OTHER           -> Take("getdents64", via, n, Copied(n, buf))

sys_epoll_wait(via, maxevents, buf) ==
    LET n == Least(maxevents, Left(at, len))       \* 0 when the time is over
    IN  IF maxevents = 0 \/ buf = "null" \/ kind # "epoll"
        THEN Nothing("epoll_wait", via, Errno("EINVAL"))
        ELSE Take("epoll_wait", via, n, Copied(n, buf))

(***************************************************************************)
(* pread64 and a file mmap: a listed File is cloned, and the clone is      *)
(* positioned and read; the two share one position on the host.  What was  *)
(* positioned need not be readable: a directory is not, nor a File opened  *)
(* for writing only.  The pages of an mmap are AddressSpace's.             *)
(***************************************************************************)
PreadMovesAny(via, off, n) == off + n                                       \* mutant

PreadLeaves(via, off, n) == IF Listed(via) THEN off + n ELSE at

ReadAt(call, via, off, n, r) ==
    /\ at' = PreadLeaves(via, off, n)
    /\ Return(call, via, r)
    /\ UNCHANGED <<len, hostStdin, ahead, output, host, guest>>

Unread(call, via, off) == Listed(via) /\ ReadAt(call, via, off, 0, Errno("host"))

sys_pread64(via, count, off, buf) ==
    LET n == Least(count, Left(off, len))
    IN  \/ count = 0 /\ Nothing("pread64", via, Ok(0))
        \/ count > 0 /\ (Refused("pread64", via) \/ Unread("pread64", via, off))
        \/ count > 0 /\ kind = "stdin" /\ Nothing("pread64", via, Copied(count, buf))
        \/ count > 0 /\ kind = "file" /\ ReadAt("pread64", via, off, n, Copied(n, buf))

map_file_bytes(via, size, off) ==
    IF ~Listed(via)
    THEN Nothing("mmap", via, Errno("EBADF"))
    ELSE \/ Nothing("mmap", via, Errno("EIO"))
         \/ Unread("mmap", via, off)
         \/ kind = "file" /\ ReadAt("mmap", via, off, Least(size, Left(off, len)), Ok(0))

sys_mmap(via, size, off) ==
    IF size = 0 THEN Nothing("mmap", via, Errno("EINVAL"))
                ELSE map_file_bytes(via, size, off)

-----------------------------------------------------------------------------
(***************************************************************************)
(* Seeking.  lseek takes the offset as the register holds it, _llseek puts *)
(* both halves together; numbers 0..2 go to the host whatever stdin_data   *)
(* and the buffer of io::stdin() hold.                                     *)
(***************************************************************************)
SeekBase(whence) == CASE whence = "SET" -> 0
                      [] whence = "CUR" -> IF kind = "stdin" THEN hostStdin ELSE at
                      [] whence = "END" -> IF kind = "stdin" THEN MaxLen ELSE len

SeekMoves(to) ==
    IF kind = "stdin"
    THEN hostStdin' = to /\ UNCHANGED at
    ELSE at' = to /\ UNCHANGED hostStdin

seek_fd(call, via, to, r, told) ==
    IF kind \notin {"stdin", "file", "dir"} \/ to < 0
    THEN Nothing(call, via, Errno("ESPIPE or EINVAL"))
    ELSE /\ SeekMoves(to)
         /\ known' = told
         /\ Return(call, via, r)
         /\ UNCHANGED <<len, ahead, output, host, counted, believed>>

\* The new position comes back in the register,
sys_lseek(via, delta, whence) ==
    LET to == SeekBase(whence) + Argument(arch, delta)
    IN  seek_fd("lseek", via, to, Ok(to), IF Told(Ok(to)) THEN ToldOf(Ok(to)) ELSE known)

\* or in eight bytes of the guest's memory.
sys_llseek(via, delta, whence, result) ==
    LET to == SeekBase(whence) + delta
    IN  /\ arch = "x86"
        /\ CASE result = "null" -> Nothing("_llseek", via, Errno("EFAULT"))
             [] result = "bad"  -> seek_fd("_llseek", via, to, Err, known)
             [] result = "good" -> seek_fd("_llseek", via, to, Ok(0), to)

-----------------------------------------------------------------------------
(***************************************************************************)
(* Giving data: write, writev, sendto.  Number 1 is io::stdout(), which    *)
(* keeps what does not end a line; a copy of 1 is the host's descriptor.   *)
(***************************************************************************)
Produced == Len(sent) + Len(waiting)
New(n)   == [i \in 1..n |-> Produced + i]

PutAhead(via, n, line) ==                                                   \* mutant
    IF kind = "stdout" /\ via = "own" /\ ~line
    THEN waiting' = waiting \o New(n) /\ UNCHANGED <<sent, at, len>>
    ELSE sent' = sent \o New(n) /\ UNCHANGED <<waiting, at, len>>

Put(via, n, line) ==
    CASE n = 0 -> UNCHANGED <<sent, waiting, at, len>>
      [] n > 0 /\ kind = "stdout" /\ via = "own" /\ line ->
            sent' = sent \o waiting \o New(n) /\ waiting' = <<>> /\ UNCHANGED <<at, len>>
      [] n > 0 /\ kind = "stdout" /\ via = "own" /\ ~line ->
            waiting' = waiting \o New(n) /\ UNCHANGED <<sent, at, len>>
      [] n > 0 /\ kind = "file" ->
            /\ sent' = sent \o New(n)
            /\ at' = at + n
            /\ len' = IF len < at + n THEN at + n ELSE len
            /\ UNCHANGED waiting
      [] OTHER -> sent' = sent \o New(n) /\ UNCHANGED <<waiting, at, len>>

Give(call, via, n, line, r) ==
    /\ Put(via, n, line)
    /\ counted' = counted + ToldOf(r)
    /\ known' = IF kind = "file" THEN known + ToldOf(r) ELSE known
    /\ Return(call, via, r)
    /\ UNCHANGED <<hostStdin, ahead, host, believed>>

Writable == kind \in {"stdout", "file", "sock"}

\* The host takes all of a write to io::stdout(), else any part of it.
Taken(via, count) == IF kind = "stdout" /\ via = "own" THEN {count} ELSE 1..count

sys_write(via, count, buf, line) ==
    \/ count = 0 /\ Nothing("write", via, Ok(0))
    \/ count > 0 /\ buf = "bad" /\ Nothing("write", via, Err)
    \/ count > 0 /\ buf = "good" /\ Refused("write", via)
    \/ /\ count > 0 /\ buf = "good" /\ Writable
       /\ \E n \in Taken(via, count) : Give("write", via, n, line, Ok(n))

sys_sendto(via, count, buf, dest) ==
    \/ "bad" \in {buf, dest} /\ Nothing("sendto", via, Err)
    \/ count = 0 /\ Nothing("sendto", via, Err)     \* a VMemory::read of no bytes
    \/ /\ count > 0 /\ "bad" \notin {buf, dest}
       /\ \/ Refused("sendto", via)
          \/ kind = "sock" /\ Give("sendto", via, count, FALSE, Ok(count))

(***************************************************************************)
(* writev takes the buffers one by one: after k of them it ends, stops at  *)
(* a buffer (or an iovec) that cannot be read, at a short write, or at an  *)
(* error of the host, which is told only if nothing was written.           *)
(***************************************************************************)
Vector == [count : Counts \ {1}, buf : Buffer]
Bytes(iov, k) ==            \* in the first k of two buffers
    (IF k >= 1 THEN iov[1].count ELSE 0) + (IF k = 2 THEN iov[2].count ELSE 0)

WritevTellsErrors(total) == Errno("host")                                   \* mutant

WritevStops(total) == IF total > 0 THEN Ok(total) ELSE Errno("host")

sys_writev(via, iov, line) ==
    \E k \in 0..Len(iov) :
        LET total == Bytes(iov, k)
        IN  /\ Writable \/ k = 0
            /\ \A i \in 1..k : iov[i].buf = "good" \/ iov[i].count = 0
            /\ \/ k = Len(iov) /\ Give("writev", via, total, line, Ok(total))
               \/ /\ k < Len(iov) /\ iov[k + 1].count > 0
                  /\ \/ iov[k + 1].buf = "bad" /\ Give("writev", via, total, line, Err)
                     \/ /\ iov[k + 1].buf = "good"
                        /\ \/ Give("writev", via, total, line, WritevStops(total))
                           \/ \E n \in Taken(via, iov[k + 1].count) :
                                 /\ Writable /\ n < iov[k + 1].count
                                 /\ Give("writev", via, total + n, line, Ok(total + n))

-----------------------------------------------------------------------------
(***************************************************************************)
(* Settings.  `done` says whether the host was asked and agreed; the guest *)
(* believes the change if its result register says so.                     *)
(***************************************************************************)
Change(S, s, on) == IF on THEN S \cup {s} ELSE S \ {s}

Set(call, via, s, on, done, r) ==
    /\ host' = IF done THEN Change(host, s, on) ELSE host
    /\ believed' = IF Told(r) THEN Change(believed, s, on) ELSE believed
    /\ Return(call, via, r)
    /\ UNCHANGED <<input, output, known, counted>>

\* The host is asked: it does it or refuses.
Ask(call, via, s, on, possible, r) ==
    \/ Refused(call, via)
    \/ possible /\ Set(call, via, s, on, TRUE, r)

ConnectForgetsRefusal(via, addr) ==                                         \* mutant
    \/ addr = "null" /\ Nothing("connect", via, Errno("EFAULT"))
    \/ addr = "good" /\ \E done \in BOOLEAN : Set("connect", via, "connected", TRUE, done, Ok(0))

\* A socket that does not block (SOCK_NONBLOCK, F_SETFL) is answered an errno
\* while the host goes on; EINPROGRESS itself tells the guest that it does.
InProgress(via) ==
    /\ kind = "sock" /\ host \cap {"connecting", "connected"} = {}
    /\ host' = host \cup {"connecting"}
    /\ believed' = believed \cup {"connecting"}
    /\ Return("connect", via, Errno("EINPROGRESS"))
    /\ UNCHANGED <<input, output, known, counted>>

sys_connect(via, addr) ==
    CASE addr = "null" -> Nothing("connect", via, Errno("EFAULT"))
      [] addr = "bad"  -> Set("connect", via, "connected", TRUE, FALSE, Err)
      [] addr = "good" ->
            \/ Ask("connect", via, "connected", TRUE,
                   kind = "sock" /\ "connecting" \notin host, Ok(0))
            \/ InProgress(via)

sys_shutdown(via) == Ask("shutdown", via, "shut", TRUE, kind = "sock", Ok(0))

sys_epoll_ctl(via, on, event) ==
    IF event = "bad"
    THEN Set("epoll_ctl", via, "watched", on, FALSE, Err)
    ELSE Ask("epoll_ctl", via, "watched", on, kind = "epoll" /\ (on => event = "good"), Ok(0))

SettimeTellsEFAULT(via, on, new, old) ==                                    \* mutant
    CASE new = "null" -> Nothing("timerfd_settime", via, Errno("EFAULT"))
      [] new = "bad"  -> Set("timerfd_settime", via, "armed", on, FALSE, Err)
      [] new = "good" -> Ask("timerfd_settime", via, "armed", on, kind = "timer",
                             IF old = "bad" THEN Errno("EFAULT") ELSE Ok(0))

sys_timerfd_settime(via, on, new, old) ==
    CASE new = "null" -> Nothing("timerfd_settime", via, Errno("EFAULT"))
      [] new = "bad"  -> Set("timerfd_settime", via, "armed", on, FALSE, Err)
      [] new = "good" -> Ask("timerfd_settime", via, "armed", on, kind = "timer",
                             Wrote({old}, Ok(0)))

\* ioctl(FIONBIO).
sys_ioctl_fionbio(via, on, arg) ==
    CASE ~HasHostFd(via)             -> Nothing("ioctl", via, Errno("EBADF"))
      [] HasHostFd(via) /\ arg = "null" -> Nothing("ioctl", via, Errno("EFAULT"))
      [] HasHostFd(via) /\ arg = "bad"  -> Set("ioctl", via, "nonblock", on, FALSE, Err)
      [] HasHostFd(via) /\ arg = "good" -> Ask("ioctl", via, "nonblock", on, TRUE, Ok(0))

\* A request whose number carries no size hands its argument to the host as it
\* is, null included (FIOCLEX, FIONCLEX).
sys_ioctl_bare(via, on) ==
    IF ~HasHostFd(via)
    THEN Nothing("ioctl", via, Errno("EBADF"))
    ELSE Ask("ioctl", via, "option", on, TRUE, Ok(0))

\* One that carries a size and a direction, or FIONREAD and its like, which
\* only ask: what goes in is read first, what comes out is written last.
sys_ioctl_sized(via, on, in, out, arg) ==
    CASE ~HasHostFd(via)                -> Nothing("ioctl", via, Errno("EBADF"))
      [] HasHostFd(via) /\ arg = "null" -> Nothing("ioctl", via, Errno("EFAULT"))
      [] HasHostFd(via) /\ arg = "bad" /\ in -> Set("ioctl", via, "option", on, FALSE, Err)
      [] OTHER ->
            LET r == IF out THEN Wrote({arg}, Ok(0)) ELSE Ok(0)
            IN  \/ Refused("ioctl", via)
                \/ in /\ Set("ioctl", via, "option", on, TRUE, r)
                \/ ~in /\ Nothing("ioctl", via, r)

\* Calls of the tables that have no handler.
sys_setsockopt(via) == Set("setsockopt", via, "option", TRUE, FALSE, Unimplemented)

-----------------------------------------------------------------------------
(***************************************************************************)
(* Questions: the host's state stays as it is, and only the answer counts. *)
(***************************************************************************)
Question(via, ins, outs) ==
    \/ "bad" \in ins /\ Nothing("question", via, Err)
    \/ "bad" \notin ins /\ Refused("question", via)
    \/ "bad" \notin ins /\ Nothing("question", via, Wrote(outs, Ok(0)))

sys_poll(via, fds) ==
    IF fds = "null" THEN Nothing("question", via, Errno("EFAULT"))
                    ELSE Question(via, {fds}, {fds})

sys_pselect6(via, sets, times) == Question(via, {sets, times}, {sets})

sys_getsockopt(via, val, length) ==
    IF "null" \in {val, length}
    THEN Nothing("question", via, IF length = "bad" THEN Err ELSE Errno("EFAULT"))
    ELSE Question(via, {length}, {val})

sys_fadvise64(via) ==
    IF ~HasHostFd(via) THEN Nothing("question", via, Errno("EBADF"))
                       ELSE Question(via, {}, {})

\* No guest thread ever waits: FUTEX_WAIT compares and returns.
sys_futex(word) ==
    IF word = "null" THEN Nothing("question", "own", Errno("EFAULT"))
                     ELSE Question("own", {word}, {})

\* The host ends a connect that it went on with, one way or the other.
ConnectEnds(made) ==
    /\ "connecting" \in host
    /\ host' = (host \ {"connecting"}) \cup (IF made THEN {"connected"} ELSE {})
    /\ last' = [call |-> "none", via |-> "own", res |-> Ok(0)]
    /\ UNCHANGED <<kind, arch, input, output, guest>>

\* Data, expirations and events come from outside the guest.
Arrive ==
    /\ kind \in {"sock", "timer", "epoll"} /\ len < MaxLen
    /\ len' = len + 1
    /\ last' = [call |-> "none", via |-> "own", res |-> Ok(0)]
    /\ UNCHANGED <<kind, arch, at, hostStdin, ahead, output, host, guest>>

-----------------------------------------------------------------------------
\* Bounds: what a guest reckons to have read, the positions it seeks from, what
\* it writes; and it sets on a descriptor only what its kind has.
MayRead == known <= MaxLen
MaySeek(whence) == whence = "CUR" => SeekBase("CUR") <= MaxLen
MayWrite == counted <= MaxLen /\ Produced < MaxLen /\ at < MaxLen

Input(via) ==
    \/ /\ MayRead
       /\ \E count \in Counts, buf \in Buffer :
             \/ sys_read(via, count, buf) \/ sys_getdents64(via, count, buf)
             \/ \E addr \in Pointer : sys_recvfrom(via, count, buf, addr)
             \/ \E off \in {0, 1} : sys_pread64(via, count, off, buf) \/ sys_mmap(via, count, off)
    \/ MayRead /\ \E count \in Counts, buf \in Pointer : sys_epoll_wait(via, count, buf)
    \/ \E d \in Deltas, whence \in {"SET", "CUR", "END"} :
          /\ MaySeek(whence)
          /\ \/ sys_lseek(via, d, whence)
             \/ \E result \in Pointer : sys_llseek(via, d, whence, result)

Output(via) ==
    /\ MayWrite
    /\ \/ \E count \in Counts, buf \in Buffer :
             \/ \E line \in BOOLEAN : sys_write(via, count, buf, line)
             \/ \E dest \in Pointer : sys_sendto(via, count, buf, dest)
       \/ \E v, w \in Vector, line \in BOOLEAN : sys_writev(via, <<v, w>>, line)

Settings(via) ==
    \/ kind = "epoll" /\ \E on \in BOOLEAN, p \in Pointer : sys_epoll_ctl(via, on, p)
    \/ kind = "timer" /\ \E on \in BOOLEAN, p, q \in Pointer : sys_timerfd_settime(via, on, p, q)
    \/ kind = "sock" /\ \E p \in Pointer : sys_connect(via, p)
    \/ kind = "sock" /\ (sys_shutdown(via) \/ sys_setsockopt(via))
    \/ /\ kind \in {"file", "sock"}
       /\ \E on \in BOOLEAN, p \in Pointer :
             \/ sys_ioctl_fionbio(via, on, p)
             \/ sys_ioctl_bare(via, on)
             \/ \E in, out \in BOOLEAN : sys_ioctl_sized(via, on, in, out, p)

Questions(via) ==
    \/ \E p \in Pointer : sys_poll(via, p) \/ sys_futex(p)
    \/ \E p, q \in Pointer : sys_pselect6(via, p, q) \/ sys_getsockopt(via, p, q)
    \/ sys_fadvise64(via)

\* No call tells a copy of a socket, timer or epoll from the original.
Numbers == IF kind \in {"sock", "timer", "epoll"} THEN {"own"} ELSE Fds

Next ==
    \/ Arrive
    \/ \E made \in BOOLEAN : ConnectEnds(made)
    \/ \E via \in Numbers : Input(via) \/ Output(via) \/ Settings(via) \/ Questions(via)

Spec == Init /\ [][Next]_vars
-----------------------------------------------------------------------------
(***************************************************************************)
(* Properties.                                                             *)
(***************************************************************************)
TypeOK ==
    /\ kind \in Kinds /\ arch \in Archs
    /\ at \in Nat /\ len \in Nat /\ hostStdin \in Nat /\ ahead \in Nat
    /\ sent \in Seq(Nat) /\ waiting \in Seq(Nat)
    /\ host \subseteq Setting /\ believed \subseteq Setting
    /\ known \in Nat /\ counted \in Nat

\* Where the next read of the guest's own number really starts.
Position == IF kind = "stdin" /\ len = 0 THEN hostStdin - ahead ELSE at

\* An lseek of i386 that ends past what the register can tell: a seek by -1 lands
\* 4 GiB less one byte further on, and its result is cut to the one asked for.
LongSeek ==
    /\ arch = "x86" /\ last'.call = "lseek"
    /\ at' >= Word - MaxErrno \/ hostStdin' >= Word - MaxErrno

\* The guest's account of its position, kept from the results of read, recvfrom,
\* getdents64, epoll_wait, lseek, _llseek and write, follows the host's.  It is
\* broken in four ways only: a result that could not be copied out (its data is
\* lost, and the guest reads 0, an end of file), pread64 or an mmap of a listed
\* number, refused ones included, number 0 used beside its copies or sought (three different streams), and a
\* long lseek on i386, where every negative offset is one.
PositionIsKnown ==
    [][ \/ known' - known = Position' - Position
        \/ known' = Position'
        \/ last'.res.is = "Err"
        \/ last'.call \in {"pread64", "mmap"} /\ Listed(last'.via)
        \/ kind = "stdin" /\ (last'.via = "copy" \/ last'.call \in {"lseek", "_llseek"})
        \/ LongSeek ]_vars

\* What the guest was told was taken of its output is what the host has or
\* io::stdout() keeps: partial writes, short writes and errors of a later
\* buffer included.  Only a writev with a later buffer that cannot be read
\* writes data that is told to be none.
OutputIsCounted ==
    [][ \/ counted' - counted = Produced' - Produced
        \/ last'.call = "writev" /\ last'.res.is = "Err" ]_vars

InOrder(s) == \A i \in 1..(Len(s) - 1) : s[i] < s[i + 1]

\* The host gets the guest's output in the order it was written, except when
\* the guest writes to a copy of number 1 while io::stdout() keeps a line.
OutputIsInOrder ==
    [][InOrder(sent \o waiting) =>
           \/ InOrder(sent' \o waiting')
           \/ kind = "stdout" /\ last'.via = "copy" /\ waiting # <<>>]_vars

\* A setting the guest was told to have changed is changed, and one it was told
\* to have failed is not: a later connect, epoll_ctl, FIONBIO, other ioctl or
\* timerfd_settime does not meet a host in another state.  There are two
\* exceptions: a handler that left with Err before it asked the host, or a call
\* without a handler, reports a success that is none; and the end of a connect
\* that was in progress is told to nobody.
SuccessIsReal ==
    [][ \/ \A s \in Setting : (s \in believed) = (s \in host) =>
                                (s \in believed') = (s \in host')
        \/ last'.res.is = "Err" /\ UNCHANGED host
        \/ last'.call = "none" /\ "connecting" \in host ]_vars

\* A guest that reads an errno may try again: nothing was taken, moved, written
\* or set.  The exceptions are a pread64 or mmap of a listed number whose clone
\* was positioned but could not be read, a connect that the host goes on with,
\* and the long lseek of i386 whose result reads as an errno.
ErrnoMeansNothingHappened ==
    [][Register(arch, last'.res).is = "errno" =>
           \/ UNCHANGED <<input, output, host>>
           \/ last'.call \in {"pread64", "mmap"} /\ Listed(last'.via)
           \/ last'.call = "connect" /\ last'.res = Errno("EINPROGRESS")
           \/ LongSeek]_vars
=============================================================================
