--------------------------- MODULE GuestIOProofs ---------------------------
(***************************************************************************)
(* Theorems about GuestIO: what the guest is told of its input, output and *)
(* settings, for any streams, counts, offsets and widths.                  *)
(*                                                                         *)
(* They are about guests that ask for less in a call than a register of    *)
(* i386 can tell from an errno: 4 GiB less 4095 bytes, both buffers of a   *)
(* writev together.  The host moves no more than 0x7ffff000 bytes at once, *)
(* whatever is asked.                                                      *)
(***************************************************************************)
EXTENDS GuestIO, SequenceTheorems, TLAPS

ShortTransfers == \A c \in Counts : 2 * c < Word - MaxErrno

-----------------------------------------------------------------------------
(***************************************************************************)
(* What the guest reads of a result.                                       *)
(***************************************************************************)
LEMMA Modulo ==
    ASSUME NEW v \in Nat
    PROVE  /\ v % Word \in Nat /\ v % Word <= v
           /\ v < Word => v % Word = v
BY WordAssumption

LEMMA SmallIsTold ==
    ASSUME NEW n \in Nat, n < Word - MaxErrno
    PROVE  Told(Ok(n)) /\ ToldOf(Ok(n)) = n /\ Register(arch, Ok(n)).is = "ok"
<1>1. n < Word /\ n % Word = n
  BY WordAssumption, Modulo
<1>. QED BY <1>1, WordAssumption DEF Told, ToldOf, Register, Register32, Register64, Ok

LEMMA FailureIsTold ==
    /\ Told(Err) /\ ToldOf(Err) = 0
    /\ \A e : ~Told(Errno(e)) /\ ToldOf(Errno(e)) = 0
<1>1. 0 % Word = 0 /\ 0 < Word - MaxErrno
  BY WordAssumption
<1>. QED
  BY <1>1 DEF Told, ToldOf, Register, Register32, Register64, Ok, Err, Errno

-----------------------------------------------------------------------------
(***************************************************************************)
(* The inductive invariant.  Only io::stdout() keeps data, and the guest's *)
(* output is numbered below what it has produced: what it writes next goes *)
(* after all of it.                                                        *)
(***************************************************************************)
OnlyStdoutWaits == kind # "stdout" => waiting = <<>>

Numbered ==
    /\ \A i \in 1..Len(sent) : sent[i] <= Produced
    /\ \A i \in 1..Len(waiting) : waiting[i] <= Produced

IOInv == TypeOK /\ OnlyStdoutWaits /\ Numbered

\* What the properties say of a step.
PositionStep ==
    \/ known' - known = Position' - Position
    \/ known' = Position'
    \/ last'.res.is = "Err"
    \/ last'.call \in {"pread64", "mmap"} /\ Listed(last'.via)
    \/ kind = "stdin" /\ (last'.via = "copy" \/ last'.call \in {"lseek", "_llseek"})
    \/ LongSeek

CountStep ==
    \/ counted' - counted = Produced' - Produced
    \/ last'.call = "writev" /\ last'.res.is = "Err"

OrderStep ==
    InOrder(sent \o waiting) =>
        \/ InOrder(sent' \o waiting')
        \/ kind = "stdout" /\ last'.via = "copy" /\ waiting # <<>>

SettingStep ==
    \/ \A s \in Setting : (s \in believed) = (s \in host) =>
                             (s \in believed') = (s \in host')
    \/ last'.res.is = "Err" /\ UNCHANGED host
    \/ last'.call = "none" /\ "connecting" \in host

ErrnoStep ==
    Register(arch, last'.res).is = "errno" =>
        \/ UNCHANGED <<input, output, host>>
        \/ last'.call \in {"pread64", "mmap"} /\ Listed(last'.via)
        \/ last'.call = "connect" /\ last'.res = Errno("EINPROGRESS")
        \/ LongSeek

Accounted == PositionStep /\ CountStep /\ OrderStep /\ SettingStep /\ ErrnoStep

LEMMA InitIO == Init => IOInv
<1>. SUFFICES ASSUME Init PROVE IOInv
  OBVIOUS
<1>1. <<>> \in Seq(Nat) /\ Len(<<>>) = 0
  BY EmptySeq
<1>. QED
  BY <1>1, StreamAssumption DEF Init, IOInv, TypeOK, OnlyStdoutWaits, Numbered, Setting

LEMMA OutputKept ==
    ASSUME IOInv, UNCHANGED <<kind, output>>
    PROVE  /\ OnlyStdoutWaits' /\ Numbered' /\ Produced' = Produced
           /\ sent' \in Seq(Nat) /\ waiting' \in Seq(Nat) /\ OrderStep
<1>1. UNCHANGED <<kind, sent, waiting>>
  BY DEF output
<1>. QED
  BY <1>1 DEF IOInv, TypeOK, OnlyStdoutWaits, Numbered, Produced, OrderStep, InOrder

\* A call that ends without effect.
LEMMA NothingStep ==
    ASSUME IOInv, NEW call, NEW via, NEW r, Nothing(call, via, r)
    PROVE  IOInv' /\ Accounted
<1>1. /\ UNCHANGED <<kind, arch, at, len, hostStdin, ahead, sent, waiting, host>>
      /\ UNCHANGED <<known, counted, believed, input, output>>
  BY DEF Nothing, Return, input, output, guest
<1>2. Position' = Position /\ known \in Int /\ Position \in Int /\ counted \in Int
  BY <1>1 DEF Position, IOInv, TypeOK
<1>3. IOInv'
  BY <1>1, OutputKept DEF IOInv, TypeOK
<1>4. PositionStep
  BY <1>1, <1>2 DEF PositionStep
<1>5. CountStep
  <2>1. Produced' = Produced /\ Produced \in Int
    BY <1>1, LenProperties DEF Produced, IOInv, TypeOK
  <2>. QED BY <2>1, <1>1, <1>2 DEF CountStep
<1>6. OrderStep
  BY <1>1, OutputKept
<1>7. SettingStep /\ ErrnoStep
  BY <1>1 DEF SettingStep, ErrnoStep
<1>. QED BY <1>3, <1>4, <1>5, <1>6, <1>7 DEF Accounted

\* A call of which the guest reads no errno that touches neither its output nor
\* the settings.
LEMMA QuietStep ==
    ASSUME IOInv, UNCHANGED <<kind, arch, output, host, counted, believed>>,
           at' \in Nat, len' \in Nat, hostStdin' \in Nat, ahead' \in Nat, known' \in Nat
    PROVE  IOInv' /\ CountStep /\ OrderStep /\ SettingStep
<1>1. IOInv'
  BY OutputKept DEF IOInv, TypeOK
<1>2. CountStep
  <2>1. Produced' = Produced /\ Produced \in Int /\ counted \in Int
    BY OutputKept, LenProperties DEF Produced, IOInv, TypeOK
  <2>. QED BY <2>1 DEF CountStep
<1>3. OrderStep
  BY OutputKept
<1>4. SettingStep
  BY DEF SettingStep
<1>. QED BY <1>1, <1>2, <1>3, <1>4

-----------------------------------------------------------------------------
(***************************************************************************)
(* Taking data.                                                            *)
(***************************************************************************)
LEMMA GaveStep ==
    ASSUME IOInv, NEW call, NEW via, NEW n \in Nat, NEW r,
           Gave(call, via, n, r),
           n < Word - MaxErrno, r = Ok(n) \/ r = Err,
           at' \in Nat, hostStdin' \in Nat, ahead' \in Nat,
           Position' - Position = n \/ (kind = "stdin" /\ via = "copy")
    PROVE  IOInv' /\ Accounted
<1>1. /\ UNCHANGED <<kind, arch, len, output, host, counted, believed>>
      /\ known' = known + ToldOf(r)
      /\ last' = [call |-> call, via |-> via, res |-> r]
  BY DEF Gave, Return
<1>2. /\ Told(r) /\ ToldOf(r) \in Nat
      /\ r = Ok(n) => ToldOf(r) = n
  BY SmallIsTold, FailureIsTold
<1>3. known \in Nat /\ known' \in Nat /\ len' \in Nat
  BY <1>1, <1>2 DEF IOInv, TypeOK
<1>4. IOInv' /\ CountStep /\ OrderStep /\ SettingStep
  BY <1>1, <1>3, QuietStep
<1>5. PositionStep
  <2>1. CASE r = Err
    BY <2>1, <1>1 DEF PositionStep, Err
  <2>2. CASE r = Ok(n)
    BY <2>2, <1>1, <1>2, <1>3 DEF PositionStep
  <2>. QED BY <2>1, <2>2
<1>6. ErrnoStep
  BY <1>1, <1>2 DEF ErrnoStep, Told, Register, Register32, Register64, Ok, Err
<1>. QED BY <1>4, <1>5, <1>6 DEF Accounted

LEMMA TakeStep ==
    ASSUME IOInv, NEW call, NEW via, NEW n \in Nat, NEW r,
           Take(call, via, n, r), n < Word - MaxErrno, r = Ok(n) \/ r = Err,
           kind = "stdin" => len > 0
    PROVE  IOInv' /\ Accounted
<1>1. Gave(call, via, n, r) /\ at' = at + n /\ UNCHANGED <<hostStdin, ahead, kind, len>>
  BY DEF Take, Gave, Return
<1>2. /\ at \in Nat /\ hostStdin \in Nat /\ ahead \in Nat
      /\ Position = at /\ Position' = at + n
  BY <1>1 DEF IOInv, TypeOK, Position
<1>. QED BY <1>1, <1>2, GaveStep

\* How much a call takes is bounded by what the guest asks for.
LEMMA AmountTaken ==
    ASSUME ShortTransfers, NEW count \in Counts, NEW from \in Nat, NEW to \in Nat
    PROVE  /\ Least(count, Left(from, to)) \in Nat
           /\ Least(count, Left(from, to)) <= count
           /\ Least(count, Left(from, to)) < Word - MaxErrno
BY StreamAssumption, WordAssumption DEF Least, Left, ShortTransfers

LEMMA CopiedResult ==
    ASSUME NEW n \in Nat, NEW buf
    PROVE  Copied(n, buf) = Ok(n) \/ Copied(n, buf) = Err
BY DEF Copied, Wrote

LEMMA ReadStep ==
    ASSUME IOInv, ShortTransfers, NEW via \in Fds, NEW count \in Counts, NEW buf \in Buffer,
           sys_read(via, count, buf)
    PROVE  IOInv' /\ Accounted
<1>1. CASE Nothing("read", via, Ok(0)) \/ Refused("read", via)
  BY <1>1, NothingStep DEF Refused
<1>2. CASE kind = "stdin" /\ via = "own" /\ ReadStdinData(count, buf)
  BY <1>2, TakeStep, AmountTaken, CopiedResult DEF ReadStdinData, IOInv, TypeOK
<1>3. CASE kind = "stdin" /\ via = "own" /\ ReadHostStdin(count, buf)
  <2>1. PICK more \in 0..Left(hostStdin, MaxLen) :
            /\ hostStdin' = hostStdin + more
            /\ ahead' = ahead + more - Least(count, ahead + more)
            /\ UNCHANGED at
            /\ Gave("read", "own", Least(count, ahead + more),
                    Copied(Least(count, ahead + more), buf))
    BY <1>3 DEF ReadHostStdin
  <2>2. /\ len = 0 /\ len' = 0 /\ kind = "stdin" /\ kind' = "stdin"
        /\ at \in Nat /\ hostStdin \in Nat /\ ahead \in Nat /\ more \in Nat
    BY <1>3, <2>1, StreamAssumption DEF ReadHostStdin, Gave, Return, IOInv, TypeOK, Left
  <2> DEFINE n == Least(count, ahead + more)
  <2>3. n \in Nat /\ n <= ahead + more /\ n < Word - MaxErrno
    BY <2>2, StreamAssumption, WordAssumption DEF Least, ShortTransfers
  <2>4. Position' - Position = n /\ ahead' \in Nat /\ hostStdin' \in Nat
    <3>. HIDE DEF n
    <3>1. hostStdin' = hostStdin + more /\ ahead' = ahead + more - n
      BY <2>1 DEF n
    <3>. QED BY <3>1, <2>2, <2>3 DEF Position
  <2>. QED
    <3>. HIDE DEF n
    <3>1. Gave("read", "own", n, Copied(n, buf)) /\ at' = at
      BY <2>1 DEF n
    <3>. QED BY <3>1, <2>2, <2>3, <2>4, GaveStep, CopiedResult
<1>4. CASE kind = "stdin" /\ via = "copy" /\ ReadCopyOfStdin(count, buf)
  <2> DEFINE n == Least(count, Left(hostStdin, MaxLen))
  <2>1. n \in Nat /\ n < Word - MaxErrno
    BY AmountTaken, StreamAssumption DEF IOInv, TypeOK
  <2>2. /\ hostStdin' = hostStdin + n /\ UNCHANGED <<at, ahead>>
        /\ Gave("read", "copy", n, Copied(n, buf))
    BY <1>4 DEF ReadCopyOfStdin
  <2>. HIDE DEF n
  <2>3. at' \in Nat /\ ahead' \in Nat /\ hostStdin' \in Nat
    BY <2>1, <2>2 DEF IOInv, TypeOK
  <2>. QED BY <1>4, <2>1, <2>2, <2>3, GaveStep, CopiedResult
<1>5. CASE ReadStream(via, count, buf)
  BY <1>5, TakeStep, AmountTaken, CopiedResult DEF ReadStream, IOInv, TypeOK
<1>. QED BY <1>1, <1>2, <1>3, <1>4, <1>5 DEF sys_read

LEMMA RecvfromStep ==
    ASSUME IOInv, ShortTransfers, NEW via \in Fds, NEW count \in Counts, NEW buf \in Buffer,
           NEW addr \in Pointer, sys_recvfrom(via, count, buf, addr)
    PROVE  IOInv' /\ Accounted
<1>1. CASE Refused("recvfrom", via)
  BY <1>1, NothingStep DEF Refused
<1>2. CASE ~Refused("recvfrom", via)
  <2> DEFINE n == Least(count, Left(at, len))
  <2>1. n \in Nat /\ n < Word - MaxErrno
    BY AmountTaken DEF IOInv, TypeOK
  <2>2. PICK r : (r = Ok(n) \/ r = Err) /\ kind = "sock" /\ Take("recvfrom", via, n, r)
    BY <1>2 DEF sys_recvfrom, Wrote
  <2>. HIDE DEF n
  <2>. QED BY <2>1, <2>2, TakeStep
<1>. QED BY <1>1, <1>2

LEMMA GetdentsStep ==
    ASSUME IOInv, ShortTransfers, NEW via \in Fds, NEW count \in Counts, NEW buf \in Buffer,
           sys_getdents64(via, count, buf)
    PROVE  IOInv' /\ Accounted
<1>0. count \in Nat
  BY StreamAssumption
<1>1. CASE count = 0
  BY <1>1, NothingStep DEF sys_getdents64
<1>2. CASE count > 0 /\ (~HasHostFd(via) \/ kind # "dir")
  BY <1>2, NothingStep DEF sys_getdents64
<1>3. CASE count > 0 /\ HasHostFd(via) /\ kind = "dir"
  <2>1. /\ kind = "dir"
        /\ Take("getdents64", via, Least(count, Left(at, len)),
                Copied(Least(count, Left(at, len)), buf))
    BY <1>3 DEF sys_getdents64
  <2>. QED BY <2>1, TakeStep, AmountTaken, CopiedResult DEF IOInv, TypeOK
<1>. QED BY <1>0, <1>1, <1>2, <1>3

LEMMA EpollWaitStep ==
    ASSUME IOInv, ShortTransfers, NEW via \in Fds, NEW count \in Counts, NEW buf \in Pointer,
           sys_epoll_wait(via, count, buf)
    PROVE  IOInv' /\ Accounted
<1>1. CASE count = 0 \/ buf = "null" \/ kind # "epoll"
  BY <1>1, NothingStep DEF sys_epoll_wait
<1>2. CASE ~(count = 0 \/ buf = "null" \/ kind # "epoll")
  <2>1. /\ kind = "epoll"
        /\ Take("epoll_wait", via, Least(count, Left(at, len)),
                Copied(Least(count, Left(at, len)), buf))
    BY <1>2 DEF sys_epoll_wait
  <2>. QED BY <2>1, TakeStep, AmountTaken, CopiedResult DEF IOInv, TypeOK
<1>. QED BY <1>1, <1>2

LEMMA ReadAtStep ==
    ASSUME IOInv, NEW call \in {"pread64", "mmap"}, NEW via, NEW off \in Nat, NEW n \in Nat,
           NEW r, ReadAt(call, via, off, n, r), Listed(via) \/ (kind # "stdin" /\ Told(r))
    PROVE  IOInv' /\ Accounted
<1>1. /\ last' = [call |-> call, via |-> via, res |-> r]
      /\ UNCHANGED <<kind, arch, len, hostStdin, ahead, output, host, known, counted, believed>>
      /\ at' = PreadLeaves(via, off, n)
  BY DEF ReadAt, Return, guest
<1>2. /\ at' \in Nat /\ len' \in Nat /\ hostStdin' \in Nat /\ ahead' \in Nat
      /\ known' \in Nat /\ at \in Nat
  BY <1>1 DEF IOInv, TypeOK, PreadLeaves
<1>3. IOInv' /\ CountStep /\ OrderStep /\ SettingStep
  BY <1>1, <1>2, QuietStep
<1>4. PositionStep /\ ErrnoStep
  <2>1. CASE Listed(via)
    BY <2>1, <1>1 DEF PositionStep, ErrnoStep, Listed
  <2>2. CASE ~Listed(via)
    <3>1. Position = at /\ Position' = at /\ Told(r)
      BY <1>1, <2>2 DEF Position, PreadLeaves
    <3>2. PositionStep
      BY <3>1, <1>1, <1>2 DEF PositionStep
    <3>3. ErrnoStep
      BY <3>1, <1>1 DEF ErrnoStep, Told
    <3>. QED BY <3>2, <3>3
  <2>. QED BY <2>1, <2>2
<1>. QED BY <1>3, <1>4 DEF Accounted

LEMMA Pread64Step ==
    ASSUME IOInv, ShortTransfers, NEW via \in Fds, NEW count \in Counts, NEW off \in {0, 1},
           NEW buf \in Buffer, sys_pread64(via, count, off, buf)
    PROVE  IOInv' /\ Accounted
<1> DEFINE n == Least(count, Left(off, len))
<1>1. CASE \E q : Nothing("pread64", via, q)
  BY <1>1, NothingStep
<1>2. CASE Unread("pread64", via, off)
  BY <1>2, ReadAtStep DEF Unread
<1>3. CASE kind = "file" /\ ReadAt("pread64", via, off, n, Copied(n, buf))
  <2>1. off \in Nat /\ len \in Nat
    BY DEF IOInv, TypeOK
  <2>2. n \in Nat /\ n < Word - MaxErrno
    BY <2>1, AmountTaken
  <2>. HIDE DEF n
  <2>3. Told(Copied(n, buf))
    BY <2>2, CopiedResult, SmallIsTold, FailureIsTold
  <2>. QED BY <1>3, <2>1, <2>2, <2>3, ReadAtStep
<1>. QED BY <1>1, <1>2, <1>3 DEF sys_pread64, Refused

LEMMA MmapStep ==
    ASSUME IOInv, ShortTransfers, NEW via \in Fds, NEW size \in Counts, NEW off \in {0, 1},
           sys_mmap(via, size, off)
    PROVE  IOInv' /\ Accounted
<1> DEFINE n == Least(size, Left(off, len))
<1>1. CASE \E q : Nothing("mmap", via, q)
  BY <1>1, NothingStep
<1>2. CASE Unread("mmap", via, off)
  BY <1>2, ReadAtStep DEF Unread
<1>3. CASE kind = "file" /\ ReadAt("mmap", via, off, n, Ok(0))
  <2>1. off \in Nat /\ len \in Nat
    BY DEF IOInv, TypeOK
  <2>2. n \in Nat
    BY <2>1, AmountTaken
  <2>. HIDE DEF n
  <2>3. Told(Ok(0))
    BY SmallIsTold, WordAssumption
  <2>. QED BY <1>3, <2>1, <2>2, <2>3, ReadAtStep
<1>. QED BY <1>1, <1>2, <1>3 DEF sys_mmap, map_file_bytes

-----------------------------------------------------------------------------
(***************************************************************************)
(* Seeking.                                                                *)
(***************************************************************************)
LEMMA SeekPlace ==
    ASSUME IOInv, NEW whence \in {"SET", "CUR", "END"}
    PROVE  SeekBase(whence) \in Nat
BY StreamAssumption DEF SeekBase, IOInv, TypeOK

\* A seek moves to `to`, and the guest takes `told` for its position.
LEMMA SeekStep ==
    ASSUME IOInv, NEW call \in {"lseek", "_llseek"}, NEW via \in Fds, NEW to \in Int,
           NEW r, NEW told \in Nat, seek_fd(call, via, to, r, told),
           \/ told = to /\ Register(arch, r).is # "errno"
           \/ r = Err
           \/ arch = "x86" /\ call = "lseek" /\ to >= Word - MaxErrno
    PROVE  IOInv' /\ Accounted
<1>1. CASE kind \notin {"stdin", "file", "dir"} \/ to < 0
  BY <1>1, NothingStep DEF seek_fd
<1>2. CASE kind \in {"stdin", "file", "dir"} /\ to >= 0
  <2>1. /\ SeekMoves(to) /\ known' = told
        /\ last' = [call |-> call, via |-> via, res |-> r]
        /\ UNCHANGED <<kind, arch, len, ahead, output, host, counted, believed>>
    <3>1. ~(kind \notin {"stdin", "file", "dir"} \/ to < 0)
      BY <1>2
    <3>2. /\ SeekMoves(to) /\ known' = told /\ Return(call, via, r)
          /\ UNCHANGED <<len, ahead, output, host, counted, believed>>
      BY <3>1 DEF seek_fd
    <3>. QED BY <3>2 DEF Return
  <2>2. /\ at' \in Nat /\ len' \in Nat /\ hostStdin' \in Nat /\ ahead' \in Nat
        /\ known' \in Nat
        /\ at' = to \/ hostStdin' = to
        /\ kind # "stdin" => at' = to
    BY <1>2, <2>1 DEF IOInv, TypeOK, SeekMoves
  <2>3. IOInv' /\ CountStep /\ OrderStep /\ SettingStep
    BY <2>1, <2>2, QuietStep
  <2>4. CASE told = to /\ Register(arch, r).is # "errno"
    <3>1. PositionStep
      BY <2>1, <2>2, <2>4 DEF PositionStep, Position
    <3>2. ErrnoStep
      BY <2>1, <2>4 DEF ErrnoStep
    <3>. QED BY <2>3, <3>1, <3>2 DEF Accounted
  <2>5. CASE r = Err
    <3>1. Register(arch, r).is # "errno"
      BY <2>5, FailureIsTold DEF Told
    <3>2. PositionStep /\ ErrnoStep
      BY <3>1, <2>1, <2>5 DEF PositionStep, ErrnoStep, Err
    <3>. QED BY <2>3, <3>2 DEF Accounted
  <2>6. CASE arch = "x86" /\ call = "lseek" /\ to >= Word - MaxErrno
    <3>1. LongSeek
      BY <2>1, <2>2, <2>6 DEF LongSeek
    <3>. QED BY <2>3, <3>1 DEF Accounted, PositionStep, ErrnoStep
  <2>. QED BY <2>4, <2>5, <2>6
<1>. QED BY <1>1, <1>2

LEMMA LseekStep ==
    ASSUME IOInv, NEW via \in Fds, NEW delta \in Deltas, NEW whence \in {"SET", "CUR", "END"},
           sys_lseek(via, delta, whence)
    PROVE  IOInv' /\ Accounted
<1> DEFINE to == SeekBase(whence) + Argument(arch, delta)
           told == IF Told(Ok(to)) THEN ToldOf(Ok(to)) ELSE known
<1>1. to \in Int /\ Word \in Nat \ {0} /\ MaxErrno \in Nat /\ known \in Nat
  BY SeekPlace, StreamAssumption, WordAssumption DEF Argument, IOInv, TypeOK
<1>2. seek_fd("lseek", via, to, Ok(to), told)
  BY DEF sys_lseek
<1>. HIDE DEF to
<1>3. CASE to < 0
  BY <1>2, <1>3, NothingStep DEF seek_fd
<1>4. CASE to >= 0 /\ (arch = "x86" => to < Word - MaxErrno)
  <2>1. Told(Ok(to)) /\ ToldOf(Ok(to)) = to
    BY <1>1, <1>4, SmallIsTold DEF Told, ToldOf, Register, Register64, Ok
  <2>2. told = to /\ Register(arch, Ok(to)).is # "errno"
    BY <2>1 DEF Told
  <2>. QED BY <1>1, <1>2, <1>4, <2>2, SeekStep
<1>5. CASE to >= 0 /\ arch = "x86" /\ to >= Word - MaxErrno
  <2>1. told \in Nat
    <3>1. to % Word \in Nat
      BY <1>1
    <3>2. Told(Ok(to)) => ToldOf(Ok(to)) = to % Word
      BY <1>5 DEF Told, ToldOf, Register, Register32, Ok, Errno
    <3>. QED BY <1>1, <3>1, <3>2
  <2>. QED BY <1>1, <1>2, <1>5, <2>1, SeekStep
<1>. QED BY <1>1, <1>3, <1>4, <1>5

LEMMA LlseekStep ==
    ASSUME IOInv, NEW via \in Fds, NEW delta \in Deltas, NEW whence \in {"SET", "CUR", "END"},
           NEW result \in Pointer, sys_llseek(via, delta, whence, result)
    PROVE  IOInv' /\ Accounted
<1> DEFINE to == SeekBase(whence) + delta
<1>1. to \in Int /\ known \in Nat
  BY SeekPlace, StreamAssumption DEF IOInv, TypeOK
<1>2. CASE result = "null"
  BY <1>2, NothingStep DEF sys_llseek
<1>3. CASE result = "bad"
  <2>1. seek_fd("_llseek", via, to, Err, known)
    BY <1>3 DEF sys_llseek
  <2>. QED BY <2>1, <1>1, SeekStep
<1>4. CASE result = "good"
  <2>1. seek_fd("_llseek", via, to, Ok(0), to)
    BY <1>4 DEF sys_llseek
  <2>2. Register(arch, Ok(0)).is # "errno"
    BY SmallIsTold, WordAssumption DEF Told
  <2>. HIDE DEF to
  <2>3. CASE to < 0
    BY <2>1, <2>3, NothingStep DEF seek_fd
  <2>4. CASE to >= 0
    BY <2>1, <2>2, <2>4, <1>1, SeekStep
  <2>. QED BY <1>1, <2>3, <2>4
<1>. QED BY <1>2, <1>3, <1>4 DEF Pointer

-----------------------------------------------------------------------------
(***************************************************************************)
(* Giving data.  What is written goes after everything written before it,  *)
(* unless it passes a line that io::stdout() keeps.                        *)
(***************************************************************************)
LEMMA RisesOn ==
    ASSUME NEW m \in Nat, NEW n \in Nat, NEW s, NEW t, NEW i \in 1..(m + n - 1),
           \A j \in 1..m : s[j] \in Nat /\ s[j] <= m,
           \A j \in 1..(m - 1) : s[j] < s[j + 1],
           \A j \in 1..m + n : t[j] = IF j <= m THEN s[j] ELSE j
    PROVE  t[i] < t[i + 1]
<1>1. CASE i < m
  <2>1. i \in 1..(m - 1) /\ t[i] = s[i] /\ t[i + 1] = s[i + 1]
    BY <1>1
  <2>. QED BY <2>1
<1>2. CASE i = m
  <2>1. t[i] = s[i] /\ t[i + 1] = i + 1 /\ s[i] \in Nat /\ s[i] <= i
    BY <1>2
  <2>. QED BY <2>1
<1>3. CASE i > m
  <2>1. t[i] = i /\ t[i + 1] = i + 1
    BY <1>3
  <2>. QED BY <2>1
<1>. QED BY <1>1, <1>2, <1>3

LEMMA OrderIsKept ==
    ASSUME NEW s \in Seq(Nat), NEW n \in Nat, InOrder(s),
           \A i \in 1..Len(s) : s[i] <= Len(s)
    PROVE  InOrder(s \o [i \in 1..n |-> Len(s) + i])
<1> DEFINE new == [i \in 1..n |-> Len(s) + i]
<1>1. new \in Seq(Nat) /\ Len(new) = n /\ Len(s) \in Nat
  BY LenProperties
<1>2. /\ s \o new \in Seq(Nat) /\ Len(s \o new) = Len(s) + n
      /\ \A i \in 1..Len(s) + n : (s \o new)[i] = IF i <= Len(s) THEN s[i] ELSE i
  BY <1>1, ConcatProperties
<1>3. \A i \in 1..Len(s) : s[i] \in Nat
  BY ElementOfSeq
<1>. HIDE DEF new
<1>4. ASSUME NEW i \in 1..(Len(s) + n - 1)
      PROVE  (s \o new)[i] < (s \o new)[i + 1]
  <2>1. \A j \in 1..(Len(s) - 1) : s[j] < s[j + 1]
    BY DEF InOrder
  <2>. QED BY <1>1, <1>2, <1>3, <1>4, <2>1, RisesOn
<1>5. InOrder(s \o new)
  BY <1>2, <1>4 DEF InOrder
<1>. QED BY <1>5 DEF new

LEMMA ConcatOfThree ==
    ASSUME NEW s \in Seq(Nat), NEW t \in Seq(Nat), NEW u \in Seq(Nat)
    PROVE  (s \o t) \o u = s \o (t \o u)
<1>. DEFINE Cat(p, q) == p \o q
<1>1. \A S : \A p, q, r \in Seq(S) : Cat(Cat(p, q), r) = Cat(p, Cat(q, r))
  BY ConcatAssociative
<1>. HIDE DEF Cat
<1>2. Cat(Cat(s, t), u) = Cat(s, Cat(t, u))
  BY <1>1
<1>. QED BY <1>2 DEF Cat

LEMMA NumbersAfter ==
    ASSUME NEW s \in Seq(Nat), NEW t \in Seq(Nat), NEW m \in Nat,
           \A i \in 1..Len(s) : s[i] <= m, \A i \in 1..Len(t) : t[i] = m + i
    PROVE  /\ s \o t \in Seq(Nat) /\ Len(s \o t) = Len(s) + Len(t)
           /\ \A i \in 1..Len(s \o t) : (s \o t)[i] <= m + Len(t)
<1>1. /\ s \o t \in Seq(Nat) /\ Len(s \o t) = Len(s) + Len(t)
      /\ \A i \in 1..Len(s) + Len(t) : (s \o t)[i] =
             IF i <= Len(s) THEN s[i] ELSE t[i - Len(s)]
  BY ConcatProperties
<1>2. Len(s) \in Nat /\ Len(t) \in Nat /\ \A i \in 1..Len(s) : s[i] \in Nat
  BY LenProperties, ElementOfSeq
<1>. QED
  <2>. SUFFICES ASSUME NEW i \in 1..Len(s) + Len(t) PROVE (s \o t)[i] <= m + Len(t)
    BY <1>1
  <2>1. CASE i <= Len(s)
    BY <2>1, <1>1, <1>2
  <2>2. CASE i > Len(s)
    <3> DEFINE k == i - Len(s)
    <3>1. k \in 1..Len(t) /\ ~(i <= Len(s))
      BY <2>2, <1>2
    <3>2. (s \o t)[i] = t[k]
      BY <3>1, <1>1
    <3>. HIDE DEF k
    <3>3. t[k] = m + k
      BY <3>1
    <3>. QED BY <3>1, <3>2, <3>3, <1>2
  <2>. QED BY <1>2, <2>1, <2>2

LEMMA NewIsNumbered ==
    ASSUME IOInv, NEW n \in Nat
    PROVE  /\ Produced \in Nat /\ New(n) \in Seq(Nat) /\ Len(New(n)) = n
           /\ \A i \in 1..n : New(n)[i] = Produced + i
<1>1. Produced \in Nat
  BY LenProperties DEF Produced, IOInv, TypeOK
<1>. QED BY <1>1, LenProperties DEF New

LEMMA PutStep ==
    ASSUME IOInv, NEW via \in Fds, NEW n \in Nat, NEW line \in BOOLEAN, Put(via, n, line),
           kind' = kind
    PROVE  /\ sent' \in Seq(Nat) /\ waiting' \in Seq(Nat)
           /\ Produced' = Produced + n /\ OnlyStdoutWaits' /\ Numbered'
           /\ at' \in Nat /\ len' \in Nat
           /\ at' = IF kind = "file" THEN at + n ELSE at
           /\ kind # "file" => len' = len
           /\ n = 0 => UNCHANGED <<at, len, sent, waiting>>
           /\ \/ UNCHANGED <<sent, waiting>>
              \/ sent' \o waiting' = (sent \o waiting) \o New(n)
              \/ kind = "stdout" /\ via = "copy" /\ waiting # <<>>
<1> DEFINE Amounts == /\ sent' \in Seq(Nat) /\ waiting' \in Seq(Nat)
                      /\ Produced' = Produced + n /\ OnlyStdoutWaits' /\ Numbered'
                      /\ at' \in Nat /\ len' \in Nat
                      /\ at' = IF kind = "file" THEN at + n ELSE at
                      /\ kind # "file" => len' = len
                      /\ n = 0 => UNCHANGED <<at, len, sent, waiting>>
           Order == \/ UNCHANGED <<sent, waiting>>
                    \/ sent' \o waiting' = (sent \o waiting) \o New(n)
                    \/ kind = "stdout" /\ via = "copy" /\ waiting # <<>>
<1>. SUFFICES Amounts /\ Order
  OBVIOUS
<1>. HIDE DEF Order
<1>1. /\ sent \in Seq(Nat) /\ waiting \in Seq(Nat) /\ at \in Nat /\ len \in Nat
      /\ kind # "stdout" => waiting = <<>>
      /\ \A i \in 1..Len(sent) : sent[i] <= Produced
      /\ \A i \in 1..Len(waiting) : waiting[i] <= Produced
  BY DEF IOInv, TypeOK, OnlyStdoutWaits, Numbered
<1>2. /\ Produced \in Nat /\ New(n) \in Seq(Nat) /\ Len(New(n)) = n
      /\ \A i \in 1..n : New(n)[i] = Produced + i
  BY NewIsNumbered
<1>3. /\ <<>> \in Seq(Nat) /\ Len(<<>>) = 0 /\ Len(sent) \in Nat /\ Len(waiting) \in Nat
      /\ Produced = Len(sent) + Len(waiting) /\ Produced' = Len(sent') + Len(waiting')
  BY <1>1, EmptySeq, LenProperties DEF Produced
<1>a. /\ \A i \in 1..Len(New(n)) : New(n)[i] = Produced + i
      /\ \A i \in 1..Len(sent) : sent[i] <= Produced + n
      /\ \A i \in 1..Len(waiting) : waiting[i] <= Produced + n
  <2>1. \A i \in 1..Len(sent) : sent[i] \in Nat
    BY <1>1, ElementOfSeq
  <2>2. \A i \in 1..Len(waiting) : waiting[i] \in Nat
    BY <1>1, ElementOfSeq
  <2>. QED BY <2>1, <2>2, <1>1, <1>2
<1>b. waiting = <<>> \/ kind = "stdout"
  BY <1>1
<1>4. CASE n = 0
  BY <1>1, <1>2, <1>3, <1>4 DEF Put, OnlyStdoutWaits, Numbered, Order
<1>5. CASE n > 0 /\ kind = "stdout" /\ via = "own" /\ line
  <2> DEFINE old == sent \o waiting
  <2>1. sent' = old \o New(n) /\ waiting' = <<>> /\ UNCHANGED <<at, len>>
    <3>1. sent' = sent \o waiting \o New(n) /\ waiting' = <<>> /\ UNCHANGED <<at, len>>
      BY <1>5 DEF Put
    <3>. QED BY <3>1
  <2>2. /\ old \in Seq(Nat) /\ Len(old) = Produced
        /\ \A i \in 1..Len(old) : old[i] <= Produced
    <3>1. /\ sent \o waiting \in Seq(Nat) /\ Len(sent \o waiting) = Len(sent) + Len(waiting)
          /\ \A i \in 1..Len(sent) + Len(waiting) : (sent \o waiting)[i] =
                 IF i <= Len(sent) THEN sent[i] ELSE waiting[i - Len(sent)]
      BY <1>1, ConcatProperties
    <3>. QED BY <3>1, <1>1, <1>3
  <2>. HIDE DEF old
  <2>3. /\ sent' \in Seq(Nat) /\ Len(sent') = Produced + n
        /\ \A i \in 1..Len(sent') : sent'[i] <= Produced + n
    BY <2>1, <2>2, <1>2, <1>a, NumbersAfter
  <2>4. sent' \o waiting' = (sent \o waiting) \o New(n)
    <3>1. sent' \o <<>> = sent'
      BY <2>3, ConcatEmptySeq
    <3>2. sent' = (sent \o waiting) \o New(n) /\ waiting' = <<>>
      BY <2>1 DEF old
    <3>. QED BY <3>1, <3>2
  <2>5. Order
    BY <2>4 DEF Order
  <2>6. Produced' = Produced + n /\ UNCHANGED <<at, len, kind>>
    BY <2>1, <2>3, <1>3
  <2>. QED BY <2>1, <2>3, <2>5, <2>6, <1>1, <1>3, <1>5 DEF OnlyStdoutWaits, Numbered
<1>6. CASE n > 0 /\ kind = "stdout" /\ via = "own" /\ ~line
  <2>1. waiting' = waiting \o New(n) /\ UNCHANGED <<sent, at, len>>
    BY <1>6 DEF Put
  <2>2. /\ waiting' \in Seq(Nat) /\ Len(waiting') = Len(waiting) + n
        /\ \A i \in 1..Len(waiting') : waiting'[i] <= Produced + n
    BY <2>1, <1>1, <1>2, <1>a, NumbersAfter
  <2>3. Produced' = Produced + n
    BY <2>1, <2>2, <1>3
  <2>4. Numbered'
    BY <2>1, <2>2, <2>3, <1>a DEF Numbered
  <2>5. sent' \o waiting' = (sent \o waiting) \o New(n)
    <3>. DEFINE new == New(n)
    <3>1. sent \in Seq(Nat) /\ waiting \in Seq(Nat) /\ new \in Seq(Nat)
      BY <1>1, <1>2
    <3>2. waiting' = waiting \o new /\ sent' = sent
      BY <2>1
    <3>. HIDE DEF new
    <3>3. (sent \o waiting) \o new = sent \o (waiting \o new)
      BY <3>1, ConcatOfThree
    <3>4. sent' \o waiting' = (sent \o waiting) \o new
      BY <3>2, <3>3
    <3>. QED BY <3>4 DEF new
  <2>6. Order
    BY <2>5 DEF Order
  <2>. QED BY <2>1, <2>2, <2>3, <2>4, <2>6, <1>1, <1>6 DEF OnlyStdoutWaits
<1>7. CASE n > 0 /\ ~(kind = "stdout" /\ via = "own")
  <2>1. /\ sent' = sent \o New(n) /\ waiting' = waiting
        /\ at' = IF kind = "file" THEN at + n ELSE at
        /\ kind # "file" => len' = len
        /\ kind = "file" => len' = IF len < at + n THEN at + n ELSE len
    BY <1>7 DEF Put
  <2>2. /\ sent' \in Seq(Nat) /\ Len(sent') = Len(sent) + n
        /\ \A i \in 1..Len(sent') : sent'[i] <= Produced + n
    BY <2>1, <1>1, <1>2, <1>a, NumbersAfter
  <2>3. Produced' = Produced + n
    BY <2>1, <2>2, <1>3
  <2>4. Numbered'
    BY <2>1, <2>2, <2>3, <1>a DEF Numbered
  <2>5. waiting = <<>> => sent' \o waiting' = (sent \o waiting) \o New(n)
    BY <2>1, <2>2, <1>1, ConcatEmptySeq
  <2>6. at' \in Nat /\ len' \in Nat /\ OnlyStdoutWaits'
    BY <2>1, <1>1 DEF OnlyStdoutWaits
  <2>7. waiting = <<>> \/ (kind = "stdout" /\ via = "copy" /\ waiting # <<>>)
    <3>1. kind = "stdout" => via = "copy"
      BY <1>7 DEF Fds
    <3>2. CASE waiting = <<>>
      BY <3>2
    <3>3. CASE waiting # <<>>
      BY <3>1, <3>3, <1>b
    <3>. QED BY <3>2, <3>3
  <2>8. Order
    BY <2>5, <2>7 DEF Order
  <2>. QED BY <2>1, <2>2, <2>3, <2>4, <2>6, <2>8, <1>1, <1>7
<1>8. n = 0 \/ n > 0
  OBVIOUS
<1>. QED BY <1>4, <1>5, <1>6, <1>7, <1>8

LEMMA PutKeepsOrder ==
    ASSUME IOInv, NEW via \in Fds, NEW n \in Nat, NEW line \in BOOLEAN, Put(via, n, line),
           kind' = kind
    PROVE  InOrder(sent \o waiting) =>
               \/ InOrder(sent' \o waiting')
               \/ kind = "stdout" /\ via = "copy" /\ waiting # <<>>
<1> DEFINE old == sent \o waiting
<1>1. CASE UNCHANGED <<sent, waiting>>
  BY <1>1
<1>2. CASE sent' \o waiting' = old \o New(n)
  <2>1. /\ sent \in Seq(Nat) /\ waiting \in Seq(Nat)
        /\ \A i \in 1..Len(sent) : sent[i] <= Produced
        /\ \A i \in 1..Len(waiting) : waiting[i] <= Produced
    BY DEF IOInv, TypeOK, Numbered
  <2>2. /\ old \in Seq(Nat) /\ Len(old) = Produced
        /\ \A i \in 1..Len(old) : old[i] <= Produced
    <3>1. /\ old \in Seq(Nat) /\ Len(old) = Len(sent) + Len(waiting)
          /\ \A i \in 1..Len(sent) + Len(waiting) : old[i] =
                 IF i <= Len(sent) THEN sent[i] ELSE waiting[i - Len(sent)]
      BY <2>1, ConcatProperties
    <3>2. Len(sent) \in Nat /\ Len(waiting) \in Nat /\ Produced = Len(sent) + Len(waiting)
      BY <2>1, LenProperties DEF Produced
    <3>. HIDE DEF old
    <3>3. ASSUME NEW i \in 1..Len(old) PROVE old[i] <= Produced
      <4>1. CASE i <= Len(sent)
        <5>1. i \in 1..Len(sent) /\ old[i] = sent[i]
          BY <4>1, <3>1, <3>2
        <5>. QED BY <5>1, <2>1
      <4>2. CASE i > Len(sent)
        <5>1. i - Len(sent) \in 1..Len(waiting) /\ old[i] = waiting[i - Len(sent)]
          BY <4>2, <3>1, <3>2
        <5>. QED BY <5>1, <2>1
      <4>. QED BY <3>1, <3>2, <4>1, <4>2
    <3>. QED BY <3>1, <3>2, <3>3
  <2>. HIDE DEF old
  <2>3. InOrder(old) => InOrder(old \o [i \in 1..n |-> Len(old) + i])
    BY <2>2, OrderIsKept
  <2>4. InOrder(old) => InOrder(old \o New(n))
    BY <2>2, <2>3 DEF New
  <2>. QED BY <2>4, <1>2, Zenon DEF old
<1>3. CASE kind = "stdout" /\ via = "copy" /\ waiting # <<>>
  BY <1>3
<1>4. \/ UNCHANGED <<sent, waiting>>
      \/ sent' \o waiting' = old \o New(n)
      \/ kind = "stdout" /\ via = "copy" /\ waiting # <<>>
  BY PutStep
<1>. HIDE DEF old
<1>. QED BY <1>1, <1>2, <1>3, <1>4, Zenon

\* The guest is told what was put, an errno if nothing was, or, by writev, an Err.
LEMMA GiveStep ==
    ASSUME IOInv, NEW call, NEW via \in Fds, NEW n \in Nat, NEW line \in BOOLEAN, NEW r,
           Give(call, via, n, line, r), n < Word - MaxErrno,
           \/ r = Ok(n)
           \/ n = 0 /\ \E e : r = Errno(e)
           \/ call = "writev" /\ r = Err
    PROVE  IOInv' /\ Accounted
<1>1. /\ Put(via, n, line)
      /\ counted' = counted + ToldOf(r)
      /\ known' = IF kind = "file" THEN known + ToldOf(r) ELSE known
      /\ last' = [call |-> call, via |-> via, res |-> r]
      /\ UNCHANGED <<kind, arch, hostStdin, ahead, host, believed>>
  BY DEF Give, Return
<1>2. /\ sent' \in Seq(Nat) /\ waiting' \in Seq(Nat)
      /\ Produced' = Produced + n /\ OnlyStdoutWaits' /\ Numbered'
      /\ at' \in Nat /\ len' \in Nat
      /\ at' = IF kind = "file" THEN at + n ELSE at
      /\ kind # "file" => len' = len
      /\ n = 0 => UNCHANGED <<at, len, sent, waiting>>
  BY <1>1, PutStep
<1>3. ToldOf(r) \in Nat /\ (r = Err \/ ToldOf(r) = n)
  BY SmallIsTold, FailureIsTold
<1>4. /\ counted \in Nat /\ known \in Nat /\ at \in Nat /\ hostStdin \in Nat /\ ahead \in Nat
      /\ Produced \in Nat
  BY LenProperties DEF IOInv, TypeOK, Produced
<1>5. IOInv'
  <2>1. counted' \in Nat /\ known' \in Nat
    BY <1>1, <1>3, <1>4
  <2>2. TypeOK'
    BY <1>1, <1>2, <2>1 DEF IOInv, TypeOK
  <2>. QED BY <1>2, <2>2 DEF IOInv
<1>6. CountStep
  <2>1. CASE r = Err
    <3>1. call = "writev"
      BY <2>1 DEF Ok, Err, Errno
    <3>. QED BY <3>1, <2>1, <1>1 DEF CountStep, Err
  <2>2. CASE ToldOf(r) = n
    BY <2>2, <1>1, <1>2, <1>4 DEF CountStep
  <2>. QED BY <1>3, <2>1, <2>2
<1>7. PositionStep
  <2>1. CASE r = Err
    BY <2>1, <1>1 DEF PositionStep, Err
  <2>2. CASE ToldOf(r) = n /\ kind = "file"
    <3>1. Position = at /\ Position' = at + n /\ known' = known + n
      BY <2>2, <1>1, <1>2 DEF Position
    <3>. QED BY <3>1, <1>4 DEF PositionStep
  <2>3. CASE kind # "file"
    <3>1. Position' = Position /\ known' = known /\ Position \in Int
      BY <2>3, <1>1, <1>2, <1>4 DEF Position
    <3>. QED BY <3>1, <1>4 DEF PositionStep
  <2>. QED BY <1>3, <2>1, <2>2, <2>3
<1>8. OrderStep
  BY <1>1, PutKeepsOrder DEF OrderStep
<1>9. SettingStep
  BY <1>1 DEF SettingStep
<1>10. ErrnoStep
  <2>1. CASE n = 0
    BY <2>1, <1>1, <1>2 DEF ErrnoStep, input, output
  <2>2. CASE r = Ok(n) \/ r = Err
    <3>1. Told(r)
      BY <2>2, SmallIsTold, FailureIsTold
    <3>. QED BY <3>1, <1>1 DEF ErrnoStep, Told
  <2>. QED BY <2>1, <2>2
<1>. QED BY <1>5, <1>6, <1>7, <1>8, <1>9, <1>10 DEF Accounted

LEMMA WriteStep ==
    ASSUME IOInv, ShortTransfers, NEW via \in Fds, NEW count \in Counts, NEW buf \in Buffer,
           NEW line \in BOOLEAN, sys_write(via, count, buf, line)
    PROVE  IOInv' /\ Accounted
<1>1. CASE \E q : Nothing("write", via, q)
  BY <1>1, NothingStep
<1>2. CASE count > 0 /\ \E n \in Taken(via, count) : Give("write", via, n, line, Ok(n))
  <2>1. PICK n \in Taken(via, count) : Give("write", via, n, line, Ok(n))
    BY <1>2
  <2>2. n \in Nat /\ n < Word - MaxErrno
    BY <1>2, StreamAssumption, WordAssumption DEF Taken, ShortTransfers
  <2>. QED BY <2>1, <2>2, GiveStep
<1>. QED BY <1>1, <1>2 DEF sys_write, Refused

LEMMA SendtoStep ==
    ASSUME IOInv, ShortTransfers, NEW via \in Fds, NEW count \in Counts, NEW buf \in Buffer,
           NEW dest \in Pointer, sys_sendto(via, count, buf, dest)
    PROVE  IOInv' /\ Accounted
<1>1. CASE \E q : Nothing("sendto", via, q)
  BY <1>1, NothingStep
<1>2. CASE Give("sendto", via, count, FALSE, Ok(count))
  <2>1. count \in Nat /\ count < Word - MaxErrno
    BY StreamAssumption, WordAssumption DEF ShortTransfers
  <2>. QED BY <1>2, <2>1, GiveStep
<1>. QED BY <1>1, <1>2 DEF sys_sendto, Refused

LEMMA WritevStep ==
    ASSUME IOInv, ShortTransfers, NEW via \in Fds, NEW v \in Vector, NEW w \in Vector,
           NEW line \in BOOLEAN, sys_writev(via, <<v, w>>, line)
    PROVE  IOInv' /\ Accounted
<1> DEFINE iov == <<v, w>>
<1>0. /\ v.count \in Counts /\ w.count \in Counts /\ Counts \subseteq Nat
      /\ iov[1] = v /\ iov[2] = w /\ Len(iov) = 2
  BY StreamAssumption DEF Vector
<1>1. PICK k \in 0..2 :
        \/ Give("writev", via, Bytes(iov, k), line, Ok(Bytes(iov, k)))
        \/ Give("writev", via, Bytes(iov, k), line, Err)
        \/ Give("writev", via, Bytes(iov, k), line, WritevStops(Bytes(iov, k)))
        \/ /\ k < 2
           /\ \E n \in Taken(via, iov[k + 1].count) :
                 /\ n < iov[k + 1].count
                 /\ Give("writev", via, Bytes(iov, k) + n, line, Ok(Bytes(iov, k) + n))
  BY <1>0 DEF sys_writev
<1>. HIDE DEF iov
<1>2. /\ Bytes(iov, k) \in Nat /\ Bytes(iov, k) < Word - MaxErrno
      /\ k < 2 => /\ iov[k + 1].count \in Nat
                  /\ Bytes(iov, k) + iov[k + 1].count < Word - MaxErrno
  <2>1. v.count \in Nat /\ w.count \in Nat
    BY <1>0
  <2>2. 2 * v.count < Word - MaxErrno /\ 2 * w.count < Word - MaxErrno
    BY <1>0 DEF ShortTransfers
  <2>3. /\ k = 0 => Bytes(iov, k) = 0 /\ iov[k + 1].count = v.count
        /\ k = 1 => Bytes(iov, k) = v.count /\ iov[k + 1].count = w.count
        /\ k = 2 => Bytes(iov, k) = v.count + w.count
    BY <1>0, <2>1 DEF Bytes
  <2>4. k = 0 \/ k = 1 \/ k = 2
    BY <1>1
  <2>. QED BY <2>1, <2>2, <2>3, <2>4, WordAssumption
<1> DEFINE total == Bytes(iov, k)
<1>3. CASE \E r : Give("writev", via, total, line, r) /\ r \in {Ok(total), Err, WritevStops(total)}
  <2>1. PICK r : Give("writev", via, total, line, r) /\ r \in {Ok(total), Err, WritevStops(total)}
    BY <1>3
  <2>2. r = Ok(total) \/ (total = 0 /\ \E e : r = Errno(e)) \/ r = Err
    BY <1>2, <2>1 DEF WritevStops
  <2>. HIDE DEF total
  <2>3. total \in Nat /\ total < Word - MaxErrno
    BY <1>2 DEF total
  <2>. QED BY <2>1, <2>2, <2>3, GiveStep
<1>4. CASE /\ k < 2
           /\ \E n \in Taken(via, iov[k + 1].count) :
                 n < iov[k + 1].count /\ Give("writev", via, total + n, line, Ok(total + n))
  <2>1. PICK n \in Taken(via, iov[k + 1].count) :
                 n < iov[k + 1].count /\ Give("writev", via, total + n, line, Ok(total + n))
    BY <1>4
  <2>2. n \in Nat
    BY <1>2, <1>4, <2>1 DEF Taken
  <2>3. total + n \in Nat /\ total + n < Word - MaxErrno
    BY <1>2, <1>4, <2>1, <2>2, WordAssumption
  <2>. HIDE DEF total
  <2>. QED BY <2>1, <2>3, GiveStep
<1>. QED BY <1>1, <1>3, <1>4

-----------------------------------------------------------------------------
(***************************************************************************)
(* Settings, questions and arrivals.                                       *)
(***************************************************************************)

\* A step that moves settings only keeps the accounts of input and output.
LEMMA SettingsMove ==
    ASSUME IOInv, UNCHANGED <<kind, arch, input, output, known, counted>>,
           host' \subseteq Setting, believed' \subseteq Setting
    PROVE  IOInv' /\ PositionStep /\ CountStep /\ OrderStep
<1>1. UNCHANGED <<at, len, hostStdin, ahead>>
  BY DEF input
<1>2. IOInv'
  BY <1>1, OutputKept DEF IOInv, TypeOK
<1>3. PositionStep
  <2>1. Position' = Position /\ Position \in Int /\ known \in Int
    BY <1>1 DEF Position, IOInv, TypeOK
  <2>. QED BY <2>1 DEF PositionStep
<1>4. CountStep
  <2>1. Produced' = Produced /\ Produced \in Int /\ counted \in Int
    BY OutputKept, LenProperties DEF Produced, IOInv, TypeOK
  <2>. QED BY <2>1 DEF CountStep
<1>. QED BY <1>2, <1>3, <1>4, OutputKept

\* What the host did the guest is told; what it was not asked ends with Err.
LEMMA SetStep ==
    ASSUME IOInv, NEW call, NEW via, NEW s \in Setting, NEW on \in BOOLEAN,
           NEW done \in BOOLEAN, NEW r,
           Set(call, via, s, on, done, r), Told(r), done \/ r = Err
    PROVE  IOInv' /\ Accounted
<1>1. /\ UNCHANGED <<kind, arch, input, output, known, counted>>
      /\ host' = IF done THEN Change(host, s, on) ELSE host
      /\ believed' = Change(believed, s, on)
      /\ last' = [call |-> call, via |-> via, res |-> r]
  BY DEF Set, Return
<1>2. IOInv' /\ PositionStep /\ CountStep /\ OrderStep
  <2>1. host' \subseteq Setting /\ believed' \subseteq Setting
    BY <1>1 DEF IOInv, TypeOK, Change
  <2>. QED BY <1>1, <2>1, SettingsMove
<1>3. SettingStep
  <2>1. CASE done
    BY <2>1, <1>1 DEF SettingStep, Change
  <2>2. CASE ~done /\ r = Err
    BY <2>2, <1>1 DEF SettingStep, Err
  <2>. QED BY <2>1, <2>2
<1>4. ErrnoStep
  BY <1>1 DEF ErrnoStep, Told
<1>. QED BY <1>2, <1>3, <1>4 DEF Accounted

\* EINPROGRESS tells the guest what it does.
LEMMA InProgressStep ==
    ASSUME IOInv, NEW via, InProgress(via)
    PROVE  IOInv' /\ Accounted
<1>1. /\ UNCHANGED <<kind, arch, input, output, known, counted>>
      /\ host' = host \cup {"connecting"} /\ believed' = believed \cup {"connecting"}
      /\ last' = [call |-> "connect", via |-> via, res |-> Errno("EINPROGRESS")]
  BY DEF InProgress, Return
<1>2. IOInv' /\ PositionStep /\ CountStep /\ OrderStep
  <2>1. host' \subseteq Setting /\ believed' \subseteq Setting
    BY <1>1 DEF IOInv, TypeOK, Setting
  <2>. QED BY <1>1, <2>1, SettingsMove
<1>3. SettingStep
  BY <1>1 DEF SettingStep
<1>4. ErrnoStep
  BY <1>1 DEF ErrnoStep
<1>. QED BY <1>2, <1>3, <1>4 DEF Accounted

\* The end of a connect in progress is no call.
LEMMA ConnectEndsStep ==
    ASSUME IOInv, NEW made \in BOOLEAN, ConnectEnds(made)
    PROVE  IOInv' /\ Accounted
<1>1. /\ UNCHANGED <<kind, arch, input, output, known, counted, believed>>
      /\ "connecting" \in host
      /\ host' = (host \ {"connecting"}) \cup (IF made THEN {"connected"} ELSE {})
      /\ last' = [call |-> "none", via |-> "own", res |-> Ok(0)]
  BY DEF ConnectEnds, guest
<1>2. IOInv' /\ PositionStep /\ CountStep /\ OrderStep
  <2>1. host' \subseteq Setting /\ believed' \subseteq Setting
    BY <1>1 DEF IOInv, TypeOK, Setting
  <2>. QED BY <1>1, <2>1, SettingsMove
<1>3. SettingStep
  BY <1>1 DEF SettingStep
<1>4. ErrnoStep
  <2>1. Told(Ok(0))
    BY SmallIsTold, WordAssumption
  <2>. QED BY <2>1, <1>1 DEF ErrnoStep, Told
<1>. QED BY <1>2, <1>3, <1>4 DEF Accounted

LEMMA AskStep ==
    ASSUME IOInv, NEW call, NEW via, NEW s \in Setting, NEW on \in BOOLEAN,
           NEW possible \in BOOLEAN, NEW r \in {Ok(0), Err}, Ask(call, via, s, on, possible, r)
    PROVE  IOInv' /\ Accounted
<1>1. CASE Refused(call, via)
  BY <1>1, NothingStep DEF Refused
<1>2. CASE Set(call, via, s, on, TRUE, r)
  <2>1. Told(r)
    BY SmallIsTold, FailureIsTold, WordAssumption
  <2>. QED BY <1>2, <2>1, SetStep
<1>. QED BY <1>1, <1>2 DEF Ask

LEMMA SettingsStep ==
    ASSUME IOInv, NEW via \in Fds, Settings(via)
    PROVE  IOInv' /\ Accounted
<1>0. /\ {"connected", "shut", "nonblock", "watched", "armed", "option"} \subseteq Setting
      /\ Told(Err) /\ TRUE \in BOOLEAN /\ FALSE \in BOOLEAN
  BY FailureIsTold DEF Setting
<1>1. ASSUME NEW on \in BOOLEAN, NEW p \in Pointer, kind = "epoll", sys_epoll_ctl(via, on, p)
      PROVE  IOInv' /\ Accounted
  <2>1. CASE p = "bad"
    BY <2>1, <1>0, <1>1, SetStep DEF sys_epoll_ctl
  <2>2. CASE p # "bad"
    <3>1. PICK possible \in BOOLEAN : Ask("epoll_ctl", via, "watched", on, possible, Ok(0))
      BY <2>2, <1>1 DEF sys_epoll_ctl
    <3>. QED BY <3>1, <1>0, AskStep
  <2>. QED BY <2>1, <2>2
<1>2. ASSUME NEW on \in BOOLEAN, NEW p \in Pointer, NEW q \in Pointer, kind = "timer",
             sys_timerfd_settime(via, on, p, q)
      PROVE  IOInv' /\ Accounted
  <2>1. CASE p = "null"
    BY <2>1, <1>2, NothingStep DEF sys_timerfd_settime
  <2>2. CASE p = "bad"
    BY <2>2, <1>0, <1>2, SetStep DEF sys_timerfd_settime
  <2>3. CASE p = "good"
    <3>. DEFINE r == Wrote({q}, Ok(0))
    <3>1. Ask("timerfd_settime", via, "armed", on, TRUE, r)
      BY <2>3, <1>2 DEF sys_timerfd_settime
    <3>2. r \in {Ok(0), Err}
      BY DEF Wrote
    <3>. HIDE DEF r
    <3>3. "armed" \in Setting /\ TRUE \in BOOLEAN
      BY <1>0
    <3>. QED BY <3>1, <3>2, <3>3, AskStep
  <2>. QED BY <2>1, <2>2, <2>3 DEF Pointer
<1>3. ASSUME NEW p \in Pointer, kind = "sock", sys_connect(via, p)
      PROVE  IOInv' /\ Accounted
  <2>1. CASE p = "null"
    BY <2>1, <1>3, NothingStep DEF sys_connect
  <2>2. CASE p = "bad"
    BY <2>2, <1>0, <1>3, SetStep DEF sys_connect
  <2>3. CASE p = "good"
    <3>1. CASE InProgress(via)
      BY <3>1, InProgressStep
    <3>2. ASSUME NEW possible \in BOOLEAN, Ask("connect", via, "connected", TRUE, possible, Ok(0))
          PROVE  IOInv' /\ Accounted
      BY <3>2, <1>0, AskStep
    <3>. QED BY <2>3, <1>3, <3>1, <3>2 DEF sys_connect
  <2>. QED BY <2>1, <2>2, <2>3 DEF Pointer
<1>4. CASE sys_shutdown(via)
  <2>1. Ask("shutdown", via, "shut", TRUE, kind = "sock", Ok(0))
    BY <1>4 DEF sys_shutdown
  <2>. QED BY <2>1, <1>0, AskStep
<1>5. CASE sys_setsockopt(via)
  BY <1>5, <1>0, SetStep DEF sys_setsockopt, Unimplemented
<1>6. ASSUME NEW on \in BOOLEAN, NEW p \in Pointer, sys_ioctl_fionbio(via, on, p)
      PROVE  IOInv' /\ Accounted
  <2>1. CASE ~HasHostFd(via)
    BY <2>1, <1>6, NothingStep DEF sys_ioctl_fionbio
  <2>2. CASE HasHostFd(via) /\ p = "null"
    BY <2>2, <1>6, NothingStep DEF sys_ioctl_fionbio
  <2>3. CASE HasHostFd(via) /\ p = "bad"
    BY <2>3, <1>0, <1>6, SetStep DEF sys_ioctl_fionbio
  <2>4. CASE HasHostFd(via) /\ p = "good"
    <3>1. Ask("ioctl", via, "nonblock", on, TRUE, Ok(0))
      BY <2>4, <1>6 DEF sys_ioctl_fionbio
    <3>. QED BY <3>1, <1>0, AskStep
  <2>. QED BY <2>1, <2>2, <2>3, <2>4 DEF Pointer
<1>7. ASSUME NEW on \in BOOLEAN, sys_ioctl_bare(via, on)
      PROVE  IOInv' /\ Accounted
  <2>1. CASE ~HasHostFd(via)
    BY <2>1, <1>7, NothingStep DEF sys_ioctl_bare
  <2>2. CASE HasHostFd(via)
    <3>1. Ask("ioctl", via, "option", on, TRUE, Ok(0))
      BY <2>2, <1>7 DEF sys_ioctl_bare
    <3>. QED BY <3>1, <1>0, AskStep
  <2>. QED BY <2>1, <2>2
<1>8. ASSUME NEW on \in BOOLEAN, NEW in \in BOOLEAN, NEW out \in BOOLEAN, NEW p \in Pointer,
             sys_ioctl_sized(via, on, in, out, p)
      PROVE  IOInv' /\ Accounted
  <2>1. CASE \E r : Nothing("ioctl", via, r)
    BY <2>1, NothingStep
  <2>2. CASE Set("ioctl", via, "option", on, FALSE, Err)
    BY <2>2, <1>0, SetStep
  <2>3. ASSUME NEW r \in {Ok(0), Err}, Set("ioctl", via, "option", on, TRUE, r)
        PROVE  IOInv' /\ Accounted
    <3>1. Told(r)
      BY SmallIsTold, FailureIsTold, WordAssumption
    <3>. QED BY <2>3, <3>1, <1>0, SetStep
  <2>4. (IF out THEN Wrote({p}, Ok(0)) ELSE Ok(0)) \in {Ok(0), Err}
    BY DEF Wrote
  <2>. QED BY <1>8, <2>1, <2>2, <2>3, <2>4 DEF sys_ioctl_sized, Refused
<1>. QED BY <1>1, <1>2, <1>3, <1>4, <1>5, <1>6, <1>7, <1>8 DEF Settings

LEMMA QuestionsStep ==
    ASSUME IOInv, NEW via \in Fds, Questions(via)
    PROVE  IOInv' /\ Accounted
<1>1. \E call, v, r : Nothing(call, v, r)
  <2>1. ASSUME NEW p \in Pointer, sys_poll(via, p) \/ sys_futex(p)
        PROVE  \E call, v, r : Nothing(call, v, r)
    BY <2>1 DEF sys_poll, sys_futex, Question, Refused
  <2>2. ASSUME NEW p \in Pointer, NEW q \in Pointer, sys_pselect6(via, p, q) \/ sys_getsockopt(via, p, q)
        PROVE  \E call, v, r : Nothing(call, v, r)
    BY <2>2 DEF sys_pselect6, sys_getsockopt, Question, Refused
  <2>3. CASE sys_fadvise64(via)
    BY <2>3 DEF sys_fadvise64, Question, Refused
  <2>. QED BY <2>1, <2>2, <2>3 DEF Questions
<1>. QED BY <1>1, NothingStep

LEMMA ArriveStep ==
    ASSUME IOInv, Arrive
    PROVE  IOInv' /\ Accounted
<1>1. /\ UNCHANGED <<kind, arch, at, hostStdin, ahead, output, host, known, counted, believed>>
      /\ kind \in {"sock", "timer", "epoll"} /\ len' = len + 1
      /\ last' = [call |-> "none", via |-> "own", res |-> Ok(0)]
  BY DEF Arrive, guest
<1>2. IOInv' /\ CountStep /\ OrderStep /\ SettingStep
  BY <1>1, QuietStep DEF IOInv, TypeOK
<1>3. PositionStep
  <2>1. Position = at /\ Position' = at /\ at \in Int /\ known \in Int
    BY <1>1 DEF Position, IOInv, TypeOK
  <2>. QED BY <2>1, <1>1 DEF PositionStep
<1>4. ErrnoStep
  <2>1. Told(Ok(0))
    BY SmallIsTold, WordAssumption
  <2>. QED BY <2>1, <1>1 DEF ErrnoStep, Told
<1>. QED BY <1>2, <1>3, <1>4 DEF Accounted

-----------------------------------------------------------------------------
(***************************************************************************)
(* Every step is accounted for.                                            *)
(***************************************************************************)
LEMMA InputStep ==
    ASSUME IOInv, ShortTransfers, NEW via \in Fds, Input(via)
    PROVE  IOInv' /\ Accounted
<1>1. ASSUME NEW count \in Counts, NEW buf \in Buffer,
             \/ sys_read(via, count, buf) \/ sys_getdents64(via, count, buf)
             \/ \E addr \in Pointer : sys_recvfrom(via, count, buf, addr)
             \/ \E off \in {0, 1} : sys_pread64(via, count, off, buf) \/ sys_mmap(via, count, off)
      PROVE  IOInv' /\ Accounted
  BY <1>1, ReadStep, GetdentsStep, RecvfromStep, Pread64Step, MmapStep
<1>2. ASSUME NEW count \in Counts, NEW buf \in Pointer, sys_epoll_wait(via, count, buf)
      PROVE  IOInv' /\ Accounted
  BY <1>2, EpollWaitStep
<1>3. ASSUME NEW d \in Deltas, NEW whence \in {"SET", "CUR", "END"},
             \/ sys_lseek(via, d, whence)
             \/ \E result \in Pointer : sys_llseek(via, d, whence, result)
      PROVE  IOInv' /\ Accounted
  BY <1>3, LseekStep, LlseekStep
<1>. QED BY <1>1, <1>2, <1>3 DEF Input

LEMMA OutputStep ==
    ASSUME IOInv, ShortTransfers, NEW via \in Fds, Output(via)
    PROVE  IOInv' /\ Accounted
BY WriteStep, SendtoStep, WritevStep DEF Output

LEMMA NextIO ==
    ASSUME IOInv, ShortTransfers, Next
    PROVE  IOInv' /\ Accounted
<1>1. \A via \in Numbers : via \in Fds
  BY DEF Numbers, Fds
<1>. QED
  BY <1>1, ArriveStep, ConnectEndsStep, InputStep, OutputStep, SettingsStep, QuestionsStep DEF Next

LEMMA StutterIO == ASSUME IOInv, UNCHANGED vars PROVE IOInv'
BY OutputKept DEF vars, input, output, guest, IOInv, TypeOK

\* The inductive invariant holds: types, the kept line, the numbers of the output.
THEOREM IOInvariance == ShortTransfers => (Spec => []IOInv)
<1>. SUFFICES ASSUME ShortTransfers PROVE Spec => []IOInv
  OBVIOUS
<1>1. IOInv /\ [Next]_vars => IOInv'
  BY NextIO, StutterIO
<1>. QED BY <1>1, InitIO, PTL DEF Spec

\* The guest's account of its position follows the host's, whatever the buffers,
\* seeks and short reads, but for the four ways PositionIsKnown names.
THEOREM PositionsAgree == ShortTransfers => (Spec => PositionIsKnown)
<1>. SUFFICES ASSUME ShortTransfers PROVE Spec => PositionIsKnown
  OBVIOUS
<1>1. IOInv /\ [Next]_vars => [PositionStep]_vars
  BY NextIO DEF Accounted
<1>. QED BY <1>1, IOInvariance, PTL DEF Spec, PositionIsKnown, PositionStep

\* The bytes the guest was told were written are those the host has or
\* io::stdout() keeps, but for a writev that ends with Err.
THEOREM OutputAddsUp == ShortTransfers => (Spec => OutputIsCounted)
<1>. SUFFICES ASSUME ShortTransfers PROVE Spec => OutputIsCounted
  OBVIOUS
<1>1. IOInv /\ [Next]_vars => [CountStep]_vars
  BY NextIO DEF Accounted
<1>. QED BY <1>1, IOInvariance, PTL DEF Spec, OutputIsCounted, CountStep

\* The host gets the output in the order it was written, unless a copy of
\* number 1 passes a line that io::stdout() keeps.
THEOREM OutputKeepsOrder == ShortTransfers => (Spec => OutputIsInOrder)
<1>. SUFFICES ASSUME ShortTransfers PROVE Spec => OutputIsInOrder
  OBVIOUS
<1>1. IOInv /\ [Next]_vars => [OrderStep]_vars
  BY NextIO DEF Accounted
<1>. QED BY <1>1, IOInvariance, PTL DEF Spec, OutputIsInOrder, OrderStep

\* What the guest believes of its settings the host has made true, but for the
\* handlers that leave with Err before they ask it, the calls without one, and
\* the end of a connect in progress.
THEOREM SettingsAgree == ShortTransfers => (Spec => SuccessIsReal)
<1>. SUFFICES ASSUME ShortTransfers PROVE Spec => SuccessIsReal
  OBVIOUS
<1>1. IOInv /\ [Next]_vars => [SettingStep]_vars
  BY NextIO DEF Accounted
<1>. QED BY <1>1, IOInvariance, PTL DEF Spec, SuccessIsReal, SettingStep

\* A guest that reads an errno finds everything as it was, but after a pread64 or
\* mmap of a listed number that could not be read, a connect in progress, or a
\* long lseek of i386.
THEOREM ErrnosAreHarmless == ShortTransfers => (Spec => ErrnoMeansNothingHappened)
<1>. SUFFICES ASSUME ShortTransfers PROVE Spec => ErrnoMeansNothingHappened
  OBVIOUS
<1>1. IOInv /\ [Next]_vars => [ErrnoStep]_vars
  BY NextIO DEF Accounted
<1>. QED BY <1>1, IOInvariance, PTL DEF Spec, ErrnoMeansNothingHappened, ErrnoStep
=============================================================================
