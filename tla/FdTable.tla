------------------------------ MODULE FdTable ------------------------------
(***************************************************************************)
(* Descriptors: src/src/fs.rs (FD_TABLE) and the system calls of           *)
(* src/src/os/syscall/io.rs and network.rs that make, use and drop them.   *)
(*                                                                         *)
(* A guest's descriptor number is the host's.  FD_TABLE, one for all the   *)
(* emulators of the process, lists the numbers made by open, openat and a  *)
(* dup of a listed one, each with the File that owns it; sockets, epoll,   *)
(* timers and F_DUPFD make host descriptors the table does not list.  An   *)
(* emulator is a thread.  A call is split where it takes or drops the      *)
(* table's lock; what it does under the lock is one step, unless it can    *)
(* block there.                                                            *)
(***************************************************************************)
EXTENDS Integers

CONSTANTS
    Emulators,   \* emulators of the process, one thread each
    LastFd,      \* RLIMIT_NOFILE: the host's numbers are 0..LastFd
    Files,       \* open file descriptions of regular files,
    Pipes,       \*   of named pipes,
    Sockets,     \*   and of what the table never lists
    Careless,    \* whether guests pass numbers they do not hold
    Wide,        \* whether the upper half of an fd argument may be set
    None

Fd     == 3..LastFd      \* 0, 1 and 2 never enter the table
Object == Files \cup Pipes \cup Sockets

ASSUME ConstantsAssumption ==
    /\ LastFd \in Nat /\ LastFd >= 3
    /\ None \notin Object /\ None \notin Emulators
    /\ Files \cap Pipes = {} /\ Files \cap Sockets = {} /\ Pipes \cap Sockets = {}
    /\ Careless \in BOOLEAN /\ Wide \subseteq BOOLEAN

VARIABLES
    host,    \* the description each host descriptor refers to
    entry,   \* FdTable.files: the description each listed File was made for
    lock,    \* who holds the Mutex across a call that may block
    call,    \* the call each emulator is inside of
    held,    \* what each guest knows: its numbers, and what they opened
    inbox    \* emulators for whose pipes and sockets there is data

vars == <<host, entry, lock, call, held, inbox>>

Ops  == {"idle", "insert", "close", "read", "reading", "locked_read", "write", "writing", "locked_write"}
Call(op, fd, o) == [op |-> op, fd |-> fd, obj |-> o]
Idle == Call("idle", 3, None)

Init ==
    /\ host = [fd \in Fd |-> None]
    /\ entry = [fd \in Fd |-> None]
    /\ lock = None
    /\ call = [e \in Emulators |-> Idle]
    /\ held = [e \in Emulators |-> {}]
    /\ inbox = {}

-----------------------------------------------------------------------------
(***************************************************************************)
(* The host: a new descriptor is the lowest free number.                   *)
(***************************************************************************)
IsLowest(fd, free) == fd \in free /\ \A g \in free : fd <= g
Free(h) == {fd \in Fd : h[fd] = None}

\* A description nothing refers to any more, or a new one.
Fresh(o) ==
    /\ \A fd \in Fd : host[fd] # o /\ entry[fd] # o
    /\ \A e \in Emulators : call[e].obj # o /\ \A fd \in Fd : <<fd, o>> \notin held[e]

IsIdle(e) == call[e].op = "idle"
Goto(e, c) == call' = [call EXCEPT ![e] = c]
Learn(e, S) == held' = [held EXCEPT ![e] = @ \cup S]
MayName(e, fd) == Careless \/ \E o \in Object : <<fd, o>> \in held[e]

\* The table is asked for the 64-bit argument, libc for its lower half.
Listed(fd, wide) == entry[fd] # None /\ ~wide

-----------------------------------------------------------------------------
(***************************************************************************)
(* sys_open, sys_openat: the host's open, then the entry under the lock.   *)
(* The entry that was there, if any, is dropped, and its File closes the   *)
(* number it owns.                                                         *)
(***************************************************************************)
Open(e, o) ==
    /\ IsIdle(e) /\ o \in Files \cup Pipes /\ Fresh(o)
    /\ \E fd \in Fd :
           /\ IsLowest(fd, Free(host))
           /\ host' = [host EXCEPT ![fd] = o]
           /\ Goto(e, Call("insert", fd, o))
    /\ UNCHANGED <<entry, lock, held, inbox>>

InsertDropsFile(e) ==                                                       \* mutant
    LET fd == call[e].fd
        o  == call[e].obj
    IN  /\ call[e].op = "insert" /\ lock = None
        /\ entry' = [entry EXCEPT ![fd] = o]
        /\ host' = [host EXCEPT ![fd] = None]
        /\ Learn(e, {<<fd, o>>})
        /\ Goto(e, Idle)
        /\ UNCHANGED <<lock, inbox>>

Insert(e) ==
    LET fd == call[e].fd
        o  == call[e].obj
    IN  /\ call[e].op = "insert" /\ lock = None
        /\ entry' = [entry EXCEPT ![fd] = o]
        /\ host' = [host EXCEPT ![fd] = IF entry[fd] = None THEN @ ELSE None]
        /\ Learn(e, {<<fd, o>>})
        /\ Goto(e, Idle)
        /\ UNCHANGED <<lock, inbox>>

\* sys_dup of a listed number: try_clone under the lock, the entry under a
\* second locking.  A number that is not listed is EBADF.
Dup(e, fd) ==
    /\ IsIdle(e) /\ lock = None /\ MayName(e, fd)
    /\ entry[fd] # None /\ host[fd] # None
    /\ \E new \in Fd :
           /\ IsLowest(new, Free(host))
           /\ host' = [host EXCEPT ![new] = host[fd]]
           /\ Goto(e, Call("insert", new, host[fd]))
    /\ UNCHANGED <<entry, lock, held, inbox>>

\* fcntl(F_DUPFD) goes to the host alone: the table never hears of the copy.
FcntlDup(e, fd) ==
    /\ IsIdle(e) /\ MayName(e, fd) /\ host[fd] # None
    /\ \E new \in Fd :
           /\ IsLowest(new, Free(host))
           /\ host' = [host EXCEPT ![new] = host[fd]]
           /\ Learn(e, {<<new, host[fd]>>})
    /\ UNCHANGED <<entry, lock, call, inbox>>

-----------------------------------------------------------------------------
(***************************************************************************)
(* What the table never lists: socket, epoll_create1, timerfd_create, dup  *)
(* of 0, 1 or 2, and socketpair.  socketpair writes the two numbers to the *)
(* guest one by one; an Err of a write leaves both sockets open.           *)
(***************************************************************************)
Socket(e, o) ==
    /\ IsIdle(e) /\ o \in Sockets /\ Fresh(o)
    /\ \E fd \in Fd :
           /\ IsLowest(fd, Free(host))
           /\ host' = [host EXCEPT ![fd] = o]
           /\ Learn(e, {<<fd, o>>})
    /\ UNCHANGED <<entry, lock, call, inbox>>

Socketpair(e, o1, o2, written) ==
    /\ IsIdle(e) /\ {o1, o2} \subseteq Sockets /\ o1 # o2 /\ Fresh(o1) /\ Fresh(o2)
    /\ \E fd1, fd2 \in Fd :
           /\ IsLowest(fd1, Free(host)) /\ IsLowest(fd2, Free(host) \ {fd1})
           /\ host' = [host EXCEPT ![fd1] = o1, ![fd2] = o2]
           /\ Learn(e, CASE written = 0 -> {}
                         [] written = 1 -> {<<fd1, o1>>}
                         [] written = 2 -> {<<fd1, o1>>, <<fd2, o2>>})
    /\ UNCHANGED <<entry, lock, call, inbox>>

-----------------------------------------------------------------------------
(***************************************************************************)
(* sys_close: a listed number is closed by dropping its File, under the    *)
(* lock; any other by libc::close, after the lock was dropped.             *)
(***************************************************************************)
Forget(e, fd) == held' = [held EXCEPT ![e] = {h \in @ : h[1] # fd}]

CloseListedTwice(e, fd) ==                                                  \* mutant
    /\ entry' = [entry EXCEPT ![fd] = None]
    /\ host' = [host EXCEPT ![fd] = None]
    /\ Goto(e, Call("close", fd, None))

CloseKeepsEntry(e, fd) ==                                                   \* mutant
    /\ host' = [host EXCEPT ![fd] = None]
    /\ UNCHANGED <<entry, call>>

CloseListed(e, fd) ==
    /\ entry' = [entry EXCEPT ![fd] = None]
    /\ host' = [host EXCEPT ![fd] = None]
    /\ UNCHANGED call

Close(e, fd, wide) ==
    /\ IsIdle(e) /\ lock = None /\ MayName(e, fd)
    /\ Forget(e, fd)
    /\ IF Listed(fd, wide)
       THEN CloseListed(e, fd)
       ELSE Goto(e, Call("close", fd, None)) /\ UNCHANGED <<entry, host>>
    /\ UNCHANGED <<lock, inbox>>

HostCloseNothing(e) ==                                                      \* mutant
    /\ call[e].op = "close"
    /\ Goto(e, Idle)
    /\ UNCHANGED <<host, entry, lock, held, inbox>>

HostClose(e) ==
    /\ call[e].op = "close"
    /\ host' = [host EXCEPT ![call[e].fd] = None]
    /\ Goto(e, Idle)
    /\ UNCHANGED <<entry, lock, held, inbox>>

-----------------------------------------------------------------------------
(***************************************************************************)
(* sys_read: a listed File is read under the lock, any other number with   *)
(* libc::read after the lock was dropped.  A read of a pipe or a socket    *)
(* blocks until another emulator has written.                              *)
(***************************************************************************)
CanFinish(e, o) == o \in Files \/ e \in inbox
Consume(e, o)   == inbox' = IF o \in Files THEN inbox ELSE inbox \ {e}

ReadUnderLock(e, fd, wide) ==                                               \* mutant
    /\ host[fd] # None
    /\ lock' = e
    /\ Goto(e, Call("locked_read", fd, host[fd]))

ReadLookup(e, fd, wide) ==
    IF Listed(fd, wide)
    THEN /\ host[fd] # None
         /\ lock' = e
         /\ Goto(e, Call("locked_read", fd, host[fd]))
    ELSE /\ Goto(e, Call("read", fd, None))
         /\ UNCHANGED lock

Read(e, fd, wide) ==
    /\ IsIdle(e) /\ lock = None /\ MayName(e, fd)
    /\ ReadLookup(e, fd, wide)
    /\ UNCHANGED <<host, entry, held, inbox>>

LockedReadEnds(e) ==
    /\ call[e].op = "locked_read" /\ CanFinish(e, call[e].obj)
    /\ lock' = None
    /\ Consume(e, call[e].obj)
    /\ Goto(e, Idle)
    /\ UNCHANGED <<host, entry, held>>

HostRead(e) ==
    LET fd == call[e].fd
    IN  /\ call[e].op = "read"
        /\ Goto(e, IF host[fd] = None THEN Idle ELSE Call("reading", fd, host[fd]))
        /\ UNCHANGED <<host, entry, lock, held, inbox>>

HostReadEnds(e) ==
    /\ call[e].op = "reading" /\ CanFinish(e, call[e].obj)
    /\ Consume(e, call[e].obj)
    /\ Goto(e, Idle)
    /\ UNCHANGED <<host, entry, lock, held>>

(***************************************************************************)
(* sys_write, in the same two ways.  sys_writev keeps the lock through all *)
(* its writes, those with libc::write of a number that is not listed too.  *)
(* A write to a pipe or a socket blocks until earlier data has been read.  *)
(***************************************************************************)
Blocking == Pipes \cup Sockets
HasRoom(e, o) == o \notin Blocking \/ (Emulators \ {e}) \cap inbox = {}
Deliver(e, o) == inbox' = IF o \in Blocking THEN inbox \cup (Emulators \ {e}) ELSE inbox

LockedWrite(e, fd) ==
    /\ lock' = e
    /\ Goto(e, Call("locked_write", fd, host[fd]))

Write(e, fd, wide) ==
    /\ IsIdle(e) /\ lock = None /\ MayName(e, fd)
    /\ IF Listed(fd, wide)
       THEN LockedWrite(e, fd)
       ELSE Goto(e, Call("write", fd, None)) /\ UNCHANGED lock
    /\ UNCHANGED <<host, entry, held, inbox>>

Writev(e, fd) ==
    /\ IsIdle(e) /\ lock = None /\ MayName(e, fd)
    /\ LockedWrite(e, fd)
    /\ UNCHANGED <<host, entry, held, inbox>>

LockedWriteEnds(e) ==
    /\ call[e].op = "locked_write" /\ HasRoom(e, call[e].obj)
    /\ lock' = None
    /\ Deliver(e, call[e].obj)
    /\ Goto(e, Idle)
    /\ UNCHANGED <<host, entry, held>>

HostWrite(e) ==
    LET fd == call[e].fd
    IN  /\ call[e].op = "write"
        /\ Goto(e, IF host[fd] = None THEN Idle ELSE Call("writing", fd, host[fd]))
        /\ UNCHANGED <<host, entry, lock, held, inbox>>

HostWriteEnds(e) ==
    /\ call[e].op = "writing" /\ HasRoom(e, call[e].obj)
    /\ Deliver(e, call[e].obj)
    /\ Goto(e, Idle)
    /\ UNCHANGED <<host, entry, lock, held>>

\* ReusableEmulator::run_input: the next guest knows no descriptor, and the
\* restore leaves the table and the host's descriptors alone.
NewInput(e) ==
    /\ IsIdle(e)
    /\ held' = [held EXCEPT ![e] = {}]
    /\ UNCHANGED <<host, entry, lock, call, inbox>>

InCall(e) ==
    \/ Insert(e) \/ HostClose(e)
    \/ HostRead(e) \/ HostReadEnds(e) \/ LockedReadEnds(e)
    \/ HostWrite(e) \/ HostWriteEnds(e) \/ LockedWriteEnds(e)

Begin(e) ==
    \/ \E o \in Object : Open(e, o) \/ Socket(e, o)
    \/ \E o1, o2 \in Sockets, written \in 0..2 : Socketpair(e, o1, o2, written)
    \/ \E fd \in Fd : Dup(e, fd) \/ FcntlDup(e, fd) \/ Writev(e, fd)
    \/ \E fd \in Fd, wide \in Wide : Close(e, fd, wide) \/ Read(e, fd, wide) \/ Write(e, fd, wide)
    \/ NewInput(e)

Next == \E e \in Emulators : Begin(e) \/ InCall(e)

Spec == Init /\ [][Next]_vars

\* A call that can go on does: the thread runs, and the lock is free again
\* and again or else the call waits.
FairSpec == Spec /\ \A e \in Emulators : WF_vars(InCall(e))
-----------------------------------------------------------------------------
(***************************************************************************)
(* Properties.                                                             *)
(***************************************************************************)
TypeOK ==
    /\ host \in [Fd -> Object \cup {None}]
    /\ entry \in [Fd -> Object \cup {None}]
    /\ lock \in Emulators \cup {None}
    /\ call \in [Emulators -> [op : Ops, fd : Fd, obj : Object \cup {None}]]
    /\ held \in [Emulators -> SUBSET (Fd \X Object)]
    /\ inbox \subseteq Emulators

\* Entries whose number the host has closed or given to something else, be it
\* to a call that is about to insert it once more.
Stale == {fd \in Fd : /\ entry[fd] # None
                      /\ \/ host[fd] # entry[fd]
                         \/ \E e \in Emulators : call[e].op = "insert" /\ call[e].fd = fd}

\* A listed number is open and refers to the file it was listed for: open and
\* dup list it after the host made it, close drops both at once, and other
\* emulators' calls fall between.  (Guests that close only what they hold.)
EntriesAreTrue == Stale = {}

\* Numbers a guest holds that no longer refer to what it opened.
Dead == {h \in Emulators \X (Fd \X Object) : h[2] \in held[h[1]] /\ host[h[2][1]] # h[2][2]}

\* A guest's number refers to what it opened until that guest closes it, though
\* all emulators share the table and the host's numbers.  (Same guests.)
HandlesAreValid == \A e \in Emulators : \A h \in held[e] : host[h[1]] = h[2]

\* One guest may close, read and write any number, with any upper half.  An
\* entry goes stale only by libc::close of a listed number, the close whose
\* 64-bit argument was not found in the table.
StaleOnlyByHostClose ==
    [][Stale' \subseteq Stale \/ \E e \in Emulators : call[e].op = "close" /\ call'[e] = Idle]_vars

\* And a number the guest holds goes dead only where an entry was stale, when
\* the host hands the number out again and the old entry's File closes it.
DeadOnlyOverStale ==
    [][Dead' \subseteq Dead \/ Stale # {}]_vars

\* The open file a guest's call acts on.
Using(e) == IF call[e].op \in {"reading", "locked_read", "writing", "locked_write"}
            THEN call[e].obj ELSE None

Private == INSTANCE Descriptors WITH doing <- [e \in Emulators |-> Using(e)]

\* Each guest is served as if it had a table of its own: the locks, the host's
\* numbers and the two halves of a call implement that.  (Same guests.)
EachHasItsOwnTable == Private!Spec

\* Open host descriptors no guest knows of and no call is about to report.
Leaked ==
    {fd \in Fd : host[fd] # None /\ \A e \in Emulators :
        /\ \A o \in Object : <<fd, o>> \notin held[e]
        /\ ~(call[e].op \in {"insert", "close"} /\ call[e].fd = fd)}

\* A descriptor is leaked in two ways only: a socketpair whose result could not
\* be written to the guest, and the restart of a guest that had it open.
LeakOnlyByErrOrRestart ==
    [][ \/ Leaked' \subseteq Leaked
        \/ \E e \in Emulators :
              \/ NewInput(e)
              \/ \E o1, o2 \in Sockets, written \in {0, 1} : Socketpair(e, o1, o2, written)]_vars

\* The lock is never kept from the other emulators for ever, except by a read or
\* a write of a named pipe, or a writev to a socket: reads of sockets and copies,
\* and writes to them, block without it.
LockKeptOnlyByPipes ==
    \A e \in Emulators :
        (lock = e) ~> \/ lock # e
                      \/ call[e].obj \in Pipes
                      \/ call[e].op = "locked_write" /\ call[e].obj \in Sockets

\* Every input starts without open descriptors.
StartsWithoutFds ==
    [][\A e \in Emulators : NewInput(e) => \A fd \in Fd : host'[fd] = None]_vars
=============================================================================
