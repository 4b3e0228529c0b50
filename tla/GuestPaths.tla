----------------------------- MODULE GuestPaths -----------------------------
(***************************************************************************)
(* Names of files: the calls of src/src/os/syscall/io.rs that take a path, *)
(* and get_path_at of fs.rs, which turns a directory's number and a name   *)
(* into a path of the host below cfg.rootfs.                               *)
(*                                                                         *)
(* Linux resolves a name from the directory that a number holds.  The      *)
(* emulator resolves it from the path under which the number was opened,   *)
(* which FD_TABLE keeps, and from a current directory that is a path too.  *)
(* touched has the numbers whose kept path a rename went through.  Paths   *)
(* are sequences of names below cfg.rootfs, without symbolic links and     *)
(* without "..".  The answers go through Syscall's register.               *)
(***************************************************************************)
EXTENDS Syscall, SequencesExt

CONSTANTS
    Names, Dirs, Files,    \* names of entries, directories and other files
    Fds,                   \* numbers the host gives out
    Tree,                  \* what is below cfg.rootfs at first
    Cwd,                   \* the emulator's current directory, as a path below it
    Depth,                 \* longest name the guest passes
    MaxMoves,              \* bound on the renames and unlinks
    None                   \* no object, no path

Root == "rootfs"
HostCwd == "host's own current directory"
Program == "cfg.elf_file"
Objects == Dirs \cup Files
AT_FDCWD == -1
NoErrno == "0"
HostErrno == "host"

\* A directory is in one place at most.
IsTree(in) ==
    \A d, e \in Dirs \cup {Root}, m, n \in Names :
        in[d][m] = in[e][n] /\ in[d][m] \in Dirs => d = e /\ m = n

ASSUME PathAssumption ==
    /\ Fds \subseteq Nat /\ {Depth, MaxMoves} \subseteq Nat /\ Cwd \in Seq(Names)
    /\ Tree \in [Dirs \cup {Root} -> [Names -> Objects \cup {None}]] /\ IsTree(Tree)
    /\ Dirs \cap Files = {} /\ {None, Root} \cap Objects = {} /\ None # Root
    /\ None \notin Seq(Names)
    /\ Program \notin Names

VARIABLES
    tree,      \* the host's directories
    held,      \* host: what each number refers to
    files,     \* FD_TABLE: the path each listed number was opened under
    touched,   \* numbers (and AT_FDCWD) whose path a rename went through
    moves,     \* how many renames and unlinks there were
    errno,     \* the thread's errno: 0, or what the last failed host call set
    last       \* the last call: its kind, what it acted on, what was meant, answers

vars == <<tree, held, files, touched, moves, errno, last>>

Paths == UNION {[1..n -> Names] : n \in 0..Depth}
Dirfds == Fds \cup {AT_FDCWD}

\* A name the guest passes: absolute or relative, or the special link.
Name == [abs : BOOLEAN, path : Paths]
Exe  == [abs |-> TRUE, path |-> <<Program>>]

Init ==
    /\ tree = Tree
    /\ held = [fd \in Fds |-> None] /\ files = [fd \in Fds |-> None]
    /\ touched = {} /\ moves = 0 /\ errno = NoErrno
    /\ last = [call |-> "none", via |-> {}, did |-> <<>>, meant |-> <<>>,
               truth |-> Ok(0), res |-> Ok(0)]

(***************************************************************************)
(* The host's directories: what a path names, from where it starts.        *)
(***************************************************************************)
Entry(in, dir, n) == IF dir \in DOMAIN in /\ n \in Names THEN in[dir][n] ELSE None

\* Where a path leads from a directory, name by name.
Trail(in, from, path) ==
    LET at[i \in 0..Len(path)] == IF i = 0 THEN from ELSE Entry(in, at[i - 1], path[i])
    IN  at

Walk(in, from, path) == Trail(in, from, path)[Len(path)]
Find(path) == Walk(tree, Root, path)

Listed(fd) == files[fd] # None

\* get_path_at: an absolute name from cfg.rootfs, another from the path of the
\* number or of the current directory; None (no path) when FD_TABLE lacks it.
JoinsAbsolute(dirfd, name) ==                                               \* mutant
    CASE dirfd = AT_FDCWD                 -> Cwd \o name.path
      [] dirfd \in Fds /\ Listed(dirfd)   -> files[dirfd] \o name.path
      [] OTHER                            -> None

get_path_at(dirfd, name) ==
    CASE name.abs                                     -> name.path
      [] ~name.abs /\ dirfd = AT_FDCWD                -> Cwd \o name.path
      [] ~name.abs /\ dirfd \in Fds /\ Listed(dirfd)  -> files[dirfd] \o name.path
      [] OTHER                                        -> None

\* What the name stands for in Linux; an empty name stands for nothing.
NoName == "nothing"
Empty(name) == ~name.abs /\ name.path = <<>>
Directory(dirfd) ==
    IF dirfd = AT_FDCWD THEN Walk(Tree, Root, Cwd) ELSE held[dirfd]
Meant(dirfd, name) ==
    CASE name = Exe   -> Program
      [] Empty(name)  -> NoName
      [] OTHER        -> Walk(tree, IF name.abs THEN Root ELSE Directory(dirfd), name.path)
MeantParent(dirfd, name) ==
    IF name.path = <<>> THEN NoName
    ELSE Walk(tree, IF name.abs THEN Root ELSE Directory(dirfd), Front(name.path))
Via(dirfd, name) == IF name.abs THEN {} ELSE {dirfd}

-----------------------------------------------------------------------------
(***************************************************************************)
(* How calls end.  truth is what the handler found, res what it returns;   *)
(* what was acted on is kept when it is not what was meant.                *)
(***************************************************************************)
Ends(call, via, did, meant, truth, res) ==
    last' = IF did = meant
            THEN [call |-> call, via |-> {}, did |-> <<>>, meant |-> <<>>,
                  truth |-> truth, res |-> res]
            ELSE [call |-> call, via |-> via, did |-> did, meant |-> meant,
                  truth |-> truth, res |-> res]

last_errno == IF errno = NoErrno THEN Ok(0) ELSE Errno(errno)

SameNames == UNCHANGED <<tree, held, files, touched, moves>>

\* The handler ends the call: the name cannot be read, or has no path.
Rejects(call, truth, told) ==
    Ends(call, {}, <<>>, <<>>, truth, told) /\ SameNames /\ UNCHANGED errno

Unreadable(call) == Rejects(call, Err, Err)
NoPath(call, told) == Rejects(call, Errno("EBADF"), told)

HostRefuses(call) ==
    /\ errno' = HostErrno
    /\ Ends(call, {}, <<>>, <<>>, Errno(HostErrno), Errno(HostErrno))
    /\ SameNames

HostDoes(call, dirfd, name, object, res) ==
    /\ Ends(call, Via(dirfd, name), <<object>>, <<Meant(dirfd, name)>>, Ok(0), res)
    /\ UNCHANGED errno

HostDoesNumber(call, fd, object, res) ==
    /\ Ends(call, {}, <<object>>, <<Directory(fd)>>, Ok(0), res)
    /\ UNCHANGED errno

\* Calls that act on the object of a path.
OnPath(call, dirfd, name, Does(_)) ==
    LET path == get_path_at(dirfd, name)
    IN  /\ path # None
        /\ \/ HostRefuses(call)
           \/ Find(path) # None /\ Does(Find(path))

Answer(buf) == IF buf = "bad" THEN Err ELSE Ok(0)

Asks(call, dirfd, name, buf) ==
    OnPath(call, dirfd, name, LAMBDA object :
        HostDoes(call, dirfd, name, object, Answer(buf)) /\ SameNames)

-----------------------------------------------------------------------------
(***************************************************************************)
(* Numbers: open and openat, dup (listed), fcntl F_DUPFD (not), close.     *)
(***************************************************************************)
Free == {fd \in Fds : held[fd] = None}
Lowest == CHOOSE fd \in Free : \A other \in Free : fd <= other

Opened(fd, object, path) ==
    /\ held' = [held EXCEPT ![fd] = object]
    /\ files' = [files EXCEPT ![fd] = path]
    /\ UNCHANGED moves

\* The host creates a file that is in no directory and that no number holds.
Unused == {f \in Files : (\A d \in DOMAIN tree, n \in Names : tree[d][n] # f)
                         /\ (\A fd \in Fds : held[fd] # f)}
CanCreate(path) ==
    /\ path # <<>> /\ ToSet(path) \subseteq Names
    /\ Find(path) = None /\ Find(Front(path)) \in DOMAIN tree
Put(path, object) == [tree EXCEPT ![Find(Front(path))][Last(path)] = object]

OpensUnderName(dirfd, name, create) ==                                      \* mutant
    LET path == get_path_at(dirfd, name)
    IN  /\ path # None /\ Free # {} /\ Find(path) # None
        /\ Opened(Lowest, Find(path), name.path)
        /\ touched' = touched \ {Lowest}
        /\ HostDoes("change", dirfd, name, Find(path), Ok(Lowest)) /\ UNCHANGED tree

Opens(dirfd, name, create) ==
    LET path == get_path_at(dirfd, name)
    IN  /\ path # None /\ Free # {}
        /\ \/ /\ Find(path) # None
              /\ Opened(Lowest, Find(path), path)
              /\ HostDoes("change", dirfd, name, Find(path), Ok(Lowest)) /\ UNCHANGED tree
           \/ \E f \in Unused :
              /\ create /\ CanCreate(path)
              /\ tree' = Put(path, f)
              /\ Opened(Lowest, f, path)
              /\ Ends("change", Via(dirfd, name), <<Find(Front(path))>>,
                      <<MeantParent(dirfd, name)>>, Ok(0), Ok(Lowest))
              /\ UNCHANGED errno
        /\ touched' = touched \ {Lowest}

sys_openat(dirfd, name, create) ==
    \/ Unreadable("change")
    \/ get_path_at(dirfd, name) = None /\ NoPath("change", Errno("EBADF"))
    \/ get_path_at(dirfd, name) # None /\ HostRefuses("change")
    \/ Opens(dirfd, name, create)

sys_open(name, create) == sys_openat(AT_FDCWD, name, create)

sys_dup(fd) ==
    /\ Listed(fd) /\ Free # {}
    /\ Opened(Lowest, held[fd], files[fd])
    /\ touched' = IF fd \in touched THEN touched \cup {Lowest} ELSE touched \ {Lowest}
    /\ HostDoesNumber("change", fd, held[fd], Ok(Lowest)) /\ UNCHANGED tree

sys_fcntl_dupfd(fd) ==
    /\ held[fd] # None /\ Free # {}
    /\ Opened(Lowest, held[fd], None)
    /\ touched' = touched \ {Lowest}
    /\ HostDoesNumber("change", fd, held[fd], Ok(Lowest)) /\ UNCHANGED tree

sys_close(fd) ==
    /\ held[fd] # None
    /\ Opened(fd, None, None)
    /\ touched' = touched \ {fd}
    /\ HostDoesNumber("change", fd, held[fd], Ok(0)) /\ UNCHANGED tree

-----------------------------------------------------------------------------
(***************************************************************************)
(* Questions about a name, and about a number, which goes to the host as   *)
(* it is.                                                                  *)
(***************************************************************************)
sys_access(name) == Asks("ask", AT_FDCWD, name, "good")
sys_chmod(name) == Asks("ask", AT_FDCWD, name, "good")
sys_getxattr(name, buf) == Asks("ask", AT_FDCWD, name, buf)
sys_statfs(name, buf) == Asks("ask", AT_FDCWD, name, buf)

sys_statfs64(name, small, buf) ==
    IF ~small THEN Asks("ask", AT_FDCWD, name, buf)
    ELSE OnPath("ask", AT_FDCWD, name, LAMBDA object :
             Rejects("ask", Errno("EINVAL"), Errno("EINVAL")))

OfNumber(call, fd, object, buf) ==
    IF object = None THEN HostRefuses(call)
                     ELSE HostDoesNumber(call, fd, object, Answer(buf)) /\ SameNames

sys_fstat(fd, buf) == OfNumber("ask", fd, held[fd], buf)
sys_fgetxattr(fd, buf) == OfNumber("ask", fd, held[fd], buf)

\* stat_at and statx: an empty name with AT_EMPTY_PATH asks for the number.
AtEmptyPath(dirfd, buf) ==
    OfNumber("stat", dirfd, IF dirfd = AT_FDCWD THEN HostCwd ELSE held[dirfd], buf)

\* Without a path, stat_at leaves the answer to the thread's errno.
sys_newfstatat(dirfd, name, at_empty_path, buf) ==
    IF at_empty_path /\ Empty(name)
    THEN AtEmptyPath(dirfd, buf)
    ELSE \/ get_path_at(dirfd, name) = None /\ NoPath("stat", last_errno)
         \/ Asks("stat", dirfd, name, buf)

sys_stat(name, buf) == sys_newfstatat(AT_FDCWD, name, FALSE, buf)

sys_statx(dirfd, name, at_empty_path, buf) ==
    IF at_empty_path /\ Empty(name)
    THEN AtEmptyPath(dirfd, buf)
    ELSE \/ get_path_at(dirfd, name) = None /\ NoPath("ask", Errno("EBADF"))
         \/ Asks("ask", dirfd, name, buf)

\* readlink of /proc/self/exe is answered from cfg.elf_file.
ReadlinkTellsLastErrno(dirfd, name, buf) ==                                 \* mutant
    IF name = Exe
    THEN HostDoes("ask", dirfd, name, Program, Answer(buf)) /\ SameNames
    ELSE \/ get_path_at(dirfd, name) = None /\ NoPath("ask", last_errno)
         \/ Asks("ask", dirfd, name, buf)

sys_readlinkat(dirfd, name, buf) ==
    IF name = Exe
    THEN HostDoes("ask", dirfd, name, Program, Answer(buf)) /\ SameNames
    ELSE \/ get_path_at(dirfd, name) = None /\ NoPath("ask", Errno("EBADF"))
         \/ Asks("ask", dirfd, name, buf)

sys_readlink(name, buf) == sys_readlinkat(AT_FDCWD, name, buf)

-----------------------------------------------------------------------------
(***************************************************************************)
(* Changes of the tree.  A path is gone through when it, or a directory on *)
(* the way, is renamed, replaced or removed.                               *)
(***************************************************************************)
KeptPath(fd) == IF fd = AT_FDCWD THEN Cwd ELSE files[fd]
GoneThrough(path) == {fd \in Dirfds : KeptPath(fd) # None /\ IsPrefix(path, KeptPath(fd))}

Moves(paths) ==
    /\ moves < MaxMoves
    /\ moves' = moves + 1
    /\ touched' = touched \cup UNION {GoneThrough(path) : path \in paths}

sys_unlink(name) ==
    OnPath("change", AT_FDCWD, name, LAMBDA object :
        LET path == get_path_at(AT_FDCWD, name)
        IN  /\ object \in Files
            /\ tree' = Put(path, None)
            /\ Moves({path})
            /\ HostDoes("change", AT_FDCWD, name, object, Ok(0))
            /\ UNCHANGED <<held, files>>)

\* The host's renameat2, on two paths from its root (RENAME_NOREPLACE is only
\* refused more often).
Replaces(object, new) ==
    \/ {object, new} \subseteq Files
    \/ {object, new} \subseteq Dirs /\ \A n \in Names : tree[new][n] = None

HostRenames(object, flag, old, new) ==
    /\ old # <<>> /\ new # <<>> /\ ~IsPrefix(old, new)
    /\ Find(Front(new)) \in DOMAIN tree
    /\ \/ flag = "exchange" /\ Find(new) # None /\ ~IsPrefix(new, old)
       \/ flag = "none" /\ (Find(new) = None \/ Replaces(object, Find(new)))
    /\ tree' = [tree EXCEPT
          ![Find(Front(old))][Last(old)] = IF flag = "exchange" THEN Find(new) ELSE None,
          ![Find(Front(new))][Last(new)] = object]

\* Both names get their paths first; the host gets AT_FDCWD twice.
sys_renameat2(old_dfd, old, new_dfd, new, flag) ==
    LET from == get_path_at(old_dfd, old)
        to   == get_path_at(new_dfd, new)
    IN  \/ None \in {from, to} /\ NoPath("change", Errno("EBADF"))
        \/ None \notin {from, to} /\ HostRefuses("change")
        \/ /\ None \notin {from, to} /\ Find(from) # None
           /\ HostRenames(Find(from), flag, from, to)
           /\ Moves({from, to})
           /\ Ends("change", Via(old_dfd, old) \cup Via(new_dfd, new),
                   <<Find(from), Find(Front(to))>>,
                   <<Meant(old_dfd, old), MeantParent(new_dfd, new)>>, Ok(0), Ok(0))
           /\ UNCHANGED <<held, files, errno>>

sys_rename(old, new) == sys_renameat2(AT_FDCWD, old, AT_FDCWD, new, "none")

-----------------------------------------------------------------------------
Numbers ==
    \E fd \in Fds : sys_dup(fd) \/ sys_fcntl_dupfd(fd) \/ sys_close(fd)

\* Bounds of the model: a directory's number goes with a relative name, and
\* both names of a rename with the same one or with AT_FDCWD.
At(dirfd) == {name \in Name \cup {Exe} : name.abs => dirfd = AT_FDCWD}

Changes ==
    \E dirfd \in Dirfds : \E name \in At(dirfd) \ {Exe} :
        \/ dirfd = AT_FDCWD /\ sys_unlink(name)
        \/ \E create \in BOOLEAN : IF dirfd = AT_FDCWD THEN sys_open(name, create)
                                                      ELSE sys_openat(dirfd, name, create)
        \/ \E new_dfd \in {AT_FDCWD, dirfd}, flag \in {"none", "exchange"} :
           \E new \in At(new_dfd) \ {Exe} :
               IF dirfd = AT_FDCWD /\ flag = "none"
               THEN sys_rename(name, new)
               ELSE sys_renameat2(dirfd, name, new_dfd, new, flag)

Questions ==
    \E buf \in {"bad", "good"} :
       \/ \E fd \in Fds : sys_fstat(fd, buf) \/ sys_fgetxattr(fd, buf)
       \/ \E name \in At(AT_FDCWD) :
             \/ sys_access(name) \/ sys_chmod(name)
             \/ sys_getxattr(name, buf) \/ sys_statfs(name, buf) \/ sys_stat(name, buf)
             \/ sys_readlink(name, buf)
             \/ \E small \in BOOLEAN : sys_statfs64(name, small, buf)
       \/ \E dirfd \in Dirfds, at_empty_path \in BOOLEAN : \E name \in At(dirfd) :
             \/ sys_newfstatat(dirfd, name, at_empty_path, buf)
             \/ sys_statx(dirfd, name, at_empty_path, buf)
             \/ sys_readlinkat(dirfd, name, buf)

Next == Numbers \/ Changes \/ Questions

Spec == Init /\ [][Next]_vars
-----------------------------------------------------------------------------
(***************************************************************************)
(* Properties.                                                             *)
(***************************************************************************)
TypeOK ==
    /\ tree \in [Dirs \cup {Root} -> [Names -> Objects \cup {None}]]
    /\ held \in [Fds -> Objects \cup {Root, None}]
    /\ files \in [Fds -> Seq(Names) \cup {None}]
    /\ touched \subseteq Dirfds
    /\ errno \in {NoErrno, HostErrno}

\* The path FD_TABLE keeps for a number leads to what the number refers to, from
\* its open, through dup, closing and reuse of the number, and whatever is
\* created, removed or renamed elsewhere, until a rename or an unlink goes
\* through the path itself.  What is listed is held.
KeptPathIsTrue ==
    \A fd \in Fds : Listed(fd) => /\ held[fd] # None
                                  /\ fd \notin touched => Find(files[fd]) = held[fd]

\* A call acts on what its names stand for in Linux: seen from the directories
\* that the numbers hold, for both names of a rename.  The emulator acts on
\* something else in three cases only: a rename has gone through the kept path
\* of the directory (or through the current directory's), the name is empty,
\* or AT_EMPTY_PATH asks for AT_FDCWD, which is the host's own directory.
ActsOnWhatWasMeant ==
    [][ \/ last'.did = last'.meant
        \/ last'.via \cap touched # {}
        \/ NoName \in ToSet(last'.meant)
        \/ last'.did = <<HostCwd>> ]_vars

\* The guest is told what happened in this call.  Apart from an answer that
\* cannot be copied out (Err, read as 0), it is told otherwise only by the stat
\* family, for a directory number FD_TABLE lacks: there it reads the errno of
\* an earlier call of the thread, or a success while its buffer is as it was.
AnswerIsOfThisCall ==
    [][ \/ last'.res.is = "ok" /\ last'.truth.is = "ok"
        \/ last'.res = last'.truth
        \/ last'.res.is = "Err"
        \/ last'.call = "stat" /\ last'.truth = Errno("EBADF") /\ last'.res = last_errno ]_vars
=============================================================================
