# TLA+ models of valkyrie-rs

valkyrie-rs emulates one user-mode program (a raw blob or a Linux ELF file, x86
or x86_64) on the Unicorn CPU engine, answers its system calls itself, and can
run the same program over and over as a fuzzing target. This directory holds
TLA+ models of its logic, the TLC runs that check them and the theorems TLAPS
proves about them. `PROJECT.json` lists every run, which definition stands for
which lines of the source (`map`), and the hazards the properties are aimed at.
Paths below are relative to the repository's `src/`.

## 1. The system

| part | source | state it keeps | operations |
|---|---|---|---|
| Guest address space | `memory.rs`, `os/syscall/memory.rs` | `VMemory.regions`, the break; Unicorn's own page maps | `map`, `write`, `remove_range`; brk, mmap, mmap2, mprotect, munmap |
| Reusable emulator | `fuzzing.rs` | the snapshot; the coverage map | `new`, `run_input` (restore, then run) |
| Emulator lifecycle | `lib.rs`, `os/blob.rs`, `vtype.rs` | `Valkyrie` (state, exit status, crashed, traps, prepared range) | `run`, `prepare_initial_run`, `run_prepared`, error and exit handling |
| Hook dispatcher | `hook.rs` | `VCoreHooks`: ids, callbacks per kind, which dispatcher is installed | `hook_*`, `hook_del`, `clear_hooks`, dispatch |
| System call dispatch | `os/register_syscall.rs`, `arch/*` | the Unicorn hooks it installs; registers | `install_syscall_hook`, `handle_*_syscall` |
| Descriptors and files | `fs.rs`, `os/syscall/io.rs` | the global `FD_TABLE`; the host's descriptors | open, openat, dup, fcntl, close, read, write, ... |
| Sockets | `os/syscall/network.rs` | the host's descriptors | socket, socketpair, connect, sendto, ... |
| Process state | `os/syscall/common.rs` | signal actions and mask, prctl state, credentials | rt_sigaction, rt_sigprocmask, prctl, tgkill, exit, ... |
| Threads and TLS | `os/syscall/thread.rs` | GDT entries | set_thread_area, set_tid_address, ... |
| Linux runner | `os/linux.rs` | stack, auxv, TLS of a run | `prepare_execution`, `run` |
| Loaders | `loader/*` | the initial layout | `run` of the ELF and blob loaders |
| Configuration, helpers | `config.rs`, `common.rs`, `vstruct.rs`, `error.rs`, `logger.rs` | none of their own | parsing, alignment, byte layouts, logging |

A run goes through all of them. The loader maps the image, TLS, stack and heap
through `VMemory::map`. The Linux runner builds the stack and installs the
system call hook. Unicorn then executes; at a system call instruction the hook
calls the handler, which changes the address space, the descriptor table or the
process state, and writes the result register. Exit, a fault or a fatal signal
stops Unicorn and `run_prepared` classifies the end. `ReusableEmulator` wraps
the same run: it captures a snapshot after the preparation and restores it
before every input.

What is hard here is not concurrency inside one emulator, which is a single
thread. It is that most state exists twice and the copies can part: the region
table and Unicorn's maps, `FD_TABLE` and the host's descriptors, the snapshot
and the guest. It is failures half way through a handler (`?` after a first
effect). It is state that outlives a run: the break, descriptors, flags. And
`FD_TABLE` is one table for all emulators of the process, which may run in
different threads.

What makes each part correct:

- **Address space**: the table lists only mapped pages, without overlap; the
  decisions read off it (where mmap places, how far brk grows) are right for
  Unicorn too; a call that fails changes nothing.
- **Reusable emulator**: every input starts from the snapshot; its verdict and
  its coverage map are about this input only.
- **Lifecycle**: exit status, crash flag and trap belong to the run that ended;
  a guest's system calls are handled once.
- **Hooks**: a live hook fires once per event, a deleted one never.
- **Descriptors**: the number a guest holds names the same open file until the
  guest closes it; the table's entries are open.
- **Data and names**: what a guest can reckon from its results (its position,
  how much of its output was taken, what is set, which file a name means) is so.
- **Process state, TLS**: a query returns what the last successful set stored;
  slots are not shared; an answer is whole or not given.
- **Loaders, Linux runner**: the table is Unicorn's memory, the image reads as
  its file, stack and heap are apart, and a load fails only for a reason.

## 2. The modules

| module | models | composes with |
|---|---|---|
| `Layout` | loading and preparation, up to the first instruction | ends in what `AddressSpace` assumes |
| `AddressSpace` | the guest's memory calls | |
| `ReusableEmulator` | snapshot, restore, `run_input` | extends `AddressSpace` |
| `FdTable` | `FD_TABLE`, its lock and the host's numbers, several threads | implements `Descriptors` |
| `Descriptors` | the abstract specification: a private table per guest | |
| `Hooks` | `VCoreHooks` | |
| `Lifecycle` | the calls of `run` and their verdicts | |
| `Syscall` | registers, errno, a handler's `Err` | extended by the next three |
| `GuestIO` | data and settings of one descriptor | |
| `GuestPaths` | names, directories, the tree of files | |
| `GuestProcess` | signals, prctl, thread areas, coverage map, answers | |

`MC*` modules hold the instances for TLC, `*Proofs` the theorems of section 4:
`MemoryProofs` (of `AddressSpace` and `ReusableEmulator`), `FdTableProofs`,
`HooksProofs`, `LifecycleProofs`, `LayoutProofs`, `GuestIOProofs`,
`GuestPathsProofs` and `GuestProcessProofs`.

### AddressSpace
`memory.rs` and `os/syscall/memory.rs`. `regions` is `VMemory.regions` and `brk`
is `heap_addr_exit`; `mapped`, `perm` and `data` are Unicorn's side. One action
per system call and outcome: `Brk` (`BrkQuery`, `BrkRefused`, `BrkMove`,
`BrkGrow`), `MmapInvalid` and `Mmap`, `Mprotect`, `Munmap`, and the two ways a
page is written, `GuestStore` (checked by the CPU) and `HandlerWrite`
(`VMemory::write`, which no protection stops). `last` records the call, its
errno and its result; `"Err"` is a handler that returned `Err`, which the
dispatcher logs and turns into the result 0.

Addresses are page numbers, because every range is rounded to `PAGE_SIZE` before
it is used. An unaligned address is the argument `off` of the call. Contents are
one of four marks per page (zero, image, file, guest). The loop of
`next_mmap_addr` is replaced by its answer, the lowest gap of the table from the
break plus the guard gap on. `ForcedUnmap` is the `mem_unmap` of MAP_FIXED, whose
result the handler drops: it takes the whole range or, over a hole, nothing,
while the table always loses the range, also when the mapping that follows is
refused. Left out: the printing of mappings and
instructions.

### ReusableEmulator
`fuzzing.rs`, extending `AddressSpace`: the guest of each run takes
`AddressSpace` steps. `run_input` is a sequence of phases: `unmap` and `remap`
are the two loops of `restore_memory_layout`, `rewrite` the rest of
`restore_snapshot`, then the guest is `running` until `GuestStops`. Every
element of a loop is a step, and any step may fail, which ends `run_input` with
`Err` and the restore half done. A loop over a `Vec` takes its elements in any
order.

### FdTable and Descriptors
`fs.rs` and the calls of `io.rs` and `network.rs` that make, use and drop
descriptors. A guest's number is the host's. `host` is what each host number
refers to, `entry` the open `File`s of `FD_TABLE`, `held` what each guest has
been told. An emulator is a thread; a call is split where it takes or drops the
lock of the one table, so that others act between the host's open and the
table's insert, or between the table's remove and `libc::close`. `lock` is a
step of its own only for a read or write, which may block while it holds it.

`Descriptors` says what a guest may think of this: a table of its own. The
refinement mapping keeps `held` and replaces lock, entries and half-done calls
by the open file a guest's call acts on. The property `EachHasItsOwnTable` is
`Private!Spec`.

By default the guests are careful: they pass to close, read and write only
numbers they were given and have not closed, without anything in the upper half
of the argument. Otherwise one guest can close what another opened, since they
share the numbers: nothing checks whose a number is. `fd_wide` drops both
restrictions, for one guest.

### Hooks
`hook.rs`. `hooks` and `hook_fuc` are the maps of `VCoreHooks`, one for the
common and the address hooks together; `uc` is the set of dispatchers installed
in Unicorn. `Install` stands for the six `hook_*` functions, `Delete` for
`hook_del`, `Clear` for `clear_hooks`; the removal of a dispatcher may fail, and
`failures` remembers where it did. An event is dispatched in steps: Unicorn
enters the dispatchers that serve it (`Enter`), each walks its list (`SkipHook`,
`CallHook`, `Leave`), until one has handled a fault or all have been entered.
Unicorn's order among dispatchers is left open. `Without` is the `retain` of
`hook_del`: an id is given once, so that it drops one hook at most. A callback
changes no hook: none of the repository does, and it would be undefined
behaviour.

### Lifecycle
`lib.rs`, `os/blob.rs`, and as steps of a call `os/linux.rs`,
`install_syscall_hook`, `sys_exit`, `sys_tgkill` and `run_valkyrie`. `vk` is
`Valkyrie`'s fields, `machine` what lasts in Unicorn from call to call: the
stack pointer in words, whether `[tls]` is mapped, how many code hooks handle
system calls and traps. Each function on the way from `run` to `emu_start` is a
step that may return `Err`, and so are the last ones of `ReusableEmulator::new`,
the snapshot and the coverage hook; `last.why` is the step that failed. `[tls]`
can be mapped by the user beforehand and unmapped by the guest (`GuestMapsTls`) or,
between calls, by the user (`UserUnmapsTls`); `reopened` remembers that its place
was free when a preparation had been there. `story` is what the guest of this call
did. No code reads the two. A bare-metal guest keeps its stack balanced; its `ret` is
`GuestReturns`. What a restore of `run_input` does to memory is
`ReusableEmulator`; here it succeeds, with the saved stack pointer, or fails.

### Layout
`loader/elf.rs`, `loader/blob.rs`, the preparation in `os/linux.rs`, the exit
trap of `lib.rs` and the helpers of `common.rs`. An image is what the ELF crate
reads of a file: segments, allocated sections, an interpreter. Each segment is a
step (`MapSegment`), then the interpreter's (`StartInterp`), the stack and the
heap; the user may map a page of his own before the run (`UserMaps`: `mem` and
`uc` are public); `MapTls` and `setup_stack` prepare a Linux guest, `ExitTrap` a
bare-metal one. `setup_x86_entry_stub` is whether the stub an i386 guest starts in
can jump to the entry point: its own, the interpreter's or the one of the
configuration. The stub lies in the page of the GDT, and its bytes are not
modelled. `data` is word by word, so that overlaps of image, GDT, argv and
frame show. Additions wrap at `Space`, which stands for 2^64, as in a release
build; a debug build panics there. Left out: the protections of chunks, and an
i386 stack above 4 GB.

### Syscall
The registers between guest and handler. A handler's result is `Ok`, `Errno` or
`Err`; `Register` is what the guest reads of it: 0 for `Err` and for a number
without a handler, and on i386 the lower half, of which the top values read as
an errno. `Argument` is what a handler sees of a register: on i386 its content
zero-extended. `Word` and `MaxErrno` are 2^32 and 4095, scaled down.

### GuestIO
The calls of `io.rs` and `network.rs` that move data or settings through one
descriptor, whose kind never changes: number 0 with `stdin_data` or with
`io::stdin()` and its buffer, number 1 with the line buffer of `io::stdout()`, a
listed file or directory, and a socket, timer or epoll the table does not list.
A call names it by its own number or by a copy the table does not list. Beside
the state the guest keeps account of what it was told (`known`, `counted`,
`believed`); the properties compare the two. A pointer is null, unmapped or
mapped; data are counted, output is numbered in the order it was written. An
iovec has up to two buffers: one, and those after it. `ReadAt` is what pread64 and
a file mmap share: both seek a clone of the listed `File`, hence the file itself,
before a read that may be refused; the pages of the mmap are `AddressSpace`'s.
`sys_ioctl_sized` is a request whose size the number tells, `sys_ioctl_bare` one
without, whose argument goes to the host as it is; where that argument is a
pointer, the host reads or writes its own memory there, which is left out. A
connect that would wait leaves the socket `connecting`, and `ConnectEnds` is the
host's step that connects it later or gives it up.

### GuestPaths
The calls of `io.rs` that take names, with `get_path_at`. `tree` is the host's
directories below the root file system, `held` what a number refers to, `files`
the path `FD_TABLE` keeps for it. `last` has what a call acted on and what its
names mean in Linux, seen from the directories the numbers hold. What a path
leads to is a walk through the directories, name by name (`Trail`, `Walk`); a
directory is in one place at most (`IsTree`): hosts refuse hard links to
directories. `errno` is the thread's, which one handler reads after no host call
has failed. A process has one thread and one current directory here; `touched`
remembers which kept paths a rename has gone through.

### GuestProcess
`os/syscall/common.rs`, `thread.rs` and `arch_prctl`: the signal mask and
action, prctl's and arch_prctl's settings, the three thread areas of the GDT,
and the answers that are written piece by piece; and of `fuzzing.rs` the
coverage map with its `prev_loc` and what a restore brings back of the process.
The parts share no state, so that a behaviour uses the calls of one (`part`).
A stored action keeps the length it was set with, and `OldFits` is how that length
fits the buffer of the call that asks for it.
The exclusive or of `CoverageState` is the constant operator `ExclusiveOr`, of
which the model assumes only that it is a number; `MCGuestProcess` gives it the
bitwise one. The community module's is recursive, and no theorem could be stated
in a module that uses it.

## 3. The runs

| run | bounds | what it shows |
|---|---|---|
| `address_space` | 6 pages, a code page and a one-page heap, ranges of 0 to 2 pages, one address outside the space, file mappings that succeed, name no file or cannot be read | the table against Unicorn, that brk's limit and mmap's placement suffice, failed calls change nothing, where lost pages come from, when the table's protection is wrong |
| `reusable_emulator` | 5 pages, a code page and a two-page heap, any number of inputs | what a restore brings back, and which restore can fail |
| `fd_threads` | 2 emulators, 2 host numbers beside the standard three, a file, a pipe and two sockets | the refinement of `Descriptors` and true entries in every interleaving; what is leaked; when the table stays locked |
| `fd_wide` | 1 emulator, arguments with a set upper half | where an entry goes stale, and that a read through a dead one needs a stale one |
| `hooks` | 3 hooks, 4 kinds (two overlap on a fault) and address hooks, 2 addresses, the full range and a single address | each hook fires once and in order, faults are caught exactly by hooks, what a failed removal does |
| `lifecycle` | 5 calls, a stack of 4 words of which 2 above the start, Linux and bare metal | when a guest has one handler, the verdict is of this run, when a Valkyrie is used up |
| `layout` | 128 words of which a page has 4, images of up to two segments with or without an interpreter, raw code up to the end of the space, 42 configurations, an i386 jump of 18 words | the table is Unicorn's memory, guards, image, stack, and when a load fails |
| `guest_io` | 7 kinds of descriptor, counts 0 to 2, streams of 2 units, seeks by one unit, i386 and x86_64 | the guest's account of position, output and settings, and what an errno says |
| `guest_paths` | two directories and a file, two names, two numbers, names of length 0 and 1, one rename or unlink | kept paths are true, calls act on what was meant, answers are of this call |
| `guest_process` | sets of 0 to 2 units, 3 thread areas, a coverage map of 4 slots that saturate at 2, 4 blocks of which one is beyond the map, 4 per run | the guest's account of its process, areas are apart, coverage is of this run, answers are whole |
| `reset_memory` | as `reusable_emulator` | counterexample: what a restore does not bring back |
| `reset_fds` | as `fd_threads` with one emulator | counterexample: what an input leaves open |

The bounds are enough for the cases that matter: a region is split on both
sides only if it spans three pages, which the heap does after one brk or mmap
next to it; a hole inside a MAP_FIXED range needs a range of two; a lost page
needs one failed MAP_FIXED, and all later calls run with it. Two emulators and
two numbers let one emulator's open reuse the number the other is closing
while the second is held. Three hooks fill a list of two beside another kind's, or
three kinds. Five calls let a bare-metal guest use up its two spare words (the
third call fails) with calls before and after. Two segments of at most eight words
share a page, touch, leave a hole or come out of order; raw code near the end
makes stack, heap and trap wrap. A count of 2 on a stream of 2 units gives full,
short and empty reads, and two buffers of a writev give an error of the first or
of a later one. One rename moves the directory a number holds, swaps it with
another, or replaces it, while a second number is closed and reused. In
`guest_io`, `guest_paths` and `guest_process` the number of calls has no bound.
Fields that only grow are bounded in the guards: `MayRead`, `MaySeek` and
`MayWrite`, `MaxMoves`, `MaxTrace`, `MaxId` and `MaxCalls`.

Where `last` is only the record of the latest call, which no guard reads, the
`VIEW` of the cfg leaves it out of a state's identity: `address_space`,
`reusable_emulator`, `guest_io` and `guest_paths`. TLC still evaluates each
property on every step it takes, with the `last` of that step, and two states
that differ in `last` alone have the same steps.

Deadlock is checked except in the runs of `FdTable`, where all guests may wait
in reads of pipes and sockets without data, in `lifecycle`, where the calls
are bounded and a Valkyrie whose `new` failed is gone, and in `layout`, which
ends when the guest starts or the load has failed.

One run assumes weak fairness. In `fd_threads` every emulator that is inside of
a call goes on: each is a thread of the host. Which thread gets the lock is
left open, so that the one liveness claim, `LockKeptOnlyByPipes`, is about
the holder. That a call of `run` ends is not claimed: count and timeout are
unlimited by default, and neither ends a handler that waits for `FD_TABLE` or
for the host. The counterexamples are safety violations of action properties.

Some of what the runs show is not what a reader of one function expects:

- A Linux Valkyrie gets one more system call hook per `run()`. Two handle each
  system call twice. What prevents it is only that the second preparation fails at
  `[tls]`, which is mapped already: a tolerant `setup_tls_minimal` breaks
  `OneHandlerEach` (the property's mutant), and after a munmap of that page by the
  guest, which nothing refuses, the second `run()` succeeds with two handlers.
- A bare-metal Valkyrie can run a program that returns only as often as there
  are words in the 0x10 bytes above its first stack pointer
  (`FailsOnlyWhenUsedUp`): `run()` never resets the stack pointer.
- After a failed `clear_hooks` the hooks are silent but registered, and fire
  again when another of their kind is installed (`SilentOnlyAfterFailedClear`).
- A read or write of a named pipe, and a writev to a socket, keep the lock of
  `FD_TABLE` while they block, and with it every emulator's opens and closes
  (`LockKeptOnlyByPipes`).
- pread64 and a file mmap of a listed number move the position of the next read,
  since the cloned `File` shares it, also when the read is refused and the guest is
  told an errno; an i386 guest cannot seek backwards with lseek
  (`PositionIsKnown`, `ErrnoMeansNothingHappened`).
- EINPROGRESS of a connect is an errno with an effect to come: the socket may be
  connected later without a call (`SuccessIsReal`, `ErrnoMeansNothingHappened`).
- rt_sigaction tells the old action with the length it was stored with, past the
  end of a shorter buffer or short of a longer one's (`ProcessIsKnown`).
- Two segments that share a page make the load fail, and so does a page the user
  maps where `[tls]` will be, or an i386 entry point 2 GB from there
  (`FailsForAReason`). The stack pointer is aligned
  before the frame's length is known (`StackIsUsable`). An ELF section named
  `heap` is taken for the heap by brk (`LayoutIsSafe`).
- The stat calls answer an unlisted directory number with the errno of an earlier
  call, or with success and nothing written (`AnswerIsOfThisCall`).
- `set_thread_area` with a descriptor of zeros takes a slot, where Linux frees
  one (`ProcessIsKnown`, `AreasAreApart`).
- `clear_coverage` keeps `prev_loc`: a map cleared with it alone counts an edge
  from the end of the last run (`CoverageIsOfThisRun`).

These exceptions are part of the properties' statements, so that each property
says that there are no others.

The name of the test `basic_libafl_x86_64_reusable_runner_resets_between_inputs`
(`../tests/valkyrie-core/libafl.rs:91`) is the repository's statement behind the
two `reset_*` runs. The restore brings back the layout and the contents of
writable regions (`reusable_emulator`) and the process's settings
(`guest_process`), and not the break, the contents of read-only regions, or
pages the table has lost (`reset_memory`). After a partial munmap of the image it
fails for good. Descriptors are never closed (`reset_fds`).

## 4. What is proved

The theorems hold for every value of the constants that satisfies the modules'
named assumptions; further hypotheses are stated in the theorem. Together they
state 38 of the 39 properties of the passing runs; the other one is liveness.

### Memory
`MemoryProofs` is first about `AddressSpace`, for every layout, guard gap and
set of arguments, from `LayoutAssumption` and `GuestAssumption` (the loader's
regions are disjoint and inside the space, arguments are naturals):

- `Invariance`, `TypeCorrect`, `TableIsBacked`, `RegionsAreDisjoint`: the
  invariants `TypeOK`, `TableBacked`, `TableDisjoint` and `HeapAboveStart`.
- `PlacementNeedsNoUnicorn`: `TableIsEnough`, what brk and mmap read off the
  table is enough.
- `OrphansTraced`, `FailuresLoseNoPage`, `PlacementIsHarmless`,
  `OnlyMprotectDiverges`: the four action properties. A refused mmap keeps every
  page because Unicorn has none to keep: `RefusedMmap` shows that after an unmap
  that took the range the map over it cannot fail, so that one that failed had
  unmapped nothing.

The inductive invariant is the conjunction of the first four: each step
needs the others. That regions lie inside the space, without which a cut could
make a piece that is no `Region`, follows from `TableBacked`. The argument turns
on two lemmas: `CutTable`, about what `remove_range` leaves (a disjoint table
that covers the old pages minus the range, each piece with the attributes of its
region), and `AddTable`, about a region added over pages that no region covers.
A new region never meets the table because `mem_map` refused every mapped page
and the table is backed. `HeapCanGrow` is why brk may trust the table: a region
between the last heap region and the requested break would have to share that
region's last page. For the protections, `CutAgrees` and `AddAgrees` say the
same of what the table records, and `MprotectAgrees` of an mprotect that leaves no
region of the table partly protected; one that does is the exception.

Its second part, about `ReusableEmulator`, builds on the first: the guest's
steps keep its invariant, and `RInv` adds what each phase of a restore may rely
on. The pieces still to unmap are listed, hence mapped, and apart, so that no
unmap can fail; a region that the second loop is done with is mapped and
protected as in the snapshot, and later elements do not touch it because the
snapshot's regions are disjoint; the rewriting starts on the snapshot's table
and so cannot fail. From it follow `SnapshotComesBack` (`SnapshotIsRestored`),
`RestoreFailsOverHoles` (`FailureNeedsAHole`) and `RestoreKeepsTable`, all for
any number of inputs and restores that fail half way.

`LayoutProofs` proves `TableIsUnicorns`, the invariant `TableIsMemory`, for any
images, configurations and pages of the user, from `SpaceAssumption` and
`ImageAssumption`: the table lists exactly what Unicorn has mapped, no address
twice, at every step of a load and after any failure. It is the first half of
what `AddressSpace` assumes. The additions may wrap: the proof needs only that
chunks are cut at the same places, and so are apart (`ChunksAreApart`), and that
`mem_map` refuses what is mapped. `LInv` adds that the numbers are numbers.

Four more theorems say what a guest finds when it starts. The first three have
the hypothesis `Roomy`: counted without wrapping, seven pages, the stack and the
heap fit behind the image. Without it they are false: behind raw code in the
last page of the space the code's additions wrap, and the stack is placed below
the image. Every image of a real program satisfies it, and so do those of the run.

- `StackHasGuards`: `LayoutIsSafe`. `KInv` says whose each region is, and that
  image, page, `[tls]`, page, stack, page, heap follow each other
  (`RegionsAreKnown`, `PlacesFollow`).
- `ImageStaysLoaded`: `ImageIsLoaded`. `DInv` says what the image's addresses hold
  while segments are mapped (`LoadedSoFar`) and later (`StaysLoaded`). The writes
  that could spoil them are those of a long argv below the stack: to get from the
  stack into the image they would have to cross two pages that are not mapped, of
  which the user has mapped one at most.
- `StackIsMadeForTheGuest`: `StackIsUsable`, since the strings, the random bytes and
  the frame are written at three ranges that follow each other.
- `FailuresHaveReasons`: `FailsForAReason`, without that hypothesis. `FInv` says
  that a sound image's mapped pages are those of the segments done
  (`MapsAsAsked`), so that the next segment meets none; `SoundLoad` then gives
  `Roomy` (`RoomAsAsked`), and the regions of a loaded image (`LoadedRegions`)
  leave the places of `[tls]` and of the exit trap free. The jump of the i386
  stub starts inside of `[tls]`, so that an entry point in reach of that whole page
  is in reach of the stub (`StubReaches`).

`ImageAssumption` says of an image what the ELF crate ensures: no more of a
segment in the file than in memory, and, to tell what memory holds, segment
names other than those of what the preparation writes. A raw image has one
segment and no interpreter. `SpaceAssumption` has 0x10 bytes fit in a page.

### Descriptors
`FdTableProofs`, for any number of emulators, descriptors and open files.
Under the hypothesis `Careful` (the guests of section 2):

- `EntriesStayTrue`, `HandlesStayValid`: `EntriesAreTrue` and `HandlesAreValid`.
- `HandlesAreApart`: no two emulators hold the same number.
- `SharedTableIsPrivate`: `Spec => EachHasItsOwnTable`, the refinement. Each
  action maps to a step of `Descriptors` or to a stutter.

The inductive invariant `IInv` is one of ownership: every number that an emulator
holds, or is in the middle of making or closing, is open (`OwnedIsOpen`) and is
that emulator's alone (`OwnedOnce`); a number whose insert is pending is in no
entry (`PendingUnused`, `InsertIsTrue`). A close between its two halves still
owns its number, which is why no other open can be given it.

Without that hypothesis ownership is lost, and less can be said:

- `NothingElseLeaks`: `LeakOnlyByErrOrRestart`, for any guests. `AnyInv`
  is types, and that what is about to be listed is a file.
- `StalenessHasOneSource`, `DeathNeedsStaleness`: `StaleOnlyByHostClose` and
  `DeadOnlyOverStale`, under `OneEmulator`. `OneInv` adds that an insert lists
  what the host opened and that a number being closed is no longer held: with one
  thread nobody acts between the two halves of a call. With two guests that may
  name each other's numbers both are false.

### Hooks
`HooksProofs`, for any kinds, addresses, ranges and handles, from
`HookAssumption` (ranges are pairs of numbers): `DispatchersStayKnown`
(`DispatchersAreKnown`) needs that no two dispatchers share a handle, so that a
removal takes exactly one away (`IInv`). `HooksAreHeard`
(`SilentOnlyAfterFailedClear`) needs the lists too (`LInv`): a list with a
dispatcher has hooks, and before a failed `clear_hooks` the other way round; ids
grow along a list, so that a deletion drops one hook.

`EventsReachTheirHooks` and `CoveredFaultsAreCaught` (`EveryHookFiresOnce`,
`FaultsAreCaughtByHooks`) are about a dispatch, of which `EventInv` says at each
of its steps: what was called is due, and its dispatcher is not among those still
to come (`FiredAreDue`); the running dispatcher has called what it walked past and
wanted, up to a HOOK_BLOCK (`WalkedSoFar`); those that have left have called all
they had, unless another has handled the fault (`DoneWithRest`). A dispatcher is
asked at most once because each list has one (`OneDispatcherEach`, from `LInv`).

### Lifecycle
`LifecycleProofs`, for any stack, statuses and number of calls, from
`LifecycleAssumption`: `OneHandlerAlways`, `VerdictsAreTrue` and
`FailuresAreEarned`, the invariants `OneHandlerEach`, `VerdictIsOfThisRun` and
`FailsOnlyWhenUsedUp`. Until the place of `[tls]` is reopened the number of
hooks goes with it (`LinuxHandlers`): not mapped, there is none between calls;
mapped, only a call that is bound to fail has more than one. `TlsHasAReason` is
the same of the first preparation: `[tls]` is mapped before the first call by the
user only. That a bare-metal
stack is used up only by returns is `StackIsBounded`: one word for each call
before the one that runs, and its guest's return.

### The guest's accounts
`GuestIOProofs`, for any kinds, streams, counts and seeks: `PositionsAgree`,
`OutputAddsUp`, `OutputKeepsOrder`, `SettingsAgree` and `ErrnosAreHarmless`, the
five properties of the run. They are action properties, of which a step needs
little of the past (`IOInv`): types, that only `io::stdout()` keeps output back,
and that output is numbered below what has been produced. The hypothesis
`ShortTransfers` says that the count of a call, or the sum of a writev's two,
can be told from an errno in 32 bits. A guest that asks for more than
4 GiB less 4095 bytes at once is outside of these theorems. The host moves at
most 0x7ffff000 bytes in one transfer, which the model does not know.

`GuestPathsProofs`, for any tree of directories, names, numbers and moves, from
`PathAssumption` (directories and files are apart, a directory is in one place,
and the last name of the special link is none of the guest's): `KeptPathsStayTrue`,
`CallsMeetTheirNames` and `AnswersAreOfThisCall`, that is `KeptPathIsTrue`,
`ActsOnWhatWasMeant` and `AnswerIsOfThisCall`, the properties of the run.
`Trail` is a recursive function. That there is one, and what it holds at each
step, is shown by the least number of names for which it would fail, since the
provers know no induction. In a tree one path at most leads to a directory
(`OnePath`), so that a kept path through a changed entry begins with that entry's
own path (`CrossingIsPrefix`), and the comparison of prefixes in `GoneThrough`
touches every kept path that a move makes false. `PInv` adds to types and
`KeptPathIsTrue` that the directories stay a tree and that the current directory's
path leads where it did first (`CwdIsTrue`), or to no directory both times: the
code does not ask whether it exists below `cfg.rootfs`. A step is `Quiet` if
it leaves names and numbers alone, and `Loud` otherwise; each theorem has a lemma
for either.

`GuestProcessProofs`, for any sizes of sets, map, cap and blocks, and any
exclusive or: `ProcessStaysKnown`, `AreasStayApart`, `AnswersAreWhole` and
`CoverageIsExact`. `PInv` is types, that the guest knows its thread areas but
for one left with zeros (`AreasAgree`), and that map and `prev_loc` are those of
the blocks run since the map was cleared (`TraceIsMapped`). A new block adds one
edge to one slot (`Cardinality` of `EdgesTo`), and a saturated slot stays so.

### Only model-checked
- Liveness (`LockKeptOnlyByPipes`), out of the prover's reach.
- The two `reset_*` runs, which are counterexamples.

## 5. Not modelled

- Symbolic links and `..` in paths, trailing blanks that `get_path_at` trims, and
  names longer than `MAX_PATH_LEN`. What a name resolves to outside the root file
  system is not a question these models ask.
- The delivery of signals: the emulator keeps masks and actions and delivers
  none, and `futex` never waits, so that the guest has one thread.
- Hooks changed by a callback while a list is walked: undefined behaviour.
- The tables of system call numbers and register names, the layout of structures
  copied to the guest (stat, statx, utsname, statfs), the parsing of images,
  options and environment, error names, logging, the disassembler, the
  instruction trace, crash reports and the debug server. They hold no state that
  a property relates.
- Contents beyond the marks of section 2: that the heap shows old data when the
  break grows again is in the model, but nothing in the repository promises
  otherwise. `FsBase` of an x86_64 guest first points two pages above the start
  of `[tls]`, the first page of the stack; no model relates the two.

## 6. Plan

Done: all components of section 1 but the printing, parsing and logging parts,
and the proofs above. What would add most next:

1. An abstract memory that `AddressSpace` implements: what the guest sees,
   without the table.
