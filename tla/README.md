# A verification project for tcc_posix

tcc_posix is a C compiler (a fork of TCC) together with the run time that lets
the programs it compiles see a POSIX system on Windows NT: musl as the C
library, `psxscl` as the system-call layer over the native API, `ntapi` as the
library for that API, and a set of small run-time libraries (`lib`) for memory
governance, bounds checking and containers.  This directory holds TLA+ models
of the parts that carry state and concurrency, TLC configurations that check
them on small instances, and TLAPS proofs of the properties that matter most.

Paths are relative to the root of the repository.  `P/` stands for
`src/posix/components/psxscl-2015/src/`, `N/` for
`src/posix/components/ntapi/src/`, `M/` for `src/posix/musl-nt64/src/`, `D/` for
`src/posix/components/dalist/src/`; the compiler is in `src/`, the run-time
libraries are in `lib/`.

1. [Inventory](#1-inventory)
2. [Plan](#2-plan)
3. [The models](#3-the-models)
4. [The runs](#4-the-runs): bounds, fairness, what each shows
5. [The proofs](#5-the-proofs)
6. [Where the code and its promises part](#6-where-the-code-and-its-promises-part)
7. [What is not modelled](#7-what-is-not-modelled)

How to run it: `tlc -config MCSync.cfg MCSync`, and so on for each row of the
table in section 4; `tlapm M.tla` checks the proofs of a module `M`, which are
`Blitter_proofs`, `FdTable_proofs`, `MessageQueue_proofs`, `Tables_proofs`,
`Threads_proofs`, `Parts_proofs`, `PosixSem_proofs` and `RwLock_proofs`.

## 1. Inventory

The system-call layer is one address space: every program carries `psxscl`,
and every thread of the program runs it.  Apart from the daemon thread, which
receives messages on an NT port, components meet in shared tables, through
locked instructions or no protection at all.  "Hard" names what a test of the
component would hardly reach.

### 1.1 System-call layer

| Component | State | Operations | Meets | Hard | Correct when |
|---|---|---|---|---|---|
| **Block allocator** (`N/blitter`) | bitmap (1 = free), `blocks_avail`, `blocks_used`, `busy` | acquire, obtain, possess, release | hands out the numbers of the fd and ofd tables | lock-free: CAS of a word, counters updated after the bitmap, bounded retries | a block has one owner; the counter follows the bitmap; a refusal means something; calls return |
| **Descriptor table** (`P/internal/psx_ofd.c`, `P/ofd`, `P/fcntl`) | fd slots (ofdidx, refcnt, invalid), ofd slots (refcnt), two allocators | open, close, dup, dup2/3, fcntl, every call that uses a descriptor | all file calls; mq, pipe, sockets | transient references against close; slots that are reused; several resources taken one after the other; numbers outside the table | no description is freed under a user, or twice; no number is lost or given twice; close returns |
| **POSIX message queues** (`P/mq/_mq.c`) | table of queues with message slots, `curmsgs`, `next_seq`; descriptors | open, close, unlink, timed send and receive, setattr | descriptor table, clock | no lock at all; polling; deadlines; wrap of `next_seq`; an entry that is reused | bounded priority queue, FIFO within a priority; counters exact; timed calls return |
| **System V semaphores** (`P/ipc/_ipc.c`) | table of sets, values of 16 bits, sequence number of the table | semget, semop, semtimedop, semctl | clock | check loop and update loop; polling through a pointer that outlives the set; identifiers that wrap | a semop is atomic; no unit is taken twice; an identifier names one set |
| **System V queues and memory** (same file) | queues of message slots, `msg_qnum`; segments, `shm_nattch` | msgget/snd/rcv/ctl, shmget/at/dt/ctl | one sequence number with the semaphores | a slot that is marked before it is filled; removal while a call polls or a segment is attached; entries that are used again | each message is received once, by a call that selects it; counters exact; an identifier names one object |
| **Threads** (`P/thread`, `P/internal/psx_exit.c`, `P/daemon/thread`, `M/thread`) | `__clone_ctxs` and its busy flags, TLCA, count of threads, descriptor `tid`, musl's `threads_minus_1` | create, start, exit, join, detach, exit_group | daemon, futexes | a thread reads its parameters from a slot that is reused; it may be done before its creator goes on; two counts of threads; memory that joiner and daemon free | a thread is who it was made to be; join returns; memory outlives its users; the process ends when it should |
| **Futex** (`P/kernel/_futex.c`) | none: WaitOnAddress and its kind | wait, wake; nothing else | threads, all musl locks | compare and sleep in one step; operations that callers count on and that are not there | no lost wake-up |
| **Locks of musl** (`M/thread`) | words of mutexes, condition variables, semaphores, read-write locks, barriers, once | the calls of pthread and semaphore.h | futex, threads | a count of waiters beside the word; lists and counters on the stacks of callers; time-outs that meet wake-ups | what is guarded is alone; nobody sleeps on what is free; nothing on a stack is used after its call |
| **Daemon loop, signals, interval timers** (`P/daemon`, `P/internal/psx_timer.c`, `P/signal`) | pending signals, timer instance, handles of the port | setitimer, sigsend, sigdeliver | every thread (suspends and resumes it) | a timer that is replaced while it arms; alarms under way; signals that interrupt handlers; a delivery that fails half-way | an alarm comes, and from the last timer only; the program goes on where it was |
| **Waiting for children** (`P/session/_wait.c`) | list of children with `waitable`; per thread `wait_count`, `wait_status`, `wait_pid`; one helper thread per child | wait4, waitid | process list, TLCA | helpers of several threads race to claim a child; interruption while they do; words shared without a lock | what a wait returns belongs together, is lost by nobody and given once; sleeps and spins end |
| **Pipes** (`P/ipc/_pipe.c`) | none beyond the tables | pipe2 | descriptor table | four resources in sequence | a failure loses nothing but what the code gives up |
| **POSIX timers** (`P/timer/_timer.c`) | 256 records | create, settime, gettime, delete | clock | check then set of `used` | a number has one owner |
| **select, poll** (`P/select`) | none | select, poll | descriptor table, NT | – | – |
| **Sync block** (`N/sync`) | owner word, `hwait` | lock, server_lock, unlock, (in)validate, discard | brk, list of children, terminal | event made on first contention (and not stored); locks taken again by their holder, or kept | what it guards is consistent; nobody outside keeps it; calls return |
| **Lists** (`src/posix/components/dalist`) | doubly linked list, free nodes, counters | insert, discard, find by key | process, section and mount lists | nodes run out in an insertion | a sorted set of keys; no node lost |
| **Files, paths, mapping, sockets, ioctl, sessions, start-up** | kernel objects | system calls | descriptor table | in NT, not here | – |

### 1.2 Run-time libraries, compiler, C library

| Component | State | Operations | Hard | Correct when |
|---|---|---|---|---|
| **Memory governance** (`lib/tcc-arena.h`, `tcc-pool.h`, `tcc-own.h`, `tcc-esc.h`, `tcc-mmap.h`, `tcc-ctmem.h`) | bump blocks with epochs, free lists with generations, tables of owners and of escapes | alloc, reset, free, register, release, check | reset with more than one block; double free; tables at their limit; an address that comes back | no live object is overlaid; a stale pointer is noticed |
| **Bounds checking, tracking, profiling** (`lib/bcheck.c`, `bt-log.c`, `cpu-prof.c`) | splay tree of regions, counters | new, delete, check | one lock; sequential | the tree finds what was registered |
| **Containers, matrices** (`lib/stl`, `lib/mat`) | vectors, lists, maps | container operations | growth, erase, rehash | refine sequences and functions |
| **Linker symbols** (`src/tccelf.c`) | symbol section, hash, relocations by place | put, set, begin and end of a file, output | symbols set again in place over those not read yet; hash put away during a file; merging of kinds | a relocation names what it was made for; the strongest definition wins in any order |
| **Compiler scopes** (`src/tccgen.c`) | token to symbol chains, local stack; chains of cleanups, gotos under cleanups | declare, extern, prototype, open and close a scope; defer, break, continue, return, goto | symbols unlinked twice; global ones slipped in below; cleanups on a way out that is known only later | a name stands for its innermost declaration; no symbol freed that a value needs; a cleanup runs once on every way out |
| **Code generation** (`src/tccgen.c`, `src/x86_64-gen.c`) | value stack, code on or off, jumps to patch, temporaries | load, save, swap, test, jump, store, call | a value stands where code for the next one may destroy it; jumps around the code that saves it; code that is not generated; temporaries that are shared | each value is where the stack says on every path, and the code does what C says |
| **Rest of the compiler** (`src/*.c`) | token stream, types, sections | translate, link, run | unbounded input | out of reach on small instances |
| **Rest of musl** (`src/posix/musl-*`) | vendored | – | – | only what meets psxscl (threads, locks) is modelled |

## 2. Plan

The order follows dependence and weight: the allocator below everything first,
then the table that every file call goes through, then the tables without any
lock, then threads; the sequential libraries last.

| Step | Modules | Composes | Abstract specification | State |
|---|---|---|---|---|
| 1 | `BlockPool`, `Blitter`, `BlitterHistory`, `Blitter_proofs` | – | `BlockPool`: a set of blocks, each free or owned | done, proved |
| 2 | `FdTable`, `FdTable_proofs` | takes blocks as `BlockPool` does | – | done, with pipe and the descriptors of mq_open; numbers proved |
| 3 | `PriorityQueue`, `MessageQueue`, `MessageQueue_proofs` | its descriptors are in `FdTable` | `PriorityQueue` | done; the count proved |
| 4 | `IpcTable`, `SemaphoreSet`, `SysvSem`, `Tables_proofs` | `IpcTable` | `SemaphoreSet` | done; identifiers proved |
| 5 | `Threads`, `Threads_proofs` | psxscl, the daemon and musl | – | done, invariants proved |
| 6 | `MessageBox`, `SysvMsg`, `SysvShm` | `IpcTable` | `MessageBox`: each message out once, to a call that selects it | done; identifiers proved (`Tables_proofs`) |
| 7 | `Waits`, `Parts_proofs` | callers, helpers, children, NT alerts | – | done, proved |
| 8 | `Alarms`, `Parts_proofs` | caller, daemon, timer threads, program | – | done, invariants proved |
| 9 | `SyncBlock`, `Parts_proofs` | lock, brk, list of children, terminal | – | done, proved |
| 10 | `DaList`, `SortedKeys` | list and free nodes | `SortedKeys`: a set | done |
| 11 | `MemoryGovernance` | five allocators and tables on one heap | – | done but for `tcc-mmap.h` |
| 12 | `ElfSymtab`, `SymScopes` | linker, parser | – | done |
| 13 | `ValueStack`, `ExprCode` | parser over code generator | what C says of the same tokens (`sem`) | done for int |
| 14 | `ScopeExits`, `SwitchCases` | statements and the code that runs | what each path has registered (`code`); the case that has the value | done but for local labels |
| 15 | `Futex`, `CondVar`, `PosixSem`, `RwLock`, `PthreadBarrier`, `PthreadOnce`, `PosixSem_proofs`, `RwLock_proofs` | locks over the futex | – | done; semaphores and read-write locks proved |
| 16 | more theorems | | | see below |
| 17 | the mapped region, containers, macro expansion | | a map with a file behind it; sequences | if time allows |

`MCTables`, `MCParts`, `MCSync` and `MCBlitterHistory` compose parts that share no state into one
behaviour each: an initial choice says which part runs, so that the states add up instead
of multiplying and one run answers for each of them.

Theorems to add, in this order: `PthreadOnce!RunOnce` and `NoneLeft` of
`PthreadBarrier`; `TablesExact` under the contract of section 3.2; a `CountBalanced`
for System V queues as for POSIX ones; `NumbersKept` with dup3.

Conventions that keep the modules provable: parameters are CONSTANTS with
named assumptions, one action per shared access, no RECURSIVE operator,
invariants as conjunctions of named parts.  A definition under a comment that
begins with "Mutant" is a plausible mistake in the action it precedes; it is in
no specification and serves to see that a property notices it.

## 3. The models

A step is one access to state that other threads can see; what a thread does
with its own locals before it is part of the step.  `pc[t]` names the access a
thread performs next, `loc[t]` its locals.  The build is for x86-64: an aligned
word is read and written at once, locked instructions are one step, and the
order of steps is program order.

### 3.1 Block allocator: `BlockPool`, `Blitter`, `BlitterHistory`

`BlockPool` is the promise: `free` and `held` partition the blocks, `Take` moves
a free block to a thread, `Give` moves it back.  `Blitter` is
`N/blitter/ntapi_blt_block.c`: `Check`, `Round`, `Scan` walk the words
(`__blt_acquire`, `__ntapi_blt_obtain`), `Read` and `Swap` are the load and the
`lock cmpxchg` of `__blt_bitbite`, `DecAvail` and `IncUsed` the counters it
updates afterwards, `Or`, `DecUsed`, `IncAvail` the three instructions of
release.  `CallPossess` clears the bit whoever owns it, as the code does.
`WordSize` and `ByteBits` are separate because `obtain` masks by the first
where the number of bits is meant.  `Init` is `blt_alloc` with an adopted
bitmap: any split of the blocks between callers and the bitmap.
`BlitterHistory` adds what a call has seen since it began, to say what the
refusal `ALLOCATE_BUCKET` may mean.

### 3.2 Descriptor table: `FdTable`

The two allocators are `BlockPool` steps: the theorem `Implementation` is what
allows it.  `RefCheck`–`RefUndo` are `__psx_fd_ref_inc`, `OfdRead`–`OfdRefDone`
`__psx_ofd_ref_inc`, `OfdDec`–`OfdRelease` the way down, `CloseRead`,
`CloseSpin`, `CloseRelease` `__psx_fd_free`.  These are shared by the calls and
continue at the label a call left in its locals (`ok`, `no`, `after`).  open is
`CallOpen`, `OpenRef` (whose event may fail), `OpenFd`, `OpenTruncate` (which may fail and
give everything back) and the three stores that publish the descriptor.  pipe takes
two descriptions and two numbers (`PipeRef`–`PipeFd`) and cancels half-way
(`PipeCancel`).  mq_open takes its number first (`CallMqOpen`, `MqOfd`) and binds the description
to its queue after it has published it (`MqBind`).  A call that uses a descriptor, the lookups of
`__psx_mq_from_fd` among them, is `CallUse`, `Using`.  `Ops[t]` are the calls of thread t.  `dup`'s slip
(an ofd index where an fd index is meant) and `dup3`'s missing count are modelled as written.

Some calls leave something behind, and the history variable `lost` names it, so that the
invariants can say that nothing else is: a number of a pipe or an mq_open that could
not go on (`__psx_fd_free` refuses a slot that is not valid yet), the first description of a pipe
without a second, a reference of a read or write whose prolog failed (`_io.c:35`), and what
F_DUPFD takes: `__psx_fd_obtain` turns the number into an index a page before the table (`psx_ofd.c:113`), so
that the number is never anybody's and the count of the copy stays.  `MaxLost` bounds the references.

**Memory outside the tables.**  The bitmaps are longer than the tables, the range tests of
`__psx_fd_ref_inc` (l.162) and close (`_close.c:25`) let through the number just behind the table, close any
negative one, and F_DUPFD writes before the table.  The models do not say what is there: a
call that goes outside may find nothing that matters, or it ends the process (`LeaveTables`, `CallOutside`:
the step `"outside"`).  The properties are about what happens until then (`Overrun`).

**The contract.**  `Disciplined` restricts the clients, not the code: no thread closes a number (or gives it as
the target of a dup3) while another thread's call is on it (`Quiet`).  A correct program does that, and it
separates what the code guarantees to such programs from what it guarantees to all.  It leaves
out the two races of close: a use that meets it (shown by `fd_use_close`), and a reference that is undone on
a slot opened again, which `fd_changes` lets happen and `ClosesReturn` names as its exception.

### 3.3 POSIX message queues: `PriorityQueue`, `MessageQueue`

`__psx_mq_send_locked` is `SendTry` (full?), `SendScan` (a free slot),
`SendMark`, `SendSeqRead`, `SendSeq` (`next_seq++` is a load and a store),
`SendBody`, `SendCountRead`, `SendCount`; receive likewise.  `Again` and `Delay`
are the poll loop with the flags and the deadline.  mq_open is one step per
access of the table, with its failures (`OpenDesc` is the number and the description of `FdTable`,
either of which may be refused).  The descriptors are not modelled twice: sends and receives look
theirs up and drop the reference before they touch the queue, a call "use" of `FdTable`, and here a
description is the queue that its pointer names (`bound`).  `history`, `lives` and `raced` are history variables.

`raced` are the queues on which two calls have collided: one finds a slot taken, or empty, that it saw
otherwise, or writes a count that was stale, or a queue is made anew while a call is between its slot
and its count.  `CountBalanced` says, for bodies that overlap in any way, that `curmsgs` is the filled slots
and what the calls between owe (`Due`) until that happens: nothing else makes it drift.
`Serialised` lets a body begin only when no other body
runs, which is what `_locked` in the names of the routines supposes and no code
establishes: the run `tables` uses it for the refinement, the run `mq_open` and the theorem do without.

### 3.4 System V semaphores: `IpcTable`, `SemaphoreSet`, `SysvSem`

`IpcTable` has identifiers `(seq << 16) | (index + 1)` and the lookups that all
three kinds of object share.  `Check` is a turn of the first loop of
`__psx_sem_try`, `ApplyRead` and `ApplyWrite` a turn of the second (a load and a
store of an unsigned short), `Blocked` and `Delay` the poll loop.  semget and
semctl are one step each: the hazards of their tables are those of mq_open.
`SemaphoreSet` does whole batches by the rule of the code: each operation must be possible in the values the
batch starts from (`Possible`), then all of them are added (`Net`), modulo 2^16.  That is not the rule of
semop(2), which does them one after the other: `[-1,-1]` on a semaphore of value 1 passes and wraps it, and
`[+1, 0]` on one of value 0 passes although it is 1 when the second is reached.  The run has both batches (`Mixed`).
The refinement, for bodies that do not overlap, maps a batch to the step that
passes its last check (`Committed` counts what is still to be applied).

### 3.5 Threads: `Threads`

One module for three programs that meet only together: `__sys_clone` and
`__clone_thunk`, `__psx_exit`, the daemon's handler `Threadexit`, and the calls
of musl above them.  A member of `Thread` is a descriptor and the NT thread made
for it.  The thread reads who it is from the slot its creator filled, so
`self[t]`, `fn[t]` and `ctid[t]` may name another; `StartsAsCreated` says that
they do not.  `tls` and `ctid` of a slot are one store, because both are the
descriptor; the handler of the daemon is one step, because the daemon is one
thread and the words it touches are atomic; the compare and the sleep of a
futex are one step, which is what WaitOnAddress gives.  A slot index is a local
of the creator while it searches, and the parameter of the new thread after
that.  `Discipline` again restricts the clients:

| Name | Assumed of the program | Without it |
|---|---|---|
| `serial` | calls of pthread_create do not overlap | two creators mark one slot, and two threads start as one |
| `gate` | a thread exits only after the call that made it has returned | its number is stored after it was cleared, and join hangs (run `thr_join`) |
| `meet` | a thread exits only after those it made have begun to run | the daemon counts down to zero and terminates the process |

### 3.6 System V queues and shared memory: `MessageBox`, `SysvMsg`, `SysvShm`

msgsnd is `SendTry` (the first slot that is not used), `SendMark`, `SendFill`,
`SendCount`; msgrcv is `ReceiveTry` (`Matching` is `__psx_msq_pick` for its four
kinds of selection, and the message may be too long for the buffer),
`ReceiveClear`, `ReceiveUncount`.  Both keep a pointer to the entry while they
poll: `CallRmid` may free it, and `CallMsgget` give it to another key, under
them.  shmat and shmdt count with a read and a write; IPC_RMID frees an entry
under its attachments, and the module keeps them (`attached`), because that
is where the old address and the new segment meet.  msgget, shmget and the
removals are one step each.  `OtherObject` is a get of one of the other two
kinds: the three tables share one sequence number.  `MessageBox` is the
promise of a queue: a bounded bag, from which a receive takes one message that
its selection allows; the refinement counts a message from the step that fills
its slot to the step that clears it.  (The box does not promise the oldest
message; see section 6.)

### 3.7 Waiting for children: `Waits`

`Round`, `Find`, `Lock`, `Look`, `Test` are the walks of `__wait_in_vain` over the
list of children, `Count` and `Create` the helper it starts for each child that
still runs, `Wake` and `Apc` the two ends of its sleep, `End` the event that calls
the helpers off, `Drain` the spin until they have left.  A helper is
`__wait_for_one`: it waits for its child or the event (`HelperWakes`), leaves if it
was called off (`HelperChecks`), decides against the other helpers of its thread
on `wait_status` (`HelperCas`) and against the helpers of other threads on
`waitable` (`HelperClaims`), gives the status back if it lost (`HelperGivesBack`),
writes `wait_pid` and last the status (`HelperPublishes`,
`HelperSettles`), and the last one to leave alerts the sleeper (`HelperLeaves`,
`HelperAlerts`).  `Answer` is the poll, in which the caller finds an exited child
itself; it does not clear `waitable`, so the properties about children that are
reported once speak of calls that slept.  A result is a pid only: the helper stores the child's exit code as well,
but `__sys_wait4` overwrites it with the exit code of the calling thread (`_wait.c:417-418`) and waitid
asks for none, so that no caller ever sees it.  `Discipline` is `{"sound"}`: no NT call
fails.  Without it a helper that cannot be created stays counted and its
thread spins for ever.

### 3.8 Interval timers and delivery: `Alarms`

`SetItimer` is the call: a message, and the wait for its reply.  `DaemonSet`,
`DaemonKill`, `DaemonCancel` and `DaemonCreate` are the daemon's handler: a new instance,
the end of the old timer thread queued as an APC, its NT timer stopped, a new
thread.  A timer thread is `Start`, `Claim` (is the instance still mine? one less
while I arm), `Arm`, `Restore`, `WaitEnds`, `DelayEnds`; its own APC (`TimerApc`) looks at
the instance and sends the daemon a message (`Post`), and `Killed` is the other APC.
`DaemonAlarm` delivers the messages of the timer's instance.  For one of another instance it returns before it clears the key
of the message (`psx_daemon_sigsend.c:26-31`), so that the loop (`psx_daemon_loop.c:64-98`) answers what was
no request, fails, and the daemon ends: no alarm comes after that, and no setitimer is answered.  `Deliver`
suspends the program, saves its context on its stack, queues the handler and
resumes it in the trampoline: `Entry` reads what was interrupted (`sigctx`), `Handle` runs
a handler, `DelayOver` ends its delay, `Continue` goes back.  `stack` holds one context
per level, so that signals can interrupt trampolines and handlers.  `latest` and `alarms`
are history variables.  A cancelled timer takes its APC back, an alarm message
that is in the port does not come back: that is what the instance is for.

Two races of the code spoil what comes after them.  They are not assumed away: they may happen, a history variable
remembers it, and the properties name it as their exception.

| History | What has happened | What comes of it |
|---|---|---|
| `crossed` | somebody used the instance while a timer thread was arming and had it one less (`UseInstance`, `Arming`) | a timer gives up before it is armed, or an alarm of the old one passes for one of the new |
| `early` | a signal was delivered before the trampoline of the last one had read its context | the trampoline loops for ever |

`NoStaleAlarm` and `AlarmComes` except `crossed`, `GoesBackWhereItWas` and `ProgramGoesOn` except `early`.  TLC does not follow
a behaviour beyond a `crossed` step (`Uncrossed` in `MCParts`), because the alarms of such a state are beyond
any bound worth checking; the theorems do.  `AlarmComes` excepts an ended daemon as well.  One discipline is left, `sound`: no
NT call fails half-way through a delivery, without which the program stays suspended.

### 3.9 Sync blocks: `SyncBlock`

`LockOwn`–`LockWait` are `__ntapi_tt_sync_block_lock`.  The holder is let in again and
not counted.  The first contender stores in `hwait` the address of a local array
instead of the event, so that a wait on it fails at once; `lock_tries` has a default
that is not used, and one try is made.  brk and the terminal give up when they
are refused, the list of children tries again (`Refused`).  Under the locks:
`BrkRead`, `BrkCommit`, `BrkAdd`, `BrkDone`; `Find`, `GetNode`, `Link`; `PtyIo`
(`loc[t].inside` is the one of them where the call goes on when it has the lock).
A lookup of a pid that is in no record returns with the lock, and no path of
the terminal gives its block back: `HeldOutside` says that these two are the only
ones, and `CallsEnd` that calls return unless the first has happened (`Kept`).

### 3.10 Lists: `SortedKeys`, `DaList`

The library's functions are functions on `Lib`, the state of one list; a call is
one step, because its users hold a lock.  `GetOrAdd`, `InsertRefused` (a key that is
there), `Discard` and `GiveBlock` are the calls; `DepositBlock`, `DepositFree` and
the taking of free nodes, which fetches a block when none is left and fails
when NT gives none, are shared by them.  The refinement reads the list by `next`.

### 3.11 Memory governance: `MemoryGovernance`

Five parts on one heap: malloc, an arena (chain of blocks, bump offset,
epoch), a pool (chunks, free list, `live`), the static buffer of
`tcc-ctmem.h`, the table of owners and the table of escapes.  `objs` is the
history of what the program holds.  `ArenaAlloc` aligns, and takes a new block
when the head is full; `ArenaReset` rewinds the head only, as the code does.
`Reported` is what `tcc_esc_check` prints.  `Discipline`:

| Name | Assumed of the program | Without it |
|---|---|---|
| `unregister` | it takes an address out of the table of owners before it gives the memory back | the entry keeps its old owner when the address comes back, and `tcc_release` frees what malloc does not hold |
| `revoke` | it destroys an arena only when none of its pointers is registered as escaped | a new arena starts with the epoch of the old, and a stale pointer is not reported |
| `once` | it frees a slot of a pool only while it is in use | the slot is twice in the free list |

### 3.12 Linker and compiler symbols: `ElfSymtab`, `SymScopes`

`ElfSymtab` is the symbol section through the files of one link.  `BeginFile` puts
the hash away, `PutExtern` and `Define` are what the code generator does with a name,
`AddSym` sets a symbol at once, `Reloc` remembers a place, `EndFile` is
`tccelf_end_file` (`Resettled`, `Moved`): cut the section back, set each symbol of the file again (which
may merge it with an entry of its name or overwrite entries that were read
already), and move the relocations with them; `Output` sorts, locals first.
`Rebuilt` is the rehash when the table has grown.  `Failures` is FALSE in
the run: a file that fails to compile leaves its hash put away, and
nothing is promised of a table after that.

`SymScopes` is the chain of symbols of each identifier: `Declare`, `DeclareGlobal`,
`ExternFound` and `ExternMade` (a declaration with `extern` in a block copies the
global symbol, or makes one below the local ones), `Prototype`, `BeginFunction`,
`NewScope`, `PrevScope`, and `PrevScopeExpr`, which unlinks the symbols of a
statement expression and leaves them on the stack.  `env` is the history that
says what each name should stand for.  `Discipline` `"apart"`: no global symbol is
made under the name of a symbol that has been unlinked and not yet popped.
Without it the second unlinking loses the global symbol, and `LooksUpInnermost`
fails.

### 3.13 Values and expressions of the compiler: `ValueStack`, `ExprCode`

The compiler does not compute a value when it parses it.  Its value stack says
where each one is: a constant, a place, a register, the flags, or jumps
that have been taken.  `ValueStack` has the functions that move them, each an operator
from one record g to the next: `Load`, `Store`, `SaveReg`, `GetReg`, `Gv`, `Gv2`,
`Vswap`, `Gvtst`, `GvtstSet`, `GenOp`, `Vstore`, `PostInc`, `Call` and those they use.
There are no instructions in g.  It keeps machines, one for each member of
`Memories`, and what would be emitted is done at once to the machines that have come to
the end of the code (`here`); the others wait in a list of jumps until it is patched, or
have stopped.  So a jump that skips the code which saves a register leaves the machines
that took it with the register not saved, as in the program that is compiled.

`ExprCode` is the parser: one action for each operand, operator, and end of an
operator, with what the functions `unary`, `expr_infix`, `expr_landor`, `expr_cond`, `expr_eq` and
`gexpr` have on the C stack in `frames`.  A frame may end at any time, which stands for
parentheses.  `sem` is the reference: what the C standard says of the same tokens, evaluated on
the same memories.  Where C leaves the behaviour undefined (a store to a variable that an
operand of the same expression is still to be read from, a division by zero) a machine
is `gone` and nothing is said of it.  `CodeSound` compares the two: each value
stands where the stack says (`ValuesHold`), the machines that run are those that C
evaluates the operand on, and the variables are as they should be.

Abstracted: values are of type int, a word is 0, 1 or 2, which is also the address of
one of three variables; three registers stand for those of a class (rax, rcx and rdx,
which division, shifts and calls want for themselves); calls have no arguments, and
the one function returns the first variable or never returns (`stop`).

### 3.14 Ways out of a scope, and cases: `ScopeExits`, `SwitchCases`

`defer` and the attribute `cleanup` hang an entry to the chain of the scope they are
in, and the compiler emits the calls where control leaves it.  The model runs the
code while it is generated, as `ValueStack` does: a path is the sequence of what a program that
comes by has registered and not called yet, `code.here` are the paths to the present
end of the code, and a list of jumps keeps the paths that wait for it to be patched.  Each statement is an
action: `Register`, `Block`, `While`, `Do`, `For`, `Switch`, `Case` and the ends of blocks; `Break`,
`Continue`, `Return`, `GotoBack`, `GotoForward`, each plain or under an `if`, and `Label`.  A goto to a
label that comes later cannot know what it leaves: `PrevScope` (`block_cleanup`) gives it
the calls of each block that ends before the label is met.  `ExitsSound` says that every path holds just
what the compiler thinks is registered there (`Unwound`), and nothing at the end; that a goto
backward finds the chain its label had (`Landed`); that code which is left out has no path (`Reached`);
and that no goto is forgotten (`Arrives`).

| `Discipline` | A program | Without it |
|---|---|---|
| `into` | jumps past no registration | a cleanup is called for what was not registered |
| `late` | registers nothing between a goto that leaves a scope and the end of the scope | the entry is called on the way of the goto too |
| `mixed` | reaches a label from under cleanups or from outside them, not both | the label patches one kind only: the others jump nowhere |

`SwitchCases` collects the cases of a switch (`Case`), sorts and joins them (`CaseSort`), and
looks a value up as the code of `gcase` does (`Gcase`): `CaseFound` compares it with the set of
cases that have the value.

### 3.15 Locks of musl: `Futex`, `CondVar`, `PosixSem`, `RwLock`, `PthreadBarrier`, `PthreadOnce`

`Futex` is `__sys_futex` for threads of one process.  A wait compares the word and falls
asleep in one step (RtlWaitOnAddress), or, on a system without that (`kernel` FALSE), polls
(`Poll`).  A wake of one wakes any sleeper, a wake of two or more wakes all.  A sleep may
end by itself (`Stir`): the callers of musl look again.  FUTEX_REQUEUE answers -ENOSYS
(`FutexRequeue` changes nothing).  The other five modules extend it, with
one step for each access to a word that others see.

- `CondVar` is pthread_cond_timedwait, signal and broadcast with the normal mutex
  (`MutexTry`–`MutexSwap`).  A waiter is a node on its stack (`Enqueue`); a signal walks the list
  (`Scan`), claims nodes with a compare and swap and cuts them off (`Split`), and waits for those
  that are on their way out (`Await`).  A waiter whose time is up and that wins the
  swap (`Claim`) unlinks itself (`Unlink`) and tells a signaller that counted on it (`Notify`); one
  that lost goes on as signalled.  Who is signalled is let go by the one before it, which hands
  it the mutex or its turn (`Relock`, `Waited`, `Requeue`).
- `PosixSem` is sem_wait (`Try`, `Peek`, `Take` of sem_trywait; `Count`, `Mark`, `Doze`, `Uncount` of the
  loop) and sem_post (`Read`, `Ask`, `Add`, `Wake`).  `given`, `taken` and `posted` are histories of the
  permits.  `missed` is the history of one event: a post adds its permit and wakes nobody, because it saw
  no waiter when it looked, and somebody sleeps (section 6.2).
- `RwLock` has the word as a pair of the number of readers (`Full` for a writer) and the flag.
  `Ask` and `Drop` are the two looks of unlock at the count of waiters and at the word.
- `PthreadBarrier` keeps the counters of a round on the stack of the first thread that came
  (`inst`), which leaves last (`Leave`, `End`, `WakeOwner`).
- `PthreadOnce` has the control word, and `Undo` for a thread that is cancelled in the routine.

The spinning before a wait (`a_spin` a hundred times) reads and changes nothing and is
part of the step that follows.

### 3.16 Compositions: `MCTables`, `MCParts`, `MCSync`, `MCBlitterHistory`

Each extends one module, takes others by INSTANCE with variables of their own,
and chooses in its initial predicate which of them runs.  The conjunctions under
one name (`CountsExact`, `IdsNameOneObject`, `LocksGuard`, ...) say the same of each
part, and are defined there.  The bounds of the System V tables in `MCTables`, and of sync blocks, timers and waits in
`MCParts`, are constants that the configuration gives, so that the theorems are about any of their values; the
other parts have theirs in the composition.

## 4. The runs

`TypeOK` in each module bounds the counters as well; it is the only property
that is about types, and mostly a conjunct of another.  "Cut" names the state
constraint where one is used: states beyond it are not explored, and nothing
is claimed of them.

| Run | Instance | States | Shows |
|---|---|---|---|
| `blitter_pool` | 3 threads, 2 words of 1 bit, 2 round trips, 1 lock try; acquire, release; beside it memory governance, symbols and ways out of scopes | 538 k | one owner per block, counter off by the updates under way only, every step a step of the pool, a refusal has a reason; allocators of `lib/` overlay nothing (`AllocatorsExact`), and what their tables report is so (`TablesTruthful`); names stand for their innermost declaration, cleanups run once on each way (`ScopesSound`) |
| `blitter_returns` | 2 threads, 1 word of 2 bits; all four calls; cut `DriftBound` | 436 k | even with possess no block leaves the bitmap without an owner; every call returns |
| `fd_disciplined` | 2 threads, 3 numbers, 2 descriptions; both open, use, copy by fcntl and close, one makes pipes, the other opens queues; the contract (3.2) | @D@ | until memory outside the tables is touched: numbers and counts are exact at every step, but for what failing calls and F_DUPFD are known to leave behind (`TablesExact`); no call works on a description that is gone (`DescriptionsLive`) |
| `fd_changes` | 2 numbers and descriptions; one thread opens, closes, dups (also onto a number), another uses any number; no contract; cut `RefsBounded` | @C@ | no number given twice or lost whatever becomes of the descriptions; a close returns unless the counter it waits for was made negative (`ClosesReturn`) |
| `fd_use_close` | 2 threads; use, close; no discipline | – | violation of `NoUseAfterFree` |
| `mq_open` | 2 threads, 1 entry with 1 slot, open, unlink, send and receive in all interleavings | @M@ | `curmsgs` agrees with the slots until two calls have collided (`CountBalanced`); calls with a deadline return, although bodies overlap and counters drift |
| `sem_race` | 2 threads, 1 semaphore; not serialised | – | violation of `NeverNegative` |
| `tables` | seven parts (3.16); bodies serialised; cut `NetBounded` | 649 k | counters exact, identifiers distinct, queues implement their promise and semaphores the rule of the code (3.4), for bodies that do not overlap; symbols of the linker resolve, code for expressions and switches does what C says |
| `thr_join` | 3 descriptors, 1 slot; without `gate` | – | violation of `JoinReturns` |
| `parts` | four parts (3.16): 2 threads and 4 calls under sync blocks; 2 settings of 2 expiries; 2 blocks of 2 nodes; 2 threads that wait for 2 children, one call each or two of one | 320 k | `LocksGuard`: locks guard what they are for; replaced timers do not signal and the last one does, the program goes on where it was, but for the races of 3.8 (cut `Uncrossed`); lists are sorted sets; helpers counted, a child that a wait that slept returns has exited and goes to nobody else, no exit lost to an interruption (`ChildrenReported`); sleeps and spins end (`CallsEnd`) |
| `threads` | six parts (3.16).  Threads: 3 descriptors, 1 slot, CreateThread may fail, all three disciplines.  Locks: see 4.1 | 376 k | `CreationExact`: slots and counts balance and a cleared number stays so; own start; memory outlives its users; the process ends through exit; joins return.  `SyncExact`: what is guarded is alone, permits are conserved, rounds pass as one, routines run once; `StacksLive`: nothing on the stack of a call is used after it; `WakesReach`: nobody sleeps on what is free; `SyncReturns`: calls return |
| `cond_broadcast` | 2 waiters, 1 broadcast, a mutex of the process | – | violation of `SignalledReturn` |

### 4.1 Bounds and why they are enough

- **Threads.**  A race over one word, one slot or one semaphore has two parties;
  a third party matters where a thread must lose twice (`blitter_pool`) or where
  creator, new thread and joiner differ (`threads`).  Two creators at
  once take four descriptors: that instance has nine million states, takes five
  minutes and is not kept as a run.  It was explored once: under the three
  disciplines all safety properties hold, and without `serial`
  `StartsAsCreated` is violated.  In `parts` two children are what makes
  two helpers of one thread race, and two threads what makes helpers race for one
  child.
- **Tables.**  Each table has one entry fewer than its users want, so that the
  full table, the failure half-way and the entry used again all happen:
  `FdCap`, `OfdCap` (in `fd_disciplined` one description fewer than numbers), `Slots`, `Cap`, `NSlots`,
  `BlockCap`, `StaticCap`, `OwnMax`, `EscMax`.  The real sizes are 64 slots of threads, 64
  queues of 8 slots, 64 sets.
- **In `tables`.**  Three slots in a POSIX queue with room for two messages, and two
  in a System V queue, with messages of two priorities and types; two
  segments, of size 1 and of size 0, which no detach finds, of four made and two attached; three symbols in two
  files, of which the third makes the hash grow; up to four cases over five values,
  with `Short` = 2 where the code has 8, so that a table is halved and then gone through.
- **Expressions.**  Four vocabularies of `ExprCode`: `Wide`, up to three operands and unary operators
  with every operator; `Deep` and `Jumping`, up to four with those that need registers
  and those that jump; `Spilling`, up to six with division and calls, which saves more than it has
  temporaries for.  `MaxTemps` is 2 instead of 8, so that temporaries run out
  and are shared; `MaxLoc` = 10 is more slots than any of these expressions takes.  Four
  memories: with one variable zero or not, two that are equal, and pointers to each other.
- **In `blitter_pool`.**  Two addresses of malloc, so that one comes back while the
  other is in use, requests that fit a block and that do not, two owners, one escape.  Four symbols of one name and three scopes,
  enough for a statement expression in a function with a global of the name.  Seven statements
  with one label, two registrations and two scopes in the body of a function: a goto out of two blocks
  with an entry each, a break inside a loop inside a switch, and two gotos to one label.
- **In `parts`.**  `MaxCalls` = 4 calls under sync blocks: a contender that makes the
  event, one that finds it made, and a holder that keeps the lock.  The bound also
  keeps others from taking the lock for ever, so that `CallsEnd` says that a
  spin ends once the others are done, not that the lock is fair.  `BrkCap` = 3, `MaxSets` = 2
  and `MaxExpiries` = 2: an old timer against a new one, and a signal inside a signal.
- **Locks, in `threads`.**  Condition variables: two waiters, one with a time limit, and one
  signaller, which is a queue that a signal splits, a waiter that leaves from either end, and
  a signaller that waits for it.  Semaphores: two that wait, three times in all, one with a
  limit, and two that post twice in all, from 0 or 1 up to 2: the last permit taken with
  others waiting, a full semaphore, and a value that comes back under a post.  Read-write locks: three
  threads and `Full` = 3, so that the third reader is one too many.  Barriers: rounds of two
  and of three for three threads, two rounds: a thread of the next round comes before the last one has
  left.  `pthread_once`: three calls, two cancelled.  (The invariants of semaphores and
  read-write locks are theorems for all of these numbers.)
- **Words.**  `ByteBits`, `WordSize`: a word of one or two bits for one of 64.
  `Word` (2^32) is 8 or 4, `SemWord` (2^16) is 4, `SeqMask` (2^16) is 8.  In `tables`
  no more than three messages are sent to a POSIX queue, so that `next_seq` does not wrap
  there, and no more than `MaxSeq` objects are made, so that an identifier is not used
  again.  What happens at the wrap is in section 6.
- **Time.**  `MaxTime` = 1: a deadline is passed at the start, is passed while a
  call polls, or (`NoDeadline`) never.
- **Lives.**  `MaxLives`, `MaxSeq`, `MaxEpoch` bound how often an entry is made anew.
- **Constraints.**  `DriftBound`: `possess` lets a block have two owners, and the
  counters then drift upwards without end; one above the true number shows what
  the drift does.  The cut of this run also bounds its liveness property, which
  without possess holds with no cut at all.  `RefsBounded`: dup counts on a wrong description each
  time, and races let the counters of slots drift; a description is followed up to `FdCap` references, a slot from
  -1 to 2.  `MaxLost` = 1 reference of each description is left behind (0 in `fd_changes`, where it would only
  add to that drift).  `Uncrossed`: section 3.8.
  `NetBounded` (`MinNet` = -2, `MaxNet` = 1): what was given less what was taken, which goes
  below zero because a batch may take twice.
- **Not used again.**  A descriptor that has been joined is not mapped again at
  the same address; a thread that exits takes its place in `Thread` with it.
- **Symmetry** of threads, and of the addresses of malloc in `blitter_pool`, is used in runs with
  safety properties and refinements only, never where a run has a liveness property.

### 4.2 Deadlock

`blitter_pool`, `blitter_returns`, `fd_disciplined` and `fd_changes` check that
some step is always possible: no thread inside a call waits for a thread outside
(in the parts of `blitter_pool` that are of the compiler, a compilation may end anywhere).
The others may stop: `MaxTime`, `MaxSeq`, `MaxLives`, `MaxCalls`, `MaxSets`, the calls of
`Waits` and the messages run out, a state at the edge of a cut may have no way on
but the one that is cut, and a process ends.

### 4.3 Fairness

`FairSpec` has weak fairness of `Work(t)` for each thread: the NT scheduler runs
every thread that is ready, and no step inside a call waits for a condition
(the spin of close and the poll loops are steps that read and go back).  Calls
carry no fairness: a program need not call anything.  The clock has weak
fairness, because time goes on.  `Threads` adds weak fairness of `Threadexit`: the
daemon sits in a loop that receives from its port, and messages are not lost.
`ClosesReturn` needs no more than that, because a use that holds a reference
drops it within its own call; it says nothing of a process that has ended.  `Waits` has it for the caller, for each helper and for
the alert, which NT delivers; not for the exit of a child nor for an APC, and
`SleeperWakes` (in `CallsEnd`) says only what follows once the children have exited.  `Alarms` has it for
each timer thread, the expiry of an armed timer, the daemon and the program;
not for setitimer.  `SyncBlock` has it for `Work(t)`.  In `MCParts` the timers and the waits share
one weak fairness (`OtherStep`): these parts repeat no step without end, so that
it is enough that some step is taken while one can be; a program that a signal has met too early is left out of it, because
its trampoline does.  `MCSync` has weak fairness of each
thread that is inside the library (`Step(t)`) and of the daemon; not of a call, of a time limit nor of a
sleep that ends by itself.

## 5. The proofs

TLAPS proves, for every value of the constants that the named assumptions allow:

| Theorem | Says | Assumes |
|---|---|---|
| `Blitter_proofs!TypeCorrect` | `Spec => []TypeOK`: types, and the limits of the retry counters | sizes and limits are positive, `Threads` is finite |
| `Blitter_proofs!Exclusive` | `Spec => []ExclusiveOwnership` | nobody calls possess |
| `Blitter_proofs!Implementation` | `Spec => ImplementsPool` | nobody calls possess |
| `Blitter_proofs!CounterConservation` | `Spec => []AvailTracksBitmap` | nobody calls possess |
| `Blitter_proofs!NothingLeaks` | `Spec => []NoLeak` | – |
| `Blitter_proofs!RefusalsAreMeant` | `HistorySpec => FailsOnlyWhenFull` | nobody calls obtain or possess (`PlainCalls`) |
| `FdTable_proofs!NumbersKept` | `Spec => []FdBookkeeping` | nobody calls dup2 or dup3 (`PicksNumbers`) |
| `MessageQueue_proofs!CountsDriftOnlyByCollision` | `Spec => []CountBalanced` | `Threads` is finite |
| `Tables_proofs!IdsStayWithTheirObject` | `TablesSpec => []IdsNameOneObject` | fewer than 2^16 objects are made (`MaxSeq`, `MaxSegments` against `SeqMask`) |
| `Threads_proofs!OwnStart` | `Spec => []StartsAsCreated` | `serial` |
| `Threads_proofs!MemoryIsSafe` | `Spec => []MemoryOutlivesThread` | `serial` |
| `Threads_proofs!DaemonIsRight` | `Spec => []DaemonSparesTheProcess` | `serial`, `meet` |
| `Threads_proofs!CreationBalances` | `Spec => []CreationExact` | `serial`, `gate` |
| `Parts_proofs!LocksAreExclusive` | `Spec => []LocksGuard` | `None` is no thread |
| `Parts_proofs!ChildrenAreReported` | `PartsSpec => []ChildrenReported` | no NT call fails |
| `Parts_proofs!OldTimersAreSilent` | `PartsSpec => NoStaleAlarm`, which excepts `crossed` (3.8) | `sound` |
| `Parts_proofs!HandlersReturnRight` | `PartsSpec => []ReturnsExact`, which excepts `early` (3.8) for the context, not for the counts | `sound` |
| `PosixSem_proofs!SemTypes` | `Spec => []TypeOK` | `Callers` is finite (here and below) |
| `PosixSem_proofs!PermitsKeptAlways` | `Spec => []PermitsConserved` | |
| `PosixSem_proofs!NoneForgotten` | `Spec => []NoPermitForgotten` | |
| `PosixSem_proofs!OnePoster` | `Spec => []~missed` | one thread posts |
| `RwLock_proofs!LockTypes` | `Spec => []TypeOK` | |
| `RwLock_proofs!WritersExcludeAll` | `Spec => [](Exclusive /\ WritersAlone)` | |
| `RwLock_proofs!NobodyLeftAsleep` | `Spec => []NoneForgotten` | |

Each module states its assumptions on the constants by name; what is in the last
column beyond them is a hypothesis of the theorem.  The disciplines are those
of section 3, each of them with a run or an entry of section 6 that shows what
goes wrong without it.

**Allocator.**  `TypeOK` is inductive: its last conjunct (`Fits`) relates each
thread's place to its locals, for instance that a candidate is in the word that
was read.  Ownership is not inductive by itself: a release must not return a
block that its caller still holds, which is `GivenUp`.  From `TypeOK /\ GivenUp`
every step of the code either changes neither `free` nor the blocks claimed
(`SilentSteps`), or is a `Take` (`SwapTakes`, the successful compare-and-swap), or
a `Give` (the `or` of release); `StepSimulation` puts the cases together.
`Exclusive` then follows because the abstract pool preserves its partition, and
`Implementation` is the same lemma read as a refinement.  The counter's theorem
needs ownership: a release adds exactly one bit only because no other thread has
already returned the same block.  This is where possess is fatal to the proof, as
it is to the property: with it a block has two owners, and TLC shows the
counter drift.

`NothingLeaks` needs `GivenUp` only, and so holds with possess.

`RefusalsAreMeant` is about the history variables of `BlitterHistory`.  Without obtain and possess a
search starts at word 0 with no mask (`Plain`), and `Seen` says that it has seen every word below
the one it is at without a free block at some moment of the call.  A call that gives up has
gone past the last word, or has lost its last round trip, or has found the counter at 0; and
`AvailTracksBitmap` says that a counter of 0 leaves no more free blocks than are being released.

**Descriptor table.**  Numbers come first.  `NInv` is the shape of the variables, what each call has in
its locals where it is (`Calls`), and `Numbers`: a free number is open nowhere and had by no call
(`Has`), two calls have no number in common, and a number that is neither free, open nor lost
is had by some call.  That needs no contract, because a slot is closed by a successful
compare-and-swap, of which there is one, and it holds until a call touches memory outside.  The counters do need one: `TablesExact` and
`DescriptionsLive` are checked by TLC only.

**Message queues.**  Nothing is assumed of the interleaving.  The inductive invariant is the shape of each call where it is, and for each
queue that is not in `raced` the equation of `CountBalanced`.  A step that marks or clears a slot moves the call into `Arriving` or
`Leaving` as the slot changes; one that counts takes it out as the count changes by one, because a count that was read before somebody
else's write is a collision, and a slot that had been taken meanwhile is another.  A queue made anew empties the slots and the count; who
was between the two would count on it, and that is the third.

**System V tables.**  The argument is about identifiers.  `Numbered` is one invariant for the three tables.  An entry has a life for each object it has held, its `seq` is
never above the counter, and the counter is never above `SeqMask`, so that an identifier determines
the entry and the life: who still has an old one is refused.  That is why the theorem
stops at 2^16 objects; section 6.2 says what comes then.  Nothing is assumed of the interleaving: get and remove are the
only calls that touch what the argument is about.  What the counters of these tables do when bodies overlap is
not proved: they go wrong (section 6).

**Threads.**  `StartsAsCreated` speaks of running threads only; the argument is
about the slot.  The inductive invariant (`Shape /\ Links`) says that there is one
creator (`OneCreator`), that it knows a descriptor whose thread does not exist
yet (`CreatorsTarget`), that its slot holds what it has written so far and is
marked (`CreatorsSlot`), that a thread which starts finds itself in its slot
(`StartersSlot`), that no two of them share a slot (`OneHolder`), and that what a
thread has read so far names itself (`KnowsItself`).  `OneHolder` is the heart: the
mark of a slot by one creator and the release by the thread that has copied
everything hand the slot on.  `serial` is needed in one step only, where a call
begins (`CallsKeep`); nothing is assumed of when threads exit, of the number of
slots, or of CreateThread, and the daemon plays no part.

The other three add what becomes of a thread.  `NumbersHold`: a descriptor that somebody
may join is of a thread that was made, and its number is cleared by its own exit only.  `MailHolds`:
a message for the daemon is of one thread that has left, and its TLCA is there.
`MemoryHolds` follows.  For the last thread two counts are compared: `MinusOneExact` says that libc counts those that
have not left and those whose creation has begun, `CountBalance` that the daemon counts those that have been counted in and
whose TLCA it has not freed; with `MakersStay` (who made a thread that is not counted yet is there, from `meet`) a thread
that libc does not take for the last is not the last for the daemon either.  `BusyIsHeld`
and `ClearedForGood` give `CreationExact`, the second from `gate`.

**Sync blocks.**  A thread past its lock holds the block of its call (`Holders`), what it has
read of the heap is still so (`HeapExact`), and a block whose holder is outside is one of the two kinds that `HeldOutside` names.

**Waiting for children.**  `WaitInv` follows a call along its walk: which child it looks at, and until when its
status word is still pending (`Walk`); when it can have no helper yet, and for which children otherwise (`Helped`).  Its number is that of its
helpers (`CountExact`), so that one who finds 0 has none (`NoneLeft`) and the words are its own.  `Decided` is the heart: the
status word says more exactly while one helper of the thread decides, which `OneDecides` makes the only one, and
says success exactly when what it found is written; so that a sleep that ends at any moment has a child or none.  `Given` says that what helpers took for two threads has no child in common, because `waitable` is
cleared and tested in one step, and that it is reported to nobody before the call ends.

**Interval timers.**  `Instances` is the heart of `NoStaleAlarm`: a thread that arms is the latest one, its `ti` is one more
than the instance, and every other `ti` is below; while nobody arms only the latest can have the instance, and nobody has it
while the daemon replaces the thread; all of it until `crossed` (`OneSet`: there is one setitimer at a time).  A message carries the `ti` of
its thread (`PortExact`).  How often a timer signals is a balance (`AlarmBalance`): the APC that is queued, the message that is
about to be sent, those in the port and the signals delivered are no more than the expiries, of which a timer without
an interval has one (`Rounds`).  In `Trampolines`, until `early`, the stack below what runs holds a context for each depth, none of them in the first step
of a trampoline; there are no more of them than signals delivered, so that `MaxSets * MaxExpiries` bounds the depth.

**Semaphores.**  `PermitsConserved` is inductive with the shape, because only a
compare-and-swap of the value counts.  `NoPermitForgotten` is not: the
strengthening (`Enough`) is that while somebody sleeps and the value does not say -1, at least as many threads as there are permits,
and one at least, are `Alerts`: awake and on the way to look at the value, or about to wake somebody.
One that gives up is none of them, nor one that takes the last permit and knows of nobody.  The attempt to prove this without
`missed` failed, and TLC found the reason (section 6.2).  `OnePoster` adds `Unseen`: while the only post
is under way the value does not rise, so that if it is what it was when nobody was counted, nobody sleeps.

**Read-write locks.**  `Held` is the word against those who have the lock: as
many readers as it says, or one writer and no reader.  `LeaversKnow`: a thread that is
about to leave and saw no waiter has nobody to wake, or finds the flag in the word.
`SomeoneAlert`: while the lock is free and somebody sleeps, a thread will look at it again or wake.  The flag
carries the argument where a count read early fails for the semaphore: unlock compares the whole word, and
nobody falls asleep but on a word with the flag.

Beyond the provers, and checked by TLC only: liveness (`CallsReturn`, `ClosesReturn`, `TimedCallsReturn`,
`JoinReturns`, `AlarmsServed`, `CallsEnd`, `SyncReturns`), which needs ENABLED; the functions on chains in `DaList`, `ElfSymtab`,
`SymScopes` and `ScopeExits`, and on the value stack, whose values for every length need an induction over data.
Not proved yet: `FdBookkeeping` with dup3 and dup2, `TablesExact` and `DescriptionsLive`; the refinements but
`ImplementsPool`; what becomes of counters and identifiers when bodies overlap (they go wrong); memory governance;
`CondVar`, `PthreadBarrier` and `PthreadOnce`.

## 6. Where the code and its promises part

### 6.1 Shown by a run

1. **Use of a freed description** (`fd_use_close`, `P/internal/psx_ofd.c:252`).
   `__psx_ofd_ref_inc` takes a reference to the descriptor, reads `ofdidx`, then
   counts the description.  `__psx_fd_free` drops the description (l.147) before it
   waits for references to the descriptor (l.150), so the wait comes too late.
   The file calls itself thread-safe in its second line.
2. **semop is not atomic** (`sem_race`, `P/ipc/_ipc.c:607`).  The comment at l.591
   says it is; two threads take one unit.
3. **A join that never returns** (`thr_join`, `P/thread/_clone.c:200`).  The creator
   stores the new thread's number after CreateThread has started it.  If the
   thread is done by then, the number it cleared comes back and pthread_join
   sleeps on it.
4. **A broadcast that wakes one** (`cond_broadcast`, `P/kernel/_futex.c:175`).  With a mutex
   of the process the first waiter moves the next one to the mutex by FUTEX_REQUEUE
   (`pthread_cond_timedwait.c:57`); the futex has no such operation and answers
   -ENOSYS.  Every waiter but the first sleeps for ever.  The header of `_futex.c`
   says that no wake-up is lost, and names cond_broadcast among its users (l.84).

### 6.2 Met while modelling, or refuted by TLC outside the runs

No line of the repository promises the contrary, or the same cause is already
shown above, or it is the case that a discipline of section 3 leaves out; each is
modelled as the code has it unless noted.

- Allocator: `obtain` masks by 8 where a word has 64 bits (`ntapi_blt_block.c:100`), and
  starts from block 0 when the rest is 0, so that F_DUPFD may be given a number below the one asked for.
- Descriptors: a reference that is undone after its slot has been reopened
  leaves `refcnt` at -1, and a later close spins for ever (without the contract);
  fcntl looks the description up a second time and may work on none
  (`_fcntl.c:90`); dup3 onto a number that another open has taken and not
  published; dup3 of a number onto itself; dup counts on a wrong description
  and returns 0 (`_dup.c:89,93`); dup3 onto a closed number does not count (l.54); a
  pipe that fails half-way loses a description or a number (`_pipe.c:50,72`), an mq_open its number
  (`_mq.c:314`), a read or write without its event a reference (`_io.c:35`); `__psx_fd_obtain` decrements an
  index that was not incremented (`psx_ofd.c:113`), so that F_DUPFD writes a page before the table and loses
  the number; two range tests let the first number behind the table through (`psx_ofd.c:162`, `_close.c:25`),
  and close does not refuse a negative one.
- POSIX queues: two sends take one slot, and `curmsgs` loses updates (no lock);
  `next_seq` wraps; mq_open that fails frees an empty queue it only found; a
  descriptor of an unlinked queue works on the next queue of the entry
  (`_mq.c:346`).
- System V: a semop, msgsnd or msgrcv that waited works on the next object of the
  entry, or polls for ever on one that was removed; a batch `[-1,-1]` on one
  semaphore of value 1 passes both checks and wraps, and a wait for zero does not see a put before it in its batch (in the run `tables`); after 65536 objects an
  identifier is valid again; msgrcv of type 0 takes the lowest slot, not the oldest
  message (`_ipc.c:345`); a slot is marked before it is filled (l.406); a segment
  is freed under its attachments (l.912), and one of size 0 cannot be detached.
- Threads: two creators mark one slot; a creator that exits before its thread
  runs lets the daemon end the process; a thread without a TLCA keeps its slot
  (`_clone.c:98`).
- Waiting: the poll does not clear `waitable` (`_wait.c:295`), so that a child
  may be reported twice by calls that did not sleep; wait4 gives back the exit code of the calling thread
  in the place of the child's (`_wait.c:417-418`); a lookup of an unknown pid
  keeps the lock of the list (`psx_session.c:55`).
- Timers: setitimer while a timer thread arms; an alarm of a timer that was replaced ends the daemon
  (`psx_daemon_sigsend.c:26`), and with it all later alarms; a second signal before the
  trampoline has read its context; a delivery that fails after the target was
  suspended; getitimer is a stub.
- Sync blocks: `hwait` holds the address of a local array; the default of
  `lock_tries` is not used; the terminal is never unlocked.
- Semaphores: sem_post compares the value but not the count of waiters it read before
  (`sem_post.c:8-15`).  A post reads 0 waiters; the value is taken to 0, two threads go to sleep and it is -1; another post
  makes it 1 and wakes one of them; the first post's compare-and-swap then succeeds on the value it had read, and it wakes
  nobody: the other thread sleeps on a permit that is there.  TLC shows it with three that wait and two that post; with one that posts it
  cannot happen (`OnePoster`).  This is musl 1.1.11 as published, and no text here promises otherwise.
- Futex: time limits are rounded down to milliseconds, and one above 49.7 days wraps; WaitOnAddress is
  of one process, so that a lock that processes share is polled for at best.
- Memory governance: an arena grows by a block in each cycle that needs two, because
  reset rewinds the head only (`tcc-arena.h:116`); destroying an arena leaves its
  epoch, so that its successor repeats it; a slot of a pool freed twice; an owner that
  is not replaced (`tcc-own.h:94`, against its comment), and a full table that
  says nothing; an entry of the escape table is never used again.  Not modelled:
  a test in `vms_cache_record_remove` that is the wrong way round (`tcc-mmap.h`).
- Linker: a file with an error skips `tccelf_end_file` and leaves the hash put
  away (`tccelf.c:183`); a weak reference after a strong one makes the reference weak;
  a hidden strong definition after a common one is ignored; the mark of an asm .set
  stays on a symbol that is defined otherwise later.
- Compiler: the symbols a statement expression leaves are unlinked twice, and a
  global symbol made in between is lost (`tccgen.c:826`, against the comment at
  l.794).
- Compiler, ways out (`tccgen.c`): a label that both a direct goto and one under cleanups wait for
  patches the second only (l.9218), and the first jumps to an address never filled in; an
  entry registered after a goto, in the block it leaves, is called on the way of the goto;
  `if (c) defer f();` is called whether c or not, because an `if` has no scope of its own; a goto that waits for a local label of a block
  without cleanups refers to the label after it is freed (l.8772; not modelled); an empty range
  among more than 8 cases, of which the compiler only warns, may send a value past its case (l.8546).
- Not modelled: timer_create checks and sets `used` in two steps.

## 7. What is not modelled

- Of the modelled components: tables of more than one page, and what lies outside the tables (descriptors); SETALL,
  IPC_STAT, IPC_SET and the commands that only read (System V objects);
  mq_notify, which stores two fields that nothing reads; scheduling attributes
  and their startlock, cancellation, robust mutexes, a TLCA that cannot be
  allocated, futexes with a time limit (threads); process groups and WNOWAIT
  (waiting); tkill, masks and pending signals, signals other than alarms (daemon);
  the lock of the server side (sync blocks); `tcc-mmap.h` (memory governance);
  recursive, error-checking and robust mutexes, condition variables and barriers that processes share, and
  cancellation but in pthread_once (locks of musl).
  Files, names, contents and sizes of messages are model values or nothing.
- Memory order weaker than program order.  The code relies on locked
  instructions and on x86-64; a compiler that moved plain accesses would break
  more than these models show.
- Next in the plan: the theorems of step 16 and the parts of step 17.
- Process-local POSIX timers: 256 records whose `used` is tested and set in two steps.
- select, poll and the calls on files, sockets and sessions keep no state of their
  own that another call depends on, beyond the descriptor table.
- Bounds checking, profiling, matrices: sequential, under one lock, or
  arithmetic.  The compiler but for its scopes and the ways out of them, switches, the linker's symbols and expressions of type int
  (not modelled of those: other types and their conversions, bit fields, structures and
  arguments of calls, inline assembly, statement expressions inside expressions; local labels,
  computed gotos and arrays of variable length): its
  correctness is about languages and encodings of unbounded size.  musl:
  vendored, but for what `Threads` takes from it and its locks; it is by far the largest part
  of the repository's lines.
