# Specifications of the thread library, the pager and the file server

The repository holds four programs of an operating-systems course: a user-level
thread library (`threadlib/`), an external pager (`vmpager/`), a network file
server (`filesys/`) and a pizza-delivery simulation that uses threads
(`testapp/`). This directory specifies them in TLA+, checks the specifications
with TLC and proves theorems about them with TLAPS. `PROJECT.json` maps every
definition to the lines it models and lists runs, mutants, hazards and theorems.

## 1. Inventory

### Thread library (`threadlib/`)

| | |
|---|---|
| State | `cpu::guard` (one global spin lock), `ready_threads`, `suspended_cpus`, `finished_threads`; per CPU `executing_thread` and `waiting_thread` (its idle context); per mutex `free`, `owned_thread`, `waiting_threads`; per cv and per thread a queue of waiting threads |
| Operations | `cpu::boot`, `thread::thread`, `yield`, `join`, end of a thread (`func_with_swap`), `mutex::lock/unlock`, `cv::wait/signal/broadcast`, timer and inter-processor interrupts, the idle loop `wait_for_ready_thread` |
| Interaction | every operation runs under `os_guard` (interrupts off, guard taken); the guard is held across `swapcontext` and released by the context that runs next; a thread made ready wakes one suspended CPU by an interrupt |
| Hard | two CPUs and one stack; a wakeup sent between "announced as suspended" and "suspended"; hand-off of a mutex to a thread that runs much later; stacks freed by other threads; timer interrupts in the idle loop |
| Correct if | every thread is in exactly one place, no stack is shared or freed while in use, locks exclude and are FIFO, join cannot miss an end, no wakeup is lost, ready threads run |

### External pager (`vmpager/`)

| | |
|---|---|
| State | physical memory, swap file, files; `mem_block` objects shared between pages; `clock_queue`, `free_mem_blocks`, `free_swap_blocks`, `file_mapping_table`; page tables and per-process page info |
| Operations | `vm_init`, `vm_create` (fork), `vm_switch`, `vm_fault`, `vm_map` (private and file-backed), `vm_destroy`; inside them eviction, copy on write, reading a file name out of an arena |
| Interaction | the MMU reads the page table the pager writes; the infrastructure calls handlers one at a time; handlers read and write files, which may fail |
| Hard | long sequences (fork, evict, copy, exit) over shared blocks; evictions in the middle of a handler; reservation of swap space; uninitialised `num_swap_blocks` |
| Correct if | processes see their own stores and the shared files and nothing else; frames and swap blocks are conserved; the MMU never lets an access through the pager must see |

### File system (`filesys/file_system.*`)

| | |
|---|---|
| State | the disk (inodes, blocks of direntries, data), `free_block_list`, `lock_map` (a `boost::shared_mutex` and a count of users per inode in use) |
| Operations | start-up (`find_free_blocks`), `handle_read`, `handle_write`, `handle_create`, `handle_delete` |
| Interaction | one thread per connection calls a handler; handlers share locks, the free list and the disk |
| Hard | hand-over-hand locking against deletion and reuse of blocks; upgrades that wait for readers; erasing locks others wait for; crashes between disk writes; throws in the middle of a handler |
| Correct if | requests are atomic, the tree is sound on the disk at every moment, no block has two owners, every request is answered |

### Network server (`filesys/network_server.*`, `socket_raii.*`, `main.cpp`)

| | |
|---|---|
| State | the listening socket; per connection a socket, the request received so far, the block received or sent so far |
| Operations | start-up, `accept` and a thread per connection, `receive_message`, `parse_message`, the four handlers, `send_message`, closing by `SocketRAII` |
| Interaction | clients send bytes and may go away; a handler calls the file system, which answers or throws |
| Hard | requests and blocks that arrive in pieces; clients that leave in the middle or never go on; characters, numbers and missing words in a request; no thread left for a connection |
| Correct if | only well-formed requests reach the file system, a write has its whole block, an answer means success, a connection ends once its client has done its part |

### Pizza application (`testapp/`)

| | |
|---|---|
| State | `pizza_lock`, a cv for the manager, each driver and each customer; `driver` and `customer` objects with status, location and flags |
| Operations | `load_input`, `create_requests`; the loops `run_pizza_manager` (match), `run_driver` (drive, hand over, wait for money) and `run_customer` (ask, wait, pay) |
| Interaction | a client of the thread library, on one CPU without timer interrupts; prints through the pizza library |
| Hard | signals that are lost when nobody waits; the first `ready_up` without the lock; a drive without the lock; flags left over from the last request; distances at the edge of 32 bits |
| Correct if | a driver and a customer stay together from match to payment, every request is delivered and paid once, in order, and all are served |

### Not modelled

* `race.cpp` (a demonstration of a data race), test scripts, `autotag.sh`, build
  files, drawings and images: they keep no state of the system.
* `filesys/file_lock_guard.h`: included nowhere in the code that is used.
* Wording of messages, `perror`, the printing of the port number; `bad_alloc`.

## 2. Modules

| Module | What it is |
|---|---|
| `ThreadLib` | thread library on several CPUs, with the most general client |
| `ThreadLibProofs` | safety of `ThreadLib`, that no wakeup is lost, and that it implements `Monitor`, proved |
| `Monitor` | abstract: mutexes, condition variables and threads as their users see them |
| `MCThreadLib` | symmetry for TLC |
| `Pizza` | the pizza program, as a client of `Monitor` |
| `PizzaProofs` | safety of `Pizza`, and that it uses `Monitor`, proved |
| `MCPizza` | command lines for TLC |
| `VirtualMemory` | abstract: what applications are promised of the pager |
| `Pager` | the pager, the MMU and the infrastructure around it |
| `PagerProofs` | conservation of frames and swap blocks, proved |
| `PagerMmuProofs` | page table entries agree with the blocks and loads with `VirtualMemory`, proved |
| `PagerDataProofs` | what is evicted or shared is not lost, and `Pager` implements `VirtualMemory`, proved |
| `MCPager` | values, symmetry and view for TLC |
| `FileServer` | abstract: a tree, and requests that take effect at once or not at all |
| `FileSystem` | the handlers as threads with locks, a free list and a disk |
| `FileSystemProofs` | the locks of `FileSystem`, the tree on its disk and its free list, proved |
| `MCFileSystem` | disks and sets of commands for TLC |
| `RequestParser` | operators: how a request and a pathname are read |
| `MCRequestParser` | all short requests, and what they should be parsed into |
| `NetworkServer` | connections and their threads, composed with `FileServer` |
| `NetworkServerProofs` | safety of `NetworkServer`, proved |
| `MCNetworkServer` | requests and trees for TLC |
| `Queues`, `QueueProofs` | loops over queues, as recursive functions, and lemmas about queues without duplicates, used by all the proofs |

Compositions: `Pizza` uses `Monitor`, which `ThreadLib` implements; `NetworkServer`
uses `FileServer`, which `FileSystem` implements, and `RequestParser`.

### ThreadLib

The body of an operation runs with interrupts off and the guard held, so it is
one action that takes the guard (`Lock`, `Wait`, `Join`, ...). What is not atomic
with it has actions of its own: `Switch` (the `swapcontext` that leaves the old
stack), `ReleaseGuard` (`~os_guard` in whichever context runs next), and the idle
loop in four steps (`IdleLoop`, `Suspend`, `WakeUp`, `IdleEnter`). `stack[c]` is
the stack a CPU really runs on and differs from `executing_thread[c]` between the
assignment and the switch; this is where two CPUs could meet on one stack.
`cv::wait` is two calls, as in the code: the second half is a `lock` the woken
thread makes (`relock`). User code may call anything at any moment, also wrongly
(unlock a mutex of another, join itself, finish with a mutex).
`locking` and `held` are history: which `lock` calls are under way or have returned.

Left out: `bad_alloc`, deallocation of mutex and cv objects, the argument of a
thread's function.

### Monitor

What is left of the library when CPUs, stacks, interrupts, the guard and the ready
queue are hidden: a thread is runnable or in one queue. `ImplementsMonitor` maps
`runnable` to the threads that execute or are ready. Steps of the idle loop, context
switches and wakeups between CPUs must be stutters, each operation one step.

### Pizza

A step is the code up to the next call of the thread library or the pizza library.
`ready` is the running thread and the ready queue: `main` boots one CPU without
timer interrupts, so a thread runs until it waits, finishes, or calls a function of
the pizza library, which may let others run (`LibraryCall`; external, `pizza.h`
does not say). `Lock`, `Unlock`, `Wait` and `Signal` say what the library does on one
CPU, and `UsesMonitor` checks them, and the program's use of them, against `Monitor`.
`has_pizza` of a new customer is any value, since no constructor sets it. Distances
are taken modulo `UINT_MAX + 1`, with a small `UINT_MAX`. `requested`, `delivered` and
`payments` are history.

### VirtualMemory and Pager

A handler of the pager runs to its end before the next starts, so each is one
action; the helpers of `utils.cpp` are functions from a pager state (a record) to
the next, with the names they have in the source. `Store` is the MMU letting a
store through. `FileAppears` and reads that fail model `file_read`. A file name
is what one page holds, or two adjacent pages if it crosses a boundary. As in
`get_data`, a page is made resident and then read from its frame (`Touched`, `ByteOf`),
and the second page may take the frame of the first in between; that the name is
still the one the process stored follows from nothing but these steps, and is part of `ImplementsVM`.
A process without a managed parent starts with any `num_swap_blocks` of the set
`Leftovers`, since no constructor sets it, and the count is one of `unsigned int` (modulo
`UINT_MAX + 1`). `CountsFit` says that no leftover is so large that mapping pages makes
it wrap. Without it the code takes swap blocks from an empty queue, which is
undefined: the model goes no further than that.

Abstractions: a page is one datum; `mem_block` objects come from a pool of
`MaxBlocks` identities and are reused once no pointer is left; failing writes are
left out (`vm_pager.h` says a block that was accessed stays accessible).

### FileServer and FileSystem

Each request is one thread with a program counter and the local variables of its
handler. A step is one critical section (on `lock_map_mutex` or
`free_block_list_mutex`), one wait for an inode lock, or one disk write. Reads of
the disk are part of the step that uses them: they happen under a lock that keeps
what they read unchanged, and `CopyFresh` and `FreeSound` check that it does.

* Taking a lock is two steps, `Register` (count the user, under the map's mutex)
  and `Acquire` (wait), because other threads run, and erase locks, in between.
* `Release` comes after `Acquire` of the next inode: hand over hand.
* The handlers then split at each allocation, write, upgrade and unlock.
  Where `handle_create` throws without unlocking, or without giving a block back,
  so does the model (`AllocInode`, `AllocDir`).
* `Crash` may happen between any two steps. Requests in progress are lost, and the
  free list is computed from the disk, as by the constructor.

A block keeps the kind of content last written to it (`inode`, `dir`, `data`);
reading it as another kind yields `Garbage`. `boost::shared_mutex` is modelled
from its documentation: shared and upgradeable locks coexist, one upgradeable at a
time, an upgrade waits for the readers, and new readers may enter while it waits.
The two mutexes are never waited for in a cycle: `lock_map_mutex` may be taken
with `free_block_list_mutex` held (line 433) and never the other way round, so they
need no variables.

`ImplementsFileServer` maps a disk to the tree it encodes. A write, create or
delete takes effect with its last disk write, a read when its lock on the file is
granted.

### RequestParser and NetworkServer

A request is a sequence of words, a word a sequence of characters, because what is
checked is how characters are accepted: slashes, digits, signs, lengths. Only the
name of a command is one symbol. `parse_message` is the set of commands it may
return: empty where it throws, two where a create's type is read uninitialised
(`MayThrow` then holds too). The command that comes out is the record `FileServer`
and `FileSystem` use, with the path taken apart.

In `NetworkServer` the bytes of a request, a block and an answer are counted in
pieces (`MessageParts`, `FS_BLOCKSIZE`): `recv` and `send` may transfer any number of
those that are there, and a client may leave between any two. `Dispatch` parses and
calls the file system, a write after `ReceiveBlock` has counted up to the size of a
block. `Serve` is the file system's answer: one atomic step, by the refinement
checked for `FileSystem`. That refinement is about safety, so the step may also never
come: `fs_lock_leak` shows requests that wait forever, and there is no fairness of `Serve`.
`ThreadFails` is `boost::thread` throwing in `run`: the process ends, and requests the
file system has not completed are lost. Sockets keep the order of bytes and deliver what
was sent or report the end (TCP). `accept` returns -1 for a connection whose client has
gone (`AcceptFails`: the connection is lost), and as long as the open connections hold all
descriptors there are (`limit`, which nothing changes): `run` ignores the error, so nothing changes and the connection
stays in the backlog (`SocketLeft` is a guard of `Accept`). Errors of `accept` that pass by
themselves have no effect but a second call.

## 3. Runs

| Run | Bounds | Shows |
|---|---|---|
| `threadlib` | 3 threads, 3 CPUs, 1 mutex, 1 cv, symmetry | `TypeOK`, `NoThreadTwice`, `NoThreadLost`, `StackExclusive`, `MutualExclusion`, `NobodyWaitsForFinished`, `NoLostWakeup`, `LockFIFO`, `ImplementsMonitor` (225,000 states) |
| `threadlib_live` | 3 threads, 2 CPUs, 1 mutex | `ReadyRuns` |
| `pager_fork` | 3 processes, 2 pages, 2 frames besides the pinned one, 4 swap blocks | `SwapConserved`, `MmuSound`, `CleanOnDisk`, `ImplementsVM` |
| `pager_files` | 2 processes, 3 pages, 1 frame besides the pinned one, 2 swap blocks, one readable file block | `TypeOK`, `FramesConserved`, `PtesExact`, `LoadsRight`, `ImplementsVM`, `OnlyStoresChangePages`, with names across a page boundary (57,000 states) |
| `pager_swap_count` | 2 processes, 1 page, 1 swap block, leftover counts 0 and 2 | **violation** of `ForkReserves` |
| `fs` | 2 requests of 2 users, 27 commands; 12 blocks, 2 direntries per block; a fresh disk, a used one, and one with a single free block and a root directory of the largest size | `TypeOK`, `DiskConsistent`, `FreeSound`, `CopyFresh`, `ImplementsFileServer` (49,000 states) |
| `fs_live` | 3 requests that append to `/a/b`, create `/a/a`, delete `/a/b` and `/a`; one free block | `LockMapExact`, `Answered` (146,000 states) |
| `fs_lock_leak` | 2 requests on the disk with a single free block | **violation** of `LocksReleased` |
| `pizza` | all command lines with up to 2 drivers and 2 files of up to 2 requests, also bad ones; 1 or 2 drivers for 3 customers | `TypeOK`, `PairedUntilPaid`, `TradeInOrder`, `UsesMonitor`, `AllServed` (347,000 states) |
| `parser` | all pathnames and block numbers up to a length, all shapes of a request | `PathsExact`, `PathSplit`, `BlocksRead` (28,000 states) |
| `parser_numbers` | block numbers of up to 2 characters | **violation** of `OnlyNumbersAccepted` |
| `server` | 2 connections with descriptors for 1 or 2, 8 requests, 2 trees, requests and blocks in 2 pieces | `TypeOK`, `WholeBlockWritten`, `AnswerMeansDone`, `HangsUpForAReason`, `ConnectionEnds` (372,000 states) |

Why the bounds are enough for the interesting cases:

* Threads: with three CPUs one can run, one be switching and one be between
  "announced" and "suspended"; with three threads a mutex or cv has two waiters.
* Pager: one or two frames for up to six pages force evictions in every handler; three
  processes give a block that is shared by three, copied by one and left by another.
  `pager_files` has a single frame, so that the second page of a name evicts the
  first. The view of `MCPager` identifies states that differ in the names of frames,
  swap blocks and blocks and in data nobody owns. That is sound only in well-formed
  states, so it shows any other state whole. `Leftovers` is `{0, 1}` in
  `pager_files` and `{0}` in `pager_fork`, where a larger count would only refuse forks;
  `MaxBlocks` is the number of frames and pages (`MaxBlocksAssumption`), so an allocation
  never fails for want of an identity.
* File system: paths of two names have a directory that is walked through, changed
  and deleted. With two direntries per block a create finds a free slot, or needs a new block, and
  a delete leaves a block in use or empties it; with `FS_MAXFILEBLOCKS = 2` a directory of
  four entries is at its bound. Requests are served once. Two requests show what one does in
  the middle of another; for locks three are needed, one that holds, one that upgrades and one that
  waits. `fs_live` has no reads: their lock on a file is shared, like that of every
  request on its way through `/a`.
* Pizza: with three customers and two drivers a customer waits while both drivers are
  under way, and a driver is ready before a customer is; two requests show what the
  first leaves behind. `UINT_MAX` is 7: only sums that reach it or wrap matter.
* Parser: pathnames long enough for two names of the largest length and one more
  slash; `UINT32_MAX` and `ULONG_MAX` small enough that numbers of a few digits wrap
  and overflow.
* Server: two pieces are the least that can be cut in the middle; two connections
  suffice, since threads meet only in the file system and over descriptors. With one
  descriptor a connection waits in the backlog while the other is stalled by its client or in the
  file system; with two a stalled one must hold up nobody.

`CHECK_DEADLOCK FALSE` where a system may stop: all threads finished or waiting
for each other by misuse; all requests served; all customers served while manager
and drivers wait for more, or the process has ended.

**Fairness.** `ThreadLib!FairSpec` is for `boot` with asynchronous interrupts: a CPU
goes on with what it does (weak); the timer interrupts user code again and again and
a CPU that spins on the guard gets it when it is free again and again (strong: the
code uses a plain test-and-set and leaves this to the hardware). User code need
not do anything. `FileSystem!FairSpec` has weak fairness of the steps of each
request: threads are scheduled, and locks are granted to a waiting thread that stays
able to take them. There are finitely many requests; an endless stream of readers
could keep an upgrade waiting (`file_system.cpp:222`), which `boost`
decides and the model does not judge. Clients need not send requests. `Pizza!FairSpec` is weak fairness of `Next`: the one
CPU goes on with the thread it runs. `NetworkServer!FairSpec` has weak fairness of
each connection's thread outside the file system and of `accept`; clients may stall forever,
the file system may keep a request forever, and a thread may fail to start. `ConnectionEnds`
excepts the connection the file system keeps, and one in the backlog while others hold all
descriptors for good; in both cases the code has nothing left that would end it.

## 4. What the runs found

* `pager_swap_count`: `kernel_process_info` leaves `num_swap_blocks`
  uninitialised. In the run a process without a managed parent starts at 2, and its fork
  is refused although it has no swap-backed page and the only swap block is free. A
  leftover near `UINT_MAX` would do the opposite: it wraps to a small count, and a
  fork with too few swap blocks is let through (excluded by `CountsFit`).
* `parser_numbers`: the comment at `network_server.cpp:244` says that a block number
  that is not properly convertible throws. `stoul` takes signs, ignores what follows the digits, and
  the value is truncated to 32 bits: "1-" is block 1. `BlocksRead` shows that the
  numbers of blocks themselves are read right.
* `fs_lock_leak`: a create that finds no free block throws with the parent's
  upgradeable lock held; every later create or delete there waits forever. In
  `LockMapExact` this request counts as a holder that never gives back, and
  `Answered` promises nothing once there is one (`LockLeft`, which `fs_live` reaches).

The models keep, and the properties are stated around, more of what the code does
that a reader may not expect:

* A create that gets a block for its inode but none for a direntry (`AllocDir`,
  `file_system.cpp:554`) loses the first block until the server is restarted.
* `match_delivery` takes a pair only if it is closer than `UINT_MAX`, and the sum in
  `calc_dist` wraps around in 32 bits. A pair at distance `UINT_MAX`, alone, crashes the
  process (the command line with a request at `UINT_MAX` in `pizza` gets there, and
  `AllServed` excepts it), and beyond it a far customer may be served before a near one.
* A create that ends before its type tests an uninitialised character and may be
  accepted (`network_server.cpp:254`): `parse_message` has two results then.
* The pager ignores the result of `file_write` (`vmpager/utils.cpp:358`); failing writes
  are not modelled. With `memory_pages = 1` eviction would read the front of an empty
  queue (`295`); an assumption of `Pager` excludes it.

`AllServed` holds on one CPU without timer interrupts, as `main` boots it. On more, a
signal sent without `pizza_lock` (`main.cpp:40` and `84`) between the manager's test and
its wait would be lost.

## 5. Theorems

Every theorem holds for all values of the constants that satisfy the named
assumption of the module that declares them. Each is proved from an inductive
invariant that was first checked by TLC on the run of its component.

### Thread library

Assumptions: `ConstantsAssumption` (the sets of threads, CPUs, mutexes and condition
variables are disjoint, the null values outside) and, for `WakeupsArrive`,
`CpusAssumption` (finitely many CPUs).

| Theorem | Property | Inductive invariant |
|---|---|---|
| `TypeCorrect` | `TypeOK` | `TypeOK` and `ExecInv`: where a CPU is in the library determines whether it executes a thread or its idle context. Without it `yield` could push the idle context |
| `ThreadsPlaced` | `NoThreadTwice`, `NoThreadLost` | with `LifeInv`: the main thread is not created before its CPU boots, and `finished_threads` are finished. The argument is one lemma per move of a thread (park, yield, wake, pop, create, start, finish) about any queues; each action is a few moves |
| `ThreadsKept` | `NoThreadLost` | the second half of `ThreadsPlaced`, by itself |
| `StacksExclusive` | `StackExclusive` | `GuardInv` (one CPU has the guard), `StackInv` (a CPU runs on its executing thread's stack, or is switching under the guard and nobody else executes that thread), `StacksKept` |
| `MutexSafe` | `MutualExclusion` | `MutexInv`: a thread inside `lock` owns the mutex or is in its queue; a free mutex has no waiters; holders own |
| `JoinSafe` | `NobodyWaitsForFinished` | itself, with `LifeInv`: the threads a finishing thread frees have finished before, so their queues are empty already |
| `LockOrder` | `LockFIFO`, an action property | from `MutexInv`: a free mutex has no waiters, so whoever finds it free overtakes nobody; `HandOffInOrder` says what `unlock_mutex` does to the queue |
| `WakeupsArrive` | `NoLostWakeup` | `WakeInv`: itself, and no CPU is announced twice, an announced CPU is in its idle loop and has no interrupt left over. Without these the CPU taken off `suspended_cpus` for a new ready thread could be one that was counted already. The proof counts CPUs in finite sets |
| `LibraryImplementsMonitor` | `ImplementsMonitor`, a refinement | `LibInv`: the invariants above. One lemma per operation gives the step of `Monitor` it is; one lemma says that the idle loop, switches and `yield` change nothing `Monitor` can see |

### Pager

Assumptions: `PagerAssumption` (types of the constants, at least two frames) and
`MaxBlocksAssumption`: there are at least as many `mem_block` identities as frames and pages
together. The code allocates from the heap; `UnusedLemma` shows that an allocation then
always finds an identity, so the bound of the model is none. Every theorem has the hypothesis
`CountsFit`, because the code needs it: with a count that has wrapped, a fork may find fewer
free swap blocks than it takes.

| Theorem | Property | Inductive invariant |
|---|---|---|
| `PagerCorrect` | `PagerInv` | `Whole(Pager, {}, {})`, the shape of a pager between two handlers, and `ProcInv` |
| `PagerTypeCorrect` | `TypeOK` | from `PagerInv` |
| `FramesAreConserved` | `FramesConserved` | from `PagerInv` |
| `SwapIsConserved` | `SwapConserved` | from `PagerInv` |
| `PtesAreExact` | `PtesExact` | from `PagerInv` |
| `MmuIsSound` | `MmuSound` | `MmuInv(Pager, {})` with `PagerInv`: itself, and the pinned page is never dirty |
| `LoadsAreRight` | `LoadsRight` | `TableInv(Pager, {})` with the two above: a file-backed block that a page shows is in `file_mapping_table`, and no two blocks of the table are of one file block |
| `CleanIsOnDisk` | `CleanOnDisk` | `DataInv` with the three above: a block that is not dirty equals its place in swap or file, and `SwapOwned`: no two blocks have one place in swap |
| `OnlyStoresChange` | `OnlyStoresChangePages`, an action property | from `DataInv`, handler by handler |
| `PagerImplementsVM` | `ImplementsVM`, a refinement | from `DataInv`, handler by handler |

A handler is one action but many calls of helpers, and the properties do not hold
between them: a page that copy on write or `vm_destroy` is taking from its block is no
longer among the block's ptes, or has no swap block any more, while `data_location` still
has it. `Whole(S, unpointed, unswapped)` therefore says what is true of a pager state `S` in
the middle of a handler but for these two sets of pages, and there is one lemma for each
helper. Its conjuncts need one another: an eviction finds a swap block (`HomeInv`) because
each page of a block in the clock queue has one (`SwapInv`), which is counted over the pages
that show it (`PtesInv`). A fork finds one for each page because `num_swap_blocks` is at least the number
of swap-backed pages, and exceeds it by a leftover at most, so that it does not wrap (`Counts`, in `ProcInv`). Loops are recursive functions over a number, and
what they keep is shown by `UpToInduction`: an induction over a *set* of numbers, which
the provers can use, in place of the library's induction over a predicate.

`MmuInv(S, gone)` is stated in the same way, of any state and but for the pages that are
being taken from their blocks. It rests on `PagerInv`: an eviction disables the entries in
the ptes of its victim, which are all that show it only because of `PtesInv`. The pinned
page is the exception, as it knows only the pages a fork gave it; what keeps every
entry that shows it read-only is that it is never dirty, since every store to it is a fault
that copies first. A helper touches the entries of one block, or of one page; what it does
to the others is nothing (`Undisturbed`, `SettleMmu`), so each lemma looks at the pages of that
block alone.

`LoadsRight` compares the frame that an entry names with the value `VirtualMemory` gives to the
page under the refinement mapping, and for a file-backed page that is the value of the block
the table has for the file block. `TableInv` makes this block the page's own. It is kept
because evictions and exits forget only blocks that no page shows (again `PtesInv`), and because
`map_file_block` looks the file block up before it allocates.

The data theorems ask what a helper does to the value each page shows. `Preserved(S, T)` says
that two pager states show the same values; an eviction preserves them because the victim
was written out if it was dirty, and otherwise by `CleanOnDisk`; because the place it is
written to belongs to no other block (`SwapOwned`); and because its frame is shown by no page
afterwards (`MmuSound`). Every handler is then one of five kinds: it shows an application
nothing new (`NothingShown`), gives a child the pages of its parent (`PagesCopied`), takes pages away
(`PagesLost`), shows one more page (`PageShown`) or stores a value (`Stored`). Each kind is a step of
`VirtualMemory`, or a stutter, under the refinement mapping, and only the last changes a page
that stays. For `vm_map` of a file, `NameIs` shows that the bytes `read_filename_str` gets are what
the pages held before: the first page is read from its frame before the second one is made
resident, and making it resident preserves the second (`TouchedSettles`, `ByteIs`).

### File system

Assumptions: `FileSystemAssumption` (types of the constants, sizes at least 1) and
`RequestsAssumption` (finitely many requests have been made), and `ImagesAssumption`: the server
is started on the disk of a file system, that is, one whose tree is sound (`Consistent`). The
code checks nothing of what it finds there. A disk that an earlier server left, by a crash or
not, is one, as `TreeSound` says.

| Theorem | Property | Inductive invariant |
|---|---|---|
| `LocksCounted` | `LockMapExact` | `LockInv`: itself, with `ChildLocker` (only a delete locks a child) and that a request which has not been received has locked nothing |
| `TreeSound` | `DiskConsistent` | `FsInv`, with `LockInv` |
| `BlocksAllocatedOnce` | `FreeSound` | `FsInv`, with `LockInv` |
| `CopiesFresh` | `CopyFresh` | `FsInv`, with `LockInv` |
| `FsTypeCorrect` | `TypeOK` | `FsInv`, with `LockInv`, and that `lock_map` is a function |

`LockMapExact` counts, for each inode, the requests that hold or await its lock, as
their place in the handler says. A request counts at most twice, for `curr` and for `next`
(`Weight`). `CountStep` is the heart of the proof: a step of one request changes a count by
the change of that request's own weight, whatever the others do. One lemma for each of
`lock_inode_*` (registering, then locking), `upgrade_to_write_lock` and `unlock_inode_*`
says that the lock changes by the same amount, and one for each action which weights it
moves. That the inodes a request holds are different ones is not needed.

`FsInv` is one invariant for the other four, since none of them is kept by the steps of
the handlers without the others: a create links the block it took off the free list, which
must not be in the tree by then (`FreeSound`); it writes back the direntries it has read, which
must not have changed (`CopyFresh`); and that nobody else has the block or has changed the direntries
rests on who may be where in the tree. Its parts are

* `TreeOK(disk)`: the soundness of the tree, said by pairs of places and not by
  counting, as `Consistent` says it (`SoundTree` shows them equal);
* `FreeInv`: each block is free, in the tree, or taken by one request;
* `ReqOK`, for each request: where it is in the tree (`At`), and what it has read, taken
  and prepared there (`WriteAt`, `CreateAt`, `DeleteAt`, `VictimAt`), which commands get where
  (`OpAt`), how far it is on its path (`PathInv`) and the types of its locals (`ReqType`);
* `Stands`: who reads an inode reads one of the tree, or one that has been unlinked
  by a delete that waits for its readers to leave before it frees the blocks.

The inodes of a disk are what a breadth-first search finds within as many levels as there
are blocks. `ReachClosed` shows that this is enough (a level that adds nothing is the last, and
each level before it adds a block), so the inodes are the smallest set with the root that no
direntry leads out of. `LinkNew` and `LoseLink` say from this how one more and one less
direntry change a sound tree, whatever the rest of it. A step of a request then is one of three: it writes
nothing (`StillFs`); it fills a block that it has taken (`FillFs`), which is in no
tree; or it commits, with one write to the inode it has locked exclusively or to a block of
it. `CommitSpares` uses `LockInv` there: no other request walks through this
inode, works on it, or stands on a child that the write unlinks, except a reader that `Stands`
allows. A crash forgets what requests had taken, and what is not in the tree is free again
(`RestedFs`).

### Network server

Assumption: `ServerAssumption` (types of the constants).

| Theorem | Property | Inductive invariant |
|---|---|---|
| `ServerTypeCorrect` | `TypeOK` | `ServerInv` |
| `WritesWhole` | `WholeBlockWritten` | `ServerInv` |
| `AnswersTrue` | `AnswerMeansDone` | `ServerInv` |
| `HangsUpRightly` | `HangsUpForAReason` | `ServerInv` |

`ServerInv` relates, for each connection, what the client did, where the thread is and
what the file system made of the request (`SizeInv`, `StatusInv`, `BlockInv`). None of the
properties is inductive alone: that an answer means success, for example, follows from the
thread's place only because a thread that answers had a request that was done.

### Pizza application

Assumption: `PizzaAssumption` (types of the command lines; coordinates up to `UINT_MAX`).

| Theorem | Property | Inductive invariant |
|---|---|---|
| `PairsStayTogether` | `PairedUntilPaid` | `ObjectInv` |
| `TradesInOrder` | `TradeInOrder` | `ObjectInv` |
| `PizzaTypeCorrect` | `TypeOK` | `PizzaInv`, that is `ObjectInv` and `SchedInv` |
| `PizzaUsesMonitor` | `UsesMonitor`, a refinement | `PizzaInv` |

`ObjectInv` ties the flags of the two objects of a match to each other and to the places
of both threads (`DriverInv`, `MatchInv`, `TakenInv`, `CustomerInv`) and the counts to whether
a request is open (`CountInv`). `PairedUntilPaid` alone is not inductive: that the customer
is where it was after the drive holds because it stays taken, which holds because nobody but
this driver hands it a pizza and nobody pays without one. The proof of `ObjectInv` uses
no fact about `pizza_lock` or the scheduler, only where the threads are.
`SchedInv` says where a thread is for the scheduler (`QueueInv`, `PlaceInv`), and that a
thread at a place between `lock` and `unlock` owns `pizza_lock` or is in its queue, to get it
with the hand-over (`LockInv`). For it, and for the refinement, every step is first put into
one of nine kinds (`SchedStep`: lock, unlock, wait, signal, run on, create, finish, load, none),
so that neither proof looks at the program again.

### Only model-checked

* Liveness (`ReadyRuns`, `Answered`, `AllServed`, `ConnectionEnds`): fairness is outside the
  prover's reach.
* `ImplementsFileServer`: it compares the tree that a disk encodes with an abstract one, path
  by path, so each step needs, beyond `FsInv`, that every request stands where its path leads.
* The parser (`PathsExact`, `PathSplit`, `BlocksRead`): folds over characters, which would need
  an induction over the data.

## 6. Plan

Done: all modules of section 2 and the theorems of section 5. Left: that `FileSystem` implements
`FileServer`, for all constants. `FsInv` gives what it needs of the disk; missing is an invariant
that ties the place of a request to its path, and how each commit changes the paths.
