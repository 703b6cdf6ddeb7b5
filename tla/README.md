# The xv6 kernel of 6.1810 (2023) in TLA+

These modules model the kernel of `src/xv6-all`, the variant of this repository that has the changes of all ten labs.
`src/lab1` to `src/lab10` hold the same kernel with one lab's changes each and are not modelled apart from it. The labs
make this kernel quite another one than the teaching original: its buffer cache is lock-free, its pages are shared
copy-on-write and may be swapped out, its free lists are per CPU and stolen from, and it has threads, signals, mapped
files and a TCP stack. All line numbers below are of files in `src/xv6-all/kernel`.

`PROJECT.json` lists the components, the runs, which lines of the source each definition stands for, the hazards the
properties are aimed at, the findings and the theorems.

    tlc -workers 2 -config LogCommits.cfg Log        # one run
    tlapm LogProofs.tla                              # the proofs about Log

## 1. The system

| component | state | operations | what is hard | what makes it correct |
|---|---|---|---|---|
| buffer cache (`bio.c`, `buf.h`) | hash table of (count, buffer) words, queue of unused buffers, sleeplock, block number and `valid` per buffer | bread, bwrite, brelse, bpin, bunpin | no lock but the sleeplocks: every step races | a reader gets the block it asked for; counts are exact; no buffer is lost or holds two blocks; retries end |
| queue of unused buffers (`bio.c:39-91`) | head, tail and qnext words with counters; `in_q` claims | enqueue, dequeue | lost CAS, re-use of nodes (ABA), a lagging tail | it is a FIFO queue; a claimed buffer is in it |
| log (`log.c`) | header in memory and on disk, log blocks, outstanding, committing, pins | begin_op, log_write, end_op, commit, recovery | crashes between any two writes, group commit, space | file system calls are atomic across crashes; no panic; waiters get in |
| disk driver (`virtio_disk.c`) | descriptors, two rings, `info`, `buf_disk` | virtio_disk_rw, virtio_disk_intr | the device runs beside the driver; indices wrap; kill wakes sleepers | descriptors are not shared; completions find their buffer; nothing is lost |
| physical memory (`kalloc.c`) | free list per CPU, `ref_cnt` | kalloc, kfree, kincget, kalloc_cow | stealing between CPUs, counts under another lock | a page is handed out once and never lost |
| virtual memory (`vm.c`) | page tables with PTE_COW | uvmcopy, uvmunmap, copyonwrite | sharing after fork, failure half-way | each process has memory of its own |
| processes (`proc.c`) | process table, wait_lock, parents, threads | fork, clone, exit, wait, join, kill, sleep, wakeup | exits of parents, children and threads in any order; kill at any time | no lost wakeup; parents and address spaces outlive who needs them; the killed exit |
| swap (`swap.c`, `proc.c:1000-1070`) | swap slots, PTE_PG | pageout, pagein, find_swapping_page | a PTE used after its locks are released | the page read back is the page written |
| signals (`signal.c`) | pending, masks, saved trapframe | sendsignal, signal_handle, sigreturn | handlers within handlers, out of sleep | the interrupted context comes back |
| pipes (`pipe.c`, `file.c`) | a ring of 512 bytes, both ends' flags and counts | pipewrite, piperead, pipeclose, fork, close | the lock is released around copyin and copyout; kill; ends closed during reads and writes | bytes arrive once and in order; no lost wakeup; the page is freed when unused; a hang-up is seen |
| files (`fs.c`, `file.c`, `sysfile.c`) | inodes and blocks on disk, inode table with locks, open files, current directories | open, link, unlink, mkdir, symlink, chdir, write, close, over ialloc, iget, ilock, iput, namex | calls on the same names interleave between the locks; counts in memory against links on disk; order of locks; crashes | counts are exact; an inode is freed once and when unused; a crash leaves a consistent tree; no panic; calls return |
| mapped files (`mmap.c`) | vmas of a process | mmap, munmap, vma_handle | faults of two threads, file blocks pinned | pages and buffers are given back once |
| TCP and sockets (`tcp.c`, `sysnet.c`) | table of sockets, control blocks, receive queues | connect, accept, read, write, close; a segment arrives | both ends close at once; loss, reordering, resets; wakeups | data arrive once and in order; acknowledgments are true; calls return |
| network below (`e1000.c`, `net.c`) | rings, ARP queue | transmit, receive | locks across layers, full rings | frames leave and arrive once |
| console and UART (`console.c`, `uart.c`) | two ring buffers | consoleread, uartputc, interrupts | interrupts against readers | nothing is lost below capacity |
| boot, traps, assembly, user and host programs | | | | not modelled, see section 8 |

How they interact: a system call of the file system calls begin_op, then bread (cache), which may sleep for the disk
driver, then log_write (which pins the buffer in the cache), brelse and end_op, which commits with bwrite. Sleeping and
waking is `proc.c`'s; kill and signals wake sleepers that wait for something else. exit and munmap unpin buffers. A page
fault calls `vm.c`, which calls `kalloc.c`, which, when pages are short, is to call `swap.c` and `proc.c` back.

## 2. The modules

| module | models | implements | run | proofs |
|---|---|---|---|---|
| `LruQueue` | what enqueue and dequeue promise | | | |
| `LockFreeQueue` | `bio.c:39-91`, one load, store or CAS per action | `LruQueue` | queue_shared, queue_lost_enqueue | `LockFreeQueueProofs` |
| `BufferCache` | `bio.c:94-248` and its callers; uses the actions of `LruQueue` | | cache_shared, cache_cold_race | `BufferCacheProofs` |
| `AtomicDisk` | what the log promises | | | |
| `Log` | `log.c` | `AtomicDisk` | log_commits | `LogProofs` |
| `VirtioDisk` | `virtio_disk.c`, and the device | | disk_requests | `VirtioDiskProofs` |
| `AddressSpaces` | what fork and virtual memory promise | | | |
| `Memory` | `kalloc.c` and copy-on-write in `vm.c` | `AddressSpaces` | memory_shared, memory_copy_race | `MemoryProofs` |
| `Process` | the life of processes and threads in `proc.c` | | process_family | `ProcessProofs` |
| `Channel` | what a pipe promises | | | |
| `Pipe` | `pipe.c`, and `file.c` for its two ends | `Channel` | pipe_shared | `PipeProofs` |
| `Files`, `MCFiles` | inodes and directories in `fs.c`, and the calls of `sysfile.c` that change them | | files_shared | `FilesInvariant`, `FilesProofs` |
| `Tcp`, `MCTcp` | `tcp.c` and the sockets of `sysnet.c` at both ends, and the network between | | tcp_connection | |

What they have in common:

- **Grain.** A critical section of a spinlock is one action; so is code that touches only what its thread owns. Where the
  source releases a lock, or uses none, the next access is the next action. `pc[t]` is where a thread is, and its values
  are named for the code that comes next.
- **Locals** that live across actions are variables (`loc`, `hand`, `scan`, `idx`), so a thread goes on with what it
  read, stale or not.
- **Ghosts** (`content`, `leaked`, `wrote` ...) are marked as not in the code. No guard of a code action reads one, but for
  `Log`, whose `wrote` bounds what a call writes, since begin_op's reservation is a promise of the caller.
- **Bounds** (`MaxOps`, `MaxForks`, `MaxCrashes` ...) are CONSTANTS that stop only the actions that start something new.
- **Panic** is a state, not a disabled action; what may lead there is a property.
- **Deadlock** is not checked by TLC's own check: when the bounds are spent the system may rest. That nobody waits for
  ever is a property of each run with fairness (`EveryCallReturns`, `EveryReadReturns`, `EveryCallGetsIn`, `KilledExits`,
  `OrphansReaped`, `ConnectAndCloseReturn`, `HangUpIsSeen`); `NoRequestLost`, `NoLostWakeup`, `SleepIsJustified` and `SleepersWait` say it as invariants.
- **Faulty forms.** A definition such as `Rest_Whole(list)` next to `Rest(list)` is what a plausible bug in those lines
  would make of it. Each property of a passing run is violated when one of them takes the place of the definition.

### Schedules that are spared (`Races`)

While modelling we met windows in which the code does not keep its promise; they are findings or observations (section 5). To show that
the windows are the *only* trouble, six modules have a constant `Races`. With TRUE the model is the code. With FALSE it
holds a thread back at the door of a window that another one is in (`Pipe` instead lets the writer look again), and all properties
hold in what is left:

| module | window | held back |
|---|---|---|
| `LockFreeQueue` | between a thread's read of (0, NULL) and its CAS | `MayReset`: the store of line 52 on the node it is about to link behind |
| `BufferCache` | a mapping that is installed before the buffer is locked; a buffer taken from the queue whose old mapping is still there; a brelse that has yet to enqueue | `MayLock`, `MayFree`, `MayTake` |
| `Memory` | kalloc_cow has given the reference up and copyonwrite has not copied | `MayTakeLast`: the others' steps that take the last reference |
| `Process` | wait has asked killed() and does not sleep yet | `Kill` of that process |
| `Pipe` | pipewrite has found room and copies its byte in without the lock | `MayPut`: only the store that overruns the ring; its writer looks for room again |
| `Files` | iput has freed an inode and has yet to give up its reference | `MayPut`: the others' iput of that inode |

The claim of such a run is therefore conditional: *in all schedules that spare the window*. `Log` and `VirtioDisk` have
no such restriction, and the theorems about `Process` hold with Races TRUE as well as FALSE; those about `LockFreeQueue`,
`BufferCache` and `Memory` assume FALSE, and those about `Pipe` either FALSE or that one process writes. Those about `Files` hold for both,
`NothingLost`, the only property of `Files` the window breaks, not being among them. `Tcp` spares nothing either:
its variable `missed` records the cases in which the code does wrong without any fault of the network, and the two
properties they touch, `Complete` and `ConnectAndCloseReturn`, are stated up to them.

## 3. Model and code

**`LockFreeQueue`.** `head`, `tail` and `qnext[b]` are the CNTPTR words of `buf.h`; `NBUF` counts the buffers and buffer
NBUF is the first sentinel, as in binit. enqueue is EnqClaim (line 48), EnqReset (52), EnqReadTail, EnqReadNext, EnqCheck
(55-58), EnqLink (59), EnqHelp (62) and EnqSwing (66); dequeue likewise, from DeqReadHead (73) to DeqUnclaim (84). The
refinement mapping walks the list from head: `Chain` is the abstract queue, and `Phase(b)` says whether a buffer is
queued, claimed but not linked, taken but still claimed, or out. The abstract `Link` happens at EnqLink, `Take` at
DeqTake. The words' counters grow with the calls, which MaxOps bounds.

**`BufferCache`.** `hashtable[n]` is the 32-bit word (27 bits of count, which wrap, and the buffer's index). bget's loop is
GetRead, GetHit, GetPutBack, GetDequeue, GetVictim, GetExpect, GetEvict, GetInstall, GetLock or GetLockNew and GetRename;
brelse's is Release, RelBlock, RelRead, RelCount, RelEnqueue, RelDone: it reads the count, and its CAS fails when another
thread has changed it. Callers are modelled by what they do with the buffer: read it (`UseRead`, fs.c), write it in
place (`UseWrite`, write_log), log it and pin it (`UseLog`), install and unpin it (`UseInstall`), map it into user memory
(`UseMap`), from which `Unmap` later unpins it without a lock. `pinned` and `mapped` say which buffers the log and a mapping
refer to; of the mappings of a buffer there is at most one, and of pins and mappings at most `MaxPins`. bpin, bunpin and
bunpin2 are one step each, an iteration of their loop that succeeds: they keep nothing from an iteration that fails. A block's
content is a version number; `content` is the latest. The ghosts `leaked` and `dropped` are the buffers that munmap and bget lose
(section 5). The start is the state after one process has read `Warm` blocks.

**`Log`.** What runs under log.lock is one action (BeginOp, BeginSleep, LogWrite, EndOp, Finish). Outside it each disk
write is an action: WriteLog, WriteHead, Install, Erase. `Crash` may come between any two, also during recovery; it keeps
`disk`, `logged` and `header` and makes everything else anew. ReadHead, RecoverInstall and RecoverErase are
recover_from_log. `Evict` is bget re-using an unpinned buffer: the cache forgets what is not pinned. A block write is
atomic, on which xv6 too relies (the header is one block).

**`VirtioDisk`.** virtio_disk_rw is Call, Alloc or AllocFails, Publish (avail.idx), Notify (the device's register, then
sleep), SleepAgain, Finish; virtio_disk_intr is IntrAck, IntrEntry, IntrDone. The device (external, modelled by what the
driver relies on) takes offered chains, serves any of those it has taken, in any order, and interrupts. `Kill` wakes a
sleeper as kill and sendsignal do. Ring indices count modulo IDX, which stands for 2^16 and is a multiple of NUM.

**`Memory`.** Each process has one page of memory and one page-table page. kalloc is KallocPop, KallocSteal per victim
CPU, KallocRefill, KallocFails, KallocCount; kfree is KfreeDrop and KfreePush; fork is Fork, ForkShare, ForkMap or
ForkFails; a store is Store, or Fault and then CowSole or CowShared, kalloc and CowCopy or CowFails. `cpu[p]` is the CPU p is tied to
by push_off. In the mapping to `AddressSpaces` a process's content is what its PTE leads to. Swapping is left out: kalloc
fails where find_swapping_page would be called and finds nothing.

**`Process`.** Slots of the process table with state, parent, isthread, killed; slot 1 is init. A thread has the process
it was cloned from as parent and runs in its `space`. exit is ExitCall, TpKill, TpScan with its sleep and Relock, and
ExitZombie; wait and join are WaitCall, WaitReap, WaitFault, WaitDecide, WaitSleep and Relock. wait_lock is a variable because the code
holds it across killed(), which takes p->lock: kill comes in between. A kill of init, which the code allows, is left out: exit
would panic ("init exiting"). RUNNABLE stands for RUNNING too.

**`Pipe`.** A pipe in the hands of a process, to which fork gives children with both ends (a thread has descriptors of its own, so it is
a process here). pipewrite is Write, then WriteCheck at the head of its loop, `copyin` without the lock, and WritePut, which
stores the byte and runs into the head of the loop again (with Races FALSE a writer that finds the ring full when it is to store its byte
takes WriteCheck again, which the code does not; all other steps are the code's); piperead is Read, ReadCheck, `copyout` without the lock and
CopyOut. What follows under the same lock is in the same action: WriteOn and ReadOn. A process sleeps at `full` or `empty`; WakeReaders
and WakeWriters are the two wakeups. CopyInFails and CopyOutFails are bad addresses. fileclose is Close and, for the last descriptor,
PipeClose, after ftable.lock has been released. `Kill` wakes any sleeper; killed() and sleep in one action may have a kill between
them (`MayMissKill`), which the victim sleeps through. nread and nwrite count modulo UINT, a multiple of PIPESIZE, and start at `Start`,
so that they can be about to wrap. A byte is its writer and what that writer had left to write.
In the mapping to `Channel` the bytes on their way are the entries from nread to nwrite.

**`Files`.** A call is modelled from begin_op to end_op. Its actions are named for what comes next: Walk is one element of namex
(ilock, dirlookup, iunlock) and is followed by iput of the directory it leaves; then Open, Create, Link, Unlink or Chdir goes on with
what the walk has found, which may have changed meanwhile. An action is what a call does from the moment it has an inode's lock to its release,
or to the next lock it must wait for while it holds this one (CreateAlloc and CreateFill, UnlinkLock), or one critical section of
itable.lock. iput is Put, which decides, and, if it frees the inode, PutFree (itrunc, type 0, iupdate), PutInval and PutDrop; `puts` are the iputs that
are due, `next` what follows them. `itable` has an entry per inode (iget of an inode without references makes it anew), so the table is never
full. `disk` is what the buffer cache shows, `committed` what is left after a crash: end_op of the last call under way
commits all, as `Log` implements it. An inode has at most one block, which for a directory holds its entries and for a link its
target. Paths are sequences of characters in which a name counts as one: what matters is that a link's target, which is stored without its end,
is read over the path in sys_open's buffer (`ReadOver`), and over an older target (`Over`). Behind a longer target there is whatever the stack
held, `Junk` or an end. A process has one descriptor.

**`Tcp`.** Two machines that both run this kernel; as ports tell their sockets apart, one table `sockets` holds those of both.
A socket's process is at `pc[x]`: connect is Connect and, once awake, ConnectReturns; accept is Accept (sockaccept enters
a socket in the table), AcceptWaits (tcp_api_accept, later) and AcceptReturns; read is Read and ReadReturns; write is
Write; sockclose is Close, CloseReturns and Free. A segment arrives with `Handle`: net_rx_tcp's lookup, the copy of the
sender's window over the socket's own, the binding of the socket to the sender, and then the part of
tcp_segments_arrives that the state selects (`Part`): ReceiveListening, ReceiveSynSent, ReceiveUnacceptable (outside the
window), ReceiveAbort (RST, or SYN) and ReceiveSegment (acknowledgment, text, FIN, in the source's order); NoSocket is a
segment nobody takes. Each handler is evaluated to an outcome: the new control block, the segments it sends, the channels it
wakes, and whether the text is queued. Bytes are pairs of the writer and a number, so that an order is visible. Sequence
numbers are not wrapped (rand gives less than 2^31); the window is the source's 16 bits, swapped as `tcp.c:97` makes it be.
Lookup and handler are one step, although the code holds no lock from one to the other. So are, in Connect, the entry in the table
(`sysnet.c:147`) and tcp_init_client: in between nothing can arrive, as nobody has heard of the port before its SYN. The network (external) delivers
each direction in order unless it loses, repeats or delays a segment or answers it with a reset; each of these, and a kill
of a sleeping or running process, is one of `MaxFaults`. The code never sends a segment again, so nor does the model.

## 4. The runs

Times are of two workers; "V" is a run that finds a violation.

| run | instance | states | shows |
|---|---|---|---|
| queue_shared | 3 nodes, 2 threads that enqueue and dequeue, 4 calls each | 100 k | it is the FIFO queue of LruQueue, which gives a buffer to one thread only and loses none; every call returns; window spared |
| queue_lost_enqueue (V) | the same, all schedules | 18 k | an enqueue that returned may leave its buffer in no list |
| cache_shared | 2 threads, 3 blocks, 2 buffers and the sentinel, 2 pins, 3 breads | 480 k | bread returns the latest content; exact counts; no buffer holds two blocks or is lost, but for munmap's and bget's; "no buffers" only when there are none; every call returns; windows spared |
| cache_cold_race (V) | 2 threads, 1 block, 2 buffers | 0.2 k | the second reader gets the old content |
| log_commits | 2 threads, 2 blocks, calls of 2 blocks, 4 log entries, 4 calls, 2 crashes | 140 k | implements AtomicDisk, a commit runs alone, reservations fit, who waits gets in |
| disk_requests | 3 threads, 7 descriptors, indices modulo 7 from 5, 3 requests, 1 kill | 1.18 M | descriptors, completions, transfers, and nothing lost |
| memory_shared | 3 processes, 4 pages, 2 CPUs, 2 values, 5 forks; symmetric | 102 k | no page twice or lost, exact counts, memory of one's own; window spared |
| memory_copy_race (V) | 3 processes, 5 pages, 3 forks | 99 k | a faulting process copies a page it has given up |
| process_family | init and 3 slots, 3 forks or clones, 2 kills, 1 bad address | 125 k | parents and spaces outlive, no lost wakeup, orphans are reaped, the killed exit; window spared |
| pipe_shared | 3 processes, a ring of 2 bytes, indices modulo 4 from 3, 3 reads or writes of 3 bytes, 1 kill or bad address | 522 k | implements Channel, no lost wakeup, freed when unused, hang-ups are seen; window spared |
| files_shared | 2 processes, 4 inodes, 3 blocks, 2 names, 14 calls with a path, write and close, 3 calls or crashes | 377 k | exact counts, no inode lost, a consistent tree after any crash, no panic, every call returns; window spared |
| tcp_connection | one client, one accepter, 2 writes of 8 bytes in all, 1 fault | 384 k | data in order and once, acknowledgments true, nothing lost without a fault, nobody sleeps for nothing but after a reset, connect and close return |

Why the bounds are enough for what each run is about:

- *queue*: the sentinel and the two buffers behind it, as binit leaves them, are dequeued until the list is empty and come back; 4 calls let a node
  go out, in and out again while the other thread is stalled with its old word. Helping a lagging tail (EnqHelp,
  DeqHelp) happens. The refinement is proved for any number of buffers, threads and calls.
- *cache*: more blocks than buffers force evictions; two pins and a held buffer fill the cache, so the panic happens; the
  blocks read at the start give hits, misses and evictions. Three breads let a block be evicted under a reader and come back.
  With four the safety properties hold as well (4.9 million states). They are proved for all bounds.
- *log*: 2 calls of 2 blocks exhaust the 4 entries, so the third call waits for space; 2 crashes hit a commit and then
  its recovery. NLOG = 3 makes log_write's panic of section 5 reachable, so the properties are checked up to it too. The proofs
  hold for all bounds.
- *disk*: two requests take 6 of 7 descriptors, the third finds one free and has to give it back; indices start at 5 so that
  the three requests cross the wrap of IDX = NUM = 7, and ring slots are used again.
- *memory*: the three processes need 6 pages when nothing is shared, and there are 4: kalloc fails in fork and in
  copyonwrite; lists of up to 4 pages are stolen from by halves, from odd and even lengths. Symmetry is over processes,
  pages and values, which the specification does not tell apart; no liveness is checked in that run.
- *process*: 4 slots give a process with two threads, a chain of three generations, and siblings; 3 forks let a slot be
  used again; two kills hit a process and its thread, or one twice. The safety properties are proved for every number
  of slots, forks and kills.
- *pipe*: a write of 3 bytes fills the ring of 2 and sleeps; a second writer waits behind it, or finds the ring full when it is to store its byte; of three processes two can be at
  one end, awake, asleep or in a copy, while the third closes or reads the other. Indices start at the last value before
  they wrap. The safety properties are proved for all sizes; the run adds `HangUpIsSeen` and the check that the cases happen.
- *files*: a directory with a file in it. The requests create, link, remove and replace the file and the directory under each other's
  feet, walk out of a directory that is being removed, and follow links to links; one inode and one block are free, so that the second mkdir
  fails half-way. Three calls are two at once and one that finds what they have left, or one, a crash, and one more. With four the
  invariants hold as well (3.4 million states for the requests without `Absolute`).
- *tcp*: one connection passes through every state of the protocol but for those that only a third machine brings about: both
  ends open in either order (LISTEN before SYN and after it), send, and close one after the other or at once (CLOSING,
  TIME_WAIT, LAST_ACK). Writes are of 8 bytes because 8 is what is left of a window of 2048 once its bytes are swapped: a
  second write in one direction meets the closed window, the reads open it. One fault is one per connection at any point of it,
  for each kind; that later segments then find the receiver out of step is what the invariants are checked against.

## 5. What the runs found

Each is a run of its own that shows the shortest trace found.

1. **A completed enqueue may be lost** (`bio.c:52`, queue_lost_enqueue). enqueue resets the node's qnext word to (0, NULL),
   counter included, so the counter no longer protects a thread that stalled before its CAS with the same word: it links
   its buffer behind a node that has left the list and is on its way in again.
2. **bread may return another block's data** (`bio.c:158`, cache_cold_race). The mapping is published before the
   sleeplock is taken; a second reader locks first and finds the evicted block's number, `valid` flag and data.
3. **Copy-on-write may copy a page that is gone** (`kalloc.c:211`, memory_copy_race): the reference is given up before the copy.

### Observed while modelling

These are not runs of their own: no document of the repository promises otherwise. The models contain them, and their properties are
stated so that each is seen.

Buffer cache:

- **munmap and exit take a count to 0 through bunpin2** (`bio.c:232`), which the commented assertion above it would not allow; nobody
  enqueues the buffer, so it is lost to the cache until its block is read again. `NothingLost` and `PanicOnlyWhenFull` count such
  buffers as `leaked`.
- **bget may drop a buffer** (`bio.c:151`). A bget that has evicted block v from buffer a, and then finds that its own block has been cached
  meanwhile, puts a back (line 138) with a's `blockno` still v. v is read again, into a buffer c. The next bget that dequeues a
  looks into v's entry, finds c with a count above 0, takes that for a user of a and goes on to the next buffer: a is then in no queue
  and in no entry, for ever. That `blockno` may be trusted there is what the comment of line 148 says. Two processes that only read are
  enough: with Uses = {"read"} and MaxOps = 4 TLC reaches `dropped # {}`; it was the proof of `NothingLost` that led to it, since three
  calls, as in cache_shared, do not. `NothingLost` and `PanicOnlyWhenFull` count such buffers as `dropped`, and the theorems
  show that these are the only two ways to lose one.

Log:

- **log_write may panic "too big a transaction" although calls keep to their reservation** (`log.c:220`):
  begin_op hands out LOGSIZE blocks, but the log on disk has LOGSIZE - 1 besides its header (`mkfs.c:25` counts it). With 3 threads and
  LOGSIZE = NLOG = 3, TLC finds `NoPanic` of `Log` violated. `Slack` is the condition under which this cannot happen, and `NeverPanics` the
  theorem: it holds when calls really write at least two blocks fewer than MAXOPBLOCKS.

Files:

- **An inode may be lost for good** (`fs.c:362`). iput frees an inode on disk, releases its lock, and only then takes itable.lock again to
  give its reference up. In between another process may allocate the inode, use it and unlink it; its own iput finds two
  references and leaves the inode to the first iput, which does not look again. The inode stays allocated, without a link and without a
  reference, until a new file system is made, against `fs.c:130`: "iput() frees if the reference and link counts have fallen to zero". With Races
  TRUE, three inodes, and mkdir and unlink of one file, TLC finds `NothingLost` violated in 33 steps.
- **A removed directory can still be written to** (`sysfile.c:254`, `:151`): create and link take the parent from nameiparent and lock it
  later. When it was removed in between they make the entry in it; the entry is lost with the directory, the link it counted is not.
  And ".." of a removed directory whose parent is gone too makes ilock panic ("ilock: no type", `fs.c:318`), or leads to
  whatever the inode has become. `strayed` records both, also where the last element of a path is ".." of a removed directory, which
  create and link look up in it; and `CrashConsistent` and `NoPanic` are stated up to it. The proofs of section 7 show that nothing else
  breaks them.
- **A link may lead elsewhere** (`sysfile.c:341`, `:579`): the target is stored without its terminating zero and read over the path in the
  buffer, so what was longer than the target stays: "/t/x" that links to "/t" leads to "/t/x" again, and a target longer
  than the path ends in what the stack held. A symlink written over an older, longer one ends in the old one's tail. The
  test of links, `user/symlinktest.c`, opens only paths as long as their targets.
- **A directory can be opened for writing through a link** (`sysfile.c:333`): whether it is a directory is asked before links are
  followed. Writes through such a descriptor are left out of the model.
- **open keeps a reference** (`sysfile.c:344`) to the last inode when it gives up after too many links (`dropped`); and **symlink panics**
  when no block is left for the target (`sysfile.c:580`, the label `full`).
- **A file that is open without a link when the machine stops** is never freed: nothing looks for it at boot (`orphans`).

Pipes:

- **Two writers may overrun the ring** (`pipe.c:97`): both find room for the last byte, release the lock for copyin and store without
  looking again. A byte is overwritten before it is read, and the writers then pass the test for full, which asks for equality.
  With Races TRUE and two writers TLC finds `ImplementsChannel` violated, and `SleepIsJustified` with it; with one writer both hold.
- **A killed writer wakes nobody** (`pipe.c:88`): it returns from the middle of a write, and a reader that slept before sleeps on,
  with data in the ring, until the next write or close. `SleepIsJustified` names this case (`LeftWrite`).
- **A byte that copyout cannot store is gone** (`pipe.c:132`): nread has moved on. In `Channel` it has been received.

TCP:

- **A reset wakes nobody** (`tcp.c:298`, `:309`), and nothing is ever sent again: a process in connect, read or close then
  sleeps until it is killed. So it does after the loss of any segment it waits for. `SleepersWait` says that, after a fault, a state that has
  become CLOSED is the only other thing a sleeper may be found in.
- **accept fails when the SYN is early** (`tcp.c:485`, `missed` "accept"): sockaccept has entered the socket in the table,
  the handshake completes, and tcp_api_accept finds a state other than LISTEN. The peer is connected to a socket that no
  process holds. A SYN that comes when no accept is under way is dropped (`missed` "listen"): the listening socket itself
  takes no segment.
- **The window has its bytes swapped** (`tcp.c:97`): it is sent without htons and read with ntohs, so 2048 is read as 8, and
  as the receiver takes the sender's window for its own (`tcp.c:143`), it soon refuses what comes (`missed` "window").
- **End of file comes before the data** (`tcp.c:641`): a reader that sleeps when text and FIN arrive returns 0 with the text
  still queued. The next read returns it, as `Complete` shows.
- **A SYN reopens a closed socket** (`tcp.c:149`, `missed` "reopened"): the case for CLOSED has no break, so a segment that finds a control block closed
  is answered with a RST and then taken as one for LISTEN. A repeated SYN thus opens a connection which the peer has long left, and what one
  end takes for acknowledged the other has not received. `AcksAreHonest` is stated up to it.
- **An unacceptable segment is answered even if it is a RST** (`tcp.c:290`), against the comment above it.

## 6. Fairness

- `LockFreeQueue`, `BufferCache`: weak fairness of each thread's next step inside a call: the scheduler is round-robin
  and timer interrupts preempt, so a runnable thread is run again and again. No fairness of the calls themselves.
  No call waits for a queue lock, so returning also means that CAS loops end: the number of calls is bounded, and each
  failure of a CAS is another call's progress.
- `Log`: weak fairness of recovery and of each thread's steps in the log, the commit included. A thread inside a call is
  assumed to come to its end_op. No fairness of crashes, nor of calls.
- `Process`: weak fairness of each thread's next kernel step; of exit for a killed process, which the timer takes out of
  user space into usertrap, where it exits; and of init's calls of wait, which `user/init.c` makes in an endless loop.
  No fairness of fork, clone, exit, wait or kill otherwise. No strong fairness anywhere: wait_lock is handed on
  without any, and the bounds keep it from being contended for ever. That is a real limit of the result: xv6's spinlocks are not
  fair, and a process that calls wait with a bad address in an endless loop, while it has a zombie child, could in
  principle keep all others from wait_lock. `MaxFaults` excludes it.
- `Tcp`: the two machines go on while they can: a segment that has arrived is handled, a process that is awake goes on, and a program
  closes its socket in the end, since exit closes it if the program does not. This is weak fairness of the union of these steps,
  written as `[]<>(~Busy) \/ []<><<Step>>_vars`, where `Busy` spells out when one of them is possible: nothing here is done
  twice without end, so fairness of each step apart would add nothing. No fairness of connect, accept, reads, writes, faults or kill.
- `Files`: weak fairness of each process's next step in a call, for the scheduler's sake and because releasesleep wakes who waits. An inode's lock
  is not handed on in order; the bound on calls keeps it from being contended for ever. None of calls or crashes.
- `Pipe`: weak fairness of each process's next step in the kernel, a failing copy included, for the scheduler's sake. None of reads, writes, closes or
  kills: `HangUpIsSeen` asks only what follows once the last descriptor of an end has been given up.
- `VirtioDisk` has none: "nothing is lost" is stated as an invariant that says who will make the next step.

## 7. What is proved

Eight of the models have proofs, in modules of their own. `LogProofs` proves about `Log`, for every finite set of threads, every set of blocks and values, every LOGSIZE,
NLOG and MAXOPBLOCKS, and any number of calls and crashes:

| theorem | statement |
|---|---|
| `TypeCorrect` | `Spec => []TypeOK` |
| `Invariance` | `Spec => []IInv` |
| `ReservationsFit`, `CommitsAlone`, `DirtyPinned` | the safety invariants of log_commits |
| `NeverPanics` | with `Slack`, log_write and end_op never panic |
| `LogImplementsAtomicDisk` | `Spec => CrashAtomic`: every step of the log is a step of AtomicDisk or a stutter |

The assumptions are `LogAssumption`: the constants are natural numbers, the threads are finitely many and a call
writes at most what it reserves (OPBLOCKS <= MAXOPBLOCKS).

None of the safety properties is inductive. That a commit runs alone needs the link between `outstanding`, `committing`
and where the threads are (`Presence`); that reservations fit needs that what a call has written is in the header, once
(`Quota`, `Progress`); that a crash is atomic needs where the copies of each logged block are at each stage of a commit
and of recovery: the log's copies are the cache's (`LogIsCopy`), the header on disk is the one in memory while blocks are
installed, and blocks below `tail` are home (`HeaderOnDisk`), and what differs between cache and disk is pinned, which
is exactly the transaction (`CacheIsDisk`). `IInv` is their conjunction.

The argument: one lemma per part of `IInv` shows that every action preserves it (`TypeStep`, `PresenceStep`, `QuotaStep`,
`ReservationStep`, and for the copies one lemma per action, such as `InstallCopies`, gathered in `CopiesStep`);
`StepIInv` joins them. For the refinement, `Durable` is what recovery would make of the disk: `WriteHead` is the
only step that changes it and is AtomicDisk's `Commit` (`WriteHeadCommits`); the installing steps leave it alone because
a block goes home from the very copy the header points to (`InstallSteps`), and erasing the header does because all are
home. `AtomicStep` collects the cases.

`ProcessProofs` proves about `Process`, for every size of the process table, any number of forks, clones, kills and failing
waits, and with Races TRUE, that is, in all schedules the code allows, kill's window included:

| theorem | statement |
|---|---|
| `TypeCorrect` | `Spec => []TypeOK` |
| `Invariance` | `Spec => []IInv` |
| `ParentsAlive` | `Spec => []ParentAlive`: a parent has yet to exit |
| `SpacesAlive` | `Spec => []SpaceAlive`: no thread runs in a freed page table |
| `NoWakeupLost` | `Spec => []NoLostWakeup`: nobody sleeps in wait, join or tpkill while what it waits for is there |

The assumption is `ProcessAssumption`: the constants are natural numbers and there is at least init's slot.

Its `IInv` adds to the properties: what an unused slot holds (`SlotsClean`) and that fork and clone fill a slot of their own
(`Filling`); at which points wait_lock is held (`Locked`); that init lives (`InitLives`); that a process past tpkill has
no thread left, not even a dead one (`NoThreadsLeft`); whose page table a thread runs in (`ThreadSpaces`, `OwnSpaces`); and that
who has decided to sleep in wait still has a reason (`SleepJustified`), which is what the lock is for. The hard one is
`SpaceAlive`: threads clone threads, tpkill looks only at threads of its own, and so a process may free its page table only if no chain of
threads leads to it. `NoCycle` says that without induction over the chains: no set of threads is closed under parent. If a process
that has no threads were the owner of the table some thread runs in, the threads that run in that table would be such a set
(`Deserted`). `EffectStep` sorts the actions by what they do to the table, so that the parts of the invariant about the table need
a case per kind of effect, not per action; the others have one step per action. For the wakeups, `Kept` says which
changes cannot take a sleeper's reason away without waking it.

`MemoryProofs` proves about `Memory`, for every finite set of processes and of pages, every number of CPUs, any values and any number of
forks, with Races FALSE, that is, in all schedules in which nobody takes the last reference to a page that
copyonwrite is still to copy:

| theorem | statement |
|---|---|
| `TypeCorrect` | `Spec => []TypeOK` |
| `Invariance` | `Spec => []IInv`; part of it is that neither kalloc, kfree nor kalloc_cow panics |
| `PagesOnce` | `Spec => []EachPageOnce`: a page is on one free list, in one thread's hands or counted, and once |
| `CountsAreReferences` | `Spec => []CountIsReferences`: ref_cnt is exact |
| `WritersAlone` | `Spec => []WriterIsAlone`: a page one process may store to is in no other address space |
| `MemoryImplementsAddressSpaces` | `Spec => ImplementsAddressSpaces`: copy-on-write cannot be seen |

Each is stated `ASSUME Races = FALSE`; the other assumption is `MemoryAssumption`: the processes and pages are finitely many, there are two
pages for the first process, and the special values are not values a process stores.

The properties need one another. That a page is handed out once rests on its count being zero on a list; that the
counts are exact needs who has a page in hand; and that a writer is alone needs that a count of one means one PTE. `IInv`
is their conjunction with what each process has at each point (`Owns`, `Forking`, `Hands`), that a thread that steals keeps
its CPU, whose list stays empty until the thief overwrites it (`Tied`), that somebody else keeps a page alive while
copyonwrite has given its reference up (`Protected`, the part that Races = TRUE breaks), that a page just allocated is in no
address space (`Fresh`), and that nobody reads junk (`ContentOK`). The counts are the long part: `References` is the size of a set of
(process, kind) pairs, so each step is shown to bind or unbind at most two such pairs (`Refs`, `Bound`, `Rebind`), and the page it
counts up or down is the one whose pairs change. For the refinement, `ContentMoves` says how each step changes what
a process reads: by its own store, by fork, by its end, and not at all by anything the others or kalloc do.

`PipeProofs` proves about `Pipe`, for every finite set of processes, every PIPESIZE and every UINT it divides, any start, any lengths and
any number of calls, kills and bad addresses:

| theorem | statement |
|---|---|
| `TypeCorrect` | `Spec => []TypeOK` |
| `Invariance` | `Spec => []IInv` |
| `NoLostWakeup` | `Spec => []SleepIsJustified` |
| `PageFreed` | `Spec => []FreedWhenUnused` |
| `PipeImplementsChannel` | `Spec => ImplementsChannel` |

Each is stated `ASSUME Spared`: one process writes (then in all schedules), or Races is FALSE. The other assumption is `PipeAssumption`,
of which two parts matter: PIPESIZE divides UINT, and is less. If it did not divide, entries would jump when the indices wrap (`SlotWraps`).

`IInv` has who is in a call and holds the end for it (`Busy`), that ref is the number of descriptors (`Counted`), that an end is open until
the process that gave up its last descriptor has called pipeclose (`OpenEnds`), and the heart of it, `Room`: the ring
holds at most PIPESIZE bytes, and if Races is TRUE nobody is about to overrun it, as one process writes. Full is a test for equality, so without `Room` a writer
that has waited too long would pass it for ever. A sleeping writer is justified because a byte is stored only when `Room` says that the ring was not full; a sleeping reader because whoever
stores a byte goes on to the next one, wakes it, or was killed, and cannot find the reading end closed while the reader sleeps at it
(`InUse`). One lemma per part and kind of sleeper goes through the actions (`RoomStep`, `ReaderSleeps`, `WriterSleeps`, ...), over
what the two loops can do (`WriteMoves`, `ReadMoves`). For the refinement, `PutSends` appends (places less than PIPESIZE apart are different entries,
`SlotsApart`) and `TakeReceives` takes the head, with `SlotWraps` where nread wraps.

`VirtioDiskProofs` proves about `VirtioDisk`, for every finite set of processes, any number of descriptors from three on and every
range of ring indices it divides, any number of requests served before and after the start, any number of kills, and a device that serves in
any order:

| theorem | statement |
|---|---|
| `TypeCorrect` | `Spec => []TypeOK` |
| `Invariance` | `Spec => []IInv` |
| `DescsOnce` | `Spec => []EachDescOnce`: a descriptor is free or in one chain |
| `CompletionsFound` | `Spec => []CompletionsMatch`: what the interrupt handler finds is done, waited for, and there once |
| `NoneForgotten` | `Spec => []NoRequestLost`: no request, interrupt or wakeup is lost |
| `NeverPanics` | no thread is at a panic |
| `TransfersDone` | `Spec => Transferred`: when virtio_disk_rw returns, the buffer and the disk hold the same |

The assumption is `DiskAssumption`: finitely many processes, a block for each of them, NUM >= 3, and NUM divides IDX; the last is what
keeps entries in place when a uint16 index wraps (`Places`).

What a completion finds depends on all that came before it, and `IInv` says it at every stage: what the three descriptors of a
call hold (`IsChain`), that a descriptor is in no two of them (`Owned`), and that the head of a chain that is the device's is in exactly one of three
places, once: in the avail ring and not seen yet, with the device, or in the used ring and not seen yet (`Serving`, `Apart`). `Served` adds that what is in the used
ring is done, and stays done because no two calls are for one block (`OwnBlock`); `Signals` that somebody will look into a ring that is not
empty. The rings do not check for room. They need not: their entries are heads, the chains have three descriptors each, and so a ring with an entry to
come has at most NUM - 3 (`RingBound`, by counting; `RingWrite`, `RingAdd` and `RingDrop` say what one step does to a ring). One lemma per
action, or per kind of action that leaves the rings alone (`Quiet`), shows that `IInv` is kept.

`LockFreeQueueProofs` proves about `LockFreeQueue`, for every set of enqueuers and of dequeuers, any number of buffers and of calls, with
Races FALSE, that is, in all schedules in which nobody resets the node a thread is about to link behind:

| theorem | statement |
|---|---|
| `Invariance` | `Spec => []IInv` |
| `ClaimsAreKept` | `Spec => []ClaimedIsQueued`: a buffer marked as queued is in the list, or on its way in or out |
| `Linearizable` | `Spec => ImplementsLruQueue`: each enqueue and dequeue takes effect in one step, in the order of the list |

The list is a linked one, and no step sees more of it than a word. `IInv` therefore says that the walk from head is a chain of different
nodes, each link leading to the next one and the last to NULL (`Chained`), that the tail is in it (`TailQueued`), that a thread has
the node it links, or has taken, alone and outside of it (`Held`), that outside of it a link is NULL only once an enqueuer has reset it
(`NextWords`), and what a stalled thread may still conclude from the words it has read: if head or tail is the word it
read first, then so is what it read after it (`Older`, `NextRead`, `Ahead`). That is what the second look of lines 57 and 76 and the counters are for. A CAS of a link from NULL
has no such protection, since the reset takes the counter back; there it is `NextWords`, and the schedules spared, that say that the node is still the last one
of the list. Only one chain fits the words, so a step that leaves head and the links of the chain alone leaves the
abstract queue alone; EnqLink appends to it, DeqTake drops its head, and the other steps are stutters or the claims at both ends.

`BufferCacheProofs` proves about `BufferCache`, for every finite set of threads that fits the 27 bits of a count, any number of blocks,
buffers and calls and any uses of them, with Races FALSE, that is, in the schedules that spare bget's and brelse's windows:

| theorem | statement |
|---|---|
| `Invariance` | `Spec => []IInv` |
| `BuffersAreRight` | `Spec => []ReadsTheBlock`: between bread and brelse a buffer has its block's latest content |
| `BuffersApart` | `Spec => []OneBlockPerBuffer` |
| `CountsAreRight` | `Spec => []CountIsUsers`: the count of an entry is that of its users and pins |
| `BuffersAreKept` | `Spec => []NothingLost`: no buffer is lost but to munmap and to a stale blockno |
| `PanicsWhenFull` | `Spec => PanicOnlyWhenFull`: "no buffers" only when all are in use, at work or lost |

The assumption is `CacheAssumption`: there are numbers of blocks and buffers, the threads are finitely many, and the threads, the log's pin and
the mapping of one buffer can all be counted (|Threads| + 2 <= MaxRef). The proof needs the last one: without it a count
wraps to 0 and its buffer is evicted under its users. xv6 has at most 64 processes (`param.h:4`), and MaxRef is 2^27 - 1.

No property here is inductive, and none is without the others. `IInv` has eleven parts besides the types. Of the table: no buffer is in two
entries, and an entry without a buffer has no users (`Table`); counts are users and pins (`Counts`); the buffer of an entry bears its block's
number unless a bget has yet to rename it (`Names`). Pinned and mapped buffers stay in the table and are filled (`Pinned`, `Mapped`). What is in the queue is there once, and what is on
its way in or out is in somebody's hands (`Queued`). A sleeplock is held by a thread that is where it holds it (`Locks`). `Threaded` is what a thread
knows at each point (`ThreadOK`) and what no two threads do with one buffer (`Apart`): have it as a candidate, or have it so while the
other enqueues it, or use it while the other has yet to rename it. A filled buffer has its block's content (`DataOK`), which the disk has too,
or else the block is pinned or somebody is about to write or pin it (`DiskOK`). And a buffer out of the queue is owned, used, or lost in one of the two ways (`LostOK`).
The windows that Races = TRUE opens are those in which `Apart` fails.

The proof goes by what a step does, not by who does it. `StepKeeps` is for steps that leave the table, the buffers and the queue alone and
only move a thread; `RecountKeeps` for those that count an entry up or down, by a CAS; `LockStepKeeps` and `DataStepKeeps` for the
sleeplock and for what buffers and disk hold; `EvictKeeps` and `InstallKeeps` for the two CASes by which a buffer changes its
block. Each action is shown to be of such a kind, and the rest of its proof is what it does for its own thread.

`FilesProofs` proves about `Files`, for every finite set of processes and of names, any numbers of inodes (from three on), of blocks (from two on)
and of links to follow, any requests and any number of calls and crashes, and for both values of Races:

| theorem | statement |
|---|---|
| `TypeCorrect` | `Spec => []TypeOK` |
| `RefsAreExact` | `Spec => []RefIsPointers`: an inode's count of references is the number of pointers to it, and of what open has dropped |
| `CrashesConsistent` | `Spec => []CrashConsistent`: what is left after a crash is a tree with right counts of links and of blocks, unless a call strayed |
| `NeverPanics` | `Spec => []NoPanic`: ilock, dirlookup, bfree, unlink and open do not panic and iput does not sleep with itable.lock, unless a call strayed; symlink's panic on a full disk is apart (`full`) |

The assumption is `FilesAssumption`: the processes and names are finitely many, "." and ".." are not names, a request has a path of
such names, and there is room for the tree of the start.

The definitions are in `FilesInvariant`, the lemmas in `FilesProofs`. `Inv` says what a call's locals are at each of its points: whether it has an `ip`,
a `dp` and an `old` (`Has`), what the call can be (`Fits`), and how many iputs are due; `Due` is what it does after them. `RefExact` is the count as the size of
the set of places that point to an inode; each action is shown to change the count as it changes its own process' places (`RefStep`), so one lemma,
`HoldersCount`, carries it over. Those two need nothing of the disk.

The other two need the whole of it, and of each other: `Sound` is their invariant. On disk there is a tree (`Tree`): inodes have
blocks of their own, live directories lead to each other by ".." and are named once, and an inode has as many links as
live directories name it and as calls have pending. For between the locks the tree is never quite right: unlink takes the entry away in one step and
counts it in another (`Dying`), and link counts before it enters, or takes its count back (`Pending`). What is committed is such a
tree with nothing pending, because the log commits when no call is under way. In memory: a lock is held by whom its point in the
code says (`LocksOK`), an inode somebody points to is allocated (`UsedOK`), a valid cached inode is the one on disk, but for the one iput has freed and
not yet marked so (`Coherent`), and a link without its target is still being written (`LinksOK`). And for each
process: the inode it frees has no other reference (`PutOK`), the inode it has allocated is nobody else's (`NewOK`), its directories are directories (`DirsOK`),
and what it has looked up under a lock is still so (`AtOK`), which is where the order of locks and lookups in create and
unlink matters.

A process relies on what the others' steps leave alone, and the proof is laid out so. `SlotsGuar`, `LocksGuar`, `TableGuar`, `DiskGuar` and
`WritesGuar` say what a step of one process may do to inodes, locks, the table and the disk; from them follows, once and for all, that `Sound`'s
parts about the other processes are kept. For steps that leave the disk as it is a simpler form is enough
(`SlotsQuiet`, `TabQuiet`, `WritesQuiet`), for steps that write to an inode they have locked another one (`DiskLoud`, `TabLoud`). What remains for each action
is its own process and the tree; for the tree there is one lemma per kind of change, such as `EntryTree` (an entry made or taken away), `DirMadeTree` and
`DirGoneTree`.

Why `strayed` excuses: `AtOK` holds of `dp` only if the directory was not removed before create or link locked it, and sys_open, create and link do
not look. While proving this we found that the ghost had missed a case, ".." as the last name of a path, found in a removed directory;
it has it now.

**Only model-checked:** `NothingLost` of `Files`, the invariants of `Tcp` (`InOrder`, `Complete`, `AcksAreHonest`, `SleepersWait`), and all liveness.
`NothingLost` holds only where Races is FALSE; its proof would need, besides `Sound`, that an inode without a link stays valid in the table until iput's
window on it is closed. `Tcp` has no proofs yet: its invariants speak of what is in flight in both directions under loss, repetition and resets. Liveness under fairness, and
ENABLED, are out of reach of the prover. So is induction over data, which would show what a recursive definition computes; the models that have
proofs state what they need of a list or a chain of parents as one existential or one set instead (`Chained`, `NoCycle`).

## 8. What is not modelled, and why

- *Swap, signals, mapped files, e1000, ARP, console*: not yet; see the plan.
  Their hazards are in `PROJECT.json`, at the line where they bite.
- *In files*: the size of the inode table (iget panics when it is full) and of the file table, files shared by dup and fork, devices and
  procfs, what files hold and their blocks beyond one, fstat, read, exec. ialloc's scan is one step. Left out as well: the inodes that fork and exit
  refer to through cwd.
- *In TCP*: failures of copyin, copyout and allocation, the urgent pointer and options, checksums, port numbers beyond telling
  sockets apart, and that the table's lock excludes nobody (`sysnet.c:38`, a copy of it is acquired): lookup and handler are one
  step, and a socket enters the table together with its first segment. UDP and ICMP sockets are message queues without a protocol.
- *Page-table walks, copyin and copyout, exec, sbrk, procfs, formatting, strings*: sequential code, whose hazards a test reaches.
- *Super-pages*: a second allocator of the same shape as the first.
- *Boot, context switches, traps in assembly, the memory model of the hardware*: below the models' grain. Loads and stores
  take effect in program order; the source's `__sync` builtins and fences are taken to ensure it.
- *User and host programs*: programs over the system calls. `user/init.c` is in `Process` as fairness, `mkfs` in `Log` as NLOG.
- *Spinlocks, kcsan, debugtbl*: a critical section is atomic in the models.

## 9. Plan

The order is by what a failure costs and by what a test cannot reach: first what every system call goes through and what
survives a crash, then memory and processes, then what is built on them.

1. Done: queue (with proofs), cache (with proofs), log (with proofs), disk (with proofs), memory with copy-on-write (with proofs), processes (with proofs), pipes (with proofs), files (with proofs), TCP connections.
2. `Swap`, on `Memory`: pageout and pagein in the code's order, find_swapping_page with the PTE it returns, fork and exit
   of the owner meanwhile. It implements `AddressSpaces` where the windows are spared.
3. Signals on top of `Process`: pending bits, masks and one saved trapframe.
4. mmap: vma_handle and munmap between threads. A composition of `Files` with `Log` in place of `committed`.
5. The sockets' table on two CPUs, with lookup and handler apart; e1000's rings after `VirtioDisk`; the UART's buffers.
6. Proofs: `Tcp` SleepersWait and AcksAreHonest; `Files` NothingLost, where Races is FALSE.
7. A composition of `Log` with the interface of `BufferCache` (the cache's pins are the log's), in place of `Log`'s own
   `cache` and `Evict`.
