# A verification project for the WHUSP kernel

WHUSP is a monolithic SMP kernel in Rust for RISC-V 64 and LoongArch 64. This
directory holds TLA+ models of it, the TLC configurations that check them on small
instances, and TLAPS proofs of what matters most for every instance. Paths below are
relative to `os/src/`. `PROJECT.json` has the lines each definition stands for, the
runs, the hazards and the theorems.

Run TLC on a configuration with `tlc -config MCSchedulerAffinity.cfg Scheduler` or
`tlc -config MCFiles.cfg MCFiles` (the `runs` of `PROJECT.json` name the module of
each configuration), and the proofs with `tlapm SchedulerProofs.tla`.

## 1. The system and its modules

Everything that blocks goes through the scheduler (`block_current_task_no_schedule`,
`schedule`, `wakeup_task`). The scheduler signals other CPUs through wake signals and
interrupts. Signals, job control and exit reach into tasks that are blocked in any
other part. Spinning CPUs answer remote synchronisation. Above that layer each part
has its own state, guarded by its own locks, and its own queue of sleepers.

| Module | Part of the kernel | State and actions |
|---|---|---|
| `Scheduler` | `task/sched.rs`, `task/processor.rs`, `task/tcb.rs`, `cpu.rs` | run queues, remote wake lists, task fields, the place of each CPU in `run_tasks`, wake signals, idle flags; one action per critical section or atomic access |
| `JobControl` (extends `Scheduler`) | `task/mod.rs` stop and continue | senders that carry out stops and continues step by step, the gates and the acknowledgement of `finish_current_switch` |
| `RemoteSync` | `cpu.rs` rendezvous, `sync/spin.rs` | request slots, masks of pending sources, IPIs; one action per atomic access, and the polling spin of `SpinNoIrqLock` |
| `SleepLock`, `FifoLock` | `sync/raw_sleep_lock.rs`, `sync/sleep_mutex.rs` | `lock`, `try_lock`, `unlock`, the wakeup after it, signals, terminated siblings; `FifoLock` is what the lock promises |
| `SleepRwLock` | `sync/sleep_rwlock.rs` | the three forms of `acquire`, both releases, grants, interrupted waits |
| `Snapshot` | `sync/read_mostly.rs`, its copies in `task/process.rs` and `fs/mount.rs` | reader slots, the odd and even sequence, publication, a store buffer for plain stores |
| `Tlb` | `mm/address_space.rs`, LoongArch `mm.rs`, `smp.rs` | active CPUs, generations, user return, flush requests |
| `Futex`, `FutexPi` | `task/futex.rs` | buckets, wait, wake, requeue, timeouts, signals, exit; PI lock, unlock and handoff |
| `Signals` | `task/signal.rs`, `task/mod.rs`, `syscall/signal.rs` | pending sets, masks, dispositions, the published wake mask, senders, delivery, frames, the calls that wait |
| `ProcessLife` | `task/process.rs`, `task/process_lifecycle.rs`, `syscall/wait.rs` | family tree, thread groups, exec and exit_group, zombies, reparenting, vfork, wait4 |
| `FrameAlloc` | `mm/frame_allocator.rs` | per-CPU caches, the shared pool, reference counts |
| `Vma` | `mm/user_space.rs`, `mm/area.rs` | mmap, munmap, mprotect, mremap, madvise, brk, growth, fork, faults |
| `PageCache` | `mm/page_cache.rs` | loads and gates, read-ahead, reclaim, pins, writes, mappings, msync |
| `SysvShm`, `Memfd`, `Tmpfs` | `mm/shm.rs`, `fs/memfd.rs`, `fs/tmpfs.rs` | segments and attachments; seals and views; extents, quota, links |
| `DirtyFile` | `fs/vfs/file.rs`, `fs/inode_state/dirty.rs` | dirty ranges, reads through them, flushes, truncation, errors |
| `InodeLife`, `Namespace` | `fs/inode_state.rs`, `fs/inode.rs`, `fs/dentry_cache.rs` | open counts, deferred freeing, inode reuse; names, attributes and their caches |
| `Ext4Core`, `BlockIo`, `BlockDriver` | `fs/ext4.rs`, `fs/ext4/io_state.rs`, `drivers/block_cache.rs`, `drivers/block.rs`, `drivers/dw_mmc.rs` | admission, shadows and group flush; cache lines and leases; the VirtIO queue and the MMC card |
| `Mounts`, `Notify` | `fs/mount.rs`; `syscall/fs/inotify.rs`, `fanotify.rs` | mount table, propagation, expiry, lookup snapshot; groups, watches, marks, queues |
| `Pipe`, `Socket`, `SysvSem`, `SysvMsg`, `EventPoll` | `fs/pipe.rs`, `net/socket.rs`, `syscall/sem.rs`, `syscall/msg.rs`, `fs/eventfd.rs`, `syscall/fs/poll.rs`, `epoll.rs` | buffers, queues of sleepers, closing, timeouts, signals |
| `FileLock`, `Timers`, `Tty` | `syscall/fs/fd_lock.rs`; `fs/timerfd.rs`, `syscall/time.rs`; `fs/console_tty.rs`, `fs/devfs.rs` | record locks and flock; timer heap and its readers; ptys, sessions, the console line |

The vendored lwext4, device registers and the hardware of a card are external: they
are modelled from how the code uses them.

### How to read a model

**Scheduler.** `on_rq` and `queued_cpu` are always written together, so one variable
stands for both. A failed assertion sets `fault`, and nothing happens after it. `place`
holds the placements a CPU has decided and not yet made: between the decision, taken
under the task lock, and the insertion, taken under the queue lock, other CPUs may do
anything. `notify` and `swapped` are the two halves of `wake_scheduler_cpu_remote`.
`pc` is the place of a CPU in `run_tasks`: `drain`, `fetch`, `steal`, `pull`
(fetch_task); `run`; `switch`, `ack`, `release`, `requeue` (finish_current_switch);
`publish`, `check1`, `check2`, `wfi`, `irq` (idle branch). Priorities and virtual run
time are left open, so a fetch may take any claimable task. A placement goes where
`choose_run_queue` sends it: which CPUs are idle and what is queued decide, and the sample
it takes among equals is open (`NewHomes`, `WakeHomes`, `AffinityHomes`). A steal comes
back empty only for the reasons the code has (`MayGiveUp`). Interrupts arrive wherever the code leaves them enabled, among others between the
empty fetch and the guard of the idle branch. `irqs` is the interrupt state the run loop
inherits from the task that left. The idle path is that of RISC-V; on LoongArch the idle
instruction enables interrupts, which `LeaveIrqs = {TRUE}` stands for.

**JobControl.** Senders run on CPUs outside the model. What `add_task` of a sender does
to the target CPU is one step here; the CPUs of the model take the finer steps of
`Scheduler`. All tasks exist from the start.

**SleepLock, SleepRwLock** and the parts that sleep take the scheduler as `Scheduler`
shows it: a wakeup makes a Blocked thread runnable, also one that has not left its CPU
yet, and does nothing to any other.

**Pipe.** What happens under a ring lock is one action, except for the look at the peer
end: `all_read_ends_closed` and `all_write_ends_closed` hold a strong reference for a
moment (`looking`), and a close on another CPU may fall into it.

**The others.** A call is a record per thread, `op` or `at` saying which critical section
comes next. What happens under one lock is one action. Lost, late and duplicated wakeups,
signals, timeouts and failing devices are actions of their own, bounded by constants.
File contents are version stamps, names and paths come from small sets.

## 2. Runs

`MCBase`, `MCIpc`, `MCFiles` and `MCProgress` are sums: the variable `on` is chosen at the
start, in the first two among the names in `Running`, and names the instance that runs;
the variables of the others keep their initial values. An invariant of a sum is the
conjunction of what the instances promise; the conjuncts are defined, with the code they
are about, in the component modules. The other runs check one module.

| Run | Instances | States | What it shows |
|---|---|---|---|
| `scheduler_affinity` | 2 CPUs, 2 tasks, one-CPU masks, foreign interrupts on one CPU | 1,640,996 | a task that can run is in exactly one place while masks change; no assertion fails; no CPU sleeps on its remote wake list |
| `job_control` | 2 CPUs, 1 task, 1 sender, 2 signals | 738,671 | a continue loses no task |
| `job_control_live` | the same, 1 signal, fairness | 175,168 | a stop that is not undone is reported |
| `base` | 32 instances of `FrameAlloc`, `Vma`, `PageCache`, `SysvShm`, `Memfd`, `Tmpfs`, `SleepRwLock`, `Snapshot`, `Tlb`, `Futex`, `FutexPi`, `Signals` | 447,410 | frames, areas, leaves, pins, segments and tmpfs files are exact, seals hold; exclusion, nothing used after it was given back, no signal or futex wakeup slept through |
| `ipc` | 32 instances of `Pipe`, `Socket`, `SysvSem`, `SysvMsg`, `EventPoll`, `FileLock`, `Timers`, `Tty`, `ProcessLife`, `SleepLock` | 652,041 | whoever sleeps must wait; traffic and tables are exact |
| `files` | 25 instances of `DirtyFile`, `InodeLife`, `Namespace`, `Ext4Core`, `BlockIo`, `BlockDriver`, `Mounts`, `Notify`, `SleepLock` | 553,865 | writes are kept, reads were true at one moment, names, mounts and events are sound; until a signal wakes a waiter, `SleepLock` excludes and implements `FifoLock` |
| `progress` | 13 instances with fairness | 65,986 | every wait ends; the assertions of the rendezvous hold and it means what it says |
| `scheduler_idle` | 2 CPUs, 3 tasks, foreign interrupts on both | trace of 33 | `NoLostWakeup` fails |
| `job_control_fault` | as `job_control`, both interrupt states | trace of 20 | `NoFault` fails |
| `pipe_drop` | the instance `pipe` of `MCIpc` | trace of 5 | `NoSelfDeadlock` fails |
| `memfd_seal` | the instance `sealing` of `MCBase` | trace of 4 | `SealedMeansNoView` fails |
| `sleep_lock_signal` | 2 threads, signals | about 15 to the error | `Mutex` fails |

What the runs that fail show:

- `sleep_lock_signal`: `lock()` does not look at the lock again when `schedule()`
  returns. A signal makes a queued waiter runnable, and it enters beside the owner.
- `scheduler_idle`: a task clones a second one onto its own queue, and a third, whose
  placement goes to the idle CPU. That CPU leaves its sleep through an interrupt of
  something else, before the insertion, and fetches nothing. The third task is put on its
  queue and its wake signal set; it is not idle now, so no IPI is sent. Another foreign
  interrupt arrives before the guard of the idle branch, and `handle_ipi` takes the
  signal. The CPU publishes itself idle, both checks look only at the signal and the
  remote list, and it sleeps with a task on its queue. `NoLostRemoteWake`, the same
  statement for the remote list, holds and is proved.
- `job_control_fault`: between the moment `finish_current_switch` makes a task Ready and
  the moment it queues it, a stop and a continue find it Ready and nowhere. The continue
  publishes it too, and one of the two insertions fails an assertion.
- `pipe_drop`: a writer has upgraded its reference to the read end under the ring lock.
  The last read file is closed on another CPU, so the reference the writer drops is the
  last one, and `Pipe::drop` takes the lock the writer holds.
- `memfd_seal`: `mmap` asks whether the file may be mapped writable and shared, and adds
  the area. Before it counts the view another thread adds `F_SEAL_WRITE`, which finds no
  view. The sealed file has a writable shared mapping.

**Bounds.** Two CPUs are enough for every pair of roles (waker and sleeper, thief and
victim, submitter and target); what needs a third actor is played by senders and by
interrupts. A steal that takes a batch along needs four tasks and is covered by the proof
alone. With two tasks one can set the mask of the other while that one is queued,
remote, running, switching or blocked, and of itself. Two requests per CPU make a slot be
reused (`MaxSequence`). One task and two signals are enough for a stop and a continue to meet every point
of a switch. In the sums each instance has two or three threads with different
repertoires, queues and caches of one or two entries so that they overflow, two pages or
blocks so that ranges split, identifiers so few that they are reused, and as many calls
as it takes to reach reuse, overflow and cleanup; what each one is for is said in a
comment above its `INSTANCE`. The runs with `SYMMETRY` check invariants only, and nothing
distinguishes the permuted tasks.

`CHECK_DEADLOCK FALSE` is given where the model really stops: requests, calls or signals
are used up, the kernel has panicked, or every thread has exited.

**Fairness.** `JobControl`: each CPU keeps executing however often it is interrupted;
strong fairness of leaving an interrupt handler and of yielding stands for handlers that
make finitely many wakeups and for the tick that preempts a busy task (the alternatives
disable each other, so weak fairness would not say it). `MCProgress`: a CPU in a
submission or a handler keeps executing, an unmasked CPU takes its interrupt, a runnable
thread runs, critical sections end, a device completes what was submitted, an armed timer
expires, so weak fairness of each party's next step. Strong fairness is asked only of
steps a rival can disable again and again, which take a spin lock or a gate that the
holder always gives back: the take of flush sources, and the calls on the overlay, the
namespace, the ext4 core and the block cache. Nothing makes a thread begin a call.

**What the instances leave out.** Some statements are defined in the modules and do not
hold, or hold only without one of the calls. The instances of the passing runs leave those
calls or that number of CPUs out; a conjunct of a sum says what it says of its instances
only. The cases:

| Statement | Module | When it fails |
|---|---|---|
| `GatedWhileStopped` | `JobControl` | two senders: a continue that overlaps a stop opens gates of a process that stays stopped |
| `GatedRunnerOwes` | `JobControl` | three signals: a CPU the task has left settles its next debt |
| `ReportedIsComplete` | `JobControl` | two tasks: the first settles its debt before the second is counted |
| `TicksHandled` | `Scheduler` | under `FairSpec`, when tasks may leave CPU 0 with interrupts masked |
| `NoLostWakeup`, `NoFault` | `Scheduler`, `JobControl` | the runs `scheduler_idle` and `job_control_fault` |
| `Mutex` | `SleepLock` | the run `sleep_lock_signal` |
| `HandoffRuns` | `SleepLock` | the lock is handed to a thread that `exit_group` has terminated |
| `WaitersLeave` | `SleepRwLock` | an interrupted writer leaves readers at the front of the queue; new readers pass them |
| `NoUseAfterFree` | `Snapshot` | the readers of `task/process.rs` and `fs/mount.rs` claim their slot with a plain store; `mount.rs:176` claims "the same RCU-style lifetime rule used by `ReadMostlySnapshot`" |
| `PiExclusion`, `PiPolicy` | `FutexPi` | several CPUs: an unlock in user mode, or a second trylock, between the read and the write of the word; `PiPolicy` also on one CPU: a thread that was handed the lock returns EINTR |
| `SignalsInterrupt`, asked of every wait; `WaitedSignalsArrive` | `Signals` | several CPUs: a signal between the check and the block of sigsuspend() or sigtimedwait() |
| `NoSelfDeadlock`, `FifoEndOfFile` | `Pipe` | the run `pipe_drop`; the entry of a FIFO keeps the write end open after its last writer |
| `SleepIsFull` | `Timers` | the event of an earlier sleep ends a later one |
| `EpollSeesAll` | `EventPoll` | `epoll_ctl` enables a ready interest while a thread waits |
| `AppendsAtEnd`, `BackendReadsFresh` | `DirtyFile` | a sync by another thread while the append or the read is under way |
| `OpenPinsInode`, `StateShared` | `InodeLife` | rename beside open and close; two threads that create, open, close and unlink |
| `TreeIntact` | `Namespace` | two directory renames at once make a cycle |
| `CoreExclusive`, `SyncCovers` | `Ext4Core` | several CPUs: registrants of the read gate (statfs) leave and arrive together; a dirty epoch is drawn before it is published |
| `LinesCurrent`, `ReadsExact` | `BlockIo` | a narrow write beside a read that fills the same line |
| `SleepersUndisturbed` | `BlockDriver` | a descriptor head is reused before its old waiter ran, or a signal wakes a disk sleeper |
| `SourcesLive` | `Mounts` | a bind copies a mount that another thread is unmounting |
| `WatchesOnLinked` | `Notify` | rename over a watched name |
| `SharedStoresKept` | `PageCache` | shared mappings inherited by fork |
| `PagesShowData` | `Vma` | `madvise` of shared anonymous pages after fork |
| `ContentExact`, `DirectoryLinksExact` | `Tmpfs` | zeroes written over a hole; a directory renamed across directories |
| `LocksOrdered`, `SealedMeansNoView` | `Memfd` | read beside seek; the run `memfd_seal` |
| `OpenPtyIsRegistered`, `OwnersAgree` | `Tty` | a pty number reused between two removals; `tcsetpgrp` while the leader exits |
| `AdoptersServed`, `FamilyExact`, `VforkServed` | `ProcessLife` | a reaper in `wait4` when a zombie is handed to it; a subreaper or a parent that ignores SIGCHLD exits; vfork on several CPUs |
| `NamesLeadHome`, `ReadersMustWait` | `Socket` | an accepted Unix socket is closed and takes the listener's name along; datagrams on several CPUs; a listener closed with queued connections |

TLC finds a counterexample of each on an instance as small as those of the runs.

## 3. Proofs

Eight modules hold theorems, about 7,000 obligations in all. The constants are arbitrary
but for the named `ASSUME`s of the modules: finite sets with distinct "none" values, and
types. Each proof is of one shape: an inductive invariant, `Init => Inv`, one lemma per
action or group of actions for `Inv /\ [Next]_vars => Inv'`, and `Inv => Property`.

**`SchedulerLoop`, `SchedulerProofs`**: any CPUs, any tasks, any affinity masks, either
interrupt state, interrupts on any CPUs. `OneHolderAlways`, `NoFaultAlways`,
`NoLostRemoteWakeAlways`.

- `OneHolder` is not inductive: it counts places and says nothing of the fields that the
  next step looks at. `SchedInv` says for every task that one kind of place and one CPU
  describe all of `rq`, `remote`, `place`, `current` and `on_cpu` that mention it
  (`Located`), that its status suits the place, that `queued_cpu` is the queue it is on
  and that a deferred wakeup is pending only of a task that is switching out (`Fields`),
  what each run loop has decided at its `pc` (`Loops`), and what an affinity call
  remembers between its two locks (`Calls`). A step moves the tasks it handles;
  `StaysLocated` keeps all the others.
- The assertions (`NoFault`) are in the invariant: each follows from where the task is
  and fails otherwise, so they are proved together.
- `NoLostRemoteWake` needs `Handshake`: a CPU between publication and sleep has its idle
  flag set, and one that sleeps with its signal set has an interrupt, or a CPU that has
  swapped the signal and is about to look at the flag. The order of the two accesses on
  either side is what makes it inductive.
- `Unstopped` confines the result to the scheduler by itself. With job control the
  assertions can fail (`job_control_fault`).

**`SignalsProofs`**: any number of threads, senders, signals and dispositions.
`SignalsInterruptAlways`, `FastExactAlways`, `TakenOnceAlways`, `SignalsTyped`. `SigInv`
says that a chosen signal stays one until it is dealt with and that the published wake
mask is that of the dispositions. `SignalsInterrupt` is inductive with it and
`WindowQuiet`: on one CPU a thread between the check and the block of sigsuspend() or
sigtimedwait() has nothing that would interrupt it. On several CPUs the theorem is about
ppoll() and the other waits that block under the task lock, as `SignalWaits` says.

**`SleepRwLockProofs`**: any finite set of threads, any of them interruptible.
`RwExclusion`, `RwCounters`, `RwNoIdleQueue`, `RwOwnersWoken`, `RwTypeCorrect`. `RwInv`
says that the queue holds exactly the waiters without a grant, each once, and that the
counters are cardinalities of sets of threads; the wrap-free decrements follow.

**`SleepLockProofs`**: any finite set of threads. `OwnershipReleased` and `TypeCorrect`
with signals and terminated siblings, by a count: as many threads are inside `lock()` or
the section as there are queue entries plus the lock itself (`CInv`). No invariant about
single threads would do, since a signal lets a thread in that is still queued.
`MutualExclusion` and `Handoff` are about every behaviour, up to the first signal that
wakes a thread inside `lock()`; the history variable `signalled` records that it happened,
and `sleep_lock_signal` shows what comes after. `MInv` says that the queue has no
duplicates, that its members are the waiters the lock has not been handed to and that
there is one holder exactly when the lock is locked; the invariant is
`signalled \/ MInv`. `Handoff` maps each step to a step of `FifoLock` or a stutter.

**`RemoteSyncProofs`**: any finite set of CPUs, any locks, any number of requests, with
or without failing IPIs. `LiveRequests`, `RendezvousHolds`, `TypeCorrect`. `IInv` adds
what a slot holds at each point of its owner's program (`SlotInv`) and what a source and
a target know of each other (`PairInv`): a target that has been armed and has not answered
has seen an older sequence number, one that has answered has seen this one.

**`Snapshot`**: any readers and publications. `Freshness`, whichever way the readers
claim their slots; `Reclamation` when every reader claims its slot with an atomic
read-modify-write. With a plain store of the slot and a store buffer, a reader may use
what was freed; the instance "plain store" of the run `base` asks only for freshness.

**`FrameAllocProofs`**: any memory size, CPUs, contexts, cache capacity and batch.
`FramesNeverShared`. `FrameInv` says that a free frame is in exactly one of the bump
range, the recycled list, the caches and the hands of a context that moves it, and that
the count of a frame is the number of its trackers.

**Only model-checked.** Liveness (`StopReported`, `WaitsEnd`) and anything with
`ENABLED`, which are beyond this prover. The components of the sums other than those
above: their state is sequences, extents, trees and tables whose properties need
induction over data (what a fold over a queue or a path returns), or they use RECURSIVE
operators, which lose the SMT backend. `ContinuedIsHeld` of `JobControl`: its inductive
invariant would be `SchedInv` without `Unstopped`, with `NoFault` failing. Of `Signals`,
`MasksReturn`, `HandlersNotReentered` and `WaitedSignalsArrive` are conjuncts of a run
and not theorems: the first two speak of the whole stack of frames.

## 4. Not modelled

Memory ordering weaker than sequential consistency, but for the store buffer of
`Snapshot`. `PROJECT.json` lists every part with the reason. In short: the spinning
reader/writer lock, CPU bring-up, ptrace and credentials, the file systems that only
format data (fat, procfs, overlayfs), device drivers other than the block drivers, the
heap and kernel page tables, the system call layer, counters and logging. Of the parts
that are modelled, the notes of the components say what was left out: queue order and
priorities, nested epoll, robust lists, permission events, options and statistics. The
map covers about 30 % of the 92,600 lines of the kernel.
