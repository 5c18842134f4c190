# A verification of CSCI-320: the xv6-riscv kernel and the course projects

The repository holds a copy of the xv6-riscv teaching kernel (`xv6-riscv/`) and
four course projects (`projects/`): C exercises (1), a system call (2), a
lottery scheduler for xv6 (3), and pthread programs (5: a semaphore, three
dining-philosopher algorithms, a shuttle). Paths below are relative to `src/`.

## Inventory

| Part | Source | State it keeps | Concurrency | Modelled |
|---|---|---|---|---|
| write-ahead log | kernel/log.c | in-memory header, counts, log on disk | calls of several processes, crashes | `Log` |
| buffer cache | kernel/bio.c | LRU list, refcnt, valid, sleep-locks | all file-system calls | what the log needs, in `Log` |
| processes, scheduler | kernel/proc.c, user/init.c | process table, per-CPU process, wait_lock | CPUs, preemption, interrupts | `Proc` |
| traps | kernel/trap.c | ticks, killed check | interrupts | killed check and preemption, in `Proc` |
| spinlocks | kernel/spinlock.c | lock word, noff, intena | CPUs | acquire of wait_lock, in `Proc` |
| sleep-locks | kernel/sleeplock.c | locked, pid | processes | planned |
| pipes | kernel/pipe.c | ring, open ends | reader, writer, close | planned |
| disk driver | kernel/virtio_disk.c | descriptors, rings, in-flight table | interrupt | planned |
| console, uart | kernel/console.c, uart.c | input and output rings | interrupt | planned |
| inodes, directories, blocks | kernel/fs.c | inode table, bitmap | processes | planned |
| files, file system calls | kernel/file.c, sysfile.c | file table, fds | processes | planned |
| memory, exec | kernel/kalloc.c, vm.c, exec.c | free list, page tables | failure paths | planned |
| user heap | user/umalloc.c | circular free list | none | planned |
| semaphore | projects/project_5/zemaphore.h | value, condition variable | threads | `Zemaphore` |
| dining philosophers | projects/project_5/{1,2,3}-dp.c | forks, mutex, bitmap, table | threads | `Dining1`, `Dining2`, `Dining3` |
| shuttle | projects/project_5/shuttles-problem.c | nine semaphores, counters, door | threads | `Shuttle` |
| lottery scheduler | projects/project_3 | tickets, generator | CPUs | planned |
| getfilenum | projects/project_2 | reads open files | processes | planned |

`PROJECT.json` lists every component with its status and every hazard with the
line where it bites.

## Modules

| Module | Models | Abstract specification |
|---|---|---|
| `Log` | log.c with the pinning and recycling of bio.c | `AtomicDisk` |
| `LogInv`, `LogProofs`, `LogRefines` | inductive invariant and proofs; proof of the refinement | |
| `Proc` | fork, exit, wait, kill, sleep, wakeup, yield, scheduler | |
| `ProcInv`, `ProcProofs` | inductive invariant and proofs | |
| `Zemaphore`, `ZemaphoreProofs` | zemaphore.h | `Semaphore` |
| `Dining1`, `Dining2`, `Dining3`, `Dining3Proofs` | 1-dp.c, 2-dp.c, 3-dp.c | `Dining` |
| `Shuttle` | shuttles-problem.c | |
| `MCLog`, `MCProc`, `MCShuttle` | symmetry for TLC | |

Operators whose name begins with `Mut` are variants of the definition that
follows them, each with one plausible mistake; they are used to see that a
property notices it.

**Log.** A call is `begin_op`, some `log_write`s and `end_op`; the last call to
end commits: `write_log`, `write_head` (the commit point), `install_trans` block
by block, `clear_head`, `end_commit`. `Crash` loses all memory at any point and
restarts with `read_head`, `recover_install`, `recover_clear`. `Recycle` drops an
unpinned block from the cache; of a buffer's reference count only the pins are
kept, since `bread` and `brelse` of a step cancel out. How many buffers a commit
finds free is therefore not a question of this model: readers outside any
transaction hold some too (file.c:121-124), limited only by `NPROC`, so that
"bget: no buffers" (bio.c:88) has no bound in the code that could be stated. A
disk write of one block is atomic. The refinement mapping takes `durable` to be what
recovery would produce now.

**Proc.** `p->lock` is held between two steps only from the change of `p->state`
to the end of `swtch`; that window is `pc[p] = "sched"`. `wait_lock` has a holder,
and `acquire` is two steps because interrupts are off while a CPU spins. The scan
of `wait` for zombies is one step: becoming a zombie needs `wait_lock`, which the
scan holds. `allocproc` may take any unused slot, which covers every order of a
scan that races with others. A pid stands for its slot; pid 0 is that of an unused
slot. init only forks and waits, and is not killed (the kernel panics by design
when it exits); `Victims` are the slots whose pids are passed to `kill`. Sleeping on
other channels is not in this module; in particular `exit` begins at `wait_lock`,
after it has closed its files and released its directory inside
`begin_op`/`end_op` (proc.c:354-366), where it may sleep.

**Zemaphore.** A section under the mutex is a step. Threads woken by a signal
compete for the mutex with others, and `Cond_wait` may return spuriously.

**Dining1-3, Shuttle.** Semaphores are used through what `Semaphore` promises,
which `Zemaphore` is shown to implement. In `Shuttle` every mutex taken while
another is held is a step of its own. The statistics of 2-dp.c, which are only
printed, are left out.

## Runs

| Run | Shows |
|---|---|
| log_safety | atomic calls across crashes (`Atomic`), coherent cache, exact pins, sleepers owed a wakeup, the inductive invariant |
| log_live | `begin_op`'s reservation keeps `log_write` off its panics on the smallest log it suffices for; sleepers wake, recovery and commit end |
| proc_safety | stacks, locks, exits and parents on two CPUs, the inductive invariant |
| proc_live | a waiting parent of a zombie leaves `wait` |
| proc_kill_zero | *violation*: `kill(0)` marks an unused slot |
| zemaphore | no lost signal; a counting semaphore |
| dining1 | exclusion with 5 philosophers; the only deadlock is the known one |
| dining2 | the bitmap is exact, fork semaphores never block, meals go on |
| dining3 | exclusion, one holder per fork, somebody eats |
| dining3_starvation | *violation*: one philosopher never eats, against the writeup |
| shuttle | no attendee lost at a stop, seats and doorway respected |
| shuttle_deadlock | *violation*: the program stops, against the writeup |

Each violation is a finding in `PROJECT.json` with the text it contradicts. The
shuttle stops in two ways. The trace shows an attendee that comes to the stop
after boarding and before the test for the last passenger, so that nobody posts
`start_shuttle`. The other, also reachable, is the lock order: the driver holds
both `waiting_mutex`es and waits for `passengers_mutex` (line 177), while a late
attendee holds `passengers_mutex` and waits for `waiting_mutex_A` (line 74).

3-dp.c starves because `Zem_wait` promises no order: a philosopher that leaves the
table sits down again before one that waits, for ever. The writeup claims the
opposite of this algorithm, hence the finding; that the table as a whole goes on
is what `dining3` shows. In 2-dp.c the same lack of order has a further effect: a
philosopher who has eaten needs the mutex to return the forks, and others who
test and give up may overtake it for ever. `MealsGoOn` names that as the one way
for meals to end.

A kill that falls between `wait`'s test of `killed` and `sleep` leaves its victim
asleep until a child exits. This is in `Proc`, and no text of the repository says
otherwise: "Wake process from sleep()." (proc.c:595) is about a victim that already
sleeps. It is listed as a hazard without a property.

**The size of the log.** `begin_op` reserves against `LOGSIZE` (log.c:133), while
`log_write` panics at `LOGSIZE` or at `log.size - 1` (log.c:220), where `log.size`
is `nlog` of the superblock (log.c:62). The program that writes the superblock is
not in the repository, so `NLOG` is any positive number and `BudgetAssumption`
says which ones the reservation suffices for: with `Capacity` the smaller of the
two limits and `Slack` the blocks a call leaves of its reservation,
`OpBlocks < Capacity` and `LOGSIZE - 2 * Slack < Capacity`. For the kernel's
`LOGSIZE = 3 * MAXOPBLOCKS` and any `nlog >= LOGSIZE` this is
`OpBlocks < MAXOPBLOCKS`. *Fewer* is needed: log.c:220 tests the size before it
absorbs, so a log that is exactly full panics when one of its blocks is written
again, and three calls of `MAXOPBLOCKS` blocks fill it exactly. The callers are well
below it: `filewrite`, the largest, passes three blocks at a time (file.c:155), at
most four data blocks, the indirect block, the inode and, with `FSSIZE` below the
bits of one bitmap block, one bitmap block.

One more limit the runs stay clear of: `right` of 1-dp.c is right only for n = 5.

**Bounds.** log_safety: three processes, three blocks with two values, a log of
four with two blocks reserved per call, so that calls overlap, wait for space and
absorb; one crash, which may also fall into recovery. A call writes one block
(`OpBlocks`), so a transaction of several blocks is several calls grouped.
In both log runs
the log on disk has four blocks with its header: `LOGSIZE - 2 * Slack` is 2, the
capacity 3, and it is the second test of log.c:220 that a reservation too small by
one call meets. log_live: two processes and four blocks, more than the log holds.
Proc: init and three slots on two CPUs, enough for a grandchild that exits together
with its parent. Liveness has two slots, where `wakeup(initproc)` is never the only
wakeup init gets; a zombie handed to init by a process that is not init's child
needs three, and is in proc_safety through `NoMissedExit`. Zemaphore: four threads,
value up to four. Dining: five philosophers, the size 1-dp.c is written for. Shuttle: three attendees, two
seats, so that one is left behind; the surplus of the arrival semaphores, which
grows without limit in the code, is bounded by `MaxArrived`. Deadlock is not
checked where the program may stop (1-dp.c, the shuttle).

**Fairness.** Log: every started call continues, recovery runs. Proc: weak for
`swtch`; strong for the scheduler's choice of a process (its loop visits every
slot), for a kernel thread's steps (a CPU that spins with interrupts off eventually
gets the lock; the hardware swap is assumed not to starve a CPU), for the timer of
each CPU (an interrupt that comes while interrupts are off stays pending; weak
fairness would let a process that makes system calls in a loop keep its CPU for
ever), and for init's call of `wait`, which it makes after every fork. Dining:
weak per thread only, since pthreads promise no order; that is also what makes the
starvation of 3-dp.c a behaviour of the program and not a thread that stops.

## Proofs

All theorems hold for every value of the constants under the named assumptions.

* `LogProofs`, `LogRefines` (assume `LogAssumption` and `BudgetAssumption`, above). `IInv` joins
  counting, commit exclusion, boot, space, and where each logged block's current
  value is in each phase. The last part is what the refinement needs: none of the
  properties says where the data is between `write_head` and `clear_head`. For the
  panics of log_write `LogFits` is not enough, since it allows a log that is full
  while the only call running has used its reservation up: `AloneInv` adds that a
  call alone in the log either wrote all of it or has the slack of another that has
  ended, and with two calls running both slacks are free (`TwoLeft`, `Room`).
  Proved: types, no panic, sleepers, cache, durability, and `Spec => Atomic`.
* `ProcProofs` (assumes that init is a slot and is not killed). `IInv` adds to the properties who runs,
  who holds `wait_lock`, which slot belongs to which fork, that an exiting process
  has no children left, and that a zombie beside its sleeping parent exists only
  while an exiting process is about to wake init. Proved: types, `StackSafe`,
  `SchedLocks`, `NoMissedExit`, `ParentsAlive`.
* `ZemaphoreProofs`: `NoLostSignal`, by counting woken threads, and the
  refinement of `Semaphore`.
* `Dining3Proofs`: for every n >= 2, each fork has one holder, and the refinement
  of `Dining`.

Only model-checked: all liveness (with it that 3-dp.c does not deadlock), the seat
count of 3-dp.c, `Dining1`, `Dining2`, `Shuttle`.

## Plan

1. Sleep-locks and the buffer cache's LRU list; pipes against a bounded FIFO; the
   disk driver with its interrupt; `sys_sleep` and ticks.
2. Console and uart rings; the file table; inodes and `iput`; block allocation;
   link, unlink and create with their failure paths, on top of `AtomicDisk`.
3. The lottery scheduler and its generator; `getfilenum`; `kalloc`, `uvmcopy` and
   `exec`'s failure paths; `malloc` and `free`; path parsing as functions.
4. Proofs: the bitmap of `Dining2`, the conservation law of `Shuttle`, the new
   kernel components.

Not planned: assembly, boot code, byte loops and the user utilities, whose models
would restate them.
