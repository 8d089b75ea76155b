# Redoubt OS: specifications, model checking and proofs

TLA+ modules for the parts of Redoubt OS whose correctness depends on the order
in which things happen: the microkernel's scheduler, task life cycle and IPC, its
capabilities, frame allocator and address spaces, and the ring-3 servers: each of those
that keep services alive and the volume bootable, and all of them calling each other. TLC checks them on small instances; TLAPS proves
the central invariants for every value of the constants. `PROJECT.json` lists, for every
definition, the source lines it stands for.

## 1. The system

| Part | State | Operations | Interacts with |
|---|---|---|---|
| scheduler (`sched.rs`) | CURRENT, READY, quantum counter | pick, resume, wake expired, preempt, idle | every trap |
| task life cycle (`task.rs`, `syscall.rs`) | task table, parents, reaper list | spawn, exit, fault, kill, wait, drain reaper | frame allocator, IPC |
| IPC (`syscall.rs`) | endpoints: pending callers, active caller and server | call, recv (with deadline), reply, unwinding on death | scheduler |
| keyboard (`input.rs`) | byte queue, parked readers | scancode interrupt, input_read | scheduler |
| capabilities (`caps.rs`, `syscall.rs`) | a slot table per task | derive, grant at spawn, block transfers, endpoint use | disk |
| frames (`frame.rs`) | free ranges, bump pointer | alloc_frames, free_frames | spawn, reaper |
| address spaces (`paging.rs`, `task.rs`) | page tables, list of spaces, registered kernel stacks | spawn's allocations, reclaim, CR3 and stack switches | frames, scheduler |
| supd | service records, backoff deadlines | reap, respawn, operator requests | kernel wait/kill/spawn, initfs, storaged |
| storaged: volume | superblock, slots A and B | mount with rollback, update, commit | updated, kernel block I/O |
| updated | position in the copy | verify the staged image, copy it, exit by code | storaged (spawned, polled, killed by it) |
| storaged: applications | paired slots, index, workspace and its cache | load, install, remove, serve pieces | initfs |
| storaged: audit log | records, cursor, digest | scan, append | everybody, through `log` requests |
| storaged: configuration | overrides in memory, one sector | set, get, load at mount | whoever holds the endpoint |
| initfs | static store, an application in transfer | fetch, chunk, run | storaged, kernel |
| console, shell, demo programs | line editor, open reader | read, print | kernel input, all servers |

What makes it hard: tasks die at any point of a call, wait or read; wake-ups come
from replies, deadlines, keys and deaths alike; teardown may not free the stack it
runs on; power fails between and inside disk writes; the device reports errors; one
workspace serves validation, installation and transfers; the supervisor's children
exit between any two of its system calls. The `hazards` of `PROJECT.json` name the
lines, and the properties that would catch each going wrong.

## 2. The modules

**Kernel** models `sched.rs`, `input.rs` and the task and IPC parts of `syscall.rs`
and `task.rs`. The kernel runs on one core with interrupts off, so every trap is one
action, and the whole trap is in it: a system call or timer tick first drains the
reaper (`Enters`), then does its work, then hands the CPU on (`Handoff`: `pick_next`
with its skipping of dead entries, `resume`, or the idle loop). Faults and the
keyboard interrupt do not drain. `state` holds `TaskState` with its payloads, `ready`
is READY, `caller`, `server` and `pending` are the endpoint's fields, `waiters` and
`kbd` the input module's. `terminate_lifecycle` is shared by exit, fault and kill as
in the code. `reported` is a history of what `wait` has returned. A deadline is kept as the ticks left until it, so there is no bound on
time. Message words are left out; the failure of a spawn for lack of memory is in
`AddressSpaces`.

**Rendezvous** is what IPC promises its users, in sixty lines: a call waits, is
accepted by one server, and ends by that server's reply or by a death. `Kernel`
implements it under the mapping `IPC`, which reads who waits and who is served off
the task states instead of the endpoints' own fields.

**Caps** models `sys_cap_derive`, the grants of `sys_task_spawn`, and the checks of
`block_io` and of endpoint use. Numbers are words `0..Top`; the code's checked and
saturating sums and the truncation of the sector count are modelled as such.

**Frames** models `frame.rs`: first fit from the sorted free list, then the bump
pointer; the assertions of `free_frames` set `panicked`. It has no steps of its own.

**AddressSpaces** extends it with `paging.rs` and the memory side of `task.rs`. Page
tables are real: `pte` maps a table frame and an index to a frame, four levels deep, with
the kernel's half shared through the PML4. A trap is a job of several steps, each with at
most one call of the allocator, because any call may fail: `spawn_user` can end in
`MapFails`, `LoadFails`, `BadElf`, `UserStackFails`, `NoSlot` or `KernelStackFails`, and
each unwinds what that path of the code unwinds. `Reclaim` is the reaper's and `wait`'s,
`Park` and `Resume` are where CR3 and the kernel stack change. Who runs and who is whose
parent is left open here; `Kernel` decides it.

**Supervisor** models supd's loop at the grain of its system calls: boot, reaping one
child at a time, the snapshot of what is due, one spawn per step, listening, and
each operator request with `drain_one` inside it. Children exit and the clock ticks
in between. supd is parked while it calls initfs for a program, storaged to log or to
update, or the console: `asks` names the server, and `Answer` is that server's reply.

**Volume** models `mount`, `run_update`, `commit_slot` and `updated`, one action per
disk write, with crashes between and inside writes, device errors, decayed sectors
and packages that are stale or do not verify on this volume. An erasure of a header at
mount (`ZeroHeader`) may fail as well, and nobody looks at its outcome. **AtomicUpdate**
is its abstract specification: the package the next boot runs changes in one step, to
a delivered one that is newer, until the device is damaged. The mapping takes
`Installed` for the package, and a fault or a torn superblock for damage.

**AppStore** models the application slots: `load_apps`, `install_app` and `remove_app`
write by write, the shared `WORKSPACE` with `cached_app`, and initfs fetching
metadata, signature and pieces call by call before it verifies them. The spawn of the
verified program and the wait for it are in `Servers`. The index's order is left open. In today's boot configuration the shell issues both installs and
runs, one after the other; the module lets them interleave, as the two endpoints do.

**AuditLog** models `scan_audit` and `audit_raw`, the several scans of one mount, the
early returns of `mount` that scan nothing, failing, torn and cut writes, and sectors
altered while the machine is off. `torn` says that the superblock no longer verifies: a
commit that fails or is cut short does that, and the next mount then returns before its
scan. **Config** extends it with the configuration: `set`
changes memory, then writes the whole text to its sector, then logs; `mount` loads the
sector, ignores and logs one that fails its MAC, and skips it in recovery mode. Both
share the device's faults and the power. The history variable `may` holds the outcomes a
client may still expect.

**Servers** puts console, initfs, storaged, supd, the shell, a service (heart) and a
program run by initfs side by side, over the six boot endpoints. Each is its own control
flow, with a label where it waits or can be preempted; `Call`, `Recv`, `Answer` and `Gone`
are the kernel's rendezvous as the servers see it (queue, one active caller, an error for
the served caller of a server that dies). Requests are reduced to their kind: what
`Volume`, `AppStore`, `AuditLog` and `Supervisor` do in detail is a step or a choice here,
and a loop of equal calls (chunks, fragments of a print) is one or two of them. A program
that initfs runs prints as often as it likes and need not end: hello does, heart does not.

`MC*` modules hold the constants of the instances. The theorems are in
`KernelTypeProofs`, `KernelIpcProofs`, `KernelQueueProofs`, `KernelWaitProofs` and
`KernelProofs`, each extending the one before, and in `CapsProofs`, `VolumeProofs` and
`ConfigProofs`.

Throughout, SHA-256 is taken as injective, MACs and signatures as unforgeable, and a
sector write as leaving the old content, the new one, or a torn sector that no check
accepts. The torn superblock is a constant of `Volume`, so that what depends on
atomic sectors is visible.

## 3. What the runs check

Every property is described where it is defined. The passing runs:

| Run | Instance | Shows |
|---|---|---|
| `kernel` | 4 tasks (2 at boot), 1 endpoint, all system calls, delays and key queue up to 2 | `QueueExact`, `ReplyOwed`, `PendingExact`, `NoStrandedCaller`, `ReadersRegistered`, `NoReclaimUnderfoot`, `DeadStaysDead`, `ExitReported` |
| `ipc` | 4 tasks, 2 servers that are each other's clients, sleeps and deadlines | `ImplementsRendezvous`, `NoStarvation`, `DeadlinesFire` |
| `caps` | 2 boot tasks, 2 children, tables of 2, words 0..4, 3 sectors, counts that wrap | `TreeConfined`, `Confined`, `UseAuthorised` |
| `spaces` | regions of 23 and 19 frames with more or fewer taken at boot, 4 stack slots, stacks of 2 pages, programs of 1 or 2 pages, tables of 4 entries | `OneOwner`, `StacksEverywhere`, `NotUnderfoot`; of the allocator `EachFrameOnce`, `FixedPoint` |
| `supervisor` | 3 services (kept, not kept, not started at boot), all requests | `ChildrenTracked`, `NoOversleep`, `ExitsNoticed`, `DueIsTried` |
| `update` | 4 packages of 3 generations, 2 transfers per slot, 2 device faults, torn superblocks | `AlwaysBootable`, `RunningValid`, `UpdateAnswered`, `ImplementsAtomicUpdate` |
| `apps` | 2 applications in 2 pairs, no device fault | `OneAppPerPair`, `IndexExact`, `RemovedStaysRemovedOnGoodDisk` |
| `apps_faults` | 1 pair, payloads of up to 2 pieces, corrupt and foreign packages, 1 fault | `RunsOnlySigned`, `NewestKept`, `RunAnswered` |
| `audit` | 3 records, 5 events, 2 faults, torn superblocks, 2 keys | `ChainIntact`, `DurableKept`, `SettingsWhole` |
| `servers` | 7 tasks, 2 typed lines, commands for every server, one of console, initfs and storaged dies | `NoCircularWait`, `InputExact`, `ExecCompletes`, `CallsEnd` |

The type invariants of `Kernel`, `Caps` and `Volume`, `WaitSound` of `Kernel` and
`ActiveAgrees` of `Volume` are proved (section 4) and have no run.

Some properties hold under a condition that the code does not ensure, and say so:

* `ExitsNoticed` and `DueIsTried`: if the calls of supd are answered (`Answered`). supd calls
  initfs and storaged without a deadline (`supd:162`, `185`, `246`). initfs answers once it
  has done the requests before, among them programs that it waits for (`initfs:386`); a call
  on a server that has died is never answered.
* `CallsEnd`: calls on the console and on storaged end while these live. Calls on initfs,
  and on supd, which may itself wait for initfs, end if in addition the programs that initfs
  runs end (`ProgramsEnd`).
* `DurableKept`: without device errors no step takes an event away from the log or moves one,
  but for steps after a mount that has not reached its scan. A power cut inside the write of
  the superblock (`storaged:1087`) leads there without a device error, and the next event is
  then written over record 0.
* `RemovedStaysRemovedOnGoodDisk`: of completed removals, while the device reports no error.
* `RunAnswered`: of the transfer and the checks, not of the program that is then run.
* `NoStrandedCaller`: if no two tasks are parked to receive on one endpoint. The rights do
  not ensure that, since several tasks hold R_READ on some endpoints; the programs do: each
  server is started once, and no other program receives.

`ExitReported` follows the code of a task from its end to its parent: each end is reported
at most once, to the parent the task had, as the code it ended with, and is dropped only
when nobody can ask for it. It allows one replacement of an unread code, by the parent's own
kill of the zombie (`syscall.rs:1102`); `ExitCodeKept` below denies that too, and is refuted.

Bounds. Four tasks are the least with a server, a served caller, a queued caller and a
task that kills one of them; a quantum of 2 has ticks that preempt and ticks that do
not. Three services make one exit while another is killed and a third waits. Two
transfers per slot have a header with and without its payload; the third generation
overwrites the slot of the first. Three versions do the same for an application pair.
One fault decays either slot or fails any one read or write; with two, the
erasure of the header of a slot that could not be read fails as well. Three records hold an intact
prefix, a break and an intact record behind it, and fill up within five events; two faults
let one hide what another damaged; two keys show a set that loses the other one. The
frames of `spaces` are scarce, and the five amounts taken at boot leave so few in some
behaviour that each allocation of a spawn fails: the PML4, a page of the program and a table
for it, the user stack and a table for it, the kernel stack and a table for it. Only the
replay of stacks into a new space never allocates, since their tables are shared. Four
slots let the slot counter run out while stacks have been freed. Two typed lines are the least that can be overtaken; one death is the
least that leaves callers queued on a dead server. `CHECK_DEADLOCK FALSE` stands in `caps`,
where all tasks may be gone, in `spaces`, where kernel_main panics if it cannot spawn its
two tasks, and in `servers`, where everything may end up waiting for a dead console.

Fairness. `Kernel`: weak fairness of `Timer` alone, since the PIT keeps interrupting
user code and the idle loop; programs owe nothing. `Supervisor`: weak fairness of
supd's own steps and of the clock: the kernel schedules supd whenever it is not parked, and
the timer ticks. Nothing is assumed of the servers that it calls (`Answer`), of operators
and of children.
`Volume`: storaged polls the agent and the clock (`AgentKilled`), and finishes what the
agent left; the agent itself may hang. `AppStore`: a handler runs to its end (weak),
and strong fairness for initfs' next step, because `serve` turns to the query endpoint
after every configuration request. `Servers`: weak fairness of each task's own steps, which
`NoStarvation` and `DeadlinesFire` of `Kernel` provide (a ready task runs, a receive with
a deadline ends); the user need not type, and the program that initfs runs need do nothing
(`ProgStep` has no fairness). `Caps`, `AddressSpaces`, `Config`: safety only.

### Where code and text disagree

Two runs are expected to end in a counterexample. Their findings in `PROJECT.json`
quote the text and name the line.

| Run | What happens |
|---|---|
| `crash_loop` | `failures` is reset by every successful spawn, so a crash loop never ends in Failed |
| `stale_rollback` | with generation 3 in the active slot A and 2 in B, an update writes the generation 1 package over B and power fails before `commit_slot`'s freshness check; the next mount cannot read A, falls back to B and runs generation 1, without comparing it with the 2 that the superblock has for B |

More statements of the repository are written down as definitions of the modules and
are not true of the code. They have no run of their own; added to the instance named
here, TLC refutes them.

| Definition | Instance | The text, and what the code does |
|---|---|---|
| `NoStrandedCaller` | `kernel` with `CanRecv <- TwoServersRecv` | `syscall.rs:674` rejects "the protocol violation" that would strand a caller; with two parked receivers `ipc_call` still overwrites `active_caller`. Of the programs only one receives on each endpoint |
| `ExitCodeKept` | `kernel` | `task.rs:66` "exit code readable"; a parent's kill of its zombie child replaces the unread code by 0x200 |
| `KeyReachesReader` | `kernel` | `syscall.rs:450` a parked reader becomes Ready "when a key arrives"; a key is spent on a dead entry of WAITERS before it |
| `IdleWakesNextTick` | `kernel` | `sched.rs:170` "The next timer tick"; a task woken in the idle loop waits for the end of the quantum |
| `SameAccounting` | `supervisor` | `supd:440` "the same accounting as the main loop"; another service's exit, reaped by `drain_one`, is booked as Stopped without restart |
| `StopSticks` | `supervisor` | `supd:389` "stay down when killed"; a service stopped during its backoff is started again |
| `TornFallsBack` | `update` | `storaged:1070` "falls back to the other valid slot"; a torn superblock means recovery mode |
| `RangeIgnored` | `caps` | `syscall.rs:908` "ignore the range arguments"; they are refused |
| `RemovedStaysRemoved` | `apps_faults` | `BUILD_LOG.md:258` "remains non-executable after reboot"; after a device error a removed application may be indexed again |
| `CacheHeld` | `apps` | `storaged:133` "held in `WORKSPACE` ... Any mutation invalidates this cache"; a refused install overwrites the workspace and leaves `cached_app`. What initfs then runs is still signed (`RunsOnlySigned`) |
| `EachFrameOnce` | `spaces` with `Regions <- TouchingRegions` | two adjoining usable regions make a legal `free_frames` fail its assertion. Needs such a memory map |
| `ExecAlwaysCompletes` | `servers` | `initfs:26` "run to completion, reap, reply"; when storaged, supd or the shell has died, `wait` reaps that child instead, and the program goes on unreaped |
| `CursorAfterLast` | `audit` | `storaged:869` "after the last intact record"; a read error during the scan ends it early |
| `AppendOnlyInRecovery` | `audit` | `README.md:78` "Append-only"; in recovery mode the first event overwrites record 0, also when a power cut tore the superblock |

Smaller differences, not formalised: `scan_audit`'s comment says a broken chain is
reported, and nothing reports it; `INPUT_NOHANG` returns 0 bytes rather than an error
code; the exit code 19 of updated has another meaning in storaged's message table.

## 4. What is proved

TLAPS checks every proof to its last leaf. The constants are arbitrary, subject to the
`ASSUME` of the component's module (types and positive sizes only).

* **Kernel.** `IInv` is `TypeOK`, `CurrentRuns`, `QueueExact`, `ReplyOwed`,
  `PendingExact`, `WaitSound`, `ReadersRegistered` and `IdsGrow`. None is inductive
  alone: that a wake-up does not queue a task twice needs to know where the task is
  parked (`PendingExact`, `ReplyOwed`, `ReadersRegistered`); that parents are older than
  their children needs `IdsGrow`. The proof goes through what is common to the
  handlers: the hand-over of the CPU (`Handoff`), the drain, and `Terminated`, with one
  step per action: `KernelTypeProofs` has the lemmas on these and the types,
  `KernelIpcProofs`, `KernelQueueProofs` and `KernelWaitProofs` the conjuncts named so,
  `KernelProofs` readers, ids and the theorems. `KernelInvariant` and the theorems drawn
  from it hold for any number of tasks and endpoints, any distribution of rights and any
  schedule.
  `NeverReclaimsUnderfoot`, `DeadStayDead` and `ExitsReported` are action properties from
  the same invariant. The last follows from what each handler does to one task (`KeepsStep`)
  and, for exit, fault and kill, from the fates of `Terminated` (`ReportedEnd`); that a
  zombie has a living parent which is not parked in wait is `WaitSound`. `CallersServed`
  adds `Served` and assumes that no two tasks are ever parked to receive on one endpoint
  (`OneReceiver`), whatever rights they hold; section 3 shows that this is needed, and that
  it is up to the programs.
* **VolumeProofs.** `VInv` adds to the checked invariants `MemInv` (what storaged's
  memory says while down, during an update and about the superblock) and `Written`
  (what the agent's transfers have left in the target). `RunningSlotValid` holds with
  any number of faults and torn superblocks; `UpdatesKeepBootable` and
  `GenerationNeverGoesBack` speak of the time before the first fault. `UpdateIsAtomic`,
  the refinement of `AtomicUpdate`, needs no assumption of that kind: the abstract
  specification itself promises nothing after the first fault or torn superblock.
* **CapsProofs.** `CInv` adds `Lineage` (parents are older, every live task descends
  from a boot task). `AuthorityConfined` and `UsesAuthorised` hold for every boot
  matrix, word width, table and disk size. The core is `WithinTransitive` and that
  each path (derive, grant) yields a capability within its source.
* **ConfigProofs.** `LogInv` is `ChainIntact` also while powered off, with the cursor's
  type and its reset; `LogChained` follows for every size of the log and number of faults.
  The core is `ScannedChained` (the scan stops at an intact prefix, by well-foundedness of
  the numbers below the limit) and `ChainFrame` (a write at the cursor leaves the chain
  before it alone). `ConfigInv` adds that only a completed mount leaves recovery mode;
  `SettingsKeptWhole` follows for every set of keys and values. `DurableKept` compares the
  logs that scans before and after a step would find, and stays with TLC.

Only model-checked: liveness (outside the prover's reach, as is ENABLED), the
refinement of `Rendezvous`, `DurableKept`, and everything about `Supervisor`, `AppStore`,
`Frames`, `AddressSpaces` and `Servers`.

## 5. What is not modelled

* Descriptor tables, trap assembly, serial and framebuffer output, the ATA handshake:
  hardware set-up and I/O. The models take from them that traps are atomic and that a block
  transfer succeeds, fails, or is cut.
* Cryptographic arithmetic: covered by test vectors in `crypto/`.
* Contents: message words and their packing, the scancode tables, editing within a line,
  texts of replies, page flags and the bytes of pages, the ELF parser's individual checks.
  They are sequential and their results are abstracted to what the steps tell apart.
* Sizes in bytes: how many requests exhaust a user heap of 1 MiB, or a config text of
  `CFG_TEXT_MAX`. A task that runs out is `Die` of `Servers`; a text that is full is a set
  that is refused, which changes nothing.
* Several programs at once under initfs: `Servers` keeps room for one, which can only be
  left over in the case named in section 3.

## 6. What could follow

Proofs for `AddressSpaces` (`OneOwner` for any memory map), `Supervisor`
(`ChildrenTracked`), `AppStore` (`RunsOnlySigned`) and `Servers` (`NoCircularWait`); that
`Kernel` implements `Rendezvous`; and Volume, AppStore and AuditLog over one mount and one
workspace.
