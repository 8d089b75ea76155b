--------------------------- MODULE AddressSpaces ---------------------------
(***************************************************************************)
(* Address spaces and kernel stacks (kernel/src/paging.rs and the parts of  *)
(* kernel/src/task.rs that allocate and reclaim a task's memory), built on  *)
(* the frame allocator of module Frames.  Page tables are real: an entry    *)
(* maps a table frame and an index to the frame it points to, and a virtual *)
(* page is the path of indices through the four levels.  The kernel runs    *)
(* with interrupts disabled, so a trap is a sequence of steps that nothing  *)
(* interrupts; each step makes at most one call of the allocator, which may *)
(* fail at any of them.                                                     *)
(***************************************************************************)
EXTENDS Frames, Functions

CONSTANTS Fan,         \* entries of a page table (512)
          KPages,      \* pages of a kernel stack (KSTACK_PAGES)
          MaxSlot,     \* kernel stack slots (4096)
          StackPages,  \* pages of a user stack
          StackTop,    \* the page after the user stack
          ElfPages,    \* the sizes of programs
          BootFrames   \* what the heap and the fault stack may take at boot

ASSUME SpacesAssumption ==
    /\ {Fan, KPages, MaxSlot, StackPages, StackTop} \subseteq Nat \ {0}
    /\ KPages + 1 < Fan /\ MaxSlot * (KPages + 1) <= Fan * Fan * Fan
    /\ StackTop < Fan * Fan * Fan /\ ElfPages \subseteq 0..StackTop - StackPages
    /\ BootFrames \subseteq Nat

VARIABLES pte,      \* present entries: <<table, index>> to a frame
          spaces,   \* ADDRESS_SPACES, the kernel's own first
          kstacks,  \* KSTACKS: slot and first frame of each registered stack
          slot,     \* NEXT_KSTACK_SLOT, up to MaxSlot
          tasks,    \* the task table
          queue,    \* REAP_QUEUE
          cpu,      \* CR3 and the slot of the kernel stack in use
          job       \* what the kernel is doing in the present trap

svars == <<frameVars, pte, spaces, kstacks, slot, tasks, queue, cpu, job>>

KernelRoot == 0     \* the bootloader's PML4, not one of our frames
KernelHalf == 384   \* its slot for the region of the kernel stacks
BootStack == -1     \* kernel_main's stack, not used after the kickoff
Idle == 0           \* slot of the idle stack
NoFrame == -1

Path(top, page) == <<top, page \div (Fan * Fan), (page \div Fan) % Fan, page % Fan>>
UserPage(page) == Path(0, page)

(* Each slot begins with a guard page that stays unmapped. *)
StackPage(s, i) == Path(KernelHalf, s * (KPages + 1) + 1 + i)

(* The tables on the way to a page, from the PML4 down. *)
Tables(root, path) ==
    LET t[i \in 1..4] == IF i = 1 THEN root
                         ELSE IF <<t[i - 1], path[i - 1]>> \in DOMAIN pte
                         THEN pte[<<t[i - 1], path[i - 1]>>] ELSE NoFrame
    IN  t

Leaf(root, path) == <<Tables(root, path)[4], path[4]>>
Translate(root, path) ==
    IF Leaf(root, path) \in DOMAIN pte THEN pte[Leaf(root, path)] ELSE NoFrame

Entries(frames) == {k \in DOMAIN pte : k[1] \in frames}
Targets(keys) == {pte[k] : k \in keys}

(* What free_user_subtree walks: the entries below slot 0. *)
UserEntries(root) ==
    LET e4 == {<<root, 0>>} \cap DOMAIN pte
        e3 == Entries(Targets(e4))
        e2 == Entries(Targets(e3))
    IN  e4 \cup e3 \cup e2 \cup Entries(Targets(e2))

StackLeaves(s, roots) ==
    {Leaf(r, StackPage(s, i)) : r \in roots, i \in 0..KPages - 1} \cap DOMAIN pte

Without(keys) == Restrict(pte, DOMAIN pte \ keys)

(* What kernel_main leaves behind before it spawns the first task: its own  *)
(* space registered and the idle stack mapped there, through some tables.   *)
Booted(n, tables, entries) ==
    LET base == Regions[1][1] + n
        last == base + KPages + tables
    IN  /\ free = <<>> /\ cur = 1 /\ next = last /\ allocated = n + KPages + tables
        /\ held = Range2Set(<<Regions[1][1], last>>) /\ lost = {} /\ panicked = FALSE
        /\ pte = entries /\ spaces = <<KernelRoot>>
        /\ kstacks = <<[slot |-> Idle, base |-> base]>>
        /\ slot = 1 /\ tasks = {} /\ queue = <<>>
        /\ cpu = [cr3 |-> KernelRoot, stack |-> BootStack]
        /\ job = [at |-> "trap"]

(* register_kstack at boot: three tables, then the pages. *)
IdleEntries(base) ==
    LET p == StackPage(Idle, 0)
        l3 == base + KPages
    IN  (<<KernelRoot, p[1]>> :> l3) @@ (<<l3, p[2]>> :> l3 + 1) @@ (<<l3 + 1, p[3]>> :> l3 + 2)
            @@ [k \in {<<l3 + 2, p[4] + i>> : i \in 0..KPages - 1} |-> base + k[2] - p[4]]

(* Regions[1] is the one that the kernel heap came from.  A usable region    *)
(* before it, too small for the heap, was skipped for good by alloc_frames   *)
(* (frame.rs:95), and is as if it were not there.                            *)
SpacesInitIdleUnmapped == \E n \in BootFrames : Booted(n, 0, <<>>)

SpacesInit == \E n \in BootFrames : Booted(n, 3, IdleEntries(Regions[1][1] + n))

-----------------------------------------------------------------------------
(* alloc_frames gives frames, the lowest of which is Got. *)
Alloc(count) == AllocFree(count) \/ AllocBump(count)
Got == Min(held' \ held)

Doing(phase) == job.at = phase /\ ~panicked
Step(phase) == Doing(phase) /\ job.todo = <<>>

(* Where the kernel goes on when a spawn has ended: kernel_main spawns two    *)
(* tasks, and panics if it cannot.                                          *)
Back == IF cpu.stack = BootStack THEN "trap" ELSE "user"
Failed == IF cpu.stack = BootStack THEN "halt" ELSE "user"

Ranges(keys) == FoldSet(LAMBDA k, s : Append(s, <<pte[k], 1>>), <<>>, keys)

Deregistered(root) == SelectSeq(spaces, LAMBDA r : r # root)

(* A spawn that fails: leaves that own frames still held by the caller are   *)
(* unmapped, those frames are freed, and the private subtree of the new      *)
(* space goes with its PML4.                                                *)
Unwind(leaves) ==
    LET mine == UserEntries(job.cr3) \ leaves
    IN  /\ pte' = Without(mine \cup leaves \cup Entries({job.cr3}))
        /\ spaces' = Deregistered(job.cr3)
        /\ job' = [at |-> "free", then |-> Failed,
                   bin |-> job.own \o Ranges(mine) \o << <<job.cr3, 1>> >>]
        /\ UNCHANGED <<kstacks, tasks, queue, cpu>>

(* reclaim: destroy_address_space, then unregister_kstack in the spaces      *)
(* that are left, then the frames of the stack.                             *)
ReclaimKeepsLeaves(p, then) ==
    LET mine == UserEntries(p.cr3)
    IN  /\ pte' = Without(mine \cup Entries({p.cr3}))
        /\ spaces' = Deregistered(p.cr3)
        /\ kstacks' = SelectSeq(kstacks, LAMBDA k : k.slot # p.slot)
        /\ job' = [at |-> "free", then |-> then,
                   bin |-> Ranges(mine) \o << <<p.cr3, 1>>, <<p.base, KPages>> >>]

Reclaim(p, then) ==
    LET mine == UserEntries(p.cr3)
        stack == StackLeaves(p.slot, Range(Deregistered(p.cr3)))
    IN  /\ pte' = Without(mine \cup Entries({p.cr3}) \cup stack)
        /\ spaces' = Deregistered(p.cr3)
        /\ kstacks' = SelectSeq(kstacks, LAMBDA k : k.slot # p.slot)
        /\ job' = [at |-> "free", then |-> then,
                   bin |-> Ranges(mine) \o << <<p.cr3, 1>>, <<p.base, KPages>> >>]

(* One call of free_frames.  The list is the same whatever the order. *)
Free ==
    /\ Doing("free") /\ FreeFrames(Head(job.bin)[1], Head(job.bin)[2])
    /\ job' = IF Len(job.bin) = 1 THEN [at |-> job.then] ELSE [job EXCEPT !.bin = Tail(@)]
    /\ UNCHANGED <<pte, spaces, kstacks, slot, tasks, queue, cpu>>

-----------------------------------------------------------------------------
(* map_page_in for the first mapping of the list: a table that is missing,   *)
(* or the leaf.                                                             *)
Way == Tables(job.todo[1].root, job.todo[1].path)
Missing == {i \in 1..3 : Way[i + 1] = NoFrame}
Mapping == job.at \in {"replay", "elf", "stack", "kstack"} /\ job.todo # <<>> /\ ~panicked

NextTable ==
    /\ Mapping /\ Missing # {} /\ Alloc(1)
    /\ LET i == Min(Missing)
       IN  pte' = (<<Way[i], job.todo[1].path[i]>> :> Got) @@ pte
    /\ UNCHANGED <<spaces, kstacks, slot, tasks, queue, cpu, job>>

MapLeaf ==
    /\ Mapping /\ Missing = {}
    /\ pte' = (<<Way[4], job.todo[1].path[4]>> :> job.todo[1].frame) @@ pte
    /\ job' = [job EXCEPT !.todo = Tail(@), !.own = IF Len(job.todo) = 1 THEN <<>> ELSE @]
    /\ UNCHANGED <<frameVars, spaces, kstacks, slot, tasks, queue, cpu>>

UserStackPage(i) == UserPage(StackTop - StackPages + i)

(* The leaves a failed mapping takes back. *)
Undone ==
    CASE job.at = "stack" -> {Leaf(job.cr3, UserStackPage(i)) : i \in 0..StackPages - 1} \cap DOMAIN pte
      [] job.at = "kstack" -> StackLeaves(job.slot, Range(spaces))
      [] OTHER -> {}

MapFails ==
    /\ Mapping /\ Missing # {} /\ AllocFails(1) /\ Unwind(Undone)
    /\ UNCHANGED slot

-----------------------------------------------------------------------------
(* new_address_space: a PML4 that shares the kernel's half with the current  *)
(* one, then the registered stacks, one by one.                             *)
Replay(root) ==
    FlattenSeq([n \in DOMAIN kstacks |->
        [i \in 1..KPages |-> [root |-> root, path |-> StackPage(kstacks[n].slot, i - 1),
                              frame |-> kstacks[n].base + i - 1]]])

NewSpace ==
    /\ Doing("space") /\ Alloc(1)
    /\ pte' = [k \in {<<Got, k[2]>> : k \in {e \in Entries({cpu.cr3}) : e[2] # 0}} |->
                   pte[<<cpu.cr3, k[2]>>]] @@ pte
    /\ job' = [at |-> "replay", cr3 |-> Got, left |-> job.left, own |-> <<>>, todo |-> Replay(Got)]
    /\ UNCHANGED <<spaces, kstacks, slot, tasks, queue, cpu>>

NewSpaceFails ==
    /\ Doing("space") /\ AllocFails(1)
    /\ job' = [at |-> Failed]
    /\ UNCHANGED <<pte, spaces, kstacks, slot, tasks, queue, cpu>>

RegisterSpace ==
    /\ Step("replay")
    /\ spaces' = Append(spaces, job.cr3)
    /\ job' = [job EXCEPT !.at = "elf"]
    /\ UNCHANGED <<frameVars, pte, kstacks, slot, tasks, queue, cpu>>

(* load_elf: a frame for each page; a malformed file is found before the     *)
(* first one, a bad entry point after the last.                             *)
LoadPage ==
    /\ Step("elf") /\ job.left > 0 /\ Alloc(1)
    /\ job' = [job EXCEPT !.left = @ - 1, !.own = << <<Got, 1>> >>,
                          !.todo = <<[root |-> job.cr3, path |-> UserPage(job.left), frame |-> Got]>>]
    /\ UNCHANGED <<pte, spaces, kstacks, slot, tasks, queue, cpu>>

LoadFails == Step("elf") /\ job.left > 0 /\ AllocFails(1) /\ Unwind({}) /\ UNCHANGED slot

BadElf ==
    /\ Step("elf") /\ (job.left = 0 \/ UserEntries(job.cr3) = {})
    /\ Unwind({}) /\ UNCHANGED <<frameVars, slot>>

UserStack ==
    /\ Step("elf") /\ job.left = 0 /\ Alloc(StackPages)
    /\ job' = [job EXCEPT !.at = "stack", !.own = << <<Got, StackPages>> >>,
                  !.todo = [i \in 1..StackPages |->
                      [root |-> job.cr3, path |-> UserStackPage(i - 1), frame |-> Got + i - 1]]]
    /\ UNCHANGED <<pte, spaces, kstacks, slot, tasks, queue, cpu>>

UserStackFails == Step("elf") /\ job.left = 0 /\ AllocFails(StackPages) /\ Unwind({}) /\ UNCHANGED slot

(* alloc_kstack: the counter never goes back, and register_kstack maps each  *)
(* page in every space.                                                     *)
NoSlot == Step("stack") /\ slot = MaxSlot /\ Unwind({}) /\ UNCHANGED <<frameVars, slot>>

KernelStack ==
    /\ Step("stack") /\ slot < MaxSlot /\ Alloc(KPages)
    /\ slot' = slot + 1
    /\ job' = [at |-> "kstack", cr3 |-> job.cr3, slot |-> slot, base |-> Got,
               own |-> << <<Got, KPages>> >>,
               todo |-> FlattenSeq([i \in 1..KPages |-> [n \in DOMAIN spaces |->
                   [root |-> spaces[n], path |-> StackPage(slot, i - 1), frame |-> Got + i - 1]]])]
    /\ UNCHANGED <<pte, spaces, kstacks, tasks, queue, cpu>>

KernelStackFails ==
    Step("stack") /\ slot < MaxSlot /\ AllocFails(KPages) /\ Unwind({}) /\ slot' = slot + 1

(* The task is in the table. *)
Spawned ==
    /\ Step("kstack")
    /\ kstacks' = Append(kstacks, [slot |-> job.slot, base |-> job.base])
    /\ tasks' = tasks \cup {[cr3 |-> job.cr3, slot |-> job.slot, base |-> job.base, zombie |-> FALSE]}
    /\ job' = [at |-> Back]
    /\ UNCHANGED <<frameVars, pte, spaces, slot, queue, cpu>>

-----------------------------------------------------------------------------
Live == {t \in tasks : ~t.zombie}
Current == {t \in Live : t.slot = cpu.stack}

(* A syscall or a tick enters the kernel and first drains the reaper. *)
Trap ==
    /\ Doing("user") /\ job' = [at |-> "trap"]
    /\ UNCHANGED <<frameVars, pte, spaces, kstacks, slot, tasks, queue, cpu>>

Drain ==
    /\ Doing("trap") /\ queue # <<>>
    /\ Reclaim(Head(queue), "trap") /\ queue' = Tail(queue)
    /\ UNCHANGED <<frameVars, slot, tasks, cpu>>

Drained == Doing("trap") /\ queue = <<>>

SpawnUser(pages) ==
    /\ Drained /\ cpu.stack # Idle
    /\ job' = [at |-> "space", left |-> pages]
    /\ UNCHANGED <<frameVars, pte, spaces, kstacks, slot, tasks, queue, cpu>>

ParkKeepsSpace == [cr3 |-> cpu.cr3, stack |-> Idle]

(* park_idle: the kernel's own space and the idle stack. *)
Park == [cr3 |-> KernelRoot, stack |-> Idle]

(* resume: CR3, then the stack for the next trap. *)
Resume(t) == [cr3 |-> t.cr3, stack |-> t.slot]

(* Who runs next is the scheduler's matter (module Kernel). *)
Switch ==
    /\ Drained
    /\ cpu' \in {Resume(t) : t \in Live} \cup {Park}
    /\ job' = [at |-> "user"]
    /\ UNCHANGED <<frameVars, pte, spaces, kstacks, slot, tasks, queue>>

Corpse(t) == [cr3 |-> t.cr3, slot |-> t.slot, base |-> t.base]
Corpses(dead) == FoldSet(LAMBDA t, s : Append(s, Corpse(t)), <<>>, dead)

(* terminate_lifecycle: zombies nobody can wait for any more are queued, and *)
(* the task itself lingers or is queued after them.  Who is whose parent is  *)
(* left to module Kernel.                                                   *)
Terminate(t) ==
    \E orphans \in SUBSET {z \in tasks : z.zombie}, linger \in BOOLEAN :
        /\ tasks' = IF linger THEN ((tasks \ orphans) \ {t}) \cup {[t EXCEPT !.zombie = TRUE]}
                    ELSE (tasks \ orphans) \ {t}
        /\ queue' = queue \o Corpses(orphans) \o (IF linger THEN <<>> ELSE <<Corpse(t)>>)

(* Exit or fault of the running task.  A fault does not drain the reaper. *)
Exit ==
    /\ Drained \/ Doing("user")
    /\ \E t \in Current : /\ Terminate(t)
                          /\ cpu' \in {Resume(u) : u \in Live \ {t}} \cup {Park}
    /\ job' = [at |-> "user"]
    /\ UNCHANGED <<frameVars, pte, spaces, kstacks, slot>>

Kill ==
    /\ Drained /\ Current # {}
    /\ \E t \in Live \ Current : Terminate(t)
    /\ job' = [at |-> "user"]
    /\ UNCHANGED <<frameVars, pte, spaces, kstacks, slot, cpu>>

(* sys_wait reclaims a zombie child at once. *)
Wait ==
    /\ Drained /\ Current # {}
    /\ \E z \in tasks : z.zombie /\ tasks' = tasks \ {z} /\ Reclaim(Corpse(z), "user")
    /\ UNCHANGED <<frameVars, slot, queue, cpu>>

SpacesNext ==
    \/ Free \/ NextTable \/ MapLeaf \/ MapFails
    \/ NewSpace \/ NewSpaceFails \/ RegisterSpace
    \/ LoadPage \/ LoadFails \/ BadElf \/ UserStack \/ UserStackFails
    \/ NoSlot \/ KernelStack \/ KernelStackFails \/ Spawned
    \/ Trap \/ Drain \/ Switch \/ Exit \/ Kill \/ Wait
    \/ \E pages \in ElfPages : SpawnUser(pages)

SpacesSpec == SpacesInit /\ [][SpacesNext]_svars

-----------------------------------------------------------------------------
Between == job.at \in {"user", "trap", "free"}

BootHeld == Range2Set(<<Regions[1][1], kstacks[1].base>>)
KernelTables == {Tables(KernelRoot, StackPage(s, i))[l] : s \in 0..MaxSlot - 1, i \in 0..KPages - 1,
                                                         l \in 2..4} \ {NoFrame}
StackFrames(k) == Range2Set(<<k.base, k.base + KPages>>)
Bin == IF job.at = "free" THEN job.bin ELSE <<>>
Owned(root) == {root} \cup Targets(UserEntries(root))
Processes == Range(Tail(spaces))

(* No frame leaks and none has two owners: between two steps of spawning,    *)
(* whatever has failed before, each frame the kernel holds belongs to boot,  *)
(* to the shared tables of the kernel stacks, to one registered stack, to    *)
(* one entry of one process's own tables, or is about to be freed.          *)
OneOwner ==
    Between =>
        /\ held = BootHeld \cup KernelTables \cup UNION {StackFrames(k) : k \in Range(kstacks)}
                      \cup UNION {Owned(r) : r \in Processes}
                      \cup UNION {Range2Set(<<b[1], b[1] + b[2]>>) : b \in Range(Bin)}
        /\ Cardinality(held) =
               Cardinality(BootHeld) + Cardinality(KernelTables) + KPages * Len(kstacks)
                   + MapThenSumSet(LAMBDA r : 1 + Cardinality(UserEntries(r)), Processes)
                   + FoldLeft(LAMBDA n, b : n + b[2], 0, Bin)

(* "Kernel stacks must be reachable from all of them": every address space   *)
(* maps every registered stack to its frames, and no page of a stack that    *)
(* is gone, whichever came first, the space or the stack.                   *)
StacksEverywhere ==
    Between =>
        \A r \in Range(spaces), s \in 0..MaxSlot - 1, i \in 0..KPages - 1 :
            LET of == {k \in Range(kstacks) : k.slot = s}
            IN  Translate(r, StackPage(s, i)) =
                    IF of = {} THEN NoFrame ELSE (CHOOSE k \in of : TRUE).base + i

(* The CPU never runs on an address space or a kernel stack that has been    *)
(* reclaimed, the idle context included.                                    *)
NotUnderfoot ==
    /\ cpu.cr3 \in Range(spaces)
    /\ cpu.stack # BootStack => \E k \in Range(kstacks) : k.slot = cpu.stack
=============================================================================
