-------------------------------- MODULE Caps --------------------------------
(***************************************************************************)
(* Capability tables (kernel/src/caps.rs) and the system calls that use,   *)
(* attenuate and transfer capabilities (kernel/src/syscall.rs).            *)
(*                                                                         *)
(* A task names a capability by its slot.  Rights are sets, a mask is      *)
(* intersected with them.  LBAs and lengths are machine words 0..Top, so   *)
(* the checked and saturating additions of the code are visible.  Memory   *)
(* capabilities are never created; endpoint capabilities stand for every   *)
(* kind that has no range.                                                 *)
(***************************************************************************)
EXTENDS Integers, Sequences

CONSTANTS BootTasks,   \* the tasks the kernel starts: 1..BootTasks
          MaxTask,     \* bound: tasks ever created
          TableSize,   \* CAP_TABLE_SIZE
          BootTable,   \* the capabilities the kernel installs at boot
          Top,         \* largest machine word
          Sectors,     \* size of each disk, as the drive reports it
          MaxSectors,  \* MAX_BLOCK_SECTORS
          CountMod,    \* transfer counts are truncated modulo this
          Masks,       \* the rights masks that user code passes
          Counts,      \* the transfer counts that user code passes
          MaxPairs     \* bound: (slot, mask) pairs passed to task_spawn

Rights == {"r", "w", "g"}
Words == 0..Top
TableSlots == 1..TableSize
Tasks == 1..MaxTask
NoTask == 0

Cap == [kind : {"endpoint", "block"}, obj : Nat, lo : Words, len : Words,
        rights : SUBSET Rights]
NoCap == [kind |-> "none", obj |-> 0, lo |-> 0, len |-> 0, rights |-> {}]
EmptyTable == [s \in TableSlots |-> NoCap]

ASSUME CapsAssumption ==
    /\ BootTasks \in Nat /\ MaxTask \in Nat /\ BootTasks <= MaxTask
    /\ TableSize \in Nat /\ Top \in Nat /\ MaxPairs \in Nat
    /\ Sectors \in Words /\ MaxSectors \in Nat /\ CountMod \in Nat \ {0}
    /\ Masks \subseteq SUBSET Rights /\ Counts \subseteq Nat
    /\ BootTable \in [1..BootTasks -> [TableSlots -> Cap \cup {NoCap}]]
    /\ \A t \in 1..BootTasks, s \in TableSlots :
           BootTable[t][s].lo + BootTable[t][s].len <= Top

VARIABLES created,  \* number of tasks created so far
          alive,    \* tasks in the task table
          parent,   \* Task.parent; NoTask for the boot tasks
          origin,   \* the boot task each task descends from (history)
          table,    \* Task.caps
          use       \* the last authority exercised (history)

vars == <<created, alive, parent, origin, table, use>>

(* [lo, lo+len) of the object, with rights no larger. *)
Within(c, d) ==
    /\ c.kind = d.kind /\ c.obj = d.obj /\ c.rights \subseteq d.rights
    /\ d.lo <= c.lo /\ c.lo + c.len <= d.lo + d.len

NoUse == [by |-> NoTask, slot |-> 0, cap |-> NoCap]

(* The boot delegation matrix: no task has a parent, each holds its row. *)
Init ==
    /\ created = BootTasks
    /\ alive = 1..BootTasks
    /\ parent = [t \in Tasks |-> NoTask]
    /\ origin = [t \in Tasks |-> IF t <= BootTasks THEN t ELSE NoTask]
    /\ table = [t \in Tasks |-> IF t <= BootTasks THEN BootTable[t] ELSE EmptyTable]
    /\ use = NoUse

-----------------------------------------------------------------------------
(* checked_add succeeds, saturating_add, max and min on machine words. *)
Fits(a, b) == a + b <= Top
Saturated(a, b) == IF a + b <= Top THEN a + b ELSE Top
Larger(a, b) == IF a < b THEN b ELSE a
Lesser(a, b) == IF a < b THEN a ELSE b

(* The checks common to cap_derive and task_spawn. *)
SrcErrnoNoGrant(c, mask) ==
    CASE c = NoCap -> "CAP_MISSING"
      [] c # NoCap /\ c.rights \cap mask = {} -> "CAP_DENIED"
      [] OTHER -> "OK"

SrcErrno(c, mask) ==
    CASE c = NoCap -> "CAP_MISSING"
      [] c # NoCap /\ ("g" \notin c.rights \/ c.rights \cap mask = {}) -> "CAP_DENIED"
      [] OTHER -> "OK"

(* The requested range intersected with the held one. *)
From(c, lo, len) == Larger(lo, c.lo)

ToUnclamped(c, lo, len) == lo + len

To(c, lo, len) == Lesser(lo + len, Saturated(c.lo, c.len))

RangeErrno(c, lo, len) ==
    CASE c.kind # "block" -> IF lo = 0 /\ len = 0 THEN "OK" ELSE "BAD_ARG"
      [] c.kind = "block" /\ ~Fits(lo, len) -> "BAD_ARG"
      [] c.kind = "block" /\ Fits(lo, len) ->
            IF To(c, lo, len) <= From(c, lo, len) THEN "CAP_DENIED" ELSE "OK"

DeriveErrno(c, mask, lo, len) ==
    IF SrcErrno(c, mask) # "OK" THEN SrcErrno(c, mask) ELSE RangeErrno(c, lo, len)

Attenuated(c, mask) == [c EXCEPT !.rights = @ \cap mask]

Narrowed(c, lo, len) ==
    IF c.kind # "block" THEN c
    ELSE [c EXCEPT !.lo = From(c, lo, len),
                   !.len = To(c, lo, len) - From(c, lo, len)]

(* Task::free_cap_slot *)
FirstFree(t, s) ==
    /\ table[t][s] = NoCap
    /\ \A r \in TableSlots : r < s => table[t][r] # NoCap

(* sys_cap_derive: the result goes into a free slot of the caller's own    *)
(* table; a refused request, or a full table, changes nothing.             *)
CapDerive(t) ==
    /\ t \in alive
    /\ \E src \in TableSlots, mask \in Masks, lo \in Words, len \in Words, s \in TableSlots :
          /\ DeriveErrno(table[t][src], mask, lo, len) = "OK"
          /\ FirstFree(t, s)
          /\ table' = [table EXCEPT ![t][s] =
                          Attenuated(Narrowed(table[t][src], lo, len), mask)]
    /\ UNCHANGED <<created, alive, parent, origin, use>>

(* sys_task_spawn: every pair passes or no task is created; the child gets *)
(* the attenuated capabilities in the order of the list.                   *)
Pairs == UNION {[1..n -> TableSlots \X Masks] : n \in 0..MaxPairs}

ChildTable(t, pairs) ==
    [s \in TableSlots |-> IF s <= Len(pairs)
                          THEN Attenuated(table[t][pairs[s][1]], pairs[s][2])
                          ELSE NoCap]

TaskSpawn(t) ==
    /\ t \in alive /\ created < MaxTask
    /\ \E pairs \in Pairs :
          /\ Len(pairs) <= TableSize
          /\ \A i \in DOMAIN pairs : SrcErrno(table[t][pairs[i][1]], pairs[i][2]) = "OK"
          /\ table' = [table EXCEPT ![created + 1] = ChildTable(t, pairs)]
    /\ created' = created + 1
    /\ alive' = alive \cup {created + 1}
    /\ parent' = [parent EXCEPT ![created + 1] = t]
    /\ origin' = [origin EXCEPT ![created + 1] = origin[t]]
    /\ UNCHANGED use

(* exit_task, handle_user_fault, sys_kill: the table goes with the task. *)
TaskGone(t) ==
    /\ t \in alive
    /\ alive' = alive \ {t}
    /\ table' = [table EXCEPT ![t] = EmptyTable]
    /\ use' = IF use.by = t THEN NoUse ELSE use
    /\ UNCHANGED <<created, parent, origin>>

-----------------------------------------------------------------------------
(* get_endpoint_cap, as ipc_call and ipc_reply ("w") and ipc_recv ("r")     *)
(* call it.                                                                *)
EndpointOp(t) ==
    /\ t \in alive
    /\ \E s \in TableSlots, need \in {"r", "w"} :
          /\ table[t][s].kind = "endpoint" /\ need \in table[t][s].rights
          /\ use' = [by |-> t, slot |-> s,
                     cap |-> [table[t][s] EXCEPT !.rights = {need}]]
    /\ UNCHANGED <<created, alive, parent, origin, table>>

(* check_block_cap: the range is relative to the capability's window. *)
CoversStart(c, rel, count) == Fits(rel, count) /\ rel < c.len

Covers(c, rel, count) == Fits(rel, count) /\ rel + count <= c.len

(* block_io: the count is truncated first, then checked; the relative LBA  *)
(* becomes an absolute one; the driver checks the range against the disk   *)
(* before it touches the device (ata.rs).                                  *)
Truncated(raw) == raw % CountMod

OnDisk(lba, count) == Fits(lba, count) /\ lba + count <= Sectors

BlockOp(t) ==
    /\ t \in alive
    /\ \E s \in TableSlots, need \in {"r", "w"}, rel \in Words, raw \in Counts :
          LET c == table[t][s]  count == Truncated(raw)
          IN /\ count # 0 /\ count <= MaxSectors
             /\ c.kind = "block" /\ Covers(c, rel, count) /\ need \in c.rights
             /\ Fits(c.lo, rel) /\ OnDisk(c.lo + rel, count)
             /\ use' = [by |-> t, slot |-> s,
                        cap |-> [c EXCEPT !.lo = c.lo + rel, !.len = count,
                                          !.rights = {need}]]
    /\ UNCHANGED <<created, alive, parent, origin, table>>

Next ==
    \E t \in Tasks :
        \/ CapDerive(t)
        \/ TaskSpawn(t)
        \/ TaskGone(t)
        \/ EndpointOp(t)
        \/ BlockOp(t)

Spec == Init /\ [][Next]_vars

-----------------------------------------------------------------------------
(* Type correctness: in particular, no derived window is negative or wraps *)
(* around the largest LBA.                                                 *)
CapsTypeOK ==
    /\ created \in BootTasks..MaxTask
    /\ alive \subseteq 1..created
    /\ parent \in [Tasks -> Tasks \cup {NoTask}]
    /\ origin \in [Tasks -> (1..BootTasks) \cup {NoTask}]
    /\ table \in [Tasks -> [TableSlots -> Cap \cup {NoCap}]]
    /\ use \in [by : Tasks \cup {NoTask}, slot : TableSlots \cup {0}, cap : Cap \cup {NoCap}]
    /\ \A t \in Tasks, s \in TableSlots : Fits(table[t][s].lo, table[t][s].len)

(* Delegation follows the task tree: whatever a child holds is covered by  *)
(* a grantable capability that its parent, while it lives, still holds     *)
(* (main.rs "Children receive strictly attenuated intersections").  Rests  *)
(* on slots never being overwritten and on grant checks on both paths.     *)
TreeConfined ==
    \A t \in alive : parent[t] \in alive =>
        \A s \in TableSlots : table[t][s] # NoCap =>
            \E r \in TableSlots :
                /\ table[parent[t]][r] # NoCap /\ "g" \in table[parent[t]][r].rights
                /\ Within(table[t][s], table[parent[t]][r])

(* Range and rights attenuation over any chain of derivations and spawns:  *)
(* every capability is within one of those the kernel installed, at boot,  *)
(* for the boot task its holder descends from, so no sequence of           *)
(* cap_derive and task_spawn amplifies the boot delegation matrix.         *)
Confined ==
    \A t \in alive, s \in TableSlots : table[t][s] # NoCap =>
        \E r \in TableSlots :
            /\ BootTable[origin[t]][r] # NoCap
            /\ Within(table[t][s], BootTable[origin[t]][r])

(* What the kernel lets a task touch (the sectors of a block transfer, an  *)
(* endpoint) lies within the capability it named, with the right it        *)
(* needed, and within the disk, although block_io addresses the window     *)
(* relatively, truncates the count and adds machine words.                 *)
UseAuthorised ==
    use # NoUse =>
        /\ use.by \in alive
        /\ Within(use.cap, table[use.by][use.slot])
        /\ use.cap.kind = "block" => use.cap.lo + use.cap.len <= Sectors
        /\ \E r \in TableSlots : Within(use.cap, BootTable[origin[use.by]][r])

(* sys_cap_derive's comment: "Endpoint/Memory caps ignore the range        *)
(* arguments": the answer for such a capability does not depend on them.   *)
RangeIgnored ==
    \A t \in alive, s \in TableSlots : table[t][s].kind = "endpoint" =>
        \A mask \in Masks, lo, len \in Words :
            DeriveErrno(table[t][s], mask, lo, len) = DeriveErrno(table[t][s], mask, 0, 0)

=============================================================================
