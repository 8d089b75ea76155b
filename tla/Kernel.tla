------------------------------- MODULE Kernel -------------------------------
(***************************************************************************)
(* The microkernel as its tasks see it: the scheduler (sched.rs), the task *)
(* life cycle (task.rs and the exit, wait, kill and spawn handlers of      *)
(* syscall.rs), synchronous IPC over endpoints (syscall.rs) and keyboard   *)
(* input (input.rs).                                                       *)
(*                                                                         *)
(* The kernel runs on one core with interrupts disabled, so every trap is  *)
(* one atomic action.  Only the Running task makes system calls; the timer *)
(* and the keyboard interrupt user code or the idle loop.                  *)
(***************************************************************************)
EXTENDS Integers, Sequences, FiniteSets

CONSTANTS
  MaxTid,        \* bound: how many tasks are ever created
  BootTasks,     \* tasks 1 .. BootTasks exist when the scheduler starts
  NumEndpoints,  \* endpoints are created at boot and never destroyed
  Quantum,       \* QUANTUM_TICKS
  MaxDelay,      \* bound: the longest sleep or receive deadline, in ticks
  QueueCap,      \* QUEUE_CAP of the keyboard queue
  MaxRead,       \* bound: the most bytes one input read takes
  CanRecv,       \* CanRecv[t]: endpoints for which task t holds R_READ
  CanSend,       \* CanSend[t]: endpoints for which task t holds R_WRITE
  Syscalls       \* the system calls and interrupts that occur in this instance

Tids == 1 .. MaxTid
NoTask == 0
Eps == 0 .. NumEndpoints - 1
NoEp == -1

SyscallNames == {"yield", "exit", "call", "recv", "reply", "wait", "spawn",
                 "kill", "sleep", "input", "other", "fault", "keyboard"}

ASSUME BoundsAssumption ==
  /\ MaxTid \in Nat /\ BootTasks \in 1 .. MaxTid
  /\ NumEndpoints \in Nat /\ MaxDelay \in Nat
  /\ Quantum \in Nat \ {0} /\ QueueCap \in Nat \ {0} /\ MaxRead \in Nat \ {0}

ASSUME RightsAssumption ==
  /\ CanRecv \in [Tids -> SUBSET Eps]
  /\ CanSend \in [Tids -> SUBSET Eps]
  /\ Syscalls \subseteq SyscallNames

(***************************************************************************)
(* TaskState with its payloads.  A deadline is kept as the ticks left until*)
(* it; left = 0 is the code's "deadline 0", no deadline.  New, Reaping and *)
(* Gone are not in the task table: not created yet, waiting in REAP_QUEUE, *)
(* and torn down.  A code tells how the task ended.                        *)
(***************************************************************************)
Codes == {"none", "exit", "fault", "kill"}

Plain(k) == [is |-> k, ep |-> NoEp, left |-> 0, code |-> "none"]
Ready == Plain("Ready")
Running == Plain("Running")
BlockedWait == Plain("BlockedWait")
BlockedInput == Plain("BlockedInput")
\* (Faulty variants, each named for what it forgets, stand before the definition
\* they vary; the properties below are checked to fail with them.)
ReapingAtOnce == Plain("Gone")
Reaping == Plain("Reaping")
Gone == Plain("Gone")
New == Plain("New")
BlockedSend(e) == [is |-> "BlockedSend", ep |-> e, left |-> 0, code |-> "none"]
BlockedCall(e) == [is |-> "BlockedCall", ep |-> e, left |-> 0, code |-> "none"]
BlockedRecv(e, d) == [is |-> "BlockedRecv", ep |-> e, left |-> d, code |-> "none"]
BlockedSleep(d) == [is |-> "BlockedSleep", ep |-> NoEp, left |-> d, code |-> "none"]
Zombie(c) == [is |-> "Zombie", ep |-> NoEp, left |-> 0, code |-> c]

Delays == 1 .. MaxDelay
TaskStates ==
  {Plain(k) : k \in {"Ready", "Running", "BlockedWait", "BlockedInput",
                     "Reaping", "Gone", "New"}}
    \cup {BlockedSend(e) : e \in Eps}
    \cup {BlockedCall(e) : e \in Eps}
    \cup {BlockedRecv(e, d) : e \in Eps, d \in {0} \cup Delays}
    \cup {BlockedSleep(d) : d \in Delays}
    \cup {Zombie(c) : c \in Codes}

VARIABLES
  state,    \* state[t]: the TaskState of task t
  parent,   \* parent[t]: who may wait for t, or NoTask
  reported, \* reported[t]: the code wait() returned for t, "none" until it did
  cur,      \* CURRENT, NoTask in the idle loop
  ready,    \* READY, front first
  since,    \* SINCE_SWITCH
  caller,   \* caller[e]: active_caller of endpoint e
  server,   \* server[e]: active_server of endpoint e
  pending,  \* pending[e]: pending_callers of endpoint e, oldest first
  kbd,      \* number of decoded bytes in the keyboard QUEUE
  waiters   \* WAITERS: readers parked for keyboard input, oldest first

schedVars == <<cur, ready>>
ipcVars == <<caller, server, pending>>
inputVars == <<kbd, waiters>>
vars == <<state, parent, reported, cur, ready, since, caller, server, pending, kbd, waiters>>

(* Types of the task table, the scheduler, the endpoints and the input      *)
(* queue; the keyboard queue stays within its capacity.                     *)
TypeOK ==
  /\ state \in [Tids -> TaskStates]
  /\ parent \in [Tids -> Tids \cup {NoTask}]
  /\ reported \in [Tids -> Codes]
  /\ cur \in Tids \cup {NoTask}
  /\ ready \in Seq(Tids)
  /\ since \in 0 .. Quantum - 1
  /\ caller \in [Eps -> Tids \cup {NoTask}]
  /\ server \in [Eps -> Tids \cup {NoTask}]
  /\ pending \in [Eps -> Seq(Tids)]
  /\ kbd \in 0 .. QueueCap
  /\ waiters \in Seq(Tids)

InTable(s) == s.is \notin {"New", "Reaping", "Gone"}
Live(s) == InTable(s) /\ s.is # "Zombie"

Elements(q) == {q[i] : i \in DOMAIN q}
Smallest(t, T) == t \in T /\ \A u \in T : t <= u
AtMost(n, m) == IF n <= m THEN n ELSE m

\* The sequences that list the set S from its largest to its smallest member:
\* what pushing the members of S to the front one after the other, in
\* increasing order, puts before the old queue.
Descending(S) ==
  {w \in [1 .. Cardinality(S) -> S] :
     /\ \A i, j \in 1 .. Cardinality(S) : i < j => w[i] > w[j]
     /\ Elements(w) = S}

-----------------------------------------------------------------------------
(* Scheduler primitives *)

EligibleDead(s, q, exclude) == {i \in DOMAIN q : q[i] # exclude}
EligibleNewest(s, q, exclude) ==
  {i \in DOMAIN q : /\ q[i] # exclude /\ s[q[i]].is = "Ready"
                    /\ \A j \in DOMAIN q : j > i => s[q[j]].is # "Ready"}

\* pick_next: the places in the queue q of tasks it would return.
Eligible(s, q, exclude) == {i \in DOMAIN q : q[i] # exclude /\ s[q[i]].is = "Ready"}

RemainingPicked(q, i) == q

\* What pick_next leaves in the queue when it returns the task at place i: the
\* skipped entries go behind the others.  (Without an eligible entry the loop
\* pops everything and drops it.)
Remaining(q, i) == SubSeq(q, i + 1, Len(q)) \o SubSeq(q, 1, i - 1)

\* set_current(None), pick_next(None), then resume or park_idle: the end of
\* every handler that gives the CPU up.
Handoff(s, q) ==
  \/ \E i \in DOMAIN q :
       /\ Smallest(i, Eligible(s, q, NoTask))
       /\ state' = [t \in Tids |-> IF t = q[i] THEN Running ELSE s[t]]
       /\ cur' = q[i]
       /\ ready' = Remaining(q, i)
  \/ /\ Eligible(s, q, NoTask) = {}
     /\ state' = s
     /\ cur' = NoTask
     /\ ready' = <<>>

\* pick_next(cur), then the current task goes to the back of the queue and the
\* picked one runs; without another runnable task nothing is switched.  This
\* is yield_task and the end of maybe_preempt (from the idle loop there is no
\* current task to queue).
Rotate(s, q) ==
  \/ \E i \in DOMAIN q :
       /\ Smallest(i, Eligible(s, q, cur))
       /\ state' = [t \in Tids |-> IF t = q[i] THEN Running
                                   ELSE IF t = cur THEN Ready ELSE s[t]]
       /\ cur' = q[i]
       /\ ready' = Remaining(q, i) \o (IF cur = NoTask THEN <<>> ELSE <<cur>>)
  \/ /\ Eligible(s, q, cur) = {}
     /\ state' = s
     /\ ready' = <<>>
     /\ cur' = cur

\* drain_reaper, on entry to every timer trap and system call.
Drained == [t \in Tids |-> IF state[t].is = "Reaping" THEN Gone ELSE state[t]]

\* The current task enters the kernel, by a system call or a fault.
Enters(name) == name \in Syscalls /\ cur # NoTask

-----------------------------------------------------------------------------
(* Task life cycle *)

\* The three fates of terminate_lifecycle.
Delivers(s, v) == parent[v] # NoTask /\ s[parent[v]].is = "BlockedWait"
Lingers(s, v) == parent[v] # NoTask /\ InTable(s[parent[v]]) /\ ~Delivers(s, v)

Orphans(s, v) == {k \in Tids : InTable(s[k]) /\ parent[k] = v}
OrphanedZombies(s, v) == {k \in Orphans(s, v) : s[k].is = "Zombie"}

StrandedForgotten(s, v) == {}

\* abort_ipc_for_exiting_task: endpoints where v owes a reply to a parked caller.
StrandedEps(s, v) ==
  {e \in Eps : /\ server[e] = v
               /\ caller[e] \notin {NoTask, v}
               /\ s[caller[e]].is = "BlockedCall"}

\* The task states after terminate_lifecycle(v, c).
Terminated(s, v, c) ==
  [t \in Tids |->
     IF t = v THEN IF Lingers(s, v) THEN Zombie(c) ELSE Reaping
     ELSE IF t \in OrphanedZombies(s, v) THEN Reaping
     ELSE IF \E e \in StrandedEps(s, v) : caller[e] = t THEN Ready
     ELSE IF t = parent[v] /\ Delivers(s, v) THEN Ready
     ELSE s[t]]

\* The tasks terminate_lifecycle(v, _) wakes, in the order they end up in front
\* of the ready queue: stranded callers in endpoint order, then the parent.
WakeOrders(s, v) ==
  {(IF Delivers(s, v) THEN <<parent[v]>> ELSE <<>>)
     \o [i \in DOMAIN w |-> caller[w[i]]] : w \in Descending(StrandedEps(s, v))}

WithoutNobody(q, v) == q

\* retain(caller # v) on a queue that holds a task at most once.
Without(q, v) ==
  IF v \in Elements(q)
  THEN LET i == CHOOSE i \in DOMAIN q : q[i] = v
       IN  SubSeq(q, 1, i - 1) \o SubSeq(q, i + 1, Len(q))
  ELSE q

UnlinksServersOnly(s, v) ==
  /\ parent' = [t \in Tids |->
       IF t \in Orphans(s, v) \/ (t = v /\ ~Lingers(s, v)) THEN NoTask
       ELSE parent[t]]
  /\ caller' = [e \in Eps |-> IF v = server[e] THEN NoTask ELSE caller[e]]
  /\ server' = [e \in Eps |-> IF v = server[e] THEN NoTask ELSE server[e]]
  /\ pending' = [e \in Eps |-> Without(pending[e], v)]

\* The rest of terminate_lifecycle: orphaning, and v leaves the IPC books.
Unlinks(s, v) ==
  /\ parent' = [t \in Tids |->
       IF t \in Orphans(s, v) \/ (t = v /\ ~Lingers(s, v)) THEN NoTask
       ELSE parent[t]]
  /\ caller' = [e \in Eps |-> IF v \in {caller[e], server[e]} THEN NoTask ELSE caller[e]]
  /\ server' = [e \in Eps |-> IF v \in {caller[e], server[e]} THEN NoTask ELSE server[e]]
  /\ pending' = [e \in Eps |-> Without(pending[e], v)]

ReportsNothing(s, v, c) == reported' = reported

\* The Deliver fate writes the code into the frame of the parked parent.
Reports(s, v, c) ==
  reported' = IF Delivers(s, v) THEN [reported EXCEPT ![v] = c] ELSE reported

\* exit_task with the given table: terminate the current task, hand the CPU on.
Dies(s, c) ==
  /\ \E w \in WakeOrders(s, cur) : Handoff(Terminated(s, cur, c), w \o ready)
  /\ Unlinks(s, cur)
  /\ Reports(s, cur, c)
  /\ UNCHANGED <<since, inputVars>>

Exit == Enters("exit") /\ Dies(Drained, "exit")

\* handle_user_fault: comes in through its own vector, the reaper is not drained.
Fault == Enters("fault") /\ Dies(state, "fault")

\* sys_kill of one's own child, whatever state the child is in.
Kill(v) ==
  /\ Enters("kill")
  /\ v # cur /\ InTable(state[v]) /\ parent[v] = cur
  /\ state' = Terminated(Drained, v, "kill")
  /\ \E w \in WakeOrders(Drained, v) : ready' = w \o ready
  /\ Unlinks(Drained, v)
  /\ Reports(Drained, v, "kill")
  /\ UNCHANGED <<cur, since, inputVars>>

\* sys_task_spawn that succeeds: task ids grow and are never used again.
Spawn(t) ==
  /\ Enters("spawn")
  /\ Smallest(t, {u \in Tids : state[u].is = "New"})
  /\ state' = [Drained EXCEPT ![t] = Ready]
  /\ parent' = [parent EXCEPT ![t] = cur]
  /\ ready' = Append(ready, t)
  /\ UNCHANGED <<reported, cur, since, ipcVars, inputVars>>

Children == {k \in Tids : InTable(state[k]) /\ parent[k] = cur}
ZombieChildren == {k \in Children : state[k].is = "Zombie"}

\* sys_wait with an exited child: reap_zombie frees it inline and the caller gets
\* its id and code.
WaitReap(z) ==
  /\ Enters("wait")
  /\ Smallest(z, ZombieChildren)
  /\ state' = [Drained EXCEPT ![z] = Gone]
  /\ parent' = [parent EXCEPT ![z] = NoTask]
  /\ reported' = [reported EXCEPT ![z] = state[z].code]
  /\ UNCHANGED <<schedVars, since, ipcVars, inputVars>>

\* sys_wait that parks: there are children and all of them live.
WaitPark ==
  /\ Enters("wait")
  /\ ZombieChildren = {} /\ Children # {}
  /\ Handoff([Drained EXCEPT ![cur] = BlockedWait], ready)
  /\ UNCHANGED <<parent, reported, since, ipcVars, inputVars>>

-----------------------------------------------------------------------------
(* IPC *)

Receivers(e) == {t \in Tids : state[t].is = "BlockedRecv" /\ state[t].ep = e}

\* ipc_call with a receiver parked on e: the message goes straight over.
CallReceiver(e, r) ==
  /\ Enters("call") /\ e \in CanSend[cur]
  /\ Smallest(r, Receivers(e))
  /\ caller' = [caller EXCEPT ![e] = cur]
  /\ server' = [server EXCEPT ![e] = r]
  /\ Handoff([Drained EXCEPT ![r] = Ready, ![cur] = BlockedCall(e)], <<r>> \o ready)
  /\ UNCHANGED <<parent, reported, since, pending, inputVars>>

\* ipc_call with nobody receiving: the caller queues.
CallQueue(e) ==
  /\ Enters("call") /\ e \in CanSend[cur]
  /\ Receivers(e) = {}
  /\ pending' = [pending EXCEPT ![e] = Append(@, cur)]
  /\ Handoff([Drained EXCEPT ![cur] = BlockedSend(e)], ready)
  /\ UNCHANGED <<parent, reported, since, caller, server, inputVars>>

BusyNever(e) == FALSE

\* E_ENDPOINT_BUSY: the one reply slot is taken.
Busy(e) == caller[e] # NoTask

\* ipc_recv with a queued caller: accept the oldest.
RecvQueued(e) ==
  /\ Enters("recv") /\ e \in CanRecv[cur]
  /\ ~Busy(e) /\ pending[e] # <<>>
  /\ caller' = [caller EXCEPT ![e] = Head(pending[e])]
  /\ server' = [server EXCEPT ![e] = cur]
  /\ pending' = [pending EXCEPT ![e] = Tail(@)]
  /\ state' = [Drained EXCEPT ![Head(pending[e])] = BlockedCall(e)]
  /\ UNCHANGED <<parent, reported, schedVars, since, inputVars>>

\* ipc_recv that parks, with d ticks to its deadline (0: none).
RecvPark(e, d) ==
  /\ Enters("recv") /\ e \in CanRecv[cur]
  /\ ~Busy(e) /\ pending[e] = <<>>
  /\ Handoff([Drained EXCEPT ![cur] = BlockedRecv(e, d)], ready)
  /\ UNCHANGED <<parent, reported, since, ipcVars, inputVars>>

\* ipc_reply by the task that owes the reply; it keeps the CPU.
Reply(e) ==
  /\ Enters("reply") /\ e \in CanSend[cur]
  /\ server[e] = cur
  /\ server' = [server EXCEPT ![e] = NoTask]
  /\ caller' = [caller EXCEPT ![e] = NoTask]
  /\ IF caller[e] = NoTask
     THEN state' = Drained /\ ready' = ready
     ELSE /\ state' = [Drained EXCEPT ![caller[e]] = Ready]
          /\ ready' = <<caller[e]>> \o ready
  /\ UNCHANGED <<parent, reported, cur, since, pending, inputVars>>

-----------------------------------------------------------------------------
(* Time and input *)

\* sys_sleep for d ticks.
Sleep(d) ==
  /\ Enters("sleep")
  /\ Handoff([Drained EXCEPT ![cur] = BlockedSleep(d)], ready)
  /\ UNCHANGED <<parent, reported, since, ipcVars, inputVars>>

Yield ==
  /\ Enters("yield")
  /\ Rotate(Drained, ready)
  /\ UNCHANGED <<parent, reported, since, ipcVars, inputVars>>

ExpiredSleepers == {t \in Tids : state[t].is = "BlockedSleep" /\ state[t].left = 1}

\* wake_expired, after the tick: who has no tick left.
Expired == {t \in Tids : state[t].is \in {"BlockedRecv", "BlockedSleep"} /\ state[t].left = 1}

Ticked ==
  [t \in Tids |-> IF t \in Expired THEN Ready
                  ELSE IF state[t].left > 1 THEN [state[t] EXCEPT !.left = @ - 1]
                  ELSE Drained[t]]

\* The timer trap: drain_reaper, bump_tick, wake_expired, maybe_preempt.
Timer ==
  /\ \E w \in Descending(Expired) :
       IF since + 1 < Quantum
       THEN /\ since' = since + 1
            /\ state' = Ticked
            /\ ready' = w \o ready
            /\ cur' = cur
       ELSE /\ since' = 0
            /\ Rotate(Ticked, w \o ready)
  /\ UNCHANGED <<parent, reported, ipcVars, inputVars>>

\* sys_input_read on a queue with bytes in it, blocking or not.  A read may be
\* short: of the request's length, or of the mapped part of its buffer.
ReadServed ==
  /\ Enters("input") /\ kbd > 0
  /\ \E n \in 1 .. AtMost(MaxRead, kbd) : kbd' = kbd - n
  /\ state' = Drained
  /\ UNCHANGED <<parent, reported, schedVars, since, ipcVars, waiters>>

ReadParkUnregistered ==
  /\ Enters("input") /\ kbd = 0
  /\ Handoff([Drained EXCEPT ![cur] = BlockedInput], ready)
  /\ UNCHANGED <<parent, reported, since, ipcVars, inputVars>>

\* sys_input_read that parks on the empty queue.
ReadPark ==
  /\ Enters("input") /\ kbd = 0
  /\ waiters' = Append(waiters, cur)
  /\ Handoff([Drained EXCEPT ![cur] = BlockedInput], ready)
  /\ UNCHANGED <<parent, reported, since, ipcVars, kbd>>

\* deliver_to copies through the page tables the waiter had when it parked.  A
\* task in the table, or not torn down yet, takes at least one byte; what
\* page tables torn down since then translate to is anybody's guess.
Taken(w) == (IF state[w].is = "Gone" THEN 0 ELSE 1) .. AtMost(MaxRead, AtMost(kbd + 1, QueueCap))

\* keyboard_handler with a key that decodes to a byte: enqueue drops the oldest
\* byte of a full queue, and the first waiter gets the bytes.
Keyboard ==
  /\ "keyboard" \in Syscalls
  /\ IF waiters = <<>>
     THEN /\ kbd' = AtMost(kbd + 1, QueueCap)
          /\ UNCHANGED <<state, ready, waiters>>
     ELSE /\ \E n \in Taken(Head(waiters)) : kbd' = AtMost(kbd + 1, QueueCap) - n
          /\ waiters' = Tail(waiters)
          /\ state' = IF state[Head(waiters)].is = "BlockedInput"
                      THEN [state EXCEPT ![Head(waiters)] = Ready] ELSE state
          /\ ready' = <<Head(waiters)>> \o ready
  /\ UNCHANGED <<parent, reported, cur, since, ipcVars>>

\* A system call that returns to its caller and changes nothing modelled here:
\* error returns, polls that find nothing, and the calls on names, statistics,
\* capabilities and disk blocks.  The reaper is still drained on entry.
Return ==
  /\ Enters("other")
  /\ state' = Drained
  /\ UNCHANGED <<parent, reported, schedVars, since, ipcVars, inputVars>>

-----------------------------------------------------------------------------
\* kickoff: the boot tasks are Ready in the order of their creation, and the
\* first of them runs.
Init ==
  /\ state = [t \in Tids |-> IF t = 1 THEN Running
                             ELSE IF t <= BootTasks THEN Ready ELSE New]
  /\ parent = [t \in Tids |-> NoTask]
  /\ reported = [t \in Tids |-> "none"]
  /\ cur = 1
  /\ ready = [i \in 1 .. BootTasks - 1 |-> i + 1]
  /\ since = 0
  /\ caller = [e \in Eps |-> NoTask]
  /\ server = [e \in Eps |-> NoTask]
  /\ pending = [e \in Eps |-> <<>>]
  /\ kbd = 0
  /\ waiters = <<>>

Next ==
  \/ Yield \/ Exit \/ Fault \/ Return
  \/ \E v \in Tids : Kill(v)
  \/ \E t \in Tids : Spawn(t)
  \/ \E z \in Tids : WaitReap(z)
  \/ WaitPark
  \/ \E e \in Eps, r \in Tids : CallReceiver(e, r)
  \/ \E e \in Eps : CallQueue(e)
  \/ \E e \in Eps : RecvQueued(e)
  \/ \E e \in Eps, d \in {0} \cup Delays : RecvPark(e, d)
  \/ \E e \in Eps : Reply(e)
  \/ \E d \in Delays : Sleep(d)
  \/ Timer
  \/ ReadServed \/ ReadPark \/ Keyboard

\* The timer never stops interrupting user code and the idle loop; nothing is
\* assumed of the programs.
Spec == Init /\ [][Next]_vars /\ WF_vars(Timer)

-----------------------------------------------------------------------------
(* What the kernel promises *)

\* The task marked Running is exactly the one CURRENT names: no handler leaves a
\* second task Running, or runs on after its task was parked or killed.
CurrentRuns == \A t \in Tids : state[t].is = "Running" <=> t = cur

\* READY never loses a runnable task and never holds a task twice, and an entry
\* that is not runnable belongs to a task that died while queued (pick_next
\* skips those): no wake-up path forgets make_ready or calls it twice.
QueueExact ==
  /\ \A i, j \in DOMAIN ready : ready[i] = ready[j] => i = j
  /\ \A t \in Tids : state[t].is = "Ready" => t \in Elements(ready)
  /\ \A t \in Elements(ready) : state[t].is \in {"Ready", "Zombie", "Reaping", "Gone"}

\* Whenever an endpoint names an active caller, that task is parked in a call
\* on that very endpoint and the server that owes the reply is alive: ipc_reply
\* never meets a vanished caller, and never wakes a task from another wait.
ReplyOwed ==
  \A e \in Eps :
    /\ caller[e] = NoTask <=> server[e] = NoTask
    /\ caller[e] # NoTask =>
         /\ state[caller[e]] = BlockedCall(e)
         /\ Live(state[server[e]])

\* A task waits in BlockedSend on e exactly when it is queued once on e, and no
\* caller queues while a receiver is parked there: ipc_call, ipc_recv and the
\* death of callers and receivers never miss a rendezvous.
PendingExact ==
  \A e \in Eps :
    /\ \A t \in Tids : t \in Elements(pending[e]) <=> state[t] = BlockedSend(e)
    /\ \A i, j \in DOMAIN pending[e] : pending[e][i] = pending[e][j] => i = j
    /\ pending[e] # <<>> => Receivers(e) = {}

\* A caller parked for a reply is the one the endpoint will wake: nobody waits
\* for a reply that can no longer arrive, whoever dies and in whatever order.
NoStrandedCaller ==
  \A t \in Tids : state[t].is = "BlockedCall" => caller[state[t].ep] = t

\* A task parked in wait() has a living child and no unreported dead one, and
\* whoever is somebody's parent is alive and older: a wait() can always end, and
\* tasks never wait() for each other in a circle.
WaitSound ==
  \A t \in Tids :
    /\ state[t].is = "BlockedWait" =>
         /\ \E k \in Tids : parent[k] = t /\ Live(state[k])
         /\ \A k \in Tids : parent[k] = t => state[k].is # "Zombie"
    /\ parent[t] # NoTask => parent[t] < t /\ InTable(state[t]) /\ Live(state[parent[t]])
    /\ state[t].is = "Zombie" => parent[t] # NoTask

\* What a step may report of task k and do to it.  A report is the code of the
\* zombie the caller reaps, or the current task's own end told to its parent
\* parked in wait().  A task leaves the table unreported only when nobody can
\* ask for it any more.  The code of a zombie is replaced only when its own
\* parent kills it once more (sys_kill does not refuse that), no zombie lingers
\* beside a parent that is dead or parked in wait(), and a wait() that was
\* parked returns only with a report.
ReportedRightly(k) ==
  /\ reported'[k] # reported[k] =>
       /\ reported[k] = "none" /\ parent[k] # NoTask /\ ~InTable(state'[k])
       /\ \/ parent[k] = cur /\ state[k].is = "Zombie" /\ reported'[k] = state[k].code
          \/ /\ k = cur /\ reported'[k] \in {"exit", "fault"}
             /\ state[parent[k]].is = "BlockedWait"
             /\ state'[parent[k]].is \in {"Ready", "Running"}
  /\ InTable(state[k]) /\ ~InTable(state'[k]) /\ reported'[k] = "none" =>
       parent[k] = NoTask \/ ~Live(state'[parent[k]])
  /\ state'[k].is = "Zombie" =>
       /\ parent'[k] # NoTask /\ Live(state'[parent'[k]])
       /\ state'[parent'[k]].is # "BlockedWait"
       /\ \/ state'[k] = state[k]
          \/ k = cur /\ state'[k].code \in {"exit", "fault"}
          \/ parent[k] = cur /\ state'[k].code = "kill"
  /\ state[k].is = "BlockedWait" /\ state'[k].is \in {"Ready", "Running"} =>
       \E c \in Tids : parent[c] = k /\ reported'[c] # reported[c]

\* wait() reports the end of every child once, to the parent it had and with the
\* code it ended with, or with the kill's if that parent killed it afterwards:
\* terminate_lifecycle, sys_wait and reap_zombie between them lose no end, make
\* none up and hand none out twice.
ExitReported == [][\A k \in Tids : ReportedRightly(k)]_vars

\* A reader parked for input is registered with the keyboard exactly once, and
\* a registered task is parked or dead, and not in READY: deliver_to never
\* writes into the frame of a task that waits for something else, and the
\* make_ready it calls unconditionally never queues a task a second time.
ReadersRegistered ==
  /\ \A t \in Tids : state[t].is = "BlockedInput" => t \in Elements(waiters)
  /\ \A i \in DOMAIN waiters :
       /\ Live(state[waiters[i]]) => state[waiters[i]].is = "BlockedInput"
       /\ state[waiters[i]].is # "New" /\ waiters[i] \notin Elements(ready)
  /\ \A i, j \in DOMAIN waiters : waiters[i] = waiters[j] => i = j

\* Teardown runs only from a different live stack: a trap, which executes on
\* the kernel stack of the task it interrupted, never reclaims that task.
NoReclaimUnderfoot ==
  [][\A t \in Tids : state[t].is # "Gone" /\ state'[t].is = "Gone" => t # cur]_vars

\* A dead task stays dead: no late wake-up, reply, timer or key brings a zombie
\* or a reaped task back, and a task id is never used again.
DeadStaysDead ==
  [][\A t \in Tids :
       /\ state[t].is = "Zombie" => state'[t].is \in {"Zombie", "Reaping", "Gone"}
       /\ state[t].is = "Reaping" => state'[t].is \in {"Reaping", "Gone"}
       /\ state[t].is = "Gone" => state'[t].is = "Gone"]_vars

\* The exit code of a lingering zombie is kept until its parent reaps it.
ExitCodeKept ==
  [][\A t \in Tids :
       state[t].is = "Zombie" /\ state'[t].is = "Zombie" => state'[t] = state[t]]_vars

\* A key pressed while readers are parked wakes one of them.
KeyReachesReader ==
  [][Keyboard /\ (\E t \in Tids : state[t].is = "BlockedInput") =>
       \E t \in Tids : state[t].is = "BlockedInput" /\ state'[t].is = "Ready"]_vars

\* A task woken while the CPU idles is resumed at the next timer tick.
IdleWakesNextTick ==
  [][Timer /\ cur = NoTask /\ (\E t \in Tids : state[t].is = "Ready") => cur' # NoTask]_vars

\* Every runnable task gets the CPU (or is killed) although woken tasks jump
\* the queue and nobody ever has to yield: preemption alone suffices.
NoStarvation == \A t \in Tids : state[t].is = "Ready" ~> state[t].is # "Ready"

\* A sleep and a receive with a deadline end, also when the CPU idles.
DeadlinesFire == \A t \in Tids : state[t].left > 0 ~> state[t].left = 0

-----------------------------------------------------------------------------
(* The abstract view of IPC: who waits and who is served is read off the task *)
(* states, not off the endpoints' own bookkeeping.                            *)

SendersOn(e) == {t \in Tids : state[t] = BlockedSend(e)}
ServedOn(e) == {t \in Tids : state[t] = BlockedCall(e)}

IPC == INSTANCE Rendezvous WITH
         Task <- Tids, Endpoint <- Eps, Nobody <- NoTask,
         waiting <- [e \in Eps |-> SendersOn(e)],
         served <- [e \in Eps |-> IF ServedOn(e) = {} THEN NoTask
                                  ELSE CHOOSE t \in ServedOn(e) : TRUE],
         by <- server

\* The kernel's IPC, over all its queues, wake-ups and deaths, is the
\* rendezvous its clients rely on: one accepted call per endpoint, ended only
\* by the accepting server's reply or by a death, with no caller left parked.
ImplementsRendezvous == IPC!Spec

=============================================================================
