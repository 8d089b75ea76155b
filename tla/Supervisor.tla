----------------------------- MODULE Supervisor -----------------------------
(***************************************************************************)
(* redoubt-supd (servers/supd/src/main.rs): one thread that reaps its      *)
(* exited children, respawns what is due after a backoff, and listens for  *)
(* operator requests until the next restart is due.  Children exit, and    *)
(* the clock ticks, between any two of its system calls.  It is parked in  *)
(* the calls it makes to initfs, to storaged and to the console for as     *)
(* long as they take.                                                      *)
(*                                                                         *)
(* A child is an entry of kids, oldest first (the kernel's task ids grow   *)
(* and its wait call returns the lowest exited one).  "tracked" says that  *)
(* its service's record is Running(tid) for exactly this child.  Instants  *)
(* are kept as the ticks left until them, so the state space is finite     *)
(* with no bound on the number of spawns.                                  *)
(***************************************************************************)
EXTENDS Integers, Sequences, SequencesExt, FiniteSetsExt

CONSTANTS NumServices,   \* entries of the roster, in roster order
          Autostart,     \* the ones started at boot
          Keep,          \* the ones whose roster entry asks for restarts
          BaseBackoff,   \* BASE_BACKOFF_TICKS
          MaxBackoff,    \* MAX_BACKOFF_TICKS
          Poll,          \* the longest wait for an operator (200 ticks)
          Ops            \* operator requests this instance sends

Services == 1..NumServices

ASSUME SupervisorAssumption ==
    /\ NumServices \in Nat /\ Autostart \subseteq Services /\ Keep \subseteq Services
    /\ BaseBackoff \in Nat \ {0} /\ MaxBackoff \in Nat \ {0} /\ Poll \in Nat \ {0}
    /\ Ops \subseteq {"restart", "stop", "start", "other"}

VARIABLES svc,       \* services[i].state
          restart,   \* services[i].restart
          failures,  \* services[i].failures
          kids,      \* supd's children the kernel still knows
          pc,        \* where supd's loop stands
          due,       \* services supd has still to spawn where it stands
          asks,      \* the server it is parked on; "fetched": initfs has answered
          wait       \* ticks left until the deadline of recv_until

vars == <<svc, restart, failures, kids, pc, due, asks, wait>>

Stopped == [is |-> "Stopped"]
Running == [is |-> "Running"]
Failed == [is |-> "Failed"]
Waiting(n) == [is |-> "Waiting", left |-> n]

MaxFailures == 5

(* BASE << min(failures, 7), capped. *)
Backoff(f) == Min({BaseBackoff * 2^Min({f, 7}), MaxBackoff})

Waits(s) == svc[s].is = "Waiting"
Runs(s) == svc[s].is = "Running"

Init == /\ svc = [s \in Services |-> Stopped]
        /\ restart = [s \in Services |-> s \in Keep]
        /\ failures = [s \in Services |-> 0]
        /\ kids = <<>>
        /\ pc = "boot"
        /\ due = Autostart
        /\ asks = "nobody"
        /\ wait = 0

-----------------------------------------------------------------------------
(* fetch_program: the calls that bring a program, all to initfs, are one.   *)
FetchProgram == /\ pc \in {"boot", "respawn", "start"} /\ due # {} /\ asks = "nobody"
                /\ asks' = "initfs"
                /\ UNCHANGED <<svc, restart, failures, kids, pc, due, wait>>

(* What spawn_service then does: the fetch has failed, which goes to the    *)
(* console and leaves the record alone, the spawn fails, or a child starts  *)
(* and goes to the audit log.                                              *)
SpawnService(s) ==
    \/ asks' = "console" /\ UNCHANGED <<svc, failures, kids>>
    \/ /\ svc' = [svc EXCEPT ![s] = Failed]
       /\ asks' = "nobody"
       /\ UNCHANGED <<failures, kids>>
    \/ /\ svc' = [svc EXCEPT ![s] = Running]
       /\ failures' = [failures EXCEPT ![s] = 0]
       /\ kids' = Append(kids, [svc |-> s, dead |-> FALSE, tracked |-> TRUE])
       /\ asks' = "storaged"

(* One step of the loops over the roster, at boot and in every pass, and of *)
(* a request to start a service.                                           *)
SpawnNext == LET s == Min(due)
             IN  /\ asks = "fetched"
                 /\ SpawnService(s)
                 /\ due' = due \ {s}
                 /\ UNCHANGED <<restart, pc, wait>>

(* All of them are spawned: the boot, or the request, ends. *)
Spawned == /\ pc \in {"boot", "start"} /\ due = {} /\ asks = "nobody"
           /\ pc' = "reap"
           /\ UNCHANGED <<svc, restart, failures, kids, due, asks, wait>>

Dead == {i \in DOMAIN kids : kids[i].dead}

(* One round of "while let Ok(Some(..)) = try_wait()": the exit is booked   *)
(* on the service that was running as this child, if any, and audited.     *)
Reap == /\ pc = "reap" /\ Dead # {} /\ asks = "nobody"
        /\ LET k == kids[Min(Dead)]
               s == k.svc
               f == failures[s] + 1
           IN  /\ kids' = RemoveAt(kids, Min(Dead))
               /\ IF k.tracked
                  THEN /\ failures' = [failures EXCEPT ![s] = f]
                       /\ svc' = [svc EXCEPT ![s] =
                                    IF restart[s] /\ f <= MaxFailures
                                    THEN Waiting(Backoff(f)) ELSE Failed]
                  ELSE UNCHANGED <<svc, failures>>
        /\ asks' = "storaged"
        /\ UNCHANGED <<restart, pc, due, wait>>

(* now = ticks() fixes which backoffs are over, and the recv deadline:      *)
(* min(next_deadline, now + 200), at least now + 1.                        *)
NextDeadlinePoll == Poll

NextDeadline ==
    Max({1, Min({Poll} \cup {svc[s].left : s \in {r \in Services : Waits(r) /\ svc[r].left > 0}})})

Snapshot == /\ pc = "reap" /\ Dead = {} /\ asks = "nobody"
            /\ due' = {s \in Services : Waits(s) /\ svc[s].left = 0}
            /\ wait' = NextDeadline
            /\ pc' = "respawn"
            /\ UNCHANGED <<svc, restart, failures, kids, asks>>

Listen == /\ pc = "respawn" /\ due = {} /\ asks = "nobody"
          /\ pc' = "listen"
          /\ UNCHANGED <<svc, restart, failures, kids, due, asks, wait>>

(* recv_until returns E_TIMEDOUT: the next pass of the loop. *)
TimedOutListens == /\ pc = "listen" /\ wait = 0
                   /\ wait' = Poll
                   /\ UNCHANGED <<svc, restart, failures, kids, due, asks, pc>>

TimedOut == /\ pc = "listen" /\ wait = 0
            /\ pc' = "reap"
            /\ UNCHANGED <<svc, restart, failures, kids, due, asks, wait>>

-----------------------------------------------------------------------------
RequestKeepsListening(op) == /\ pc = "listen" /\ op \in Ops
                             /\ wait' = Poll
                             /\ UNCHANGED <<pc, due, asks>>

(* handle_op.  A request that calls nobody is received and answered in the  *)
(* "listen" state; each is followed by a new pass of the loop.              *)
Request(op) == /\ pc = "listen" /\ op \in Ops
               /\ pc' = "reap"
               /\ UNCHANGED <<due, asks, wait>>

(* kill(tid): the service's child becomes a zombie at once.                 *)
Killed(s) == [i \in DOMAIN kids |->
                IF kids[i].svc = s /\ kids[i].tracked
                THEN [kids[i] EXCEPT !.dead = TRUE] ELSE kids[i]]

(* The record of s stops naming its child. *)
Untracked(ks, s) == [i \in DOMAIN ks |->
                       IF ks[i].svc = s THEN [ks[i] EXCEPT !.tracked = FALSE] ELSE ks[i]]

(* drain_one: reaps the oldest exited child, whichever it is, and marks the *)
(* service that was running as it Stopped.  After a kill there always is an *)
(* exited child, so the second attempt after sleep(2) is never reached.     *)
DrainOne(ks, sv) ==
    LET i == Min({j \in DOMAIN ks : ks[j].dead})
    IN  /\ kids' = RemoveAt(ks, i)
        /\ svc' = IF ks[i].tracked THEN [sv EXCEPT ![ks[i].svc] = Stopped] ELSE sv

RestartRunning(s) ==
    /\ Request("restart") /\ Runs(s)
    /\ restart' = [restart EXCEPT ![s] = TRUE]
    /\ failures' = [failures EXCEPT ![s] = 0]
    /\ DrainOne(Untracked(Killed(s), s), [svc EXCEPT ![s] = Waiting(1)])

StopRunning(s) ==
    /\ Request("stop") /\ Runs(s)
    /\ restart' = [restart EXCEPT ![s] = FALSE]
    /\ UNCHANGED failures
    /\ DrainOne(Killed(s), svc)

StopDown(s) == /\ Request("stop") /\ ~Runs(s)
               /\ restart' = [restart EXCEPT ![s] = FALSE]
               /\ UNCHANGED <<svc, failures, kids>>

StartRunning(s) == /\ Request("start") /\ Runs(s)
                   /\ restart' = [restart EXCEPT ![s] = TRUE]
                   /\ failures' = [failures EXCEPT ![s] = 0]
                   /\ UNCHANGED <<svc, kids>>

(* "start" and "restart" of a service that is not running do the same: its  *)
(* program is fetched before the reply.                                     *)
StartDownAlways(s) ==
    /\ pc = "listen" /\ Ops \cap {"start", "restart"} # {}
    /\ restart' = [restart EXCEPT ![s] = TRUE]
    /\ failures' = [failures EXCEPT ![s] = 0]
    /\ pc' = "start" /\ due' = {s}
    /\ UNCHANGED <<svc, kids, asks, wait>>

StartDown(s) ==
    /\ pc = "listen" /\ Ops \cap {"start", "restart"} # {}
    /\ ~Runs(s)
    /\ restart' = [restart EXCEPT ![s] = TRUE]
    /\ failures' = [failures EXCEPT ![s] = 0]
    /\ pc' = "start" /\ due' = {s}
    /\ UNCHANGED <<svc, kids, asks, wait>>

(* status and unknown requests are answered at once, update, install-app    *)
(* and remove-app by storaged: nothing of supd's own changes.               *)
OtherRequest == /\ pc = "listen" /\ "other" \in Ops
                /\ pc' = "reap"
                /\ asks' \in {"nobody", "storaged"}
                /\ UNCHANGED <<svc, restart, failures, kids, due, wait>>

-----------------------------------------------------------------------------
(* A child exits or faults, at any moment. *)
ChildExits(i) == /\ ~kids[i].dead
                 /\ kids' = [kids EXCEPT ![i].dead = TRUE]
                 /\ UNCHANGED <<svc, restart, failures, pc, due, asks, wait>>

(* The server supd is parked on answers: initfs is done with the requests   *)
(* before it, and with the program it may be waiting for.                   *)
Answer == /\ asks \in {"initfs", "storaged", "console"}
          /\ asks' = IF asks = "initfs" THEN "fetched" ELSE "nobody"
          /\ UNCHANGED <<svc, restart, failures, kids, pc, due, wait>>

Less(n) == IF n = 0 THEN 0 ELSE n - 1

Tick == /\ svc' = [s \in Services |-> IF Waits(s) THEN Waiting(Less(svc[s].left)) ELSE svc[s]]
        /\ wait' = Less(wait)
        /\ UNCHANGED <<restart, failures, kids, pc, due, asks>>

Supd == FetchProgram \/ SpawnNext \/ Spawned \/ Reap \/ Snapshot \/ Listen \/ TimedOut

Operator == \/ \E s \in Services : \/ RestartRunning(s) \/ StopRunning(s) \/ StopDown(s)
                                   \/ StartRunning(s) \/ StartDown(s)
            \/ OtherRequest

Next == Supd \/ Operator \/ Answer \/ Tick \/ \E i \in DOMAIN kids : ChildExits(i)

(* The kernel schedules supd whenever it is not parked, and the timer       *)
(* ticks.  Nothing is assumed of the servers it calls, of the operators and *)
(* of the children.                                                         *)
Spec == Init /\ [][Next]_vars /\ WF_vars(Supd) /\ WF_vars(Tick)

-----------------------------------------------------------------------------
(* The service table and the kernel's children agree, whatever exits, kills *)
(* and restarts have interleaved: a service is Running exactly when one of  *)
(* supd's children is the one its record names, never two, and every child  *)
(* still alive is such a child.  So no service has two live instances, and  *)
(* none is alive behind a record that says it is down.                      *)
ChildrenTracked ==
    /\ \A s \in Services :
         Cardinality({i \in DOMAIN kids : kids[i].svc = s /\ kids[i].tracked})
            = IF Runs(s) THEN 1 ELSE 0
    /\ \A i \in DOMAIN kids : kids[i].dead \/ kids[i].tracked

(* The loop never sleeps past a restart: while it listens, the deadline of  *)
(* recv_until comes no later than any backoff that was still running when   *)
(* the deadline was computed, though ticks passed while it spawned others.  *)
NoOversleep == pc = "listen" => \A s \in Services : Waits(s) /\ svc[s].left > 0 => wait <= svc[s].left

(* The servers answer supd: every call it makes ends.  initfs must be alive *)
(* and the programs it runs and waits for (initfs:386) must end; storaged   *)
(* and the console must be alive.  The kernel parks a caller until then.    *)
Answered == []<>(asks \in {"nobody", "fetched"})

(* As long as its calls are answered, supd notices every exit: a service    *)
(* whose child has exited does not go on being reported as running,         *)
(* whatever requests arrive meanwhile.                                      *)
ExitsNoticed == Answered => \A s \in Services :
    (Runs(s) /\ \E i \in DOMAIN kids : kids[i].svc = s /\ kids[i].tracked /\ kids[i].dead) ~> ~Runs(s)

(* As long as its calls are answered (initfs and storaged alive, and no     *)
(* program that initfs waits for running on for ever), supd fetches the     *)
(* program of a service whose backoff is over, even if operators keep       *)
(* sending requests and even if earlier fetches of that program failed.     *)
DueIsTried == Answered => \A s \in Services :
    []<>(~Waits(s) \/ (asks = "initfs" /\ s = Min(due)))

-----------------------------------------------------------------------------
(* "crash-loops are detected": a service that keeps being started and keeps *)
(* ending up in backoff, with no operator interfering and every call        *)
(* answered, is declared Failed at some point.                              *)
CrashLoopDetected == Answered =>
    \A s \in Services : []<>Runs(s) /\ []<>Waits(s) => <>(svc[s] = Failed)

(* drain_one "runs the same accounting as the main loop": a service that is *)
(* to be kept alive never goes from Running to Stopped when its exit is     *)
(* reaped; the main loop books Waiting or Failed.                           *)
SameAccounting == [][\A s \in Services :
    Runs(s) /\ svc'[s] = Stopped => ~restart'[s]]_vars

(* "stay down when killed": after a stop request, acknowledged in any of    *)
(* the states, the loop does not spawn the service again on its own.        *)
StopSticks == [][\A s \in Services :
    pc # "listen" /\ Waits(s) /\ svc'[s] = Running => restart[s]]_vars
=============================================================================
