------------------------------- MODULE Servers -------------------------------
(***************************************************************************)
(* The ring-3 servers together: console, initfs, storaged, supd, the shell, *)
(* the supervised service heart and a program run from the shell, calling   *)
(* each other over the six boot endpoints.  Each task is its own control    *)
(* flow: a label per place where it waits or may be preempted, and a step   *)
(* per syscall that another task can notice.  What a request carries is     *)
(* reduced to its kind; what storaged, supd and initfs do with it in detail *)
(* is in modules Volume, AppStore, AuditLog and Supervisor.                 *)
(***************************************************************************)
EXTENDS Integers, FiniteSets, SequencesExt

CONSTANTS Mortal,      \* tasks that may run out of heap or fault
          MaxDeaths,   \* how many of them do
          MaxLines,    \* lines the user types
          Commands     \* what the shell can be told to do

Task == {"console", "initfs", "storaged", "supd", "shell", "heart", "prog"}
Endpoint == {"out", "stdin", "fs", "info", "cfg", "sup"}
Nobody == "nobody"

ASSUME ServersAssumption ==
    /\ Mortal \subseteq Task /\ MaxDeaths \in Nat /\ MaxLines \in Nat
    /\ Commands \subseteq {"echo", "exec", "app", "query", "status", "stop", "start", "restart", "install", "update"}

(* Who serves an endpoint: the grants of kernel_main and of initfs. *)
Server == [out |-> "console", stdin |-> "console", fs |-> "initfs",
           info |-> "storaged", cfg |-> "storaged", sup |-> "supd"]

VARIABLES
  pc,        \* where each task is
  to,        \* the endpoint a task is parked on in a call, or Nobody
  msg,       \* the kind of request it sent there
  ret,       \* how its last call ended
  queue,     \* callers an endpoint has not handed out yet
  active,    \* the caller whose reply is owed, or Nobody
  readOpen,  \* console: a read has been accepted and not answered
  kbd,       \* lines in the keyboard buffer
  ready,     \* console: complete lines nobody has read
  got,       \* lines the shell was given (history)
  back       \* supd: where spawn_service returns to ("reap" outside it)

vars == <<pc, to, msg, ret, queue, active, readOpen, kbd, ready, got, back>>
ipc == <<to, msg, ret, queue, active>>
input == <<readOpen, kbd, ready, got>>

Init ==
  /\ pc = [console |-> "stdin", initfs |-> "boot", storaged |-> "none", supd |-> "none",
           shell |-> "none", heart |-> "none", prog |-> "none"]
  /\ to = [t \in Task |-> Nobody] /\ msg = [t \in Task |-> "none"] /\ ret = [t \in Task |-> "ok"]
  /\ queue = [e \in Endpoint |-> <<>>] /\ active = [e \in Endpoint |-> Nobody]
  /\ readOpen = FALSE /\ kbd = <<>> /\ ready = <<>> /\ got = <<>> /\ back = "reap"

At(t, label) == pc[t] = label /\ to[t] = Nobody

Goto(t, label) == pc' = [pc EXCEPT ![t] = label]

(* SYS_IPC_CALL: the caller waits in line, and goes on at the given label. *)
Call(t, e, kind, label) ==
  /\ Goto(t, label)
  /\ to' = [to EXCEPT ![t] = e] /\ msg' = [msg EXCEPT ![t] = kind]
  /\ queue' = [queue EXCEPT ![e] = Append(@, t)]
  /\ UNCHANGED <<ret, active>>

(* SYS_IPC_RECV takes the oldest caller. *)
Recv(s, e, label) ==
  /\ queue[e] # <<>> /\ active[e] = Nobody
  /\ Goto(s, label)
  /\ active' = [active EXCEPT ![e] = Head(queue[e])]
  /\ queue' = [queue EXCEPT ![e] = Tail(@)]
  /\ UNCHANGED <<to, msg, ret>>

(* A receive with a deadline gives up while nobody waits. *)
TimedOut(s, e, label) == queue[e] = <<>> /\ Goto(s, label) /\ UNCHANGED ipc

(* The end of the calls of some tasks. *)
Release(callers, how) ==
  /\ to' = [t \in Task |-> IF t \in callers THEN Nobody ELSE to[t]]
  /\ msg' = [t \in Task |-> IF t \in callers THEN "none" ELSE msg[t]]
  /\ ret' = [t \in Task |-> IF t \in callers THEN how ELSE ret[t]]

(* SYS_IPC_REPLY; without effect when the caller is gone. *)
Answer(e) == /\ Release({active[e]} \ {Nobody}, "ok")
             /\ active' = [active EXCEPT ![e] = Nobody]
             /\ UNCHANGED queue

Reply(s, e, label) == Goto(s, label) /\ Answer(e)

Request(e) == IF active[e] = Nobody THEN "none" ELSE msg[active[e]]

(* Termination: parked callers get an error, its own calls are withdrawn,    *)
(* and callers it has not accepted stay in line.                            *)
Gone(t) ==
  LET mine == {e \in Endpoint : Server[e] = t /\ active[e] # Nobody}
  IN  /\ LET freed == {active[e] : e \in mine}
         IN  /\ to' = [u \in Task |-> IF u \in freed \cup {t} THEN Nobody ELSE to[u]]
             /\ msg' = [u \in Task |-> IF u \in freed \cup {t} THEN "none" ELSE msg[u]]
             /\ ret' = [u \in Task |-> IF u \in freed THEN "err" ELSE ret[u]]
      /\ active' = [e \in Endpoint |-> IF e \in mine \/ active[e] = t THEN Nobody ELSE active[e]]
      /\ queue' = [e \in Endpoint |-> SelectSeq(queue[e], LAMBDA u : u # t)]

-----------------------------------------------------------------------------
(* console: the line reads, then the output, then the keyboard.  While a read *)
(* is open the input endpoint is not received from.                          *)
ConsoleInput ==
  /\ At("console", "stdin")
  /\ \/ Recv("console", "stdin", "read")
     \/ TimedOut("console", "stdin", "out")
  /\ UNCHANGED <<input, back>>

(* A line typed ahead answers the read at once. *)
ConsoleRead ==
  /\ At("console", "read") /\ Goto("console", "out")
  /\ IF ready # <<>>
     THEN /\ Answer("stdin")
          /\ got' = Append(got, Head(ready)) /\ ready' = Tail(ready)
          /\ UNCHANGED readOpen
     ELSE readOpen' = TRUE /\ UNCHANGED <<ipc, got, ready>>
  /\ UNCHANGED <<kbd, back>>

ConsoleOutput ==
  /\ At("console", "out")
  /\ \/ Recv("console", "out", "write")
     \/ TimedOut("console", "out", "keys")
  /\ UNCHANGED <<input, back>>

ConsoleWrite ==
  At("console", "write") /\ Reply("console", "out", "keys") /\ UNCHANGED <<input, back>>

(* Mutant: the newest complete line answers the read. *)
ConsoleKeysNewest ==
  LET lines == ready \o kbd
      serve == readOpen /\ lines # <<>>
  IN  /\ At("console", "keys")
      /\ Goto("console", IF readOpen /\ ~serve THEN "out" ELSE "stdin")
      /\ kbd' = <<>>
      /\ IF serve
         THEN /\ Answer("stdin") /\ readOpen' = FALSE
              /\ got' = Append(got, Last(lines)) /\ ready' = Front(lines)
         ELSE ready' = lines /\ UNCHANGED <<ipc, readOpen, got>>
      /\ UNCHANGED back

(* Drain the keyboard; hand the oldest line to an open read. *)
ConsoleKeys ==
  LET lines == ready \o kbd
      serve == readOpen /\ lines # <<>>
  IN  /\ At("console", "keys")
      /\ Goto("console", IF readOpen /\ ~serve THEN "out" ELSE "stdin")
      /\ kbd' = <<>>
      /\ IF serve
         THEN /\ Answer("stdin") /\ readOpen' = FALSE
              /\ got' = Append(got, Head(lines)) /\ ready' = Tail(lines)
         ELSE ready' = lines /\ UNCHANGED <<ipc, readOpen, got>>
      /\ UNCHANGED back

Typed == Len(got) + Len(ready) + Len(kbd)

(* The keyboard interrupt, up to the bound MaxLines. *)
Type == /\ Typed < MaxLines
        /\ kbd' = Append(kbd, Typed + 1)
        /\ UNCHANGED <<pc, ipc, readOpen, ready, got, back>>

-----------------------------------------------------------------------------
(* shell: prompt, read a line, run it, print what came of it. *)
ShellPrompt ==
  At("shell", "prompt") /\ Call("shell", "out", "print", "read") /\ UNCHANGED <<input, back>>

ShellRead ==
  At("shell", "read") /\ Call("shell", "stdin", "read", "run") /\ UNCHANGED <<input, back>>

Target == [exec |-> "fs", app |-> "fs", query |-> "info", status |-> "sup", stop |-> "sup",
           start |-> "sup", restart |-> "sup", install |-> "sup", update |-> "sup"]

(* A failed read is reported, and is an empty line; an empty line is skipped. *)
(* services, apps and audit repeat request and print: a command each here.    *)
ShellRun ==
  /\ At("shell", "run")
  /\ \/ ret["shell"] = "err" /\ Call("shell", "out", "print", "prompt")
     \/ ret["shell"] = "ok" /\ Goto("shell", "prompt") /\ UNCHANGED ipc
     \/ /\ ret["shell"] = "ok" /\ "echo" \in Commands
        /\ Call("shell", "out", "print", "printed")
     \/ /\ ret["shell"] = "ok"
        /\ \E c \in Commands \ {"echo"} : Call("shell", Target[c], c, "print")
  /\ UNCHANGED <<input, back>>

ShellPrint ==
  At("shell", "print") /\ Call("shell", "out", "print", "printed") /\ UNCHANGED <<input, back>>

(* A result that cannot be printed ends the shell with status 8. *)
ShellPrinted ==
  /\ At("shell", "printed")
  /\ IF ret["shell"] = "ok" THEN Goto("shell", "prompt") /\ UNCHANGED ipc
     ELSE Goto("shell", "zombie") /\ Gone("shell")
  /\ UNCHANGED <<input, back>>

-----------------------------------------------------------------------------
(* initfs starts storaged, supd and the shell in this order.  It cannot do   *)
(* without the first two, and serves without the shell.                     *)
InitfsBoot ==
  /\ \/ /\ At("initfs", "boot")
        /\ \/ pc' = [pc EXCEPT !["initfs"] = "supervisor", !["storaged"] = "start"] /\ UNCHANGED ipc
           \/ Goto("initfs", "zombie") /\ Gone("initfs")
     \/ /\ At("initfs", "supervisor")
        /\ \/ pc' = [pc EXCEPT !["initfs"] = "shell", !["supd"] = "start"] /\ UNCHANGED ipc
           \/ Goto("initfs", "zombie") /\ Gone("initfs")
     \/ /\ At("initfs", "shell") /\ UNCHANGED ipc
        /\ \/ pc' = [pc EXCEPT !["initfs"] = "serve", !["shell"] = "prompt"]
           \/ Goto("initfs", "serve")
  /\ UNCHANGED <<input, back>>

(* One request at a time; a program runs to completion inside it. *)
InitfsServe ==
  At("initfs", "serve") /\ Recv("initfs", "fs", "dispatch") /\ UNCHANGED <<input, back>>

InitfsDispatch ==
  /\ At("initfs", "dispatch")
  /\ CASE Request("fs") = "exec" -> Goto("initfs", "spawn") /\ UNCHANGED ipc
       [] Request("fs") = "app" -> Call("initfs", "info", "app", "fetch")
       [] OTHER -> Reply("initfs", "fs", "serve")
  /\ UNCHANGED <<input, back>>

(* What is asked first (length, digest, signature) and then (the chunks) is   *)
(* a call each; the app may be refused after either.                         *)
InitfsFetch ==
  /\ At("initfs", "fetch")
  /\ \/ ret["initfs"] = "ok" /\ Call("initfs", "info", "app", "verify")
     \/ Reply("initfs", "fs", "serve")
  /\ UNCHANGED <<input, back>>

InitfsVerify ==
  /\ At("initfs", "verify")
  /\ \/ ret["initfs"] = "ok" /\ Goto("initfs", "spawn") /\ UNCHANGED ipc
     \/ Reply("initfs", "fs", "serve")
  /\ UNCHANGED <<input, back>>

(* Mutant: the reply does not wait for the program. *)
InitfsSpawnDetached ==
  /\ At("initfs", "spawn")
  /\ \/ /\ pc["prog"] = "none"
        /\ pc' = [pc EXCEPT !["initfs"] = "serve", !["prog"] = "print"] /\ Answer("fs")
     \/ Reply("initfs", "fs", "serve")
  /\ UNCHANGED <<input, back>>

(* spawn succeeds, or fails for want of memory (and always while the one     *)
(* program the model keeps room for is still there).                        *)
InitfsSpawn ==
  /\ At("initfs", "spawn")
  /\ \/ /\ pc["prog"] = "none"
        /\ pc' = [pc EXCEPT !["initfs"] = "wait", !["prog"] = "print"] /\ UNCHANGED ipc
     \/ Reply("initfs", "fs", "serve")
  /\ UNCHANGED <<input, back>>

Children == <<"storaged", "supd", "shell", "prog">>   \* initfs's, by task id

(* SYS_WAIT reaps the child with the lowest id, whichever was meant. *)
InitfsWait ==
  LET dead == SelectSeq(Children, LAMBDA c : pc[c] = "zombie")
  IN  /\ At("initfs", "wait") /\ dead # <<>>
      /\ pc' = [pc EXCEPT !["initfs"] = "serve",
                          ![Head(dead)] = IF Head(dead) = "prog" THEN "none" ELSE "reaped"]
      /\ Answer("fs")
      /\ UNCHANGED <<input, back>>

-----------------------------------------------------------------------------
(* storaged: queries and configuration requests in turn. *)
StoragedStart ==
  At("storaged", "start") /\ Call("storaged", "out", "print", "query") /\ UNCHANGED <<input, back>>

(* Mutant: the query endpoint is received from without a deadline. *)
StoragedQueryBlocking ==
  At("storaged", "query") /\ Recv("storaged", "info", "answer") /\ UNCHANGED <<input, back>>

StoragedQuery ==
  /\ At("storaged", "query")
  /\ \/ Recv("storaged", "info", "answer")
     \/ TimedOut("storaged", "info", "config")
  /\ UNCHANGED <<input, back>>

StoragedAnswer ==
  At("storaged", "answer") /\ Reply("storaged", "info", "config") /\ UNCHANGED <<input, back>>

StoragedConfig ==
  /\ At("storaged", "config")
  /\ \/ Recv("storaged", "cfg", "handle")
     \/ TimedOut("storaged", "cfg", "query")
  /\ UNCHANGED <<input, back>>

(* Mutant: the agent is started through the supervisor. *)
StoragedHandleViaSupd ==
  /\ At("storaged", "handle")
  /\ \/ Request("cfg") = "update" /\ Call("storaged", "sup", "start", "agent")
     \/ Reply("storaged", "cfg", "query")
  /\ UNCHANGED <<input, back>>

(* An update that can begin announces itself on the console and waits for    *)
(* its agent; anything else is answered at once.                            *)
StoragedHandle ==
  /\ At("storaged", "handle")
  /\ \/ Request("cfg") = "update" /\ Call("storaged", "out", "print", "agent")
     \/ Reply("storaged", "cfg", "query")
  /\ UNCHANGED <<input, back>>

(* The agent exits, or is killed at its deadline. *)
StoragedAgent ==
  At("storaged", "agent") /\ Reply("storaged", "cfg", "query") /\ UNCHANGED <<input, back>>

-----------------------------------------------------------------------------
(* supd: announce, load the roster, start the service, supervise. *)
SupdStart ==
  /\ \/ At("supd", "start") /\ Call("supd", "out", "print", "roster")
     \/ At("supd", "roster") /\ Call("supd", "info", "roster", "autostart")
  /\ UNCHANGED <<input, back>>

(* spawn_service: length and chunks from the file server. *)
FetchProgram(label) ==
  Call("supd", "fs", "fetch", "chunk") /\ back' = label

(* Without a roster there is nothing to start. *)
SupdAutostart ==
  /\ At("supd", "autostart")
  /\ \/ ret["supd"] = "ok" /\ FetchProgram("reap")
     \/ Goto("supd", "reap") /\ UNCHANGED <<ipc, back>>
  /\ UNCHANGED input

SupdChunk ==
  /\ At("supd", "chunk")
  /\ \/ /\ ret["supd"] = "ok" /\ Call("supd", "fs", "fetch", "spawn")
        /\ UNCHANGED back
     \/ Call("supd", "out", "print", back) /\ back' = "reap"
  /\ UNCHANGED input

(* The spawn is logged; a failed one only marks the service. *)
SupdSpawn ==
  /\ At("supd", "spawn")
  /\ \/ /\ ret["supd"] = "ok"
        /\ pc' = [pc EXCEPT !["supd"] = "log", !["heart"] = "start"] /\ UNCHANGED <<ipc, back>>
     \/ ret["supd"] = "ok" /\ Goto("supd", back) /\ back' = "reap" /\ UNCHANGED ipc
     \/ ret["supd"] = "err" /\ Call("supd", "out", "print", back) /\ back' = "reap"
  /\ UNCHANGED input

SupdLog ==
  At("supd", "log") /\ Call("supd", "info", "log", back) /\ back' = "reap" /\ UNCHANGED input

(* Reap until there is nothing to reap, logging each exit; then perhaps      *)
(* restart the service.  When that is due is module Supervisor's business.   *)
SupdReap ==
  /\ At("supd", "reap")
  /\ \/ /\ pc["heart"] = "zombie"
        /\ pc' = [pc EXCEPT !["supd"] = "log", !["heart"] = "none"] /\ UNCHANGED <<ipc, back>>
     \/ pc["heart"] = "none" /\ FetchProgram("listen")
     \/ pc["heart"] # "zombie" /\ Goto("supd", "listen") /\ UNCHANGED <<ipc, back>>
  /\ UNCHANGED input

SupdListen ==
  /\ At("supd", "listen")
  /\ \/ Recv("supd", "sup", "op")
     \/ TimedOut("supd", "sup", "reap")
  /\ UNCHANGED <<input, back>>

(* A service counts as running until its exit has been reaped. *)
Running == pc["heart"] # "none"

(* handle_op, by what it calls. *)
SupdPass ==
  /\ At("supd", "op") /\ Request("sup") \in {"install", "update"}
  /\ Call("supd", "cfg", Request("sup"), "reply")
  /\ UNCHANGED <<input, back>>

SupdStartOp ==
  /\ At("supd", "op") /\ Request("sup") \in {"start", "restart"} /\ ~Running
  /\ FetchProgram("reply")
  /\ UNCHANGED input

(* kill and drain_one: the child is terminated wherever it is, and reaped. *)
SupdKill ==
  /\ At("supd", "op") /\ Request("sup") \in {"stop", "restart"} /\ Running
  /\ pc' = [pc EXCEPT !["supd"] = "reply", !["heart"] = "none"] /\ Gone("heart")
  /\ UNCHANGED <<input, back>>

SupdReply ==
  /\ \/ At("supd", "reply")
     \/ /\ At("supd", "op")
        /\ Request("sup") \in {"none", "status", IF Running THEN "start" ELSE "stop"}
  /\ Reply("supd", "sup", "reap")
  /\ UNCHANGED <<input, back>>

-----------------------------------------------------------------------------
(* heart: log once; then ask for the slot, print, sleep. *)
HeartStep ==
  /\ \/ At("heart", "start") /\ Call("heart", "info", "log", "beat")
     \/ At("heart", "beat") /\ Call("heart", "info", "slot", "print")
     \/ At("heart", "print") /\ Call("heart", "out", "print", "sleep")
     \/ /\ At("heart", "sleep") /\ ret["heart"] = "ok"
        /\ Goto("heart", "beat") /\ UNCHANGED ipc
     \/ /\ At("heart", "sleep") /\ ret["heart"] = "err"
        /\ Goto("heart", "zombie") /\ Gone("heart")
  /\ UNCHANGED <<input, back>>

(* A program initfs runs is given the console and nothing else.  It prints   *)
(* as often as it likes, and ends or does not: hello prints three lines and   *)
(* exits, heart prints for ever, an installed program may do anything.        *)
ProgStep ==
  /\ At("prog", "print")
  /\ \/ Call("prog", "out", "print", "print")
     \/ Goto("prog", "zombie") /\ Gone("prog")
  /\ UNCHANGED <<input, back>>

-----------------------------------------------------------------------------
Ended == {"none", "zombie", "reaped"}
Parked == {"stdin", "out", "serve", "wait", "query", "config", "listen", "sleep"}

(* A heap that is never freed runs out, or the task faults, while it runs. *)
Die(t) ==
  /\ pc[t] \notin Ended \cup Parked /\ to[t] = Nobody
  /\ Cardinality({u \in Mortal : pc[u] \in {"zombie", "reaped"}}) < MaxDeaths
  /\ Goto(t, "zombie") /\ Gone(t)
  /\ UNCHANGED <<input, back>>

ConsoleStep == ConsoleInput \/ ConsoleRead \/ ConsoleOutput \/ ConsoleWrite \/ ConsoleKeys
ShellStep == ShellPrompt \/ ShellRead \/ ShellRun \/ ShellPrint \/ ShellPrinted
InitfsStep == \/ InitfsBoot \/ InitfsServe \/ InitfsDispatch \/ InitfsFetch \/ InitfsVerify
              \/ InitfsSpawn \/ InitfsWait
StoragedStep == \/ StoragedStart \/ StoragedQuery \/ StoragedAnswer \/ StoragedConfig
                \/ StoragedHandle \/ StoragedAgent
SupdStep == \/ SupdStart \/ SupdAutostart \/ SupdChunk \/ SupdSpawn \/ SupdLog \/ SupdReap
            \/ SupdListen \/ SupdPass \/ SupdStartOp \/ SupdKill \/ SupdReply

Next == \/ ConsoleStep \/ ShellStep \/ InitfsStep \/ StoragedStep \/ SupdStep
        \/ HeartStep \/ ProgStep \/ Type
        \/ \E t \in Mortal : Die(t)

(* Every task that can run gets to: the kernel's round robin and its         *)
(* deadlines (module Kernel).  The user need not type, nothing need fail,    *)
(* and of the programs that initfs runs nothing is assumed.                  *)
Fairness ==
  /\ WF_vars(ConsoleStep) /\ WF_vars(ShellStep) /\ WF_vars(InitfsStep)
  /\ WF_vars(StoragedStep) /\ WF_vars(SupdStep) /\ WF_vars(HeartStep)

Spec == Init /\ [][Next]_vars /\ Fairness
-----------------------------------------------------------------------------
(* Whom a task waits for: the server of its call, or the child it waits for. *)
WaitsFor(t) ==
  IF to[t] # Nobody THEN Server[to[t]]
  ELSE IF t = "initfs" /\ pc[t] = "wait" THEN "prog" ELSE Nobody

(* No circle of tasks waits for one another: supd fetches from initfs and     *)
(* passes updates to storaged, initfs fetches apps from storaged and waits    *)
(* for programs that print, and all of them print on the console.            *)
NoCircularWait ==
  \A S \in SUBSET {t \in Task : WaitsFor(t) # Nobody} \ {{}} : \E t \in S : WaitsFor(t) \notin S

(* Lines reach the shell once each and in the order typed, whatever was typed *)
(* ahead; and the console believes a read is open exactly while it owes one.  *)
InputExact ==
  /\ got \o ready \o kbd = [i \in 1..Typed |-> i]
  /\ pc["console"] \notin Ended \cup {"read"} => (readOpen <=> active["stdin"] # Nobody)

(* exec and app "run to completion, reap, reply": no program is left, running *)
(* or unreaped, once initfs listens again, unless initfs had another child to *)
(* reap.                                                                     *)
ExecCompletes ==
  pc["initfs"] \in {"serve", "dispatch"} =>
    pc["prog"] = "none" \/ \E t \in {"storaged", "supd", "shell"} : pc[t] = "reaped"

(* The same whatever else initfs has to reap. *)
ExecAlwaysCompletes == pc["initfs"] \in {"serve", "dispatch"} => pc["prog"] = "none"

(* Whose end can leave a call on an endpoint unanswered. *)
Upon == [out |-> {"console"}, info |-> {"console", "storaged"}, cfg |-> {"console", "storaged"},
         fs |-> {"console", "storaged", "initfs"},
         sup |-> {"console", "storaged", "initfs", "supd"}]

(* The programs initfs runs end; it waits for them without a deadline        *)
(* (initfs:386, 471), and nothing in the code makes them end.                *)
ProgramsEnd == []<>(pc["prog"] \in Ended)

(* The calls of the shell and of supd on some endpoints end, as long as the  *)
(* servers they depend on live.                                              *)
EndOn(eps) ==
  \A t \in {"shell", "supd"} :
    to[t] \in eps ~> to[t] \notin eps \/ \E s \in Upon[to[t]] : pc[s] \in Ended

(* As long as the servers a call depends on live, a call on the console or    *)
(* on storaged ends, whatever programs do: nobody waits for ever behind an    *)
(* open read or an update.  A call on initfs, or on supd, which may itself    *)
(* wait for initfs, ends if the programs that initfs runs end.  Stated for    *)
(* the shell and supd, whose calls between them reach every endpoint; a read  *)
(* of the keyboard waits for the user, and a call left in line by a server    *)
(* that died is never answered.                                              *)
CallsEnd == EndOn({"out", "info", "cfg"}) /\ (ProgramsEnd => EndOn({"fs", "sup"}))
=============================================================================
