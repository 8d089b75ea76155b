-------------------------- MODULE KernelIpcProofs ---------------------------
(***************************************************************************)
(* Every step of Kernel keeps the bookkeeping of synchronous IPC: who      *)
(* waits on which endpoint, and who owes whom a reply.                     *)
(***************************************************************************)
EXTENDS KernelTypeProofs

-----------------------------------------------------------------------------
(* IPC bookkeeping *)

\* An empty queue is one without elements.
LEMMA EmptyFacts ==
  ASSUME NEW T, NEW q \in Seq(T)
  PROVE  q = <<>> <=> Elements(q) = {}
BY SMTT(30) DEF Elements

\* What terminate_lifecycle makes of each task.
LEMMA TerminatedCases ==
  ASSUME NEW s \in [Tids -> TaskStates], NEW v \in Tids, NEW c, NEW t \in Tids
  PROVE  \/ t = v /\ Terminated(s, v, c)[t] \in {Zombie(c), Reaping}
         \/ /\ t # v /\ t \in OrphanedZombies(s, v) /\ s[t].is = "Zombie"
            /\ Terminated(s, v, c)[t] = Reaping
         \/ /\ t # v /\ s[t].is = "BlockedCall" /\ Terminated(s, v, c)[t] = Ready
            /\ \E e \in StrandedEps(s, v) : caller[e] = t
         \/ /\ t # v /\ s[t].is = "BlockedWait" /\ Terminated(s, v, c)[t] = Ready
            /\ t = parent[v] /\ Delivers(s, v)
         \/ /\ t # v /\ Terminated(s, v, c)[t] = s[t]
            /\ t \notin OrphanedZombies(s, v)
            /\ ~\E e \in StrandedEps(s, v) : caller[e] = t
            /\ ~(t = parent[v] /\ Delivers(s, v))
BY Zenon DEF Terminated, OrphanedZombies, StrandedEps, Delivers

\* The kinds of the states without an endpoint.
LEMMA PlainKinds ==
  /\ Ready.is = "Ready" /\ Running.is = "Running" /\ Reaping.is = "Reaping" /\ Gone.is = "Gone"
  /\ \A c : Zombie(c).is = "Zombie"
  /\ BlockedWait.is = "BlockedWait" /\ BlockedInput.is = "BlockedInput"
  /\ \A e : BlockedSend(e).is = "BlockedSend" /\ BlockedSend(e).ep = e
  /\ \A e : BlockedCall(e).is = "BlockedCall" /\ BlockedCall(e).ep = e
  /\ \A e, d : BlockedRecv(e, d).is = "BlockedRecv" /\ BlockedRecv(e, d).ep = e
  /\ \A d : BlockedSleep(d).is = "BlockedSleep"
BY Zenon DEF Ready, Running, Reaping, Gone, Zombie, BlockedWait, BlockedInput, BlockedSend,
       BlockedCall, BlockedRecv, BlockedSleep, Plain

\* A step that leaves the endpoints and every parked caller alone, kills nobody,
\* and parks receivers only on endpoints nobody queues on, keeps the IPC books.
LEMMA IpcFrame ==
  ASSUME TypeOK, ReplyOwed, PendingExact, UNCHANGED ipcVars,
         NEW s \in [Tids -> TaskStates], Switched(s),
         \A t \in Tids : state[t].is \in {"BlockedSend", "BlockedCall"} => s[t] = state[t],
         \A t \in Tids : s[t].is \in {"BlockedSend", "BlockedCall"} => s[t] = state[t],
         \A t \in Tids : s[t].is = "BlockedRecv" =>
           \/ state[t].is = "BlockedRecv" /\ s[t].ep = state[t].ep
           \/ pending[s[t].ep] = <<>>,
         \A t \in Tids : Live(state[t]) => Live(s[t])
  PROVE  ReplyOwed' /\ PendingExact'
<1>1. /\ caller' = caller /\ server' = server /\ pending' = pending
  BY Zenon DEF ipcVars
<1>2. \A t \in Tids, e \in Eps :
        /\ state'[t] = BlockedSend(e) <=> state[t] = BlockedSend(e)
        /\ state[t] = BlockedCall(e) => state'[t] = BlockedCall(e)
  BY PlainKinds DEF Switched
<1>3. \A t \in Tids : Live(state[t]) => Live(state'[t])
  BY ZenonT(30), PlainKinds DEF Switched, Live, InTable
<1>4. \A t \in Tids : state'[t].is = "BlockedRecv" => state'[t] = s[t]
  BY Zenon, PlainKinds DEF Switched
<1>5. ReplyOwed'
  BY <1>1, <1>2, <1>3 DEF ReplyOwed, TypeOK
<1>6. ASSUME NEW e \in Eps, pending[e] # <<>> PROVE Receivers(e)' = {}
  <2>1. Receivers(e) = {}
    BY Zenon, <1>6 DEF PendingExact
  <2> QED BY <1>4, <1>6, <2>1 DEF Receivers
<1>7. PendingExact'
  BY <1>1, <1>2, <1>6 DEF PendingExact
<1> QED BY Zenon, <1>5, <1>7

\* The end of a task keeps the IPC books.
LEMMA IpcDeath ==
  ASSUME TypeOK, ReplyOwed, PendingExact,
         NEW s \in [Tids -> TaskStates], NEW v \in Tids, NEW c,
         \A t \in Tids : s[t] = state[t] \/ (state[t].is = "Reaping" /\ s[t] = Gone),
         Switched(Terminated(s, v, c)), Unlinks(s, v)
  PROVE  ReplyOwed' /\ PendingExact'
<1> DEFINE T == Terminated(s, v, c)
<1>1. \A t \in Tids : /\ s[t].is \in {"BlockedSend", "BlockedCall", "BlockedRecv"} => s[t] = state[t]
                      /\ state[t].is # "Reaping" => s[t] = state[t]
  BY Zenon, PlainKinds
<1>2. /\ caller' = [e \in Eps |-> IF v \in {caller[e], server[e]} THEN NoTask ELSE caller[e]]
      /\ server' = [e \in Eps |-> IF v \in {caller[e], server[e]} THEN NoTask ELSE server[e]]
      /\ pending' = [e \in Eps |-> Without(pending[e], v)]
  BY Zenon DEF Unlinks
<1>3. \A t \in Tids : state'[t] = T[t] \/ (T[t] \in {Ready, Running} /\ state'[t] \in {Ready, Running})
  BY Zenon DEF Switched
<1>4. ReplyOwed'
  <2> SUFFICES ASSUME NEW e \in Eps
               PROVE  /\ caller'[e] = NoTask <=> server'[e] = NoTask
                      /\ caller'[e] # NoTask =>
                           state'[caller'[e]] = BlockedCall(e) /\ Live(state'[server'[e]])
    BY Zenon DEF ReplyOwed
  <2>1. CASE v \in {caller[e], server[e]}
    BY Zenon, <1>2, <2>1
  <2>2. CASE v \notin {caller[e], server[e]}
    <3>1. caller'[e] = caller[e] /\ server'[e] = server[e]
      BY Zenon, <1>2, <2>2
    <3>2. caller[e] = NoTask <=> server[e] = NoTask
      BY Zenon DEF ReplyOwed
    <3>3. ASSUME caller[e] # NoTask
          PROVE  state'[caller[e]] = BlockedCall(e) /\ Live(state'[server[e]])
      <4>1. /\ caller[e] \in Tids /\ server[e] \in Tids
            /\ state[caller[e]] = BlockedCall(e) /\ Live(state[server[e]])
        BY Zenon, <3>2, <3>3 DEF ReplyOwed, TypeOK
      <4>2. s[caller[e]] = BlockedCall(e)
        BY Zenon, <4>1, <1>1, PlainKinds
      <4>3. ~\E f \in StrandedEps(s, v) : caller[f] = caller[e]
        <5> SUFFICES ASSUME NEW f \in Eps, server[f] = v, caller[f] = caller[e] PROVE FALSE
          BY Zenon DEF StrandedEps
        <5>1. state[caller[f]] = BlockedCall(f)
          BY Zenon, <3>3 DEF ReplyOwed
        <5>2. f = e
          BY SMTT(30), <4>1, <5>1, PlainKinds
        <5> QED BY Zenon, <2>2, <5>2
      <4>4. T[caller[e]] = BlockedCall(e)
        BY SMTT(30), <4>1, <4>2, <4>3, <2>2, TerminatedCases, PlainKinds
      <4>5. state'[caller[e]] = BlockedCall(e)
        BY SMTT(30), <1>3, <4>1, <4>4, PlainKinds
      <4>6. s[server[e]] = state[server[e]] /\ server[e] # v
        BY ZenonT(30), <4>1, <1>1, <2>2 DEF Live, InTable
      <4>7. Live(T[server[e]])
        BY SMTT(30), <4>1, <4>6, TerminatedCases, PlainKinds DEF Live, InTable
      <4>8. Live(state'[server[e]])
        BY ZenonT(30), <1>3, <4>1, <4>7, PlainKinds DEF Live, InTable
      <4> QED BY Zenon, <4>5, <4>8
    <3> QED BY Zenon, <3>1, <3>2, <3>3
  <2> QED BY Zenon, <2>1, <2>2
<1>5. ASSUME NEW e \in Eps, NEW t \in Tids
      PROVE  state'[t] = BlockedSend(e) <=> state[t] = BlockedSend(e) /\ t # v
  <2>1. T[t] = BlockedSend(e) <=> s[t] = BlockedSend(e) /\ t # v
    BY SMTT(30), TerminatedCases, PlainKinds
  <2>2. s[t] = BlockedSend(e) <=> state[t] = BlockedSend(e)
    BY SMTT(30), <1>1, PlainKinds
  <2> HIDE DEF T
  <2> QED BY SMTT(30), <1>3, <2>1, <2>2, PlainKinds
<1>6. ASSUME NEW e \in Eps PROVE Receivers(e)' \subseteq Receivers(e)
  <2> SUFFICES ASSUME NEW t \in Tids, state'[t].is = "BlockedRecv", state'[t].ep = e
               PROVE  state[t].is = "BlockedRecv" /\ state[t].ep = e
    BY Zenon DEF Receivers
  <2>1. T[t] = state'[t]
    BY ZenonT(30), <1>3, PlainKinds
  <2>2. s[t] = state'[t]
    BY SMTT(30), <2>1, TerminatedCases, PlainKinds
  <2> QED BY Zenon, <1>1, <2>2
<1>7. PendingExact'
  <2> SUFFICES ASSUME NEW e \in Eps
               PROVE  /\ \A t \in Tids : t \in Elements(pending'[e]) <=> state'[t] = BlockedSend(e)
                      /\ Distinct(pending'[e])
                      /\ pending'[e] # <<>> => Receivers(e)' = {}
    BY Zenon DEF PendingExact, Distinct
  <2>1. /\ pending[e] \in Seq(Tids) /\ Distinct(pending[e])
        /\ \A t \in Tids : t \in Elements(pending[e]) <=> state[t] = BlockedSend(e)
        /\ pending[e] # <<>> => Receivers(e) = {}
    BY Zenon DEF TypeOK, PendingExact, Distinct
  <2>2. /\ pending'[e] \in Seq(Tids) /\ Distinct(pending'[e])
        /\ Elements(pending'[e]) = Elements(pending[e]) \ {v}
    BY Zenon, <1>2, <2>1, WithoutFacts
  <2>3. \A t \in Tids : t \in Elements(pending'[e]) <=> state'[t] = BlockedSend(e)
    BY Zenon, <1>5, <2>1, <2>2
  <2>4. pending'[e] # <<>> => pending[e] # <<>>
    BY <2>1, <2>2, EmptyFacts
  <2> QED BY ZenonT(30), <1>6, <2>1, <2>2, <2>3, <2>4
<1> QED BY Zenon, <1>4, <1>7

\* Draining the reaper, with tasks that were neither parked callers nor alive
\* or stay alive changing state, keeps the IPC books.
LEMMA IpcDrained ==
  ASSUME TypeOK, ReplyOwed, PendingExact, UNCHANGED ipcVars,
         NEW s \in [Tids -> TaskStates], Switched(s),
         \A t \in Tids :
           \/ s[t] = Drained[t]
           \/ /\ state[t].is \notin {"BlockedSend", "BlockedCall"}
              /\ s[t].is \notin {"BlockedSend", "BlockedCall"}
              /\ Live(state[t]) => Live(s[t])
              /\ s[t].is = "BlockedRecv" =>
                   \/ state[t].is = "BlockedRecv" /\ s[t].ep = state[t].ep
                   \/ pending[s[t].ep] = <<>>
  PROVE  ReplyOwed' /\ PendingExact'
<1>1. \A t \in Tids : \/ Drained[t] = state[t] /\ state[t].is # "Reaping"
                      \/ state[t].is = "Reaping" /\ Drained[t] = Gone
  BY Zenon, DrainedFacts
<1>2. \A t \in Tids : state[t].is \in {"BlockedSend", "BlockedCall"} => s[t] = state[t]
  BY Zenon, <1>1
<1>3. \A t \in Tids : s[t].is \in {"BlockedSend", "BlockedCall"} => s[t] = state[t]
  BY SMTT(30), <1>1, PlainKinds
<1>4. \A t \in Tids : s[t].is = "BlockedRecv" =>
        \/ state[t].is = "BlockedRecv" /\ s[t].ep = state[t].ep
        \/ pending[s[t].ep] = <<>>
  BY SMTT(30), <1>1, PlainKinds
<1>5. \A t \in Tids : Live(state[t]) => Live(s[t])
  BY Zenon, <1>1 DEF Live, InTable
<1> QED BY ZenonT(30), <1>2, <1>3, <1>4, <1>5, IpcFrame

\* Parking the current task anywhere but in a call keeps the IPC books.
LEMMA IpcPark ==
  ASSUME TypeOK, CurrentRuns, ReplyOwed, PendingExact, UNCHANGED ipcVars, cur # NoTask,
         NEW x \in TaskStates,
         x.is \in {"BlockedRecv", "BlockedSleep", "BlockedWait", "BlockedInput"},
         x.is = "BlockedRecv" => pending[x.ep] = <<>>,
         Handoff([Drained EXCEPT ![cur] = x], ready)
  PROVE  ReplyOwed' /\ PendingExact'
<1> DEFINE s == [Drained EXCEPT ![cur] = x]
<1>1. /\ cur \in Tids /\ s \in [Tids -> TaskStates]
      /\ \A t \in Tids : s[t] = IF t = cur THEN x ELSE Drained[t]
      /\ \A t \in Tids : s[t].is # "Running"
  BY Zenon, ParkFacts
<1>2. ready \in Seq(Tids)
  BY Zenon DEF TypeOK
<1> HIDE DEF s
<1>3. Switched(s)
  BY ZenonT(30), <1>1, <1>2, HandoffFacts DEF s
<1>4. state[cur].is = "Running" /\ s[cur] = x
  BY Zenon, <1>1 DEF CurrentRuns
<1>5. Live(s[cur])
  BY Zenon, <1>4 DEF Live, InTable
<1> QED BY ZenonT(30), <1>1, <1>3, <1>4, <1>5, IpcDrained

\* A queue without its first entry, and with a new last one.
LEMMA QueueEndFacts ==
  ASSUME NEW T, NEW q \in Seq(T), Distinct(q)
  PROVE  /\ q # <<>> => /\ Head(q) \in Elements(q)
                        /\ Tail(q) \in Seq(T) /\ Distinct(Tail(q))
                        /\ Elements(Tail(q)) = Elements(q) \ {Head(q)}
         /\ \A t \in T : /\ Append(q, t) \in Seq(T) /\ Append(q, t) # <<>>
                         /\ Elements(Append(q, t)) = Elements(q) \cup {t}
                         /\ t \notin Elements(q) => Distinct(Append(q, t))
<1>1. ASSUME q # <<>>
      PROVE  /\ Head(q) \in Elements(q)
             /\ Tail(q) \in Seq(T) /\ Distinct(Tail(q))
             /\ Elements(Tail(q)) = Elements(q) \ {Head(q)}
  <2> DEFINE p == SubSeq(q, 1 + 1, Len(q))
             r == SubSeq(q, 1, 1 - 1)
  <2>1. 1 \in DOMAIN q /\ Head(q) = q[1] /\ Tail(q) = p
    BY <1>1
  <2>2. /\ p \in Seq(T) /\ Distinct(p)
        /\ Elements(p) \cup Elements(r) = Elements(q) \ {q[1]}
    BY Zenon, <2>1, SplitFacts
  <2>3. Elements(r) = {}
    BY DEF Elements
  <2>4. Head(q) \in Elements(q)
    BY Zenon, <2>1 DEF Elements
  <2> HIDE DEF p, r
  <2> QED BY ZenonT(30), <2>1, <2>2, <2>3, <2>4
<1>2. ASSUME NEW t \in T
      PROVE  /\ Append(q, t) \in Seq(T) /\ Append(q, t) # <<>>
             /\ Elements(Append(q, t)) = Elements(q) \cup {t}
             /\ t \notin Elements(q) => Distinct(Append(q, t))
  <2> DEFINE z == <<t>>
  <2>1. Append(q, t) = q \o z /\ Append(q, t) # <<>>
    OBVIOUS
  <2>2. z \in Seq(T) /\ Elements(z) = {t} /\ Distinct(z)
    BY Zenon, SingletonFacts
  <2> HIDE DEF z
  <2> QED BY <2>1, <2>2, ConcatFacts
<1> QED BY Zenon, <1>1, <1>2

\* Every step keeps active callers parked on their endpoint with a live server,
\* and the queues of callers exact.
LEMMA IpcStep == IInv /\ [Next]_vars => ReplyOwed' /\ PendingExact'
<1> SUFFICES ASSUME IInv, TypeOK, CurrentRuns, ReplyOwed, PendingExact, ReadersRegistered,
                    TypeOK', CurrentRuns', [Next]_vars
             PROVE  ReplyOwed' /\ PendingExact'
  BY Zenon, TypeStep DEF IInv
<1>a. cur # NoTask => cur \in Tids /\ state[cur].is = "Running"
  BY Zenon DEF TypeOK, CurrentRuns
<1>b. /\ Drained \in [Tids -> TaskStates] /\ ready \in Seq(Tids) /\ NoTask \notin Tids
      /\ \A t \in Tids : \/ Drained[t] = state[t] /\ state[t].is # "Reaping"
                         \/ state[t].is = "Reaping" /\ Drained[t] = Gone
      /\ \A t \in Tids : Drained[t].is = "Running" <=> t = cur
  BY SMTT(30), DrainedFacts DEF TypeOK, CurrentRuns, NoTask, Tids
<1>c. state' \in [Tids -> TaskStates] /\ Switched(state')
  BY Zenon DEF TypeOK, Switched
<1>d. ASSUME state' = Drained, UNCHANGED ipcVars PROVE ReplyOwed' /\ PendingExact'
  BY Zenon, <1>c, <1>d, IpcDrained
<1>1. ASSUME Yield PROVE ReplyOwed' /\ PendingExact'
  <2>1. Switched(Drained)
    BY ZenonT(30), <1>1, <1>b, RotateFacts DEF Yield, TypeOK
  <2> QED BY ZenonT(30), <1>1, <1>b, <2>1, IpcDrained DEF Yield
<1>2. ASSUME NEW s \in [Tids -> TaskStates], NEW c \in Codes, cur # NoTask,
             \A t \in Tids : s[t].is = "Running" <=> t = cur,
             \A t \in Tids : s[t] = state[t] \/ (state[t].is = "Reaping" /\ s[t] = Gone),
             Dies(s, c)
      PROVE  ReplyOwed' /\ PendingExact'
  <2>1. PICK w \in WakeOrders(s, cur) : Handoff(Terminated(s, cur, c), w \o ready)
    BY Zenon, <1>2 DEF Dies
  <2>2. w \o ready \in Seq(Tids)
    BY ZenonT(30), <1>2, <1>a, <1>b, WakeFacts, ConcatFacts
  <2>3. /\ Terminated(s, cur, c) \in [Tids -> TaskStates]
        /\ \A t \in Tids : Terminated(s, cur, c)[t].is # "Running"
    BY SMTT(30), <1>2, <1>a, TerminatedFacts
  <2>4. Switched(Terminated(s, cur, c))
    BY ZenonT(30), <2>1, <2>2, <2>3, HandoffFacts
  <2> QED BY Zenon, <1>2, <1>a, <2>4, IpcDeath DEF Dies
<1>3. ASSUME Exit PROVE ReplyOwed' /\ PendingExact'
  BY Zenon, <1>3, <1>2, <1>b DEF Exit, Enters, Codes
<1>4. ASSUME Fault PROVE ReplyOwed' /\ PendingExact'
  BY Zenon, <1>4, <1>2 DEF Fault, Enters, Codes, TypeOK, CurrentRuns
<1>5. ASSUME Return PROVE ReplyOwed' /\ PendingExact'
  BY Zenon, <1>5, <1>d DEF Return
<1>6. ASSUME NEW v \in Tids, Kill(v) PROVE ReplyOwed' /\ PendingExact'
  <2>1. Switched(Terminated(Drained, v, "kill")) /\ Unlinks(Drained, v)
    BY Zenon, <1>6 DEF Kill, Switched
  <2> QED BY Zenon, <1>b, <2>1, IpcDeath
<1>7. ASSUME NEW t \in Tids, Spawn(t) PROVE ReplyOwed' /\ PendingExact'
  <2>1. state[t].is = "New" /\ UNCHANGED ipcVars /\ state' = [Drained EXCEPT ![t] = Ready]
    BY Zenon, <1>7 DEF Spawn, Smallest
  <2>2. \A u \in Tids : state'[u] = IF u = t THEN Ready ELSE Drained[u]
    BY Zenon, <2>1, <1>b
  <2>3. Live(Ready)
    BY Zenon, PlainKinds DEF Live, InTable
  <2> QED BY ZenonT(30), <1>c, <2>1, <2>2, <2>3, PlainKinds, IpcDrained
<1>8. ASSUME NEW z \in Tids, WaitReap(z) PROVE ReplyOwed' /\ PendingExact'
  <2>1. state[z].is = "Zombie" /\ UNCHANGED ipcVars /\ state' = [Drained EXCEPT ![z] = Gone]
    BY Zenon, <1>8 DEF WaitReap, Smallest, ZombieChildren
  <2>2. \A u \in Tids : state'[u] = IF u = z THEN Gone ELSE Drained[u]
    BY Zenon, <2>1, <1>b
  <2>3. ~Live(state[z])
    BY Zenon, <2>1 DEF Live
  <2> QED BY ZenonT(30), <1>c, <2>1, <2>2, <2>3, PlainKinds, IpcDrained
<1>9. ASSUME WaitPark PROVE ReplyOwed' /\ PendingExact'
  BY Zenon, <1>9, ParkedStates, IpcPark DEF WaitPark, Enters
<1>10. ASSUME NEW e \in Eps, NEW d \in {0} \cup Delays, RecvPark(e, d)
       PROVE  ReplyOwed' /\ PendingExact'
  BY SMTT(30), <1>10, ParkedStates, PlainKinds, IpcPark DEF RecvPark, Enters
<1>11. ASSUME NEW d \in Delays, Sleep(d) PROVE ReplyOwed' /\ PendingExact'
  BY ZenonT(30), <1>11, ParkedStates, IpcPark DEF Sleep, Enters
<1>12. ASSUME ReadPark PROVE ReplyOwed' /\ PendingExact'
  BY Zenon, <1>12, ParkedStates, IpcPark DEF ReadPark, Enters
<1>13. ASSUME ReadServed PROVE ReplyOwed' /\ PendingExact'
  BY Zenon, <1>13, <1>d DEF ReadServed
<1>14. ASSUME Timer PROVE ReplyOwed' /\ PendingExact'
  <2>1. PICK w \in Descending(Expired) :
          IF since + 1 < Quantum
          THEN since' = since + 1 /\ state' = Ticked /\ ready' = w \o ready /\ cur' = cur
          ELSE since' = 0 /\ Rotate(Ticked, w \o ready)
    BY Zenon, <1>14 DEF Timer
  <2>2. w \o ready \in Seq(Tids)
    <3>1. Expired \in SUBSET Tids
      BY Zenon DEF Expired
    <3>2. w \in Seq(Tids)
      BY SMTT(30), <3>1, FiniteFacts, DescendingFacts
    <3> QED BY Zenon, <3>2, <1>b, ConcatFacts
  <2>3. /\ Ticked \in [Tids -> TaskStates]
        /\ \A t \in Tids : Ticked[t].is = "Running" <=> t = cur
    BY Zenon, TickedFacts DEF CurrentRuns
  <2>4. Switched(Ticked)
    <3>1. CASE since + 1 < Quantum
      BY Zenon, <2>1, <3>1 DEF Switched
    <3>2. CASE ~(since + 1 < Quantum)
      BY ZenonT(30), <2>1, <2>2, <2>3, <3>2, RotateFacts DEF TypeOK
    <3> QED BY Zenon, <3>1, <3>2
  <2>5. ASSUME NEW t \in Tids
        PROVE  \/ Ticked[t] = Drained[t]
               \/ /\ state[t].is \notin {"BlockedSend", "BlockedCall"}
                  /\ Ticked[t].is \notin {"BlockedSend", "BlockedCall"}
                  /\ Live(Ticked[t])
                  /\ Ticked[t].is = "BlockedRecv" =>
                       state[t].is = "BlockedRecv" /\ Ticked[t].ep = state[t].ep
    <3>1. t \in Expired => state[t].is \in {"BlockedRecv", "BlockedSleep"}
      BY Zenon DEF Expired
    <3> QED BY Zenon, <3>1, TickedFacts, PlainKinds DEF Live, InTable
  <2>6. UNCHANGED ipcVars
    BY Zenon, <1>14 DEF Timer
  <2> QED BY ZenonT(30), <2>3, <2>4, <2>5, <2>6, IpcDrained
<1>15. ASSUME Keyboard PROVE ReplyOwed' /\ PendingExact'
  <2>1. CASE waiters = <<>>
    BY Zenon, <1>15, <2>1, <1>c, IpcFrame DEF Keyboard
  <2>2. CASE waiters # <<>>
    <3> DEFINE h == Head(waiters)
    <3>1. h \in Tids
      BY SMTT(30), <2>2 DEF TypeOK
    <3>2. /\ UNCHANGED ipcVars
          /\ state' = IF state[h].is = "BlockedInput" THEN [state EXCEPT ![h] = Ready] ELSE state
      BY Zenon, <1>15, <2>2 DEF Keyboard
    <3> HIDE DEF h
    <3>3. \A t \in Tids : state'[t] = IF t = h /\ state[t].is = "BlockedInput" THEN Ready ELSE state[t]
      BY Zenon, <3>1, <3>2 DEF TypeOK
    <3>4. Live(Ready)
      BY ZenonT(30), PlainKinds DEF Live, InTable
    <3> QED BY ZenonT(30), <1>c, <3>2, <3>3, <3>4, PlainKinds, IpcFrame
  <2> QED BY Zenon, <2>1, <2>2
<1>16. ASSUME UNCHANGED vars PROVE ReplyOwed' /\ PendingExact'
  BY SMTT(30), <1>16 DEF vars, ReplyOwed, PendingExact, Receivers
<1>17. ASSUME NEW e \in Eps, NEW r \in Tids, CallReceiver(e, r) PROVE ReplyOwed' /\ PendingExact'
  <2> DEFINE s == [Drained EXCEPT ![r] = Ready, ![cur] = BlockedCall(e)]
  <2>1. cur \in Tids /\ state[cur].is = "Running" /\ state[r].is = "BlockedRecv" /\ state[r].ep = e
    BY Zenon, <1>17, <1>a DEF CallReceiver, Enters, Smallest, Receivers
  <2>2. /\ s \in [Tids -> TaskStates]
        /\ \A t \in Tids : s[t] = IF t = cur THEN BlockedCall(e) ELSE IF t = r THEN Ready ELSE Drained[t]
    BY Zenon, <2>1, <1>b, ParkedStates
  <2>3. <<r>> \o ready \in Seq(Tids)
    BY Zenon, <1>b, SingletonFacts, ConcatFacts
  <2>4. /\ Handoff(s, <<r>> \o ready) /\ pending' = pending
        /\ caller' = [caller EXCEPT ![e] = cur] /\ server' = [server EXCEPT ![e] = r]
    BY ZenonT(30), <1>17 DEF CallReceiver
  <2> HIDE DEF s
  <2>5. \A t \in Tids : s[t].is # "Running"
    BY SMTT(30), <2>1, <2>2, <1>b, PlainKinds
  <2>6. Switched(s)
    BY ZenonT(30), <2>2, <2>3, <2>4, <2>5, HandoffFacts
  <2>7. ASSUME NEW t \in Tids, NEW f \in Eps, state[t] = BlockedCall(f)
        PROVE  state'[t] = BlockedCall(f)
    <3>1. state[t].is = "BlockedCall"
      BY SMTT(30), <2>7, PlainKinds
    <3>2. s[t] = state[t]
      BY Zenon, <3>1, <2>1, <2>2, <1>b
    <3> QED BY Zenon, <3>1, <3>2, <2>6, <2>7, PlainKinds DEF Switched
  <2>8. \A t \in Tids : Live(state[t]) => Live(state'[t])
    BY SMTT(30), <2>2, <2>6, <1>b, PlainKinds DEF Switched, Live, InTable
  <2>9. \A t \in Tids, f \in Eps : state'[t] = BlockedSend(f) <=> state[t] = BlockedSend(f)
    BY SMTT(30), <2>1, <2>2, <2>6, <1>b, PlainKinds DEF Switched
  <2>10. \A t \in Tids : state'[t].is = "BlockedRecv" => state'[t] = state[t]
    BY SMTT(30), <2>2, <2>6, <1>b, PlainKinds DEF Switched
  <2>11. state'[cur] = BlockedCall(e) /\ Live(state[r])
    BY SMTT(30), <2>1, <2>2, <2>6, PlainKinds DEF Switched, Live, InTable
  <2>12. ReplyOwed'
    BY SMTT(30), <2>1, <2>4, <2>7, <2>8, <2>11, <1>b DEF ReplyOwed, TypeOK
  <2>13. \A f \in Eps : Receivers(f)' \subseteq Receivers(f)
    BY ZenonT(30), <2>10 DEF Receivers
  <2>14. PendingExact'
    BY SMTT(30), <2>4, <2>9, <2>13 DEF PendingExact
  <2> QED BY Zenon, <2>12, <2>14
<1>18. ASSUME NEW e \in Eps, CallQueue(e) PROVE ReplyOwed' /\ PendingExact'
  <2> DEFINE s == [Drained EXCEPT ![cur] = BlockedSend(e)]
  <2>1. cur \in Tids /\ state[cur].is = "Running" /\ cur # NoTask
    BY Zenon, <1>18, <1>a DEF CallQueue, Enters
  <2>2. /\ s \in [Tids -> TaskStates]
        /\ \A t \in Tids : s[t] = IF t = cur THEN BlockedSend(e) ELSE Drained[t]
        /\ \A t \in Tids : s[t].is # "Running"
    BY Zenon, <2>1, ParkedStates, ParkFacts
  <2>3. /\ Handoff(s, ready) /\ caller' = caller /\ server' = server
        /\ pending' = [pending EXCEPT ![e] = Append(@, cur)] /\ Receivers(e) = {}
    BY Zenon, <1>18 DEF CallQueue
  <2> HIDE DEF s
  <2>4. Switched(s)
    BY ZenonT(30), <2>2, <2>3, <1>b, HandoffFacts
  <2>5. \A t \in Tids, f \in Eps : state[t] = BlockedCall(f) => state'[t] = BlockedCall(f)
    BY SMTT(30), <2>1, <2>2, <2>4, <1>b, PlainKinds DEF Switched
  <2>6. \A t \in Tids : Live(state[t]) => Live(state'[t])
    BY SMTT(30), <2>2, <2>4, <1>b, PlainKinds DEF Switched, Live, InTable
  <2>7. \A t \in Tids, f \in Eps :
          state'[t] = BlockedSend(f) <=> state[t] = BlockedSend(f) \/ (t = cur /\ f = e)
    BY SMTT(30), <2>1, <2>2, <2>4, <1>b, PlainKinds DEF Switched
  <2>8. \A t \in Tids : state'[t].is = "BlockedRecv" => state'[t] = state[t]
    BY SMTT(30), <2>2, <2>4, <1>b, PlainKinds DEF Switched
  <2>9. ReplyOwed'
    BY ZenonT(30), <2>3, <2>5, <2>6 DEF ReplyOwed, TypeOK
  <2>10. \A f \in Eps : Receivers(f)' \subseteq Receivers(f)
    BY Zenon, <2>8 DEF Receivers
  <2>11. pending[e] \in Seq(Tids) /\ Distinct(pending[e]) /\ cur \notin Elements(pending[e])
    BY ZenonT(30), <2>1, PlainKinds DEF TypeOK, PendingExact, Distinct
  <2>12. Distinct(pending'[e]) /\ Elements(pending'[e]) = Elements(pending[e]) \cup {cur}
    <3>1. pending'[e] = Append(pending[e], cur)
      BY Zenon, <2>3 DEF TypeOK
    <3> QED BY ZenonT(30), <2>1, <2>11, <3>1, QueueEndFacts
  <2>13. \A f \in Eps : f # e => pending'[f] = pending[f]
    BY Zenon, <2>3 DEF TypeOK
  <2>14. ASSUME NEW f \in Eps
         PROVE  /\ \A t \in Tids : t \in Elements(pending'[f]) <=> state'[t] = BlockedSend(f)
                /\ Distinct(pending'[f])
                /\ pending'[f] # <<>> => Receivers(f)' = {}
    <3>1. CASE f = e
      BY SMTT(30), <3>1, <2>3, <2>7, <2>10, <2>12 DEF PendingExact
    <3>2. CASE f # e
      BY SMTT(30), <3>2, <2>7, <2>10, <2>13 DEF PendingExact, Distinct
    <3> QED BY ZenonT(30), <3>1, <3>2
  <2>15. PendingExact'
    BY Zenon, <2>14 DEF PendingExact, Distinct
  <2> QED BY Zenon, <2>9, <2>15
<1>19. ASSUME NEW e \in Eps, RecvQueued(e) PROVE ReplyOwed' /\ PendingExact'
  <2> DEFINE h == Head(pending[e])
  <2>1. cur \in Tids /\ state[cur].is = "Running"
    BY Zenon, <1>19, <1>a DEF RecvQueued, Enters
  <2>2. /\ pending[e] # <<>> /\ caller' = [caller EXCEPT ![e] = h]
        /\ server' = [server EXCEPT ![e] = cur] /\ pending' = [pending EXCEPT ![e] = Tail(@)]
        /\ state' = [Drained EXCEPT ![h] = BlockedCall(e)]
    BY ZenonT(30), <1>19 DEF RecvQueued
  <2>3. pending[e] \in Seq(Tids) /\ Distinct(pending[e])
    BY Zenon DEF TypeOK, PendingExact, Distinct
  <2>4. /\ h \in Elements(pending[e]) /\ Distinct(Tail(pending[e]))
        /\ Elements(Tail(pending[e])) = Elements(pending[e]) \ {h}
    BY ZenonT(30), <2>2, <2>3, QueueEndFacts
  <2>5. h \in Tids
    BY <2>3, <2>4 DEF Elements
  <2>6. state[h] = BlockedSend(e)
    BY Zenon, <2>4, <2>5 DEF PendingExact
  <2> HIDE DEF h
  <2>7. \A t \in Tids : state'[t] = IF t = h THEN BlockedCall(e) ELSE Drained[t]
    BY ZenonT(30), <2>2, <2>5, <1>b
  <2>8. \A t \in Tids, f \in Eps : state[t] = BlockedCall(f) => state'[t] = BlockedCall(f)
    BY SMTT(30), <2>6, <2>7, <1>b, PlainKinds
  <2>9. \A t \in Tids : Live(state[t]) => Live(state'[t])
    BY SMTT(30), <2>7, <1>b, PlainKinds DEF Live, InTable
  <2>10. \A t \in Tids, f \in Eps :
           state'[t] = BlockedSend(f) <=> state[t] = BlockedSend(f) /\ t # h
    BY SMTT(30), <2>7, <1>b, PlainKinds
  <2>11. \A t \in Tids : state'[t].is = "BlockedRecv" => state'[t] = state[t]
    BY SMTT(30), <2>7, <1>b, PlainKinds
  <2>12. \A f \in Eps : Receivers(f)' \subseteq Receivers(f)
    BY <2>11 DEF Receivers
  <2>13. state'[h] = BlockedCall(e) /\ Live(state[cur])
    BY ZenonT(30), <2>1, <2>5, <2>7 DEF Live, InTable
  <2>14. ReplyOwed'
    BY ZenonT(30), <2>1, <2>2, <2>5, <2>8, <2>9, <2>13, <1>b DEF ReplyOwed, TypeOK
  <2>15. /\ pending'[e] = Tail(pending[e])
         /\ \A f \in Eps : f # e => pending'[f] = pending[f]
    BY ZenonT(30), <2>2 DEF TypeOK
  <2>16. ASSUME NEW f \in Eps
         PROVE  /\ \A t \in Tids : t \in Elements(pending'[f]) <=> state'[t] = BlockedSend(f)
                /\ Distinct(pending'[f])
                /\ pending'[f] # <<>> => Receivers(f)' = {}
    <3>1. CASE f = e
      BY SMTT(30), <3>1, <2>2, <2>4, <2>10, <2>12, <2>15 DEF PendingExact
    <3>2. CASE f # e
      <4>1. state[h] # BlockedSend(f)
        BY SMTT(30), <3>2, <2>6, PlainKinds
      <4> QED BY SMTT(30), <3>2, <4>1, <2>10, <2>12, <2>15 DEF PendingExact, Distinct
    <3> QED BY SMTT(30), <3>1, <3>2
  <2>17. PendingExact'
    BY SMTT(30), <2>16 DEF PendingExact, Distinct
  <2> QED BY <2>14, <2>17
<1>20. ASSUME NEW e \in Eps, Reply(e) PROVE ReplyOwed' /\ PendingExact'
  <2> DEFINE c == caller[e]
  <2>1. /\ cur \in Tids /\ server[e] = cur /\ pending' = pending
        /\ caller' = [caller EXCEPT ![e] = NoTask] /\ server' = [server EXCEPT ![e] = NoTask]
        /\ c # NoTask => state' = [Drained EXCEPT ![c] = Ready]
    BY Zenon, <1>20, <1>a DEF Reply, Enters
  <2>2. c \in Tids /\ state[c] = BlockedCall(e)
    BY SMTT(30), <2>1, <1>b DEF ReplyOwed, TypeOK
  <2>3. \A t \in Tids : state'[t] = IF t = c THEN Ready ELSE Drained[t]
    BY Zenon, <2>1, <2>2, <1>b
  <2>4. \A f \in Eps : f # e => caller[f] # c
    BY SMTT(30), <2>2, <1>b, PlainKinds DEF ReplyOwed
  <2> HIDE DEF c
  <2>s. ASSUME NEW t \in Tids, t # c, state[t].is # "Reaping" PROVE state'[t] = state[t]
    <3>1. Drained[t] = state[t]
      BY Zenon, <2>s, <1>b
    <3> QED BY Zenon, <2>s, <2>3, <3>1
  <2>5. \A t \in Tids, f \in Eps : state[t] = BlockedCall(f) /\ t # c => state'[t] = BlockedCall(f)
    <3> SUFFICES ASSUME NEW t \in Tids, NEW f \in Eps, state[t] = BlockedCall(f), t # c
                 PROVE  state'[t] = BlockedCall(f)
      BY Zenon
    <3>1. state[t].is # "Reaping"
      BY Zenon, PlainKinds
    <3> QED BY Zenon, <3>1, <2>s
  <2>6. \A t \in Tids : Live(state[t]) => Live(state'[t])
    <3> SUFFICES ASSUME NEW t \in Tids, Live(state[t]) PROVE Live(state'[t])
      BY Zenon
    <3>1. CASE t = c
      <4>1. state'[t] = Ready
        BY Zenon, <3>1, <2>3
      <4> QED BY Zenon, <4>1, PlainKinds DEF Live, InTable
    <3>2. CASE t # c
      <4>1. state[t].is # "Reaping"
        BY Zenon DEF Live, InTable
      <4> QED BY Zenon, <3>2, <4>1, <2>s
    <3> QED BY Zenon, <3>1, <3>2
  <2>7. \A t \in Tids, f \in Eps : state'[t] = BlockedSend(f) <=> state[t] = BlockedSend(f)
    <3> SUFFICES ASSUME NEW t \in Tids, NEW f \in Eps
                 PROVE  state'[t] = BlockedSend(f) <=> state[t] = BlockedSend(f)
      BY Zenon
    <3>1. CASE t = c
      <4>1. state'[t] = Ready /\ state[t] = BlockedCall(e)
        BY Zenon, <3>1, <2>2, <2>3
      <4>2. Ready.is # BlockedSend(f).is /\ BlockedCall(e).is # BlockedSend(f).is
        BY DEF Plain, Ready, BlockedCall, BlockedSend
      <4> QED BY Zenon, <4>1, <4>2
    <3>2. CASE t # c /\ state[t].is # "Reaping"
      BY Zenon, <3>2, <2>s
    <3>3. CASE t # c /\ state[t].is = "Reaping"
      <4>1. state'[t] = Gone
        BY Zenon, <3>3, <2>3, <1>b
      <4>2. Gone.is # BlockedSend(f).is /\ BlockedSend(f).is # "Reaping"
        BY DEF Plain, Gone, BlockedSend
      <4> QED BY Zenon, <3>3, <4>1, <4>2
    <3> QED BY Zenon, <3>1, <3>2, <3>3
  <2>8. \A t \in Tids : state'[t].is = "BlockedRecv" => state'[t] = state[t]
    BY SMTT(30), <2>3, <1>b, PlainKinds
  <2>9. \A f \in Eps : Receivers(f)' \subseteq Receivers(f)
    BY <2>8 DEF Receivers
  <2>10. ReplyOwed'
    BY SMTT(30), <2>1, <2>4, <2>5, <2>6, <1>b DEF ReplyOwed, TypeOK
  <2>11. PendingExact'
    BY SMTT(30), <2>1, <2>7, <2>9 DEF PendingExact
  <2> QED BY <2>10, <2>11
<1> QED BY ZenonT(30), <1>1, <1>3, <1>4, <1>5, <1>6, <1>7, <1>8, <1>9, <1>10, <1>11, <1>12, <1>13,
           <1>14, <1>15, <1>16, <1>17, <1>18, <1>19, <1>20 DEF Next
=============================================================================
