---------------------------- MODULE KernelProofs ----------------------------
(***************************************************************************)
(* Theorems about Kernel for every number of tasks and endpoints, every    *)
(* quantum and every distribution of rights: the invariant of the four     *)
(* modules this one extends, and what follows from it.                     *)
(***************************************************************************)
EXTENDS KernelWaitProofs

-----------------------------------------------------------------------------
(* The dead, and readers of the keyboard *)

\* How a table s may differ from the current one: the dead get no livelier, the
\* current task is not torn down, nobody becomes a task to come, and of the
\* living only i parks for input and only o is woken from it.
Fates(s, i, o) ==
  \A t \in Tids :
    /\ state[t].is = "Zombie" => s[t].is \in {"Zombie", "Reaping", "Gone"}
    /\ state[t].is = "Reaping" => s[t].is \in {"Reaping", "Gone"}
    /\ state[t].is = "Gone" => s[t].is = "Gone"
    /\ state[t].is # "Gone" /\ s[t].is = "Gone" => t # cur
    /\ s[t].is = "New" => state[t].is = "New"
    /\ s[t].is = "BlockedInput" => state[t].is = "BlockedInput" \/ t = i
    /\ state[t].is = "BlockedInput" => s[t].is \in {"BlockedInput", "Zombie", "Reaping"} \/ t = o

\* Switching the CPU changes nobody's fate.
LEMMA FatesSwitched ==
  ASSUME NEW s, NEW i, NEW o, Switched(s), Fates(s, i, o)
  PROVE  Fates(state', i, o)
BY PlainKinds DEF Fates, Switched

\* Every step respects the dead; only a read parks for input and only a key
\* wakes the first registered reader.
LEMMA FateStep ==
  IInv /\ [Next]_vars =>
    \/ waiters' = waiters /\ Fates(state', NoTask, NoTask)
    \/ ReadPark /\ Fates(state', cur, NoTask)
    \/ Keyboard /\ waiters # <<>> /\ Fates(state', NoTask, Head(waiters))
<1> DEFINE Quiet == waiters' = waiters /\ Fates(state', NoTask, NoTask)
<1> SUFFICES ASSUME TypeOK, CurrentRuns, ReplyOwed, PendingExact, [Next]_vars
             PROVE  \/ Quiet
                    \/ ReadPark /\ Fates(state', cur, NoTask)
                    \/ Keyboard /\ waiters # <<>> /\ Fates(state', NoTask, Head(waiters))
  BY Zenon DEF IInv
<1>a. cur # NoTask => cur \in Tids
  BY Zenon DEF TypeOK
<1>b. /\ Drained \in [Tids -> TaskStates] /\ ready \in Seq(Tids) /\ NoTask \notin Tids
      /\ \A t \in Tids : \/ Drained[t] = state[t] /\ state[t].is # "Reaping"
                         \/ state[t].is = "Reaping" /\ Drained[t] = Gone
      /\ \A t \in Tids : Drained[t].is = "Running" <=> t = cur
      /\ \A t \in Tids : state[t].is = "Running" <=> t = cur
  BY DrainedFacts DEF TypeOK, CurrentRuns, NoTask, Tids
<1>c. Fates(Drained, NoTask, NoTask)
  BY Zenon, <1>b, PlainKinds DEF Fates
<1>d. ASSUME NEW x \in TaskStates, cur # NoTask, NEW i,
             x.is \in {"BlockedRecv", "BlockedSleep", "BlockedWait", "BlockedSend"}
             \/ (x.is = "BlockedInput" /\ i = cur),
             Handoff([Drained EXCEPT ![cur] = x], ready)
      PROVE  Fates(state', i, NoTask)
  <2> DEFINE s == [Drained EXCEPT ![cur] = x]
  <2>1. /\ cur \in Tids /\ s \in [Tids -> TaskStates]
        /\ \A t \in Tids : s[t] = IF t = cur THEN x ELSE Drained[t]
        /\ \A t \in Tids : s[t].is # "Running"
    BY Zenon, <1>d, ParkFacts
  <2>2. Handoff(s, ready)
    BY Zenon, <1>d
  <2> HIDE DEF s
  <2>3. Switched(s)
    BY Zenon, <1>b, <2>1, <2>2, HandoffFacts
  <2>4. Fates(s, i, NoTask)
    BY SMTT(30), <1>b, <1>d, <2>1, PlainKinds DEF Fates
  <2> QED BY Zenon, <2>3, <2>4, FatesSwitched
<1>e. ASSUME NEW s \in [Tids -> TaskStates], NEW v \in Tids, NEW c,
             state[v].is \notin {"New", "Reaping", "Gone"},
             \A t \in Tids : s[t] = state[t] \/ (state[t].is = "Reaping" /\ s[t] = Gone)
      PROVE  Fates(Terminated(s, v, c), NoTask, NoTask)
  <2> DEFINE T == Terminated(s, v, c)
  <2> SUFFICES ASSUME NEW t \in Tids
               PROVE  /\ state[t].is = "Zombie" => T[t].is \in {"Zombie", "Reaping", "Gone"}
                      /\ state[t].is = "Reaping" => T[t].is \in {"Reaping", "Gone"}
                      /\ state[t].is = "Gone" => T[t].is = "Gone"
                      /\ state[t].is # "Gone" /\ T[t].is = "Gone" => t # cur
                      /\ T[t].is = "New" => state[t].is = "New"
                      /\ T[t].is = "BlockedInput" => state[t].is = "BlockedInput"
                      /\ state[t].is = "BlockedInput" => T[t].is \in {"BlockedInput", "Zombie", "Reaping"}
    BY Zenon DEF Fates
  <2>1. \/ t = v /\ T[t].is \in {"Zombie", "Reaping"}
        \/ t # v /\ s[t].is = "Zombie" /\ T[t].is = "Reaping"
        \/ t # v /\ s[t].is \in {"BlockedCall", "BlockedWait"} /\ T[t].is = "Ready"
        \/ t # v /\ T[t] = s[t]
    BY TerminatedCases, PlainKinds
  <2> HIDE DEF T
  <2> QED BY SMTT(30), <1>b, <1>e, <2>1, PlainKinds
<1>1. ASSUME Yield PROVE Quiet
  <2>1. Switched(Drained) /\ waiters' = waiters
    BY ZenonT(30), <1>1, <1>b, RotateFacts DEF Yield, TypeOK, inputVars
  <2> QED BY Zenon, <2>1, <1>c, FatesSwitched
<1>2. ASSUME NEW s \in [Tids -> TaskStates], NEW c \in Codes, cur # NoTask,
             \A t \in Tids : s[t].is = "Running" <=> t = cur,
             \A t \in Tids : s[t] = state[t] \/ (state[t].is = "Reaping" /\ s[t] = Gone),
             Dies(s, c)
      PROVE  Quiet
  <2>1. PICK w \in WakeOrders(s, cur) : Handoff(Terminated(s, cur, c), w \o ready)
    BY Zenon, <1>2 DEF Dies
  <2>2. w \o ready \in Seq(Tids)
    BY Zenon, <1>2, <1>a, <1>b, WakeFacts, ConcatFacts
  <2>3. /\ Terminated(s, cur, c) \in [Tids -> TaskStates]
        /\ \A t \in Tids : Terminated(s, cur, c)[t].is # "Running"
    BY <1>2, <1>a, TerminatedFacts
  <2>4. Switched(Terminated(s, cur, c))
    BY ZenonT(30), <2>1, <2>2, <2>3, HandoffFacts
  <2>5. state[cur].is = "Running"
    BY Zenon, <1>2, <1>a, <1>b
  <2>6. Fates(Terminated(s, cur, c), NoTask, NoTask)
    BY Zenon, <1>2, <1>a, <1>e, <2>5
  <2> QED BY Zenon, <1>2, <2>4, <2>6, FatesSwitched DEF Dies, inputVars
<1>3. ASSUME Exit PROVE Quiet
  BY Zenon, <1>3, <1>2, <1>b DEF Exit, Enters, Codes
<1>4. ASSUME Fault PROVE Quiet
  BY Zenon, <1>4, <1>2 DEF Fault, Enters, Codes, TypeOK, CurrentRuns
<1>5. ASSUME Return PROVE Quiet
  BY Zenon, <1>5, <1>c DEF Return, inputVars
<1>6. ASSUME NEW v \in Tids, Kill(v) PROVE Quiet
  <2>1. state' = Terminated(Drained, v, "kill") /\ waiters' = waiters
    BY Zenon, <1>6 DEF Kill, inputVars
  <2>2. state[v].is \notin {"New", "Reaping", "Gone"}
    BY Zenon, <1>6 DEF Kill, InTable
  <2> QED BY Zenon, <2>1, <2>2, <1>b, <1>e
<1>7. ASSUME NEW u \in Tids, Spawn(u) PROVE Quiet
  <2>1. /\ state[u].is = "New" /\ state' = [Drained EXCEPT ![u] = Ready] /\ waiters' = waiters
    BY Zenon, <1>7 DEF Spawn, Smallest, inputVars
  <2>2. \A t \in Tids : state'[t] = IF t = u THEN Ready ELSE Drained[t]
    BY Zenon, <2>1, <1>b
  <2> QED BY ZenonT(30), <2>1, <2>2, <1>b, PlainKinds DEF Fates
<1>8. ASSUME NEW z \in Tids, WaitReap(z) PROVE Quiet
  <2>1. /\ state[z].is = "Zombie" /\ state' = [Drained EXCEPT ![z] = Gone] /\ waiters' = waiters
    BY Zenon, <1>8 DEF WaitReap, Smallest, ZombieChildren, inputVars
  <2>2. \A t \in Tids : state'[t] = IF t = z THEN Gone ELSE Drained[t]
    BY Zenon, <2>1, <1>b
  <2> QED BY ZenonT(30), <2>1, <2>2, <1>b, PlainKinds DEF Fates
<1>9. ASSUME WaitPark PROVE Quiet
  BY Zenon, <1>9, <1>d, ParkedStates DEF WaitPark, Enters, inputVars
<1>10. ASSUME NEW e \in Eps, NEW d \in {0} \cup Delays, RecvPark(e, d) PROVE Quiet
  BY ZenonT(30), <1>10, <1>d, ParkedStates DEF RecvPark, Enters, inputVars
<1>11. ASSUME NEW d \in Delays, Sleep(d) PROVE Quiet
  BY Zenon, <1>11, <1>d, ParkedStates DEF Sleep, Enters, inputVars
<1>12. ASSUME ReadPark PROVE Fates(state', cur, NoTask)
  BY Zenon, <1>12, <1>d, ParkedStates DEF ReadPark, Enters
<1>13. ASSUME ReadServed PROVE Quiet
  BY Zenon, <1>13, <1>c DEF ReadServed
<1>14. ASSUME NEW e \in Eps, CallQueue(e) PROVE Quiet
  BY Zenon, <1>14, <1>d, ParkedStates DEF CallQueue, Enters, inputVars
<1>15. ASSUME NEW e \in Eps, NEW r \in Tids, CallReceiver(e, r) PROVE Quiet
  <2> DEFINE s == [Drained EXCEPT ![r] = Ready, ![cur] = BlockedCall(e)]
  <2>1. cur \in Tids /\ state[r].is = "BlockedRecv" /\ waiters' = waiters
    BY Zenon, <1>15, <1>a DEF CallReceiver, Enters, Smallest, Receivers, inputVars
  <2>2. /\ s \in [Tids -> TaskStates]
        /\ \A t \in Tids : s[t] = IF t = cur THEN BlockedCall(e) ELSE IF t = r THEN Ready ELSE Drained[t]
    BY Zenon, <2>1, <1>b, ParkedStates
  <2>3. <<r>> \o ready \in Seq(Tids)
    BY Zenon, <1>b, SingletonFacts, ConcatFacts
  <2>4. Handoff(s, <<r>> \o ready)
    BY Zenon, <1>15 DEF CallReceiver
  <2> HIDE DEF s
  <2>5. \A t \in Tids : s[t].is # "Running"
    BY SMTT(30), <2>1, <2>2, <1>b, PlainKinds
  <2>6. Switched(s)
    BY ZenonT(30), <2>2, <2>3, <2>4, <2>5, HandoffFacts
  <2>7. Fates(s, NoTask, NoTask)
    BY SMTT(30), <2>1, <2>2, <1>b, PlainKinds DEF Fates
  <2> QED BY Zenon, <2>1, <2>6, <2>7, FatesSwitched
<1>16. ASSUME NEW e \in Eps, RecvQueued(e) PROVE Quiet
  <2> DEFINE h == Head(pending[e])
  <2>1. /\ pending[e] \in Seq(Tids) /\ pending[e] # <<>> /\ Distinct(pending[e])
        /\ waiters' = waiters /\ state' = [Drained EXCEPT ![h] = BlockedCall(e)]
    BY Zenon, <1>16 DEF RecvQueued, TypeOK, PendingExact, Distinct, inputVars
  <2>2. h \in Elements(pending[e]) /\ h \in Tids
    BY SMTT(30), <2>1, QueueEndFacts DEF Elements
  <2>3. state[h] = BlockedSend(e)
    BY Zenon, <2>2 DEF PendingExact
  <2> HIDE DEF h
  <2>4. \A t \in Tids : state'[t] = IF t = h THEN BlockedCall(e) ELSE Drained[t]
    BY Zenon, <2>1, <2>2, <1>b
  <2>5. state[h].is = "BlockedSend"
    BY SMTT(30), <2>3, PlainKinds
  <2> QED BY ZenonT(30), <2>1, <2>4, <2>5, <1>b, PlainKinds DEF Fates
<1>17. ASSUME NEW e \in Eps, Reply(e) PROVE Quiet
  <2> DEFINE c == caller[e]
  <2>1. cur \in Tids /\ server[e] = cur /\ waiters' = waiters
    BY Zenon, <1>17, <1>a DEF Reply, Enters, inputVars
  <2>2. c \in Tids /\ state[c] = BlockedCall(e)
    BY SMTT(30), <2>1, <1>b DEF ReplyOwed, TypeOK
  <2>3. state' = [Drained EXCEPT ![c] = Ready]
    BY ZenonT(30), <1>17, <2>2, <1>b DEF Reply
  <2> HIDE DEF c
  <2>4. \A t \in Tids : state'[t] = IF t = c THEN Ready ELSE Drained[t]
    BY ZenonT(30), <2>2, <2>3, <1>b
  <2>5. state[c].is = "BlockedCall"
    BY <2>2, PlainKinds
  <2> QED BY SMTT(30), <2>1, <2>4, <2>5, <1>b, PlainKinds DEF Fates
<1>18. ASSUME Timer PROVE Quiet
  <2>1. PICK w \in Descending(Expired) :
          IF since + 1 < Quantum
          THEN since' = since + 1 /\ state' = Ticked /\ ready' = w \o ready /\ cur' = cur
          ELSE since' = 0 /\ Rotate(Ticked, w \o ready)
    BY Zenon, <1>18 DEF Timer
  <2>2. w \o ready \in Seq(Tids)
    <3>1. Expired \in SUBSET Tids
      BY Zenon DEF Expired
    <3>2. w \in Seq(Tids)
      BY SMTT(30), <3>1, FiniteFacts, DescendingFacts
    <3> QED BY ZenonT(30), <3>2, <1>b, ConcatFacts
  <2>3. /\ Ticked \in [Tids -> TaskStates]
        /\ \A t \in Tids : Ticked[t].is = "Running" <=> t = cur
    BY Zenon, TickedFacts DEF CurrentRuns
  <2>4. Switched(Ticked)
    <3>1. CASE since + 1 < Quantum
      BY Zenon, <2>1, <3>1 DEF Switched
    <3>2. CASE ~(since + 1 < Quantum)
      BY ZenonT(30), <2>1, <2>2, <2>3, <3>2, RotateFacts DEF TypeOK
    <3> QED BY Zenon, <3>1, <3>2
  <2>5. ASSUME NEW t \in Tids
        PROVE  \/ Ticked[t] = Drained[t]
               \/ /\ state[t].is \in {"BlockedRecv", "BlockedSleep"}
                  /\ Ticked[t].is \in {"BlockedRecv", "BlockedSleep", "Ready"}
    <3>1. t \in Expired => state[t].is \in {"BlockedRecv", "BlockedSleep"}
      BY Zenon DEF Expired
    <3> QED BY Zenon, <3>1, TickedFacts, PlainKinds
  <2>6. Fates(Ticked, NoTask, NoTask)
    BY SMTT(30), <2>5, <1>b, PlainKinds DEF Fates
  <2> QED BY ZenonT(30), <1>18, <2>4, <2>6, FatesSwitched DEF Timer, inputVars
<1>19. ASSUME Keyboard
       PROVE  Quiet \/ (waiters # <<>> /\ Fates(state', NoTask, Head(waiters)))
  <2>1. CASE waiters = <<>>
    BY Zenon, <1>19, <2>1 DEF Keyboard, Fates
  <2>2. CASE waiters # <<>>
    <3> DEFINE h == Head(waiters)
    <3>1. h \in Tids
      BY SMTT(30), <2>2 DEF TypeOK
    <3>2. state' = IF state[h].is = "BlockedInput" THEN [state EXCEPT ![h] = Ready] ELSE state
      BY Zenon, <1>19, <2>2 DEF Keyboard
    <3> HIDE DEF h
    <3>3. \A t \in Tids : state'[t] = IF t = h /\ state[t].is = "BlockedInput" THEN Ready ELSE state[t]
      BY ZenonT(30), <3>1, <3>2 DEF TypeOK
    <3>4. Fates(state', NoTask, h)
      BY Zenon, <3>3, PlainKinds DEF Fates
    <3> QED BY Zenon, <2>2, <3>4 DEF h
  <2> QED BY Zenon, <2>1, <2>2
<1>20. ASSUME UNCHANGED vars PROVE Quiet
  BY Zenon, <1>20 DEF vars, Fates
<1> HIDE DEF Quiet
<1> QED BY ZenonT(30), <1>1, <1>3, <1>4, <1>5, <1>6, <1>7, <1>8, <1>9, <1>10, <1>11, <1>12, <1>13,
           <1>14, <1>15, <1>16, <1>17, <1>18, <1>19, <1>20 DEF Next

\* Every step keeps the keyboard's list of readers exact.
LEMMA InputStep == IInv /\ [Next]_vars => ReadersRegistered'
<1> SUFFICES ASSUME IInv, TypeOK, CurrentRuns, ReadersRegistered, QueueExact', [Next]_vars
             PROVE  ReadersRegistered'
  BY ZenonT(30), QueueStep DEF IInv
<1>1. waiters \in Seq(Tids) /\ Distinct(waiters) /\ Elements(waiters) \subseteq Tids
  BY SMTT(30) DEF TypeOK, ReadersRegistered, Distinct, Elements
<1>2. \A t \in Elements(waiters) :
        /\ state[t].is \in {"BlockedInput", "Zombie", "Reaping", "Gone"}
        /\ t \notin Elements(ready)
  BY Zenon DEF ReadersRegistered, Elements, Live, InTable
<1>3. \A t \in Tids : state[t].is = "BlockedInput" => t \in Elements(waiters)
  BY Zenon DEF ReadersRegistered
<1>4. Fresh \/ (waiters # <<>> /\ ready' = <<Head(waiters)>> \o ready /\ waiters' = Tail(waiters))
  BY Zenon, QueueStep
<1>5. SUFFICES /\ Distinct(waiters')
               /\ \A t \in Tids : state'[t].is = "BlockedInput" => t \in Elements(waiters')
               /\ \A t \in Elements(waiters') :
                    /\ state'[t].is \in {"BlockedInput", "Zombie", "Reaping", "Gone"}
                    /\ t \notin Elements(ready')
  <2>1. \A i \in DOMAIN waiters' : waiters'[i] \in Elements(waiters')
    BY Zenon DEF Elements
  <2> QED BY Zenon, <1>5, <2>1 DEF ReadersRegistered, Distinct, Live, InTable
<1>6. ASSUME NEW t \in Elements(waiters), Fresh,
             state'[t].is \in {"BlockedInput", "Zombie", "Reaping", "Gone"}
      PROVE  t \notin Elements(ready')
  BY ZenonT(30), <1>2, <1>6 DEF Fresh
<1>7. CASE waiters' = waiters /\ Fates(state', NoTask, NoTask)
  <2>1. \A t \in Tids : t # NoTask
    BY DEF Tids, NoTask
  <2>2. \A t \in Elements(waiters) : state'[t].is \in {"BlockedInput", "Zombie", "Reaping", "Gone"}
    BY Zenon, <1>1, <1>2, <1>7, <2>1 DEF Fates
  <2>3. Fresh
    <3>1. waiters # <<>> => waiters # Tail(waiters)
      BY SMTT(30), <1>1
    <3> QED BY Zenon, <1>4, <1>7, <3>1
  <2> QED BY Zenon, <1>1, <1>3, <1>6, <1>7, <2>1, <2>2, <2>3 DEF Fates
<1>8. CASE ReadPark /\ Fates(state', cur, NoTask)
  <2>1. cur \in Tids /\ waiters' = Append(waiters, cur) /\ state[cur].is = "Running"
    BY Zenon, <1>8 DEF ReadPark, Enters, TypeOK, CurrentRuns
  <2>2. cur \notin Elements(waiters)
    BY Zenon, <1>2, <2>1
  <2>3. Distinct(waiters') /\ Elements(waiters') = Elements(waiters) \cup {cur}
    BY ZenonT(30), <1>1, <2>1, <2>2, QueueEndFacts
  <2>4. \A t \in Tids : t # NoTask
    BY DEF Tids, NoTask
  <2>5. \A t \in Elements(waiters) : state'[t].is \in {"BlockedInput", "Zombie", "Reaping", "Gone"}
    BY ZenonT(30), <1>1, <1>2, <1>8, <2>4 DEF Fates
  <2>6. Fresh
    <3>1. waiters # <<>> => Append(waiters, cur) # Tail(waiters)
      BY <1>1, <2>1
    <3> QED BY Zenon, <1>4, <2>1, <3>1
  <2>7. state'[cur].is = "BlockedInput"
    <3> DEFINE s == [Drained EXCEPT ![cur] = BlockedInput]
    <3>1. s \in [Tids -> TaskStates] /\ s[cur] = BlockedInput /\ \A t \in Tids : s[t].is # "Running"
      BY Zenon, <1>8, ParkedStates, ParkFacts DEF ReadPark, Enters
    <3>2. Handoff(s, ready)
      BY Zenon, <1>8 DEF ReadPark
    <3> HIDE DEF s
    <3>3. Switched(s)
      BY ZenonT(30), <3>1, <3>2, HandoffFacts DEF TypeOK
    <3> QED BY ZenonT(30), <2>1, <3>1, <3>3, PlainKinds DEF Switched
  <2>8. cur \notin Elements(ready')
    BY Zenon, <2>7 DEF QueueExact
  <2> QED BY ZenonT(30), <1>1, <1>3, <1>6, <1>8, <2>3, <2>4, <2>5, <2>6, <2>7, <2>8 DEF Fates
<1>9. CASE Keyboard /\ waiters # <<>> /\ Fates(state', NoTask, Head(waiters))
  <2> DEFINE h == Head(waiters)
  <2>1. /\ Distinct(Tail(waiters)) /\ Elements(Tail(waiters)) = Elements(waiters) \ {h}
        /\ h \in Elements(waiters)
    BY Zenon, <1>1, <1>9, QueueEndFacts
  <2>2. /\ waiters' = Tail(waiters) /\ ready' = <<h>> \o ready
        /\ state' = IF state[h].is = "BlockedInput" THEN [state EXCEPT ![h] = Ready] ELSE state
    BY Zenon, <1>9 DEF Keyboard
  <2> DEFINE z == <<h>>
  <2>3. z \in Seq(Tids) /\ Elements(z) = {h} /\ ready' = z \o ready /\ ready \in Seq(Tids)
    BY ZenonT(30), <1>1, <2>1, <2>2, SingletonFacts DEF TypeOK
  <2> HIDE DEF z
  <2>4. Elements(ready') = {h} \cup Elements(ready)
    BY SMTT(30), <2>3, ConcatFacts
  <2> HIDE DEF h
  <2>5. \A t \in Tids : state'[t] = IF t = h /\ state[t].is = "BlockedInput" THEN Ready ELSE state[t]
    BY Zenon, <1>1, <2>1, <2>2 DEF TypeOK
  <2> QED BY SMTT(30), <1>1, <1>2, <1>3, <2>1, <2>2, <2>4, <2>5, PlainKinds
<1> QED BY ZenonT(30), <1>7, <1>8, <1>9, FateStep

-----------------------------------------------------------------------------
(* The theorems *)

\* The kernel starts with nothing owed, queued or registered.
LEMMA InvInit == Init => IInv
<1> SUFFICES ASSUME Init PROVE IInv
  BY Zenon
<1>1. TypeOK /\ CurrentRuns
  BY Zenon, TypeInit
<1>2. /\ \A t \in Tids : state[t] = IF t = 1 THEN Running ELSE IF t <= BootTasks THEN Ready ELSE New
      /\ Running.is = "Running" /\ Ready.is = "Ready" /\ New.is = "New"
  BY Zenon DEF Init, Running, Ready, New, Plain
<1>3. /\ BootTasks \in 1 .. MaxTid /\ MaxTid \in Nat
      /\ ready = [i \in 1 .. BootTasks - 1 |-> i + 1]
  BY Zenon, BoundsAssumption DEF Init
<1>4. QueueExact
  <2>1. \A t \in Tids : state[t].is = "Ready" => t \in Elements(ready)
    <3> SUFFICES ASSUME NEW t \in Tids, state[t].is = "Ready" PROVE t \in Elements(ready)
      BY Zenon
    <3>1. t \in 2 .. BootTasks
      BY <1>2, <1>3 DEF Tids
    <3>2. t - 1 \in DOMAIN ready /\ ready[t - 1] = t
      BY <1>3, <3>1
    <3> QED BY Zenon, <3>2 DEF Elements
  <2>2. \A t \in Elements(ready) : t \in 2 .. BootTasks
    BY <1>3 DEF Elements
  <2>3. \A t \in Elements(ready) : t \in Tids /\ state[t].is = "Ready"
    BY SMTT(30), <1>2, <1>3, <2>2 DEF Tids
  <2>4. \A i, j \in DOMAIN ready : ready[i] = ready[j] => i = j
    BY <1>3
  <2> QED BY Zenon, <2>1, <2>3, <2>4 DEF QueueExact
<1>5. ReplyOwed
  BY Zenon DEF Init, ReplyOwed
<1>6. PendingExact
  <2>1. \A t \in Tids, e \in Eps : state[t] # BlockedSend(e)
    BY SMTT(30), <1>2, PlainKinds
  <2> QED BY SMTT(30), <2>1 DEF Init, PendingExact, Elements
<1>7. WaitSound
  BY Zenon, <1>2 DEF Init, WaitSound
<1>8. IdsGrow
  BY SMTT(30), <1>2, <1>3 DEF IdsGrow, Tids
<1>9. ReadersRegistered
  BY SMTT(30), <1>2 DEF Init, ReadersRegistered, Elements
<1> QED BY Zenon, <1>1, <1>4, <1>5, <1>6, <1>7, <1>8, <1>9 DEF IInv

\* Everything the kernel promises of a state holds in every reachable one, for
\* any number of tasks and endpoints, any rights and any schedule.
THEOREM KernelInvariant == Spec => []IInv
<1>1. IInv /\ [Next]_vars => IInv'
  BY Zenon, TypeStep, QueueStep, IpcStep, WaitStep, InputStep DEF IInv
<1> QED BY InvInit, <1>1, PTL DEF Spec

\* Types, and one Running task: the one CURRENT names.
THEOREM KernelTypes == Spec => [](TypeOK /\ CurrentRuns)
<1>1. IInv => TypeOK /\ CurrentRuns
  BY Zenon DEF IInv
<1> QED BY <1>1, KernelInvariant, PTL

\* READY holds every runnable task, once.
THEOREM ReadyQueueExact == Spec => []QueueExact
<1>1. IInv => QueueExact
  BY Zenon DEF IInv
<1> QED BY <1>1, KernelInvariant, PTL

\* A reply is owed by a live server to a caller parked for it.
THEOREM RepliesOwed == Spec => []ReplyOwed
<1>1. IInv => ReplyOwed
  BY Zenon DEF IInv
<1> QED BY <1>1, KernelInvariant, PTL

\* The caller queues hold exactly the parked senders, and no receiver waits
\* beside a sender.
THEOREM NoMissedRendezvous == Spec => []PendingExact
<1>1. IInv => PendingExact
  BY Zenon DEF IInv
<1> QED BY <1>1, KernelInvariant, PTL

\* A wait() can always end, and nobody waits in a circle.
THEOREM WaitsSound == Spec => []WaitSound
<1>1. IInv => WaitSound
  BY Zenon DEF IInv
<1> QED BY <1>1, KernelInvariant, PTL

\* The keyboard's list of readers is exact.
THEOREM ReadersExact == Spec => []ReadersRegistered
<1>1. IInv => ReadersRegistered
  BY Zenon DEF IInv
<1> QED BY <1>1, KernelInvariant, PTL

\* No trap tears down the task whose kernel stack it runs on.
THEOREM NeverReclaimsUnderfoot == Spec => NoReclaimUnderfoot
<1>1. IInv /\ [Next]_vars =>
        [\A t \in Tids : state[t].is # "Gone" /\ state'[t].is = "Gone" => t # cur]_vars
  BY Zenon, FateStep DEF Fates
<1> QED BY <1>1, KernelInvariant, PTL DEF Spec, NoReclaimUnderfoot

\* No step brings a dead task back.
THEOREM DeadStayDead == Spec => DeadStaysDead
<1>1. IInv /\ [Next]_vars =>
        [\A t \in Tids :
           /\ state[t].is = "Zombie" => state'[t].is \in {"Zombie", "Reaping", "Gone"}
           /\ state[t].is = "Reaping" => state'[t].is \in {"Reaping", "Gone"}
           /\ state[t].is = "Gone" => state'[t].is = "Gone"]_vars
  BY Zenon, FateStep DEF Fates
<1> QED BY <1>1, KernelInvariant, PTL DEF Spec, DeadStaysDead

-----------------------------------------------------------------------------
(* What wait() reports *)

\* The reported have left the table, and a zombie has a code to report.
Told ==
  \A t \in Tids : /\ reported[t] # "none" => state[t].is \in {"Reaping", "Gone"}
                  /\ state[t].is = "Zombie" => state[t].code # "none"

\* How a table s differs from the current one when nobody ends and no wait()
\* returns.
Keeps(s) ==
  \A t \in Tids :
    /\ InTable(state[t]) => InTable(s[t])
    /\ s[t].is = "Zombie" => s[t] = state[t]
    /\ state[t].is = "BlockedWait" => s[t].is = "BlockedWait"

\* Switching the CPU ends nobody.
LEMMA KeepsSwitched ==
  ASSUME NEW s, Switched(s), Keeps(s)
  PROVE  Keeps(state')
BY Zenon, PlainKinds DEF Keeps, Switched, InTable

\* Only exit, a fault, kill and a wait() that reaps end a task or report one.
LEMMA KeepsStep ==
  IInv /\ [Next]_vars =>
    \/ Exit \/ Fault \/ (\E v \in Tids : Kill(v)) \/ (\E z \in Tids : WaitReap(z))
    \/ reported' = reported /\ Keeps(state')
<1> DEFINE Quiet == reported' = reported /\ Keeps(state')
<1> SUFFICES ASSUME TypeOK, CurrentRuns, ReplyOwed, PendingExact, [Next]_vars
             PROVE  \/ Exit \/ Fault \/ (\E v \in Tids : Kill(v)) \/ (\E z \in Tids : WaitReap(z))
                    \/ Quiet
  BY Zenon DEF IInv
<1>a. cur # NoTask => cur \in Tids /\ state[cur].is = "Running"
  BY Zenon DEF TypeOK, CurrentRuns
<1>b. /\ Drained \in [Tids -> TaskStates] /\ ready \in Seq(Tids) /\ NoTask \notin Tids
      /\ \A t \in Tids : \/ Drained[t] = state[t] /\ state[t].is # "Reaping"
                         \/ state[t].is = "Reaping" /\ Drained[t] = Gone
      /\ \A t \in Tids : Drained[t].is = "Running" <=> t = cur
  BY DrainedFacts DEF TypeOK, CurrentRuns, NoTask, Tids
<1>c. Keeps(Drained)
  BY Zenon, <1>b, PlainKinds DEF Keeps, InTable
<1>d. ASSUME NEW x \in TaskStates, cur # NoTask, reported' = reported,
             x.is \in {"BlockedRecv", "BlockedSleep", "BlockedWait", "BlockedSend", "BlockedInput"},
             Handoff([Drained EXCEPT ![cur] = x], ready)
      PROVE  Quiet
  <2> DEFINE s == [Drained EXCEPT ![cur] = x]
  <2>1. /\ cur \in Tids /\ s \in [Tids -> TaskStates]
        /\ \A t \in Tids : s[t] = IF t = cur THEN x ELSE Drained[t]
        /\ \A t \in Tids : s[t].is # "Running"
    BY Zenon, <1>d, ParkFacts
  <2>2. Handoff(s, ready)
    BY Zenon, <1>d
  <2> HIDE DEF s
  <2>3. Switched(s)
    BY Zenon, <1>b, <2>1, <2>2, HandoffFacts
  <2>4. Keeps(s)
    BY SMTT(30), <1>a, <1>c, <1>d, <2>1 DEF Keeps, InTable
  <2> QED BY Zenon, <1>d, <2>3, <2>4, KeepsSwitched
<1>e. ASSUME NEW u \in Tids, NEW x \in TaskStates, state' = [Drained EXCEPT ![u] = x],
             reported' = reported, state[u].is \notin {"BlockedWait", "Zombie"},
             InTable(x), x.is # "Zombie"
      PROVE  Quiet
  <2>1. \A t \in Tids : state'[t] = IF t = u THEN x ELSE Drained[t]
    BY Zenon, <1>b, <1>e
  <2> QED BY ZenonT(30), <1>c, <1>e, <2>1 DEF Keeps
<1>f. /\ InTable(Ready) /\ Ready \in TaskStates /\ Ready.is # "Zombie"
      /\ \A e \in Eps : /\ InTable(BlockedCall(e)) /\ BlockedCall(e) \in TaskStates
                        /\ BlockedCall(e).is # "Zombie"
  BY Zenon, ParkedStates DEF InTable
<1>1. ASSUME Yield PROVE Quiet
  <2>1. Switched(Drained) /\ reported' = reported
    BY ZenonT(30), <1>1, <1>b, RotateFacts DEF Yield, TypeOK
  <2> QED BY Zenon, <2>1, <1>c, KeepsSwitched
<1>5. ASSUME Return PROVE Quiet
  BY Zenon, <1>5, <1>c DEF Return
<1>7. ASSUME NEW u \in Tids, Spawn(u) PROVE Quiet
  <2>1. state[u].is = "New" /\ state' = [Drained EXCEPT ![u] = Ready] /\ reported' = reported
    BY Zenon, <1>7 DEF Spawn, Smallest
  <2> QED BY Zenon, <2>1, <1>e, <1>f
<1>9. ASSUME WaitPark PROVE Quiet
  BY Zenon, <1>9, <1>d, ParkedStates DEF WaitPark, Enters
<1>10. ASSUME NEW e \in Eps, NEW d \in {0} \cup Delays, RecvPark(e, d) PROVE Quiet
  BY ZenonT(30), <1>10, <1>d, ParkedStates DEF RecvPark, Enters
<1>11. ASSUME NEW d \in Delays, Sleep(d) PROVE Quiet
  BY Zenon, <1>11, <1>d, ParkedStates DEF Sleep, Enters
<1>12. ASSUME ReadPark PROVE Quiet
  BY Zenon, <1>12, <1>d, ParkedStates DEF ReadPark, Enters
<1>13. ASSUME ReadServed PROVE Quiet
  BY Zenon, <1>13, <1>c DEF ReadServed
<1>14. ASSUME NEW e \in Eps, CallQueue(e) PROVE Quiet
  BY Zenon, <1>14, <1>d, ParkedStates DEF CallQueue, Enters
<1>15. ASSUME NEW e \in Eps, NEW r \in Tids, CallReceiver(e, r) PROVE Quiet
  <2> DEFINE s == [Drained EXCEPT ![r] = Ready, ![cur] = BlockedCall(e)]
  <2>1. /\ cur \in Tids /\ state[r].is = "BlockedRecv" /\ reported' = reported
        /\ state[cur].is = "Running"
    BY Zenon, <1>15, <1>a DEF CallReceiver, Enters, Smallest, Receivers
  <2>2. /\ s \in [Tids -> TaskStates]
        /\ \A t \in Tids : s[t] = IF t = cur THEN BlockedCall(e) ELSE IF t = r THEN Ready ELSE Drained[t]
    BY Zenon, <2>1, <1>b, ParkedStates
  <2>3. <<r>> \o ready \in Seq(Tids)
    BY Zenon, <1>b, SingletonFacts, ConcatFacts
  <2>4. Handoff(s, <<r>> \o ready)
    BY Zenon, <1>15 DEF CallReceiver
  <2> HIDE DEF s
  <2>5. \A t \in Tids : s[t].is # "Running"
    BY SMTT(30), <2>1, <2>2, <1>b, PlainKinds
  <2>6. Switched(s)
    BY ZenonT(30), <2>2, <2>3, <2>4, <2>5, HandoffFacts
  <2>7. Keeps(s)
    BY SMTT(30), <2>1, <2>2, <1>c, PlainKinds DEF Keeps, InTable
  <2> QED BY Zenon, <2>1, <2>6, <2>7, KeepsSwitched
<1>16. ASSUME NEW e \in Eps, RecvQueued(e) PROVE Quiet
  <2> DEFINE h == Head(pending[e])
  <2>1. /\ pending[e] \in Seq(Tids) /\ pending[e] # <<>> /\ Distinct(pending[e])
        /\ reported' = reported /\ state' = [Drained EXCEPT ![h] = BlockedCall(e)]
    BY Zenon, <1>16 DEF RecvQueued, TypeOK, PendingExact, Distinct
  <2>2. h \in Elements(pending[e]) /\ h \in Tids
    BY SMTT(30), <2>1, QueueEndFacts DEF Elements
  <2>3. state[h] = BlockedSend(e)
    BY Zenon, <2>2 DEF PendingExact
  <2> HIDE DEF h
  <2>4. state[h].is \notin {"BlockedWait", "Zombie"}
    BY SMTT(30), <2>3, PlainKinds
  <2> QED BY Zenon, <2>1, <2>2, <2>4, <1>e, <1>f
<1>17. ASSUME NEW e \in Eps, Reply(e) PROVE Quiet
  <2> DEFINE c == caller[e]
  <2>1. cur \in Tids /\ server[e] = cur /\ reported' = reported
    BY Zenon, <1>17, <1>a DEF Reply, Enters
  <2>2. c \in Tids /\ state[c] = BlockedCall(e)
    BY SMTT(30), <2>1, <1>b DEF ReplyOwed, TypeOK
  <2>3. state' = [Drained EXCEPT ![c] = Ready]
    BY ZenonT(30), <1>17, <2>2, <1>b DEF Reply
  <2> HIDE DEF c
  <2>4. state[c].is \notin {"BlockedWait", "Zombie"}
    BY SMTT(30), <2>2, PlainKinds
  <2> QED BY Zenon, <2>1, <2>2, <2>3, <2>4, <1>e, <1>f
<1>18. ASSUME Timer PROVE Quiet
  <2>1. PICK w \in Descending(Expired) :
          IF since + 1 < Quantum
          THEN since' = since + 1 /\ state' = Ticked /\ ready' = w \o ready /\ cur' = cur
          ELSE since' = 0 /\ Rotate(Ticked, w \o ready)
    BY Zenon, <1>18 DEF Timer
  <2>2. w \o ready \in Seq(Tids)
    <3>1. Expired \in SUBSET Tids
      BY Zenon DEF Expired
    <3>2. w \in Seq(Tids)
      BY SMTT(30), <3>1, FiniteFacts, DescendingFacts
    <3> QED BY ZenonT(30), <3>2, <1>b, ConcatFacts
  <2>3. /\ Ticked \in [Tids -> TaskStates]
        /\ \A t \in Tids : Ticked[t].is = "Running" <=> t = cur
    BY Zenon, TickedFacts DEF CurrentRuns
  <2>4. Switched(Ticked)
    <3>1. CASE since + 1 < Quantum
      BY Zenon, <2>1, <3>1 DEF Switched
    <3>2. CASE ~(since + 1 < Quantum)
      BY ZenonT(30), <2>1, <2>2, <2>3, <3>2, RotateFacts DEF TypeOK
    <3> QED BY Zenon, <3>1, <3>2
  <2>5. ASSUME NEW t \in Tids
        PROVE  \/ Ticked[t] = Drained[t]
               \/ /\ state[t].is \in {"BlockedRecv", "BlockedSleep"}
                  /\ Ticked[t].is \in {"BlockedRecv", "BlockedSleep", "Ready"}
    <3>1. t \in Expired => state[t].is \in {"BlockedRecv", "BlockedSleep"}
      BY Zenon DEF Expired
    <3> QED BY Zenon, <3>1, TickedFacts, PlainKinds
  <2>6. Keeps(Ticked)
    BY SMTT(30), <2>5, <1>c DEF Keeps, InTable
  <2> QED BY ZenonT(30), <1>18, <2>4, <2>6, KeepsSwitched DEF Timer
<1>19. ASSUME Keyboard PROVE Quiet
  <2>1. CASE waiters = <<>>
    BY Zenon, <1>19, <2>1 DEF Keyboard, Keeps
  <2>2. CASE waiters # <<>>
    <3> DEFINE h == Head(waiters)
    <3>1. h \in Tids
      BY SMTT(30), <2>2 DEF TypeOK
    <3>2. /\ state' = IF state[h].is = "BlockedInput" THEN [state EXCEPT ![h] = Ready] ELSE state
          /\ reported' = reported
      BY Zenon, <1>19, <2>2 DEF Keyboard
    <3> HIDE DEF h
    <3>3. \A t \in Tids : state'[t] = IF t = h /\ state[t].is = "BlockedInput" THEN Ready ELSE state[t]
      BY ZenonT(30), <3>1, <3>2 DEF TypeOK
    <3>4. Keeps(state')
      BY SMTT(30), <3>3, PlainKinds DEF Keeps, InTable
    <3> QED BY Zenon, <3>2, <3>4
  <2> QED BY Zenon, <2>1, <2>2
<1>20. ASSUME UNCHANGED vars PROVE Quiet
  BY Zenon, <1>20 DEF vars, Keeps
<1> HIDE DEF Quiet
<1> QED BY ZenonT(30), <1>1, <1>5, <1>7, <1>9, <1>10, <1>11, <1>12, <1>13,
           <1>14, <1>15, <1>16, <1>17, <1>18, <1>19, <1>20 DEF Next

\* The end of task v, by its own exit or fault or by its parent's kill, is
\* reported as it should be.
LEMMA ReportedEnd ==
  ASSUME TypeOK, CurrentRuns, WaitSound, WaitSound', Told, cur \in Tids,
         NEW s \in [Tids -> TaskStates], NEW v \in Tids, NEW c \in Codes, InTable(state[v]),
         \A t \in Tids : s[t] = state[t] \/ (state[t].is = "Reaping" /\ s[t] = Gone),
         \/ v = cur /\ c \in {"exit", "fault"}
         \/ parent[v] = cur /\ c = "kill",
         Switched(Terminated(s, v, c)), Unlinks(s, v), Reports(s, v, c)
  PROVE  Told' /\ \A k \in Tids : ReportedRightly(k)
<1> DEFINE T == Terminated(s, v, c)
           p == parent[v]
<1>a. NoTask \notin Tids
  BY DEF NoTask, Tids
<1>b. p # NoTask => p \in Tids /\ p # v /\ Live(state[p]) /\ s[p] = state[p]
  <2>1. p # NoTask => p \in Tids /\ p < v /\ Live(state[p])
    BY SMTT(30) DEF TypeOK, WaitSound
  <2>2. p # NoTask => p # v
    BY SMTT(30), <2>1, BoundsAssumption DEF Tids
  <2> QED BY Zenon, <2>1, <2>2 DEF Live, InTable
<1>c. s[v] = state[v] /\ reported[v] = "none" /\ state[cur].is = "Running"
  BY Zenon DEF Told, InTable, CurrentRuns
<1>d. \A t \in Tids : reported'[t] = IF t = v /\ Delivers(s, v) THEN c ELSE reported[t]
  BY Zenon DEF Reports, TypeOK
<1>e. Delivers(s, v) => v = cur /\ p # NoTask /\ state[p].is = "BlockedWait" /\ c \in {"exit", "fault"}
  BY SMTT(30), <1>b, <1>c DEF Delivers
<1>f. T[v] = IF Lingers(s, v) THEN Zombie(c) ELSE Reaping
  BY Zenon DEF Terminated
<1>g. Lingers(s, v) <=> p # NoTask /\ ~Delivers(s, v)
  BY Zenon, <1>b DEF Lingers, Live
<1>h. ASSUME NEW t \in Tids, t # v
      PROVE  \/ s[t].is = "Zombie" /\ T[t] = Reaping /\ parent[t] = v
             \/ s[t].is = "BlockedCall" /\ T[t] = Ready
             \/ s[t].is = "BlockedWait" /\ T[t] = Ready /\ t = p /\ Delivers(s, v)
             \/ T[t] = s[t] /\ ~(t = p /\ Delivers(s, v))
  BY SMTT(30), <1>h, TerminatedCases DEF OrphanedZombies, Orphans
<1>i. \A t \in Tids : \/ state'[t] = T[t]
                      \/ T[t] = Ready /\ state'[t] = Running
                      \/ T[t] = Running /\ state'[t] = Ready
  BY Zenon DEF Switched
<1> HIDE DEF T
<1>j. Zombie(c).code = c /\ c # "none"
  BY SMTT(30) DEF Zombie
<1>1. ASSUME NEW k \in Tids, reported'[k] # reported[k]
      PROVE  /\ reported[k] = "none" /\ parent[k] # NoTask /\ ~InTable(state'[k])
             /\ k = cur /\ reported'[k] \in {"exit", "fault"}
             /\ state[parent[k]].is = "BlockedWait"
             /\ state'[parent[k]].is \in {"Ready", "Running"}
  <2>1. k = v /\ Delivers(s, v)
    BY Zenon, <1>1, <1>d
  <2>2. T[v] = Reaping /\ state'[v] = Reaping
    BY ZenonT(30), <2>1, <1>f, <1>g, <1>i, PlainKinds
  <2>3. T[p] = Ready /\ state'[p].is \in {"Ready", "Running"}
    BY SMTT(30), <2>1, <1>b, <1>e, <1>h, <1>i, PlainKinds
  <2> QED BY ZenonT(30), <2>1, <2>2, <2>3, <1>c, <1>d, <1>e, PlainKinds DEF InTable
<1>2. ASSUME NEW k \in Tids, InTable(state[k]), ~InTable(state'[k]), reported'[k] = "none"
      PROVE  parent[k] = NoTask \/ ~Live(state'[parent[k]])
  <2>1. CASE k = v
    <3>1. ~Delivers(s, v)
      BY ZenonT(30), <1>2, <2>1, <1>d, <1>j
    <3>2. ~Lingers(s, v)
      BY SMTT(30), <1>2, <2>1, <1>f, <1>i, PlainKinds DEF InTable
    <3> QED BY Zenon, <2>1, <3>1, <3>2, <1>g
  <2>2. CASE k # v
    <3>1. s[k] = state[k]
      BY Zenon, <1>2 DEF InTable
    <3>2. T[k] = Reaping /\ parent[k] = v
      BY ZenonT(30), <1>2, <2>2, <3>1, <1>h, <1>i, PlainKinds DEF InTable
    <3>3. state'[v].is \in {"Zombie", "Reaping"}
      BY SMTT(30), <1>f, <1>i, PlainKinds
    <3> QED BY Zenon, <3>2, <3>3 DEF Live, InTable
  <2> QED BY Zenon, <2>1, <2>2
<1>3. ASSUME NEW k \in Tids, state'[k].is = "Zombie"
      PROVE  \/ state'[k] = state[k]
             \/ k = cur /\ state'[k].code \in {"exit", "fault"}
             \/ parent[k] = cur /\ state'[k].code = "kill"
  <2>1. state'[k] = T[k]
    BY ZenonT(30), <1>3, <1>i, PlainKinds
  <2>2. CASE k = v
    <3>1. state'[k] = Zombie(c)
      BY ZenonT(30), <1>3, <2>1, <2>2, <1>f, PlainKinds
    <3>2. state'[k].code = c
      BY Zenon, <3>1, <1>j
    <3> QED BY Zenon, <2>2, <3>2
  <2>3. CASE k # v
    <3>1. T[k] = s[k]
      BY ZenonT(30), <1>3, <2>1, <2>3, <1>h, PlainKinds
    <3> QED BY ZenonT(30), <1>3, <2>1, <3>1, PlainKinds
  <2> QED BY Zenon, <2>2, <2>3
<1>4. ASSUME NEW k \in Tids, state'[k].is = "Zombie"
      PROVE  /\ parent'[k] # NoTask /\ Live(state'[parent'[k]])
             /\ state'[parent'[k]].is # "BlockedWait"
  <2>1. parent'[k] # NoTask /\ Live(state'[parent'[k]])
    BY Zenon, <1>4 DEF WaitSound
  <2>2. parent'[k] \in Tids
    <3>1. parent' \in [Tids -> Tids \cup {NoTask}]
      BY Zenon, UnlinksType
    <3> QED BY Zenon, <3>1, <2>1
  <2> QED BY SMTT(30), <1>4, <2>1, <2>2 DEF WaitSound
<1>5. ASSUME NEW k \in Tids, state[k].is = "BlockedWait", state'[k].is \in {"Ready", "Running"}
      PROVE  \E d \in Tids : parent[d] = k /\ reported'[d] # reported[d]
  <2>1. s[k] = state[k]
    BY Zenon, <1>5
  <2>2. k # v
    BY SMTT(30), <1>5, <1>f, <1>i, PlainKinds
  <2>3. k = p /\ Delivers(s, v)
    BY ZenonT(30), <1>5, <2>1, <2>2, <1>h, <1>i, PlainKinds
  <2>4. reported'[v] # reported[v]
    BY Zenon, <2>3, <1>c, <1>d, <1>j
  <2> QED BY Zenon, <2>3, <2>4
<1>6. ASSUME NEW k \in Tids PROVE ReportedRightly(k)
  BY Zenon, <1>1, <1>2, <1>3, <1>4, <1>5 DEF ReportedRightly
<1>7. ASSUME NEW t \in Tids, reported'[t] # "none" PROVE state'[t].is \in {"Reaping", "Gone"}
  <2>1. CASE reported'[t] # reported[t]
    <3>1. t = v /\ Delivers(s, v)
      BY Zenon, <2>1, <1>d
    <3> QED BY ZenonT(30), <3>1, <1>f, <1>g, <1>i, PlainKinds
  <2>2. CASE reported'[t] = reported[t]
    <3>1. state[t].is \in {"Reaping", "Gone"} /\ t # v
      BY Zenon, <1>7, <2>2, <1>c DEF Told
    <3>2. s[t].is \in {"Reaping", "Gone"}
      BY Zenon, <3>1, PlainKinds
    <3>3. T[t] = s[t]
      BY ZenonT(30), <3>1, <3>2, <1>h
    <3> QED BY ZenonT(30), <3>2, <3>3, <1>i, PlainKinds
  <2> QED BY Zenon, <2>1, <2>2
<1>8. ASSUME NEW t \in Tids, state'[t].is = "Zombie" PROVE state'[t].code # "none"
  BY ZenonT(30), <1>3, <1>8 DEF Told
<1> QED BY Zenon, <1>6, <1>7, <1>8 DEF Told

\* Every step reports as it should.
LEMMA ReportStep ==
  IInv /\ Told /\ [Next]_vars => Told' /\ \A k \in Tids : ReportedRightly(k)
<1> DEFINE Goal == Told' /\ \A k \in Tids : ReportedRightly(k)
<1> SUFFICES ASSUME IInv, Told, [Next]_vars, TypeOK, CurrentRuns, WaitSound, WaitSound', TypeOK'
             PROVE  Goal
  BY Zenon, TypeStep, WaitStep DEF IInv
<1>a. cur # NoTask => cur \in Tids /\ state[cur].is = "Running"
  BY Zenon DEF TypeOK, CurrentRuns
<1>b. /\ Drained \in [Tids -> TaskStates] /\ ready \in Seq(Tids)
      /\ \A t \in Tids : Drained[t] = state[t] \/ (state[t].is = "Reaping" /\ Drained[t] = Gone)
      /\ \A t \in Tids : Drained[t].is = "Running" <=> t = cur
  BY Zenon, DrainedFacts DEF TypeOK, CurrentRuns
<1>c. \A t \in Tids : state[t].is \in {"Reaping", "Gone"} => state'[t].is \in {"Reaping", "Gone"}
  BY Zenon, FateStep DEF Fates
<1>d. ASSUME NEW k \in Tids, state'[k].is = "Zombie"
      PROVE  /\ parent'[k] # NoTask /\ Live(state'[parent'[k]])
             /\ state'[parent'[k]].is # "BlockedWait"
  <2>1. parent'[k] # NoTask /\ Live(state'[parent'[k]])
    BY Zenon, <1>d DEF WaitSound
  <2>2. parent'[k] \in Tids
    BY Zenon, <2>1 DEF TypeOK
  <2> QED BY SMTT(30), <1>d, <2>1, <2>2 DEF WaitSound
<1>1. ASSUME reported' = reported, Keeps(state') PROVE Goal
  <2>1. \A k \in Tids : ReportedRightly(k)
    BY ZenonT(30), <1>1, <1>d DEF Keeps, ReportedRightly
  <2>2. Told'
    BY ZenonT(30), <1>1, <1>c DEF Told, Keeps
  <2> QED BY Zenon, <2>1, <2>2
<1>2. ASSUME NEW s \in [Tids -> TaskStates], NEW c \in {"exit", "fault"}, cur # NoTask,
             \A t \in Tids : s[t].is = "Running" <=> t = cur,
             \A t \in Tids : s[t] = state[t] \/ (state[t].is = "Reaping" /\ s[t] = Gone),
             Dies(s, c)
      PROVE  Goal
  <2>a. c \in Codes
    BY Zenon DEF Codes
  <2>1. PICK w \in WakeOrders(s, cur) : Handoff(Terminated(s, cur, c), w \o ready)
    BY Zenon, <1>2 DEF Dies
  <2>2. w \o ready \in Seq(Tids)
    BY ZenonT(30), <1>2, <1>a, <1>b, WakeFacts, ConcatFacts
  <2>3. /\ Terminated(s, cur, c) \in [Tids -> TaskStates]
        /\ \A t \in Tids : Terminated(s, cur, c)[t].is # "Running"
    BY SMTT(30), <1>2, <1>a, <2>a, TerminatedFacts
  <2>4. Switched(Terminated(s, cur, c))
    BY ZenonT(30), <2>1, <2>2, <2>3, HandoffFacts
  <2>5. InTable(state[cur]) /\ Unlinks(s, cur) /\ Reports(s, cur, c)
    BY Zenon, <1>2, <1>a DEF Dies, InTable
  <2> QED BY ZenonT(30), <1>2, <1>a, <2>a, <2>4, <2>5, ReportedEnd
<1>3. ASSUME Exit PROVE Goal
  BY Zenon, <1>3, <1>2, <1>b DEF Exit, Enters
<1>4. ASSUME Fault PROVE Goal
  BY ZenonT(30), <1>4, <1>2 DEF Fault, Enters, TypeOK, CurrentRuns
<1>5. ASSUME NEW v \in Tids, Kill(v) PROVE Goal
  <2>1. /\ cur \in Tids /\ InTable(state[v]) /\ parent[v] = cur
        /\ Switched(Terminated(Drained, v, "kill"))
        /\ Unlinks(Drained, v) /\ Reports(Drained, v, "kill") /\ "kill" \in Codes
    BY Zenon, <1>5, <1>a DEF Kill, Enters, Switched, Codes
  <2> QED BY ZenonT(30), <1>b, <2>1, ReportedEnd
<1>6. ASSUME NEW z \in Tids, WaitReap(z) PROVE Goal
  <2>1. /\ state[z].is = "Zombie" /\ parent[z] = cur /\ cur # NoTask
        /\ state' = [Drained EXCEPT ![z] = Gone]
        /\ reported' = [reported EXCEPT ![z] = state[z].code]
    BY Zenon, <1>6 DEF WaitReap, Enters, Smallest, ZombieChildren, Children
  <2>2. /\ \A t \in Tids : state'[t] = IF t = z THEN Gone ELSE Drained[t]
        /\ \A t \in Tids : reported'[t] = IF t = z THEN state[z].code ELSE reported[t]
    BY Zenon, <2>1, <1>b DEF TypeOK
  <2>3. reported[z] = "none" /\ state[z].code # "none"
    BY Zenon, <2>1 DEF Told
  <2>4. /\ state'[z].is = "Gone"
        /\ \A t \in Tids : t # z /\ InTable(state[t]) => state'[t] = state[t]
        /\ \A t \in Tids : state'[t].is = "Zombie" => state'[t] = state[t]
        /\ \A t \in Tids : state[t].is = "BlockedWait" => state'[t].is = "BlockedWait"
    BY SMTT(30), <2>1, <2>2, <1>b, PlainKinds DEF InTable
  <2>5. ASSUME NEW k \in Tids PROVE ReportedRightly(k)
    <3>1. reported'[k] # reported[k] =>
            /\ reported[k] = "none" /\ parent[k] # NoTask /\ ~InTable(state'[k])
            /\ parent[k] = cur /\ state[k].is = "Zombie" /\ reported'[k] = state[k].code
      BY ZenonT(30), <2>1, <2>2, <2>3, <2>4 DEF InTable
    <3>2. ~(InTable(state[k]) /\ ~InTable(state'[k]) /\ reported'[k] = "none")
      BY ZenonT(30), <2>2, <2>3, <2>4
    <3>3. ~(state[k].is = "BlockedWait" /\ state'[k].is \in {"Ready", "Running"})
      BY ZenonT(30), <2>4
    <3> QED BY ZenonT(30), <3>1, <3>2, <3>3, <2>4, <1>d DEF ReportedRightly
  <2>6. Told'
    BY ZenonT(30), <2>2, <2>4, <1>c DEF Told
  <2> QED BY Zenon, <2>5, <2>6
<1> HIDE DEF Goal
<1> QED BY Zenon, <1>1, <1>3, <1>4, <1>5, <1>6, KeepsStep

\* wait() reports the end of every child once, to its parent and with the code
\* it ended with, however many tasks there are and whoever ends first.
THEOREM ExitsReported == Spec => ExitReported
<1>1. Init => Told
  <2> SUFFICES ASSUME Init PROVE Told
    BY Zenon
  <2>1. \A t \in Tids : state[t].is \in {"Running", "Ready", "New"} /\ reported[t] = "none"
    BY Zenon DEF Init, Running, Ready, New, Plain
  <2> QED BY Zenon, <2>1 DEF Told
<1>2. IInv /\ Told /\ [Next]_vars => Told' /\ [\A k \in Tids : ReportedRightly(k)]_vars
  BY Zenon, ReportStep
<1> QED BY <1>1, <1>2, KernelInvariant, PTL DEF Spec, ExitReported

-----------------------------------------------------------------------------
(* No caller is stranded where tasks do not receive side by side *)

\* No two tasks are parked to receive on one endpoint.  The rights do not ensure
\* it (the kernel gives initfs R_READ on fs, cfg, sup and info, and initfs passes
\* it on); the programs do: initfs receives on fs, storaged on info and cfg, supd
\* on sup, the console on stdin and out, nobody else receives, and each of these
\* is started once, at boot.
OneReceiver == \A e \in Eps : \A t, u \in Receivers(e) : t = u

\* What must be known of receivers for the callers: none is parked while a reply
\* is owed.
Served ==
  /\ NoStrandedCaller
  /\ \A e \in Eps : caller[e] # NoTask => Receivers(e) = {}

\* A step that leaves the endpoints alone and puts nobody in BlockedCall keeps
\* every caller served, if receivers park only where no reply is owed.
LEMMA ServedFrame ==
  ASSUME TypeOK, Served, caller' = caller, NEW s \in [Tids -> TaskStates], Switched(s),
         \A t \in Tids : s[t].is = "BlockedCall" => s[t] = state[t],
         \A t \in Tids : s[t].is = "BlockedRecv" =>
           \/ state[t].is = "BlockedRecv" /\ s[t].ep = state[t].ep
           \/ caller[s[t].ep] = NoTask
  PROVE  Served'
<1>1. \A t \in Tids : state'[t].is \in {"BlockedCall", "BlockedRecv"} => state'[t] = s[t]
  BY Zenon, PlainKinds DEF Switched
<1>2. NoStrandedCaller'
  BY SMTT(30), <1>1 DEF Served, NoStrandedCaller
<1>3. ASSUME NEW e \in Eps, caller[e] # NoTask PROVE Receivers(e)' = {}
  <2>1. Receivers(e) = {}
    BY Zenon, <1>3 DEF Served
  <2> QED BY SMTT(30), <1>1, <1>3, <2>1 DEF Receivers
<1> QED BY Zenon, <1>2, <1>3 DEF Served

\* The same for a handler that drains the reaper.
LEMMA ServedDrained ==
  ASSUME TypeOK, Served, caller' = caller, NEW s \in [Tids -> TaskStates], Switched(s),
         \A t \in Tids :
           \/ s[t] = Drained[t]
           \/ /\ s[t].is # "BlockedCall"
              /\ s[t].is = "BlockedRecv" =>
                   \/ state[t].is = "BlockedRecv" /\ s[t].ep = state[t].ep
                   \/ caller[s[t].ep] = NoTask
  PROVE  Served'
<1>1. \A t \in Tids : \/ Drained[t] = state[t] /\ state[t].is # "Reaping"
                      \/ state[t].is = "Reaping" /\ Drained[t] = Gone
  BY Zenon, DrainedFacts
<1>2. \A t \in Tids : s[t].is = "BlockedCall" => s[t] = state[t]
  BY ZenonT(30), <1>1, PlainKinds
<1>3. \A t \in Tids : s[t].is = "BlockedRecv" =>
        \/ state[t].is = "BlockedRecv" /\ s[t].ep = state[t].ep
        \/ caller[s[t].ep] = NoTask
  BY SMTT(30), <1>1, PlainKinds
<1> QED BY Zenon, <1>2, <1>3, ServedFrame

\* The end of a task frees every caller it owed a reply.
LEMMA ServedDeath ==
  ASSUME TypeOK, Served, NEW s \in [Tids -> TaskStates], NEW v \in Tids, NEW c,
         \A t \in Tids : s[t] = state[t] \/ (state[t].is = "Reaping" /\ s[t] = Gone),
         Switched(Terminated(s, v, c)), Unlinks(s, v)
  PROVE  Served'
<1> DEFINE T == Terminated(s, v, c)
<1>1. caller' = [e \in Eps |-> IF v \in {caller[e], server[e]} THEN NoTask ELSE caller[e]]
  BY Zenon DEF Unlinks
<1>2. \A t \in Tids : state'[t].is \in {"BlockedCall", "BlockedRecv"} => state'[t] = T[t]
  BY Zenon, PlainKinds DEF Switched
<1>3. ASSUME NEW t \in Tids, T[t].is \in {"BlockedCall", "BlockedRecv"}
      PROVE  /\ t # v /\ T[t] = s[t] /\ T[t] = state[t]
             /\ ~\E e \in StrandedEps(s, v) : caller[e] = t
  BY SMTT(30), <1>3, TerminatedCases, PlainKinds
<1> HIDE DEF T
<1>4. ASSUME NEW t \in Tids, state'[t].is = "BlockedCall" PROVE caller'[state'[t].ep] = t
  <2> DEFINE e == state[t].ep
  <2>1. /\ state'[t] = state[t] /\ state[t].is = "BlockedCall" /\ s[t] = state[t] /\ t # v
        /\ ~\E f \in StrandedEps(s, v) : caller[f] = t
    BY ZenonT(30), <1>2, <1>3, <1>4
  <2>2. e \in Eps
    BY ZenonT(30), <2>1, StateFacts DEF TypeOK
  <2>3. caller[e] = t
    BY Zenon, <2>1 DEF Served, NoStrandedCaller
  <2> HIDE DEF e
  <2>4. server[e] # v
    BY SMTT(30), <2>1, <2>2, <2>3 DEF StrandedEps, NoTask, Tids
  <2>5. caller'[e] = t
    BY ZenonT(30), <1>1, <2>1, <2>2, <2>3, <2>4
  <2> QED BY Zenon, <2>1, <2>5 DEF e
<1>5. \A t \in Tids : state'[t].is = "BlockedRecv" => state'[t] = state[t]
  BY Zenon, <1>2, <1>3
<1>6. ASSUME NEW e \in Eps, caller'[e] # NoTask PROVE Receivers(e)' = {}
  <2>1. Receivers(e) = {}
    BY Zenon, <1>1, <1>6 DEF Served
  <2> QED BY Zenon, <1>5, <2>1 DEF Receivers
<1> QED BY Zenon, <1>4, <1>5, <1>6 DEF Served, NoStrandedCaller

\* Where tasks do not receive side by side, every step keeps every caller served.
LEMMA ServedStep == OneReceiver /\ IInv /\ Served /\ [Next]_vars => Served'
<1> SUFFICES ASSUME OneReceiver, TypeOK, CurrentRuns, ReplyOwed, PendingExact, Served,
                    TypeOK', [Next]_vars
             PROVE  Served'
  BY Zenon, TypeStep DEF IInv
<1>a. cur # NoTask => cur \in Tids /\ state[cur].is = "Running"
  BY Zenon DEF TypeOK, CurrentRuns
<1>b. /\ Drained \in [Tids -> TaskStates] /\ ready \in Seq(Tids) /\ NoTask \notin Tids
      /\ \A t \in Tids : \/ Drained[t] = state[t] /\ state[t].is # "Reaping"
                         \/ state[t].is = "Reaping" /\ Drained[t] = Gone
      /\ \A t \in Tids : Drained[t].is = "Running" <=> t = cur
  BY SMTT(30), DrainedFacts DEF TypeOK, CurrentRuns, NoTask, Tids
<1>c. state' \in [Tids -> TaskStates] /\ Switched(state')
  BY Zenon DEF TypeOK, Switched
<1>d. ASSUME state' = Drained, caller' = caller PROVE Served'
  BY ZenonT(30), <1>c, <1>d, ServedDrained
<1>e. ASSUME NEW x \in TaskStates, cur # NoTask, caller' = caller,
             x.is \in {"BlockedSend", "BlockedSleep", "BlockedWait", "BlockedInput", "BlockedRecv"},
             x.is = "BlockedRecv" => caller[x.ep] = NoTask,
             Handoff([Drained EXCEPT ![cur] = x], ready)
      PROVE  Served'
  <2> DEFINE s == [Drained EXCEPT ![cur] = x]
  <2>1. /\ cur \in Tids /\ s \in [Tids -> TaskStates]
        /\ \A t \in Tids : s[t] = IF t = cur THEN x ELSE Drained[t]
        /\ \A t \in Tids : s[t].is # "Running"
    BY Zenon, <1>e, ParkFacts
  <2>2. Handoff(s, ready)
    BY Zenon, <1>e
  <2> HIDE DEF s
  <2>3. Switched(s)
    BY ZenonT(30), <1>b, <2>1, <2>2, HandoffFacts
  <2> QED BY ZenonT(30), <1>e, <2>1, <2>3, ServedDrained
<1>1. ASSUME Yield PROVE Served'
  <2>1. Switched(Drained) /\ caller' = caller
    BY ZenonT(30), <1>1, <1>b, RotateFacts DEF Yield, TypeOK, ipcVars
  <2> QED BY ZenonT(30), <1>b, <2>1, ServedDrained
<1>2. ASSUME NEW s \in [Tids -> TaskStates], NEW c \in Codes, cur # NoTask,
             \A t \in Tids : s[t].is = "Running" <=> t = cur,
             \A t \in Tids : s[t] = state[t] \/ (state[t].is = "Reaping" /\ s[t] = Gone),
             Dies(s, c)
      PROVE  Served'
  <2>1. PICK w \in WakeOrders(s, cur) : Handoff(Terminated(s, cur, c), w \o ready)
    BY Zenon, <1>2 DEF Dies
  <2>2. w \o ready \in Seq(Tids)
    BY ZenonT(30), <1>2, <1>a, <1>b, WakeFacts, ConcatFacts
  <2>3. /\ Terminated(s, cur, c) \in [Tids -> TaskStates]
        /\ \A t \in Tids : Terminated(s, cur, c)[t].is # "Running"
    BY SMTT(30), <1>2, <1>a, TerminatedFacts
  <2>4. Switched(Terminated(s, cur, c))
    BY ZenonT(30), <2>1, <2>2, <2>3, HandoffFacts
  <2> QED BY ZenonT(30), <1>2, <1>a, <2>4, ServedDeath DEF Dies
<1>3. ASSUME Exit PROVE Served'
  BY Zenon, <1>3, <1>2, <1>b DEF Exit, Enters, Codes
<1>4. ASSUME Fault PROVE Served'
  BY ZenonT(30), <1>4, <1>2 DEF Fault, Enters, Codes, TypeOK, CurrentRuns
<1>5. ASSUME Return PROVE Served'
  BY Zenon, <1>5, <1>d DEF Return, ipcVars
<1>6. ASSUME NEW v \in Tids, Kill(v) PROVE Served'
  <2>1. Switched(Terminated(Drained, v, "kill")) /\ Unlinks(Drained, v)
    BY Zenon, <1>6 DEF Kill, Switched
  <2> QED BY Zenon, <1>b, <2>1, ServedDeath
<1>7. ASSUME NEW u \in Tids, Spawn(u) PROVE Served'
  <2>1. state' = [Drained EXCEPT ![u] = Ready] /\ caller' = caller
    BY Zenon, <1>7 DEF Spawn, ipcVars
  <2>2. \A t \in Tids : state'[t] = IF t = u THEN Ready ELSE Drained[t]
    BY Zenon, <2>1, <1>b
  <2> QED BY ZenonT(30), <1>c, <2>1, <2>2, PlainKinds, ServedDrained
<1>8. ASSUME NEW z \in Tids, WaitReap(z) PROVE Served'
  <2>1. state' = [Drained EXCEPT ![z] = Gone] /\ caller' = caller
    BY Zenon, <1>8 DEF WaitReap, ipcVars
  <2>2. \A t \in Tids : state'[t] = IF t = z THEN Gone ELSE Drained[t]
    BY Zenon, <2>1, <1>b
  <2> QED BY ZenonT(30), <1>c, <2>1, <2>2, PlainKinds, ServedDrained
<1>9. ASSUME WaitPark PROVE Served'
  BY Zenon, <1>9, <1>e, ParkedStates DEF WaitPark, Enters, ipcVars
<1>10. ASSUME NEW e \in Eps, NEW d \in {0} \cup Delays, RecvPark(e, d) PROVE Served'
  BY SMTT(30), <1>10, <1>e, ParkedStates, PlainKinds DEF RecvPark, Enters, Busy, ipcVars
<1>11. ASSUME NEW d \in Delays, Sleep(d) PROVE Served'
  BY ZenonT(30), <1>11, <1>e, ParkedStates DEF Sleep, Enters, ipcVars
<1>12. ASSUME ReadPark PROVE Served'
  BY ZenonT(30), <1>12, <1>e, ParkedStates DEF ReadPark, Enters, ipcVars
<1>13. ASSUME ReadServed PROVE Served'
  BY Zenon, <1>13, <1>d DEF ReadServed, ipcVars
<1>14. ASSUME NEW e \in Eps, CallQueue(e) PROVE Served'
  BY Zenon, <1>14, <1>e, ParkedStates DEF CallQueue, Enters
<1>15. ASSUME NEW e \in Eps, NEW r \in Tids, CallReceiver(e, r) PROVE Served'
  <2> DEFINE s == [Drained EXCEPT ![r] = Ready, ![cur] = BlockedCall(e)]
  <2>1. /\ cur \in Tids /\ r \in Receivers(e) /\ state[r].is = "BlockedRecv" /\ state[r].ep = e
        /\ caller' = [caller EXCEPT ![e] = cur] /\ state[cur].is = "Running"
    BY ZenonT(30), <1>15, <1>a DEF CallReceiver, Enters, Smallest, Receivers
  <2>2. /\ s \in [Tids -> TaskStates]
        /\ \A t \in Tids : s[t] = IF t = cur THEN BlockedCall(e) ELSE IF t = r THEN Ready ELSE Drained[t]
    BY ZenonT(30), <2>1, <1>b, ParkedStates
  <2>3. <<r>> \o ready \in Seq(Tids)
    BY ZenonT(30), <1>b, SingletonFacts, ConcatFacts
  <2>4. Handoff(s, <<r>> \o ready)
    BY Zenon, <1>15 DEF CallReceiver
  <2> HIDE DEF s
  <2>5. \A t \in Tids : s[t].is # "Running"
    BY SMTT(30), <2>1, <2>2, <1>b, PlainKinds
  <2>6. Switched(s)
    BY ZenonT(30), <2>2, <2>3, <2>4, <2>5, HandoffFacts
  <2>7. \A t \in Tids : state'[t].is \in {"BlockedCall", "BlockedRecv"} => state'[t] = s[t]
    BY Zenon, <2>6, PlainKinds DEF Switched
  <2>8. \A t \in Tids : state'[t].is = "BlockedRecv" => state'[t] = state[t] /\ t # r
    BY SMTT(30), <2>1, <2>2, <2>7, <1>b, PlainKinds
  <2>9. caller[e] = NoTask
    BY Zenon, <2>1 DEF Served
  <2>10. \A f \in Eps : caller'[f] = IF f = e THEN cur ELSE caller[f]
    BY Zenon, <2>1 DEF TypeOK
  <2>11. NoStrandedCaller'
    <3> SUFFICES ASSUME NEW t \in Tids, state'[t].is = "BlockedCall"
                 PROVE  caller'[state'[t].ep] = t
      BY ZenonT(30) DEF NoStrandedCaller
    <3>1. CASE t = cur
      BY SMTT(30), <2>2, <2>7, <2>10, <3>1, PlainKinds
    <3>2. CASE t # cur
      <4>1. state'[t] = state[t]
        BY SMTT(30), <2>2, <2>7, <3>2, <1>b, PlainKinds
      <4>2. caller[state[t].ep] = t /\ state[t].ep \in Eps
        BY ZenonT(30), <4>1, StateFacts DEF Served, NoStrandedCaller, TypeOK
      <4>3. state[t].ep # e
        BY ZenonT(30), <4>2, <2>9, <1>b
      <4> QED BY ZenonT(30), <4>1, <4>2, <4>3, <2>10
    <3> QED BY Zenon, <3>1, <3>2
  <2>12. ASSUME NEW f \in Eps, caller'[f] # NoTask PROVE Receivers(f)' = {}
    <3>1. CASE f = e
      <4>1. \A t \in Receivers(e) : t = r
        BY Zenon, <2>1 DEF OneReceiver
      <4> QED BY Zenon, <3>1, <4>1, <2>8 DEF Receivers
    <3>2. CASE f # e
      <4>1. Receivers(f) = {}
        BY ZenonT(30), <3>2, <2>10, <2>12 DEF Served
      <4> QED BY Zenon, <4>1, <2>8 DEF Receivers
    <3> QED BY ZenonT(30), <3>1, <3>2
  <2> QED BY Zenon, <2>11, <2>12 DEF Served
<1>16. ASSUME NEW e \in Eps, RecvQueued(e) PROVE Served'
  <2> DEFINE h == Head(pending[e])
  <2>1. /\ pending[e] \in Seq(Tids) /\ pending[e] # <<>> /\ Distinct(pending[e])
        /\ state' = [Drained EXCEPT ![h] = BlockedCall(e)]
        /\ caller' = [caller EXCEPT ![e] = h] /\ caller[e] = NoTask
    BY ZenonT(30), <1>16 DEF RecvQueued, TypeOK, PendingExact, Distinct, Busy
  <2>2. h \in Elements(pending[e]) /\ h \in Tids
    BY SMTT(30), <2>1, QueueEndFacts DEF Elements
  <2> HIDE DEF h
  <2>3. \A t \in Tids : state'[t] = IF t = h THEN BlockedCall(e) ELSE Drained[t]
    BY ZenonT(30), <2>1, <2>2, <1>b
  <2>4. \A f \in Eps : caller'[f] = IF f = e THEN h ELSE caller[f]
    BY ZenonT(30), <2>1 DEF TypeOK
  <2>5. \A t \in Tids : /\ state'[t].is = "BlockedRecv" => state'[t] = state[t]
                        /\ state'[t].is = "BlockedCall" /\ t # h => state'[t] = state[t]
    BY SMTT(30), <2>3, <1>b, PlainKinds
  <2>6. NoStrandedCaller'
    <3> SUFFICES ASSUME NEW t \in Tids, state'[t].is = "BlockedCall"
                 PROVE  caller'[state'[t].ep] = t
      BY ZenonT(30) DEF NoStrandedCaller
    <3>1. CASE t = h
      BY SMTT(30), <2>3, <2>4, <3>1, PlainKinds
    <3>2. CASE t # h
      <4>1. state'[t] = state[t]
        BY ZenonT(30), <2>5, <3>2
      <4>2. caller[state[t].ep] = t /\ state[t].ep \in Eps
        BY ZenonT(30), <4>1, StateFacts DEF Served, NoStrandedCaller, TypeOK
      <4>3. state[t].ep # e
        BY ZenonT(30), <4>2, <2>1, <1>b
      <4> QED BY ZenonT(30), <4>1, <4>2, <4>3, <2>4
    <3> QED BY ZenonT(30), <3>1, <3>2
  <2>7. ASSUME NEW f \in Eps, caller'[f] # NoTask PROVE Receivers(f)' = {}
    <3>1. Receivers(f) = {}
      BY ZenonT(30), <2>1, <2>4, <2>7 DEF Served, PendingExact
    <3> QED BY ZenonT(30), <3>1, <2>5 DEF Receivers
  <2> QED BY ZenonT(30), <2>5, <2>6, <2>7 DEF Served
<1>17. ASSUME NEW e \in Eps, Reply(e) PROVE Served'
  <2> DEFINE c == caller[e]
  <2>1. cur \in Tids /\ server[e] = cur /\ caller' = [caller EXCEPT ![e] = NoTask]
    BY ZenonT(30), <1>17, <1>a DEF Reply, Enters
  <2>2. c \in Tids /\ state[c] = BlockedCall(e)
    BY SMTT(30), <2>1, <1>b DEF ReplyOwed, TypeOK
  <2>3. state' = [Drained EXCEPT ![c] = Ready]
    BY ZenonT(30), <1>17, <2>2, <1>b DEF Reply
  <2>4. \A t \in Tids : state'[t] = IF t = c THEN Ready ELSE Drained[t]
    BY ZenonT(30), <2>2, <2>3, <1>b
  <2>5. \A t \in Tids : state'[t].is \in {"BlockedCall", "BlockedRecv"} => state'[t] = state[t] /\ t # c
    BY ZenonT(30), <2>4, <1>b, PlainKinds
  <2>6. \A f \in Eps : caller'[f] = IF f = e THEN NoTask ELSE caller[f]
    BY Zenon, <2>1 DEF TypeOK
  <2>7. NoStrandedCaller'
    <3> SUFFICES ASSUME NEW t \in Tids, state'[t].is = "BlockedCall"
                 PROVE  caller'[state'[t].ep] = t
      BY SMTT(30) DEF NoStrandedCaller
    <3>1. state'[t] = state[t] /\ t # c
      BY Zenon, <2>5
    <3>2. caller[state[t].ep] = t /\ state[t].ep \in Eps
      BY ZenonT(30), <3>1, StateFacts DEF Served, NoStrandedCaller, TypeOK
    <3> QED BY Zenon, <3>1, <3>2, <2>6
  <2>8. ASSUME NEW f \in Eps, caller'[f] # NoTask PROVE Receivers(f)' = {}
    <3>1. Receivers(f) = {}
      BY ZenonT(30), <2>6, <2>8 DEF Served
    <3> QED BY ZenonT(30), <3>1, <2>5 DEF Receivers
  <2> QED BY ZenonT(30), <2>5, <2>7, <2>8 DEF Served
<1>18. ASSUME Timer PROVE Served'
  <2>1. PICK w \in Descending(Expired) :
          IF since + 1 < Quantum
          THEN since' = since + 1 /\ state' = Ticked /\ ready' = w \o ready /\ cur' = cur
          ELSE since' = 0 /\ Rotate(Ticked, w \o ready)
    BY Zenon, <1>18 DEF Timer
  <2>2. w \o ready \in Seq(Tids)
    <3>1. Expired \in SUBSET Tids
      BY Zenon DEF Expired
    <3>2. w \in Seq(Tids)
      BY SMTT(30), <3>1, FiniteFacts, DescendingFacts
    <3> QED BY ZenonT(30), <3>2, <1>b, ConcatFacts
  <2>3. /\ Ticked \in [Tids -> TaskStates]
        /\ \A t \in Tids : Ticked[t].is = "Running" <=> t = cur
    BY Zenon, TickedFacts DEF CurrentRuns
  <2>4. Switched(Ticked)
    <3>1. CASE since + 1 < Quantum
      BY ZenonT(30), <2>1, <3>1 DEF Switched
    <3>2. CASE ~(since + 1 < Quantum)
      BY ZenonT(30), <2>1, <2>2, <2>3, <3>2, RotateFacts DEF TypeOK
    <3> QED BY Zenon, <3>1, <3>2
  <2>5. ASSUME NEW t \in Tids
        PROVE  \/ Ticked[t] = Drained[t]
               \/ /\ Ticked[t].is # "BlockedCall"
                  /\ Ticked[t].is = "BlockedRecv" =>
                       state[t].is = "BlockedRecv" /\ Ticked[t].ep = state[t].ep
    BY Zenon, TickedFacts, PlainKinds
  <2>6. caller' = caller
    BY ZenonT(30), <1>18 DEF Timer, ipcVars
  <2> QED BY ZenonT(30), <2>3, <2>4, <2>5, <2>6, ServedDrained
<1>19. ASSUME Keyboard PROVE Served'
  <2>1. caller' = caller
    BY ZenonT(30), <1>19 DEF Keyboard, ipcVars
  <2>2. \A t \in Tids : state'[t] = state[t] \/ state'[t] = Ready
    BY ZenonT(30), <1>19 DEF Keyboard, TypeOK
  <2> QED BY Zenon, <2>1, <2>2, <1>c, PlainKinds, ServedFrame
<1>20. ASSUME UNCHANGED vars PROVE Served'
  BY Zenon, <1>20 DEF vars, Served, NoStrandedCaller, Receivers
<1> QED BY Zenon, <1>1, <1>3, <1>4, <1>5, <1>6, <1>7, <1>8, <1>9, <1>10, <1>11, <1>12, <1>13,
           <1>14, <1>15, <1>16, <1>17, <1>18, <1>19, <1>20 DEF Next

\* If no two tasks are ever parked to receive on one endpoint, no caller ever
\* waits for a reply that cannot come, whatever rights the tasks hold.
THEOREM CallersServed == Spec /\ []OneReceiver => []NoStrandedCaller
<1>1. Init => Served
  <2> SUFFICES ASSUME Init PROVE Served
    BY Zenon
  <2>1. \A t \in Tids : state[t].is \in {"Running", "Ready", "New"}
    BY Zenon DEF Init, Running, Ready, New, Plain
  <2> QED BY Zenon, <2>1 DEF Init, Served, NoStrandedCaller
<1>2. OneReceiver /\ IInv /\ Served /\ [Next]_vars => Served'
  BY Zenon, ServedStep
<1>3. Served => NoStrandedCaller
  BY Zenon DEF Served
<1> QED BY <1>1, <1>2, <1>3, KernelInvariant, PTL DEF Spec
=============================================================================
