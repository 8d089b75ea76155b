-------------------------- MODULE KernelWaitProofs --------------------------
(***************************************************************************)
(* Every step of Kernel keeps wait() sound: no parent is parked without a  *)
(* child to wait for, or behind a zombie it could collect.                 *)
(***************************************************************************)
EXTENDS KernelQueueProofs

-----------------------------------------------------------------------------
(* Parents and children *)

\* A step that leaves parents, zombies and the living alone keeps wait() sound,
\* if a task that parks in wait() has a living child and no zombie.
LEMMA WaitFrame ==
  ASSUME TypeOK, WaitSound, IdsGrow, parent' = parent,
         NEW s \in [Tids -> TaskStates], Switched(s),
         \A t \in Tids :
           /\ Live(s[t]) <=> Live(state[t])
           /\ s[t].is = "Zombie" <=> state[t].is = "Zombie"
           /\ s[t].is = "New" <=> state[t].is = "New"
           /\ s[t].is = "BlockedWait" =>
                \/ state[t].is = "BlockedWait"
                \/ /\ \E k \in Tids : parent[k] = t /\ Live(state[k])
                   /\ \A k \in Tids : parent[k] = t => state[k].is # "Zombie"
  PROVE  WaitSound' /\ IdsGrow'
<1>1. \A t \in Tids :
        /\ Live(state'[t]) <=> Live(state[t])
        /\ InTable(state'[t]) <=> InTable(state[t])
        /\ state'[t].is = "Zombie" <=> state[t].is = "Zombie"
        /\ state'[t].is = "New" <=> state[t].is = "New"
        /\ state'[t].is = "BlockedWait" => s[t].is = "BlockedWait"
  BY PlainKinds DEF Switched, Live, InTable
<1>2. IdsGrow'
  BY Zenon, <1>1 DEF IdsGrow
<1>3. WaitSound'
  <2> SUFFICES ASSUME NEW t \in Tids
               PROVE  /\ state'[t].is = "BlockedWait" =>
                           /\ \E k \in Tids : parent[k] = t /\ Live(state'[k])
                           /\ \A k \in Tids : parent[k] = t => state'[k].is # "Zombie"
                      /\ parent[t] # NoTask =>
                           parent[t] < t /\ InTable(state'[t]) /\ Live(state'[parent[t]])
                      /\ state'[t].is = "Zombie" => parent[t] # NoTask
    BY DEF WaitSound
  <2>1. state'[t].is = "BlockedWait" =>
          /\ \E k \in Tids : parent[k] = t /\ Live(state[k])
          /\ \A k \in Tids : parent[k] = t => state[k].is # "Zombie"
    BY Zenon, <1>1 DEF WaitSound
  <2>2. parent[t] \in Tids \cup {NoTask}
    BY DEF TypeOK
  <2> QED BY ZenonT(30), <1>1, <2>1, <2>2 DEF WaitSound
<1> QED BY Zenon, <1>2, <1>3

\* The same for a handler that drains the reaper and changes states other than
\* those of zombies, of tasks to come, and of the dead.
LEMMA WaitDrained ==
  ASSUME TypeOK, WaitSound, IdsGrow, parent' = parent,
         NEW s \in [Tids -> TaskStates], Switched(s),
         \A t \in Tids :
           \/ s[t] = Drained[t]
           \/ /\ Live(state[t]) /\ Live(s[t])
              /\ s[t].is = "BlockedWait" =>
                   \/ state[t].is = "BlockedWait"
                   \/ /\ \E k \in Tids : parent[k] = t /\ Live(state[k])
                      /\ \A k \in Tids : parent[k] = t => state[k].is # "Zombie"
  PROVE  WaitSound' /\ IdsGrow'
<1>1. \A t \in Tids : \/ Drained[t] = state[t] /\ state[t].is # "Reaping"
                      \/ state[t].is = "Reaping" /\ Drained[t] = Gone
  BY Zenon, DrainedFacts
<1>2. \A t \in Tids :
        /\ Live(s[t]) <=> Live(state[t])
        /\ s[t].is = "Zombie" <=> state[t].is = "Zombie"
        /\ s[t].is = "New" <=> state[t].is = "New"
  BY <1>1, PlainKinds DEF Live, InTable
<1>3. \A t \in Tids : s[t].is = "BlockedWait" =>
        \/ state[t].is = "BlockedWait"
        \/ /\ \E k \in Tids : parent[k] = t /\ Live(state[k])
           /\ \A k \in Tids : parent[k] = t => state[k].is # "Zombie"
  BY <1>1, PlainKinds
<1> QED BY Zenon, <1>2, <1>3, WaitFrame

\* Parking the current task keeps wait() sound.
LEMMA WaitParked ==
  ASSUME TypeOK, CurrentRuns, WaitSound, IdsGrow, parent' = parent, cur # NoTask,
         NEW x \in TaskStates, Live(x), x.is # "Running",
         x.is = "BlockedWait" =>
           /\ \E k \in Tids : parent[k] = cur /\ Live(state[k])
           /\ \A k \in Tids : parent[k] = cur => state[k].is # "Zombie",
         Handoff([Drained EXCEPT ![cur] = x], ready)
  PROVE  WaitSound' /\ IdsGrow'
<1> DEFINE s == [Drained EXCEPT ![cur] = x]
<1>1. /\ cur \in Tids /\ s \in [Tids -> TaskStates]
      /\ \A t \in Tids : s[t] = IF t = cur THEN x ELSE Drained[t]
      /\ \A t \in Tids : s[t].is # "Running"
  BY Zenon, ParkFacts
<1>2. ready \in Seq(Tids) /\ Handoff(s, ready)
  BY Zenon DEF TypeOK
<1> HIDE DEF s
<1>3. Switched(s)
  BY Zenon, <1>1, <1>2, HandoffFacts
<1>4. Live(state[cur])
  BY Zenon, <1>1 DEF CurrentRuns, Live, InTable
<1> QED BY Zenon, <1>1, <1>3, <1>4, WaitDrained

\* The end of a task keeps wait() sound: its code reaches a parent that waits
\* or lingers for one that may, and its own children forget it.
LEMMA WaitDeath ==
  ASSUME TypeOK, WaitSound, IdsGrow,
         NEW s \in [Tids -> TaskStates], NEW v \in Tids, NEW c, Live(state[v]) \/ state[v].is = "Zombie",
         \A t \in Tids : s[t] = state[t] \/ (state[t].is = "Reaping" /\ s[t] = Gone),
         Switched(Terminated(s, v, c)), Unlinks(s, v)
  PROVE  WaitSound' /\ IdsGrow'
<1> DEFINE T == Terminated(s, v, c)
<1>1. parent' = [t \in Tids |-> IF t \in Orphans(s, v) \/ (t = v /\ ~Lingers(s, v)) THEN NoTask
                                ELSE parent[t]]
  BY Zenon DEF Unlinks
<1>2. \A t \in Tids : state'[t] = T[t] \/ (T[t] \in {Ready, Running} /\ state'[t] \in {Ready, Running})
  BY Zenon DEF Switched
<1>3. \A t \in Tids :
        /\ Live(s[t]) <=> Live(state[t])
        /\ InTable(s[t]) <=> InTable(state[t])
        /\ s[t].is = "Zombie" <=> state[t].is = "Zombie"
        /\ s[t].is = "New" <=> state[t].is = "New"
        /\ s[t].is = "BlockedWait" <=> state[t].is = "BlockedWait"
  BY Zenon, PlainKinds DEF Live, InTable
<1>4. ASSUME NEW t \in Tids
      PROVE  /\ Live(state'[t]) <=> Live(T[t])
             /\ InTable(state'[t]) <=> InTable(T[t])
             /\ state'[t].is = "Zombie" <=> T[t].is = "Zombie"
             /\ state'[t].is = "New" <=> T[t].is = "New"
             /\ state'[t].is = "BlockedWait" => T[t].is = "BlockedWait"
  <2> HIDE DEF T
  <2> QED BY ZenonT(30), <1>2, PlainKinds DEF Live, InTable
<1>5. \A t \in Tids : T[t].is = "New" <=> s[t].is = "New"
  <2>1. s[v].is # "New"
    BY Zenon, <1>3 DEF Live, InTable
  <2> QED BY SMTT(30), <2>1, TerminatedCases, PlainKinds
<1>6. IdsGrow'
  BY ZenonT(30), <1>3, <1>4, <1>5 DEF IdsGrow
<1>7. ASSUME NEW t \in Tids, t # v, Live(s[t]) PROVE Live(T[t])
  BY SMTT(30), <1>7, TerminatedCases, PlainKinds DEF Live, InTable
<1>8. ASSUME NEW t \in Tids, parent'[t] # NoTask
      PROVE  parent'[t] = parent[t] /\ parent[t] # v /\ (t = v => Lingers(s, v))
  <2>1. parent'[t] = parent[t] /\ t \notin Orphans(s, v) /\ (t = v => Lingers(s, v))
    BY Zenon, <1>1, <1>8
  <2>2. InTable(s[t])
    BY ZenonT(30), <1>3, <1>8, <2>1 DEF WaitSound
  <2> QED BY Zenon, <2>1, <2>2 DEF Orphans
<1>9. ASSUME NEW t \in Tids, t # v, parent'[t] # NoTask PROVE InTable(T[t])
  <2>1. parent[t] # v /\ InTable(s[t])
    BY Zenon, <1>3, <1>8, <1>9 DEF WaitSound
  <2>2. t \notin OrphanedZombies(s, v)
    BY Zenon, <2>1 DEF OrphanedZombies, Orphans
  <2> QED BY SMTT(30), <1>9, <2>1, <2>2, TerminatedCases, PlainKinds DEF InTable
<1>10. Lingers(s, v) => T[v] = Zombie(c)
  BY Zenon DEF Terminated
<1>11. ~Lingers(s, v) => T[v] = Reaping
  BY Zenon DEF Terminated
<1>12. ASSUME NEW t \in Tids, T[t].is = "BlockedWait"
       PROVE  t # v /\ state[t].is = "BlockedWait" /\ t # parent[v]
  <2>1. t # v /\ T[t] = s[t] /\ ~(t = parent[v] /\ Delivers(s, v))
    BY SMTT(30), <1>12, TerminatedCases, PlainKinds
  <2>2. t = parent[v] => Delivers(s, v)
    BY SMTT(30), <1>12, <2>1 DEF Delivers, NoTask, Tids
  <2> QED BY ZenonT(30), <1>3, <1>12, <2>1, <2>2
<1>13. ASSUME NEW t \in Tids, T[t].is = "Zombie", t # v PROVE state[t].is = "Zombie"
  BY SMTT(30), <1>3, <1>13, TerminatedCases, PlainKinds
<1> HIDE DEF T
<1>14. WaitSound'
  <2> SUFFICES ASSUME NEW t \in Tids
               PROVE  /\ state'[t].is = "BlockedWait" =>
                           /\ \E k \in Tids : parent'[k] = t /\ Live(state'[k])
                           /\ \A k \in Tids : parent'[k] = t => state'[k].is # "Zombie"
                      /\ parent'[t] # NoTask =>
                           parent'[t] < t /\ InTable(state'[t]) /\ Live(state'[parent'[t]])
                      /\ state'[t].is = "Zombie" => parent'[t] # NoTask
    BY Zenon DEF WaitSound
  <2>0. NoTask \notin Tids /\ parent \in [Tids -> Tids \cup {NoTask}]
    BY DEF NoTask, Tids, TypeOK
  <2>1. ASSUME state'[t].is = "BlockedWait"
        PROVE  /\ \E k \in Tids : parent'[k] = t /\ Live(state'[k])
               /\ \A k \in Tids : parent'[k] = t => state'[k].is # "Zombie"
    <3>1. t # v /\ state[t].is = "BlockedWait" /\ t # parent[v]
      BY ZenonT(30), <1>4, <1>12, <2>1
    <3>2. PICK k \in Tids : parent[k] = t /\ Live(state[k])
      BY Zenon, <3>1 DEF WaitSound
    <3>3. k # v /\ parent'[k] = t
      BY Zenon, <3>1, <3>2, <1>1 DEF Orphans
    <3>4. Live(state'[k])
      BY ZenonT(30), <3>2, <3>3, <1>3, <1>4, <1>7
    <3>5. ASSUME NEW j \in Tids, parent'[j] = t PROVE state'[j].is # "Zombie"
      <4>1. parent[j] = t /\ j # v
        BY ZenonT(30), <3>1, <3>5, <1>8, <2>0
      <4>2. state[j].is # "Zombie"
        BY ZenonT(30), <4>1, <3>1 DEF WaitSound
      <4> QED BY ZenonT(30), <4>1, <4>2, <1>4, <1>13
    <3> QED BY Zenon, <3>3, <3>4, <3>5
  <2>2. ASSUME parent'[t] # NoTask
        PROVE  parent'[t] < t /\ InTable(state'[t]) /\ Live(state'[parent'[t]])
    <3>1. parent'[t] = parent[t] /\ parent[t] # v /\ parent[t] \in Tids
      BY ZenonT(30), <1>8, <2>2, <2>0
    <3>2. parent[t] < t /\ Live(state[parent[t]])
      BY ZenonT(30), <2>2, <3>1 DEF WaitSound
    <3>3. InTable(T[t])
      BY SMTT(30), <1>8, <1>9, <1>10, <2>2, PlainKinds DEF InTable
    <3> QED BY ZenonT(30), <3>1, <3>2, <3>3, <1>3, <1>4, <1>7
  <2>3. ASSUME state'[t].is = "Zombie" PROVE parent'[t] # NoTask
    <3>1. T[t].is = "Zombie"
      BY Zenon, <1>4, <2>3
    <3>2. CASE t = v
      <4>1. Lingers(s, v) /\ parent[v] # NoTask
        BY ZenonT(30), <3>1, <3>2, <1>11, PlainKinds DEF Lingers
      <4>2. parent[v] < v /\ parent[v] \in Tids
        BY Zenon, <4>1, <2>0 DEF WaitSound
      <4>3. parent[v] # v
        BY <4>2 DEF Tids
      <4> QED BY ZenonT(30), <3>2, <4>1, <4>3, <1>1 DEF Orphans
    <3>3. CASE t # v
      <4>1. state[t].is = "Zombie" /\ parent[t] # NoTask
        BY ZenonT(30), <3>1, <3>3, <1>13 DEF WaitSound
      <4>2. t \notin Orphans(s, v)
        <5>1. t \in Orphans(s, v) => t \in OrphanedZombies(s, v)
          BY ZenonT(30), <4>1, <1>3 DEF OrphanedZombies
        <5>2. t \in OrphanedZombies(s, v) => T[t] = Reaping
          BY Zenon, <3>3 DEF T, Terminated
        <5> QED BY ZenonT(30), <3>1, <5>1, <5>2, PlainKinds
      <4> QED BY ZenonT(30), <3>3, <4>1, <4>2, <1>1
    <3> QED BY Zenon, <3>2, <3>3
  <2> QED BY ZenonT(30), <2>1, <2>2, <2>3
<1> QED BY Zenon, <1>6, <1>14

\* Every step keeps wait() sound and hands task ids out in order.
LEMMA WaitStep == IInv /\ [Next]_vars => WaitSound' /\ IdsGrow'
<1> SUFFICES ASSUME TypeOK, CurrentRuns, ReplyOwed, PendingExact, WaitSound, IdsGrow,
                    TypeOK', [Next]_vars
             PROVE  WaitSound' /\ IdsGrow'
  BY Zenon, TypeStep DEF IInv
<1>a. cur # NoTask => cur \in Tids /\ state[cur].is = "Running" /\ Live(state[cur])
  BY Zenon DEF TypeOK, CurrentRuns, Live, InTable
<1>b. /\ Drained \in [Tids -> TaskStates] /\ ready \in Seq(Tids) /\ NoTask \notin Tids
      /\ \A t \in Tids : \/ Drained[t] = state[t] /\ state[t].is # "Reaping"
                         \/ state[t].is = "Reaping" /\ Drained[t] = Gone
      /\ \A t \in Tids : Drained[t].is = "Running" <=> t = cur
  BY SMTT(30), DrainedFacts DEF TypeOK, CurrentRuns, NoTask, Tids
<1>c. state' \in [Tids -> TaskStates] /\ Switched(state')
  BY Zenon DEF TypeOK, Switched
<1>d. ASSUME state' = Drained, parent' = parent PROVE WaitSound' /\ IdsGrow'
  BY Zenon, <1>c, <1>d, WaitDrained
<1>e. /\ Live(Ready) /\ Live(BlockedWait) /\ Live(BlockedInput)
      /\ \A e, d : /\ Live(BlockedSend(e)) /\ Live(BlockedCall(e))
                   /\ Live(BlockedRecv(e, d)) /\ Live(BlockedSleep(d))
  BY Zenon, PlainKinds DEF Live, InTable
<1>1. ASSUME Yield PROVE WaitSound' /\ IdsGrow'
  <2>1. Switched(Drained) /\ parent' = parent
    BY ZenonT(30), <1>1, <1>b, RotateFacts DEF Yield, TypeOK
  <2> QED BY ZenonT(30), <1>b, <2>1, WaitDrained
<1>2. ASSUME NEW s \in [Tids -> TaskStates], NEW c \in Codes, cur # NoTask,
             \A t \in Tids : s[t].is = "Running" <=> t = cur,
             \A t \in Tids : s[t] = state[t] \/ (state[t].is = "Reaping" /\ s[t] = Gone),
             Dies(s, c)
      PROVE  WaitSound' /\ IdsGrow'
  <2>1. PICK w \in WakeOrders(s, cur) : Handoff(Terminated(s, cur, c), w \o ready)
    BY Zenon, <1>2 DEF Dies
  <2>2. w \o ready \in Seq(Tids)
    BY Zenon, <1>2, <1>a, <1>b, WakeFacts, ConcatFacts
  <2>3. /\ Terminated(s, cur, c) \in [Tids -> TaskStates]
        /\ \A t \in Tids : Terminated(s, cur, c)[t].is # "Running"
    BY SMTT(30), <1>2, <1>a, TerminatedFacts
  <2>4. Switched(Terminated(s, cur, c))
    BY ZenonT(30), <2>1, <2>2, <2>3, HandoffFacts
  <2> QED BY Zenon, <1>2, <1>a, <2>4, WaitDeath DEF Dies
<1>3. ASSUME Exit PROVE WaitSound' /\ IdsGrow'
  BY Zenon, <1>3, <1>2, <1>b DEF Exit, Enters, Codes
<1>4. ASSUME Fault PROVE WaitSound' /\ IdsGrow'
  BY ZenonT(30), <1>4, <1>2 DEF Fault, Enters, Codes, TypeOK, CurrentRuns
<1>5. ASSUME Return PROVE WaitSound' /\ IdsGrow'
  BY Zenon, <1>5, <1>d DEF Return
<1>6. ASSUME NEW v \in Tids, Kill(v) PROVE WaitSound' /\ IdsGrow'
  <2>1. Switched(Terminated(Drained, v, "kill")) /\ Unlinks(Drained, v)
    BY Zenon, <1>6 DEF Kill, Switched
  <2>2. Live(state[v]) \/ state[v].is = "Zombie"
    BY Zenon, <1>6 DEF Kill, Live
  <2> QED BY Zenon, <1>b, <2>1, <2>2, WaitDeath
<1>7. ASSUME NEW u \in Tids, Spawn(u) PROVE WaitSound' /\ IdsGrow'
  <2>1. /\ state[u].is = "New" /\ state' = [Drained EXCEPT ![u] = Ready]
        /\ parent' = [parent EXCEPT ![u] = cur] /\ cur # NoTask
        /\ \A t \in Tids : state[t].is = "New" => u <= t
    BY Zenon, <1>7 DEF Spawn, Smallest, Enters
  <2>2. cur \in Tids /\ Live(state[cur]) /\ cur # u
    BY Zenon, <2>1, <1>a DEF Live, InTable
  <2>3. cur < u
    <3>1. ~(u < cur)
      BY Zenon, <2>1, <2>2 DEF IdsGrow, Live, InTable
    <3> QED BY <2>2, <3>1 DEF Tids
  <2>4. /\ \A t \in Tids : state'[t] = IF t = u THEN Ready ELSE Drained[t]
        /\ \A t \in Tids : parent'[t] = IF t = u THEN cur ELSE parent[t]
    BY ZenonT(30), <2>1, <1>b DEF TypeOK
  <2>5. \A t \in Tids :
          /\ Live(state'[t]) <=> Live(state[t]) \/ t = u
          /\ InTable(state'[t]) <=> InTable(state[t]) \/ t = u
          /\ state'[t].is = "Zombie" <=> state[t].is = "Zombie"
          /\ state'[t].is = "New" <=> state[t].is = "New" /\ t # u
          /\ state'[t].is = "BlockedWait" <=> state[t].is = "BlockedWait"
    BY ZenonT(30), <2>1, <2>4, <1>b, PlainKinds DEF Live, InTable
  <2>6. IdsGrow'
    BY SMTT(30), <2>1, <2>5 DEF IdsGrow, Tids
  <2>7. parent[u] = NoTask
    BY Zenon, <2>1 DEF WaitSound, InTable
  <2>8. state[cur].is # "BlockedWait"
    BY Zenon, <2>1, <1>a
  <2>9. WaitSound'
    <3> SUFFICES ASSUME NEW t \in Tids
                 PROVE  /\ state'[t].is = "BlockedWait" =>
                             /\ \E k \in Tids : parent'[k] = t /\ Live(state'[k])
                             /\ \A k \in Tids : parent'[k] = t => state'[k].is # "Zombie"
                        /\ parent'[t] # NoTask =>
                             parent'[t] < t /\ InTable(state'[t]) /\ Live(state'[parent'[t]])
                        /\ state'[t].is = "Zombie" => parent'[t] # NoTask
      BY ZenonT(30) DEF WaitSound
    <3>1. state'[t].is = "BlockedWait" =>
            /\ \E k \in Tids : parent'[k] = t /\ Live(state'[k])
            /\ \A k \in Tids : parent'[k] = t => state'[k].is # "Zombie"
      BY SMTT(30), <2>1, <2>4, <2>5, <2>8 DEF WaitSound, Live, InTable
    <3>2. parent[t] \in Tids \cup {NoTask}
      BY ZenonT(30) DEF TypeOK
    <3>3. parent'[t] # NoTask =>
            parent'[t] < t /\ InTable(state'[t]) /\ Live(state'[parent'[t]])
      BY ZenonT(30), <2>2, <2>3, <2>4, <2>5, <3>2 DEF WaitSound
    <3>4. state'[t].is = "Zombie" => parent'[t] # NoTask
      BY SMTT(30), <2>1, <2>4, <2>5 DEF WaitSound
    <3> QED BY ZenonT(30), <3>1, <3>3, <3>4
  <2> QED BY ZenonT(30), <2>6, <2>9
<1>8. ASSUME NEW z \in Tids, WaitReap(z) PROVE WaitSound' /\ IdsGrow'
  <2>1. /\ state[z].is = "Zombie" /\ state' = [Drained EXCEPT ![z] = Gone]
        /\ parent' = [parent EXCEPT ![z] = NoTask]
    BY Zenon, <1>8 DEF WaitReap, Smallest, ZombieChildren
  <2>2. /\ \A t \in Tids : state'[t] = IF t = z THEN Gone ELSE Drained[t]
        /\ \A t \in Tids : parent'[t] = IF t = z THEN NoTask ELSE parent[t]
    BY ZenonT(30), <2>1, <1>b DEF TypeOK
  <2>3. \A t \in Tids :
          /\ Live(state'[t]) <=> Live(state[t])
          /\ InTable(state'[t]) <=> InTable(state[t]) /\ t # z
          /\ state'[t].is = "Zombie" <=> state[t].is = "Zombie" /\ t # z
          /\ state'[t].is = "New" <=> state[t].is = "New"
          /\ state'[t].is = "BlockedWait" <=> state[t].is = "BlockedWait"
    BY ZenonT(30), <2>1, <2>2, <1>b, PlainKinds DEF Live, InTable
  <2>4. IdsGrow'
    BY Zenon, <2>3 DEF IdsGrow
  <2>5. ~Live(state[z])
    BY ZenonT(30), <2>1 DEF Live
  <2>6. WaitSound'
    <3> SUFFICES ASSUME NEW t \in Tids
                 PROVE  /\ state'[t].is = "BlockedWait" =>
                             /\ \E k \in Tids : parent'[k] = t /\ Live(state'[k])
                             /\ \A k \in Tids : parent'[k] = t => state'[k].is # "Zombie"
                        /\ parent'[t] # NoTask =>
                             parent'[t] < t /\ InTable(state'[t]) /\ Live(state'[parent'[t]])
                        /\ state'[t].is = "Zombie" => parent'[t] # NoTask
      BY SMTT(30) DEF WaitSound
    <3>1. state'[t].is = "BlockedWait" =>
            /\ \E k \in Tids : parent'[k] = t /\ Live(state'[k])
            /\ \A k \in Tids : parent'[k] = t => state'[k].is # "Zombie"
      BY SMTT(30), <2>2, <2>3, <2>5, <1>b DEF WaitSound
    <3>2. parent[t] \in Tids \cup {NoTask}
      BY DEF TypeOK
    <3>3. parent'[t] # NoTask =>
            parent'[t] < t /\ InTable(state'[t]) /\ Live(state'[parent'[t]])
      BY ZenonT(30), <2>2, <2>3, <3>2 DEF WaitSound
    <3>4. state'[t].is = "Zombie" => parent'[t] # NoTask
      BY SMTT(30), <2>2, <2>3 DEF WaitSound
    <3> QED BY SMTT(30), <3>1, <3>3, <3>4
  <2> QED BY <2>4, <2>6
<1>9. ASSUME WaitPark PROVE WaitSound' /\ IdsGrow'
  <2>1. /\ cur # NoTask /\ parent' = parent /\ ZombieChildren = {} /\ Children # {}
        /\ Handoff([Drained EXCEPT ![cur] = BlockedWait], ready)
    BY Zenon, <1>9 DEF WaitPark, Enters
  <2>2. \A k \in Tids : parent[k] = cur => state[k].is # "Zombie"
    BY Zenon, <2>1 DEF ZombieChildren, Children, InTable
  <2>3. \E k \in Tids : parent[k] = cur /\ Live(state[k])
    BY Zenon, <2>1, <2>2 DEF Children, Live
  <2> QED BY ZenonT(30), <2>1, <2>2, <2>3, <1>e, ParkedStates, WaitParked
<1>10. ASSUME NEW e \in Eps, NEW d \in {0} \cup Delays, RecvPark(e, d) PROVE WaitSound' /\ IdsGrow'
  BY ZenonT(30), <1>10, <1>e, ParkedStates, WaitParked DEF RecvPark, Enters
<1>11. ASSUME NEW d \in Delays, Sleep(d) PROVE WaitSound' /\ IdsGrow'
  BY ZenonT(30), <1>11, <1>e, ParkedStates, WaitParked DEF Sleep, Enters
<1>12. ASSUME ReadPark PROVE WaitSound' /\ IdsGrow'
  BY ZenonT(30), <1>12, <1>e, ParkedStates, WaitParked DEF ReadPark, Enters
<1>13. ASSUME ReadServed PROVE WaitSound' /\ IdsGrow'
  BY Zenon, <1>13, <1>d DEF ReadServed
<1>14. ASSUME NEW e \in Eps, CallQueue(e) PROVE WaitSound' /\ IdsGrow'
  BY ZenonT(30), <1>14, <1>e, ParkedStates, WaitParked DEF CallQueue, Enters
<1>15. ASSUME NEW e \in Eps, NEW r \in Tids, CallReceiver(e, r) PROVE WaitSound' /\ IdsGrow'
  <2> DEFINE s == [Drained EXCEPT ![r] = Ready, ![cur] = BlockedCall(e)]
  <2>1. cur \in Tids /\ Live(state[cur]) /\ state[r].is = "BlockedRecv" /\ parent' = parent
    BY Zenon, <1>15, <1>a DEF CallReceiver, Enters, Smallest, Receivers
  <2>2. /\ s \in [Tids -> TaskStates]
        /\ \A t \in Tids : s[t] = IF t = cur THEN BlockedCall(e) ELSE IF t = r THEN Ready ELSE Drained[t]
    BY Zenon, <2>1, <1>b, ParkedStates
  <2>3. <<r>> \o ready \in Seq(Tids)
    BY ZenonT(30), <1>b, SingletonFacts, ConcatFacts
  <2>4. Handoff(s, <<r>> \o ready)
    BY ZenonT(30), <1>15 DEF CallReceiver
  <2> HIDE DEF s
  <2>5. \A t \in Tids : s[t].is # "Running"
    BY SMTT(30), <2>1, <2>2, <1>b, PlainKinds
  <2>6. Switched(s)
    BY ZenonT(30), <2>2, <2>3, <2>4, <2>5, HandoffFacts
  <2>7. Live(state[r])
    BY Zenon, <2>1 DEF Live, InTable
  <2> QED BY SMTT(30), <2>1, <2>2, <2>6, <2>7, <1>e, PlainKinds, WaitDrained
<1>16. ASSUME NEW e \in Eps, RecvQueued(e) PROVE WaitSound' /\ IdsGrow'
  <2> DEFINE h == Head(pending[e])
  <2>1. /\ pending[e] \in Seq(Tids) /\ pending[e] # <<>> /\ Distinct(pending[e])
        /\ parent' = parent /\ state' = [Drained EXCEPT ![h] = BlockedCall(e)]
    BY Zenon, <1>16 DEF RecvQueued, TypeOK, PendingExact, Distinct
  <2>2. h \in Elements(pending[e]) /\ h \in Tids
    BY SMTT(30), <2>1, QueueEndFacts DEF Elements
  <2>3. state[h] = BlockedSend(e)
    BY ZenonT(30), <2>2 DEF PendingExact
  <2> HIDE DEF h
  <2>4. \A t \in Tids : state'[t] = IF t = h THEN BlockedCall(e) ELSE Drained[t]
    BY Zenon, <2>1, <2>2, <1>b
  <2>5. Live(state[h])
    BY ZenonT(30), <2>3, <1>e
  <2> QED BY ZenonT(30), <2>1, <2>4, <2>5, <1>c, <1>e, PlainKinds, WaitDrained
<1>17. ASSUME NEW e \in Eps, Reply(e) PROVE WaitSound' /\ IdsGrow'
  <2> DEFINE c == caller[e]
  <2>1. cur \in Tids /\ server[e] = cur /\ parent' = parent
    BY ZenonT(30), <1>17, <1>a DEF Reply, Enters
  <2>2. c \in Tids /\ state[c] = BlockedCall(e)
    BY SMTT(30), <2>1, <1>b DEF ReplyOwed, TypeOK
  <2>3. state' = [Drained EXCEPT ![c] = Ready]
    BY ZenonT(30), <1>17, <2>2, <1>b DEF Reply
  <2> HIDE DEF c
  <2>4. \A t \in Tids : state'[t] = IF t = c THEN Ready ELSE Drained[t]
    BY ZenonT(30), <2>2, <2>3, <1>b
  <2>5. Live(state[c])
    BY Zenon, <2>2, <1>e
  <2> QED BY Zenon, <2>1, <2>4, <2>5, <1>c, <1>e, PlainKinds, WaitDrained
<1>18. ASSUME Timer PROVE WaitSound' /\ IdsGrow'
  <2>1. PICK w \in Descending(Expired) :
          IF since + 1 < Quantum
          THEN since' = since + 1 /\ state' = Ticked /\ ready' = w \o ready /\ cur' = cur
          ELSE since' = 0 /\ Rotate(Ticked, w \o ready)
    BY Zenon, <1>18 DEF Timer
  <2>2. w \o ready \in Seq(Tids)
    <3>1. Expired \in SUBSET Tids
      BY Zenon DEF Expired
    <3>2. w \in Seq(Tids)
      BY SMTT(30), <3>1, FiniteFacts, DescendingFacts
    <3> QED BY ZenonT(30), <3>2, <1>b, ConcatFacts
  <2>3. /\ Ticked \in [Tids -> TaskStates]
        /\ \A t \in Tids : Ticked[t].is = "Running" <=> t = cur
    BY Zenon, TickedFacts DEF CurrentRuns
  <2>4. Switched(Ticked)
    <3>1. CASE since + 1 < Quantum
      BY ZenonT(30), <2>1, <3>1 DEF Switched
    <3>2. CASE ~(since + 1 < Quantum)
      BY ZenonT(30), <2>1, <2>2, <2>3, <3>2, RotateFacts DEF TypeOK
    <3> QED BY Zenon, <3>1, <3>2
  <2>5. ASSUME NEW t \in Tids
        PROVE  \/ Ticked[t] = Drained[t]
               \/ Live(state[t]) /\ Live(Ticked[t]) /\ Ticked[t].is # "BlockedWait"
    <3>1. t \in Expired => state[t].is \in {"BlockedRecv", "BlockedSleep"}
      BY Zenon DEF Expired
    <3> QED BY Zenon, <3>1, TickedFacts, PlainKinds DEF Live, InTable
  <2>6. parent' = parent
    BY Zenon, <1>18 DEF Timer
  <2> QED BY ZenonT(30), <2>3, <2>4, <2>5, <2>6, WaitDrained
<1>19. ASSUME Keyboard PROVE WaitSound' /\ IdsGrow'
  <2>1. parent' = parent
    BY Zenon, <1>19 DEF Keyboard
  <2>2. \A t \in Tids : state'[t] = state[t] \/ (state[t].is = "BlockedInput" /\ state'[t] = Ready)
    BY Zenon, <1>19 DEF Keyboard, TypeOK
  <2>3. \A t \in Tids :
          /\ Live(state'[t]) <=> Live(state[t])
          /\ state'[t].is = "Zombie" <=> state[t].is = "Zombie"
          /\ state'[t].is = "New" <=> state[t].is = "New"
          /\ state'[t].is = "BlockedWait" => state[t].is = "BlockedWait"
    BY ZenonT(30), <2>2, PlainKinds DEF Live, InTable
  <2> QED BY ZenonT(30), <2>1, <2>3, <1>c, WaitFrame
<1>20. ASSUME UNCHANGED vars PROVE WaitSound' /\ IdsGrow'
  BY Zenon, <1>20 DEF vars, WaitSound, IdsGrow
<1> QED BY Zenon, <1>1, <1>3, <1>4, <1>5, <1>6, <1>7, <1>8, <1>9, <1>10, <1>11, <1>12, <1>13,
           <1>14, <1>15, <1>16, <1>17, <1>18, <1>19, <1>20 DEF Next
=============================================================================
