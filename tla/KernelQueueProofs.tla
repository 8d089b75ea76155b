------------------------- MODULE KernelQueueProofs --------------------------
(***************************************************************************)
(* Every step of Kernel keeps the ready queue exact: it holds the ready    *)
(* tasks, each once.                                                       *)
(***************************************************************************)
EXTENDS KernelIpcProofs

-----------------------------------------------------------------------------
(* The ready queue *)

\* Whoever is new in the ready queue is runnable.
Fresh == \A t \in Elements(ready') : t \in Elements(ready) \/ state'[t].is = "Ready"

\* A handler that wakes the tasks W and puts them in the queue, and makes
\* nobody else runnable, works on an exact queue; and so does the rest of it,
\* whether it hands the CPU over, rotates or returns.
LEMMA QueueFacts ==
  ASSUME TypeOK, CurrentRuns, QueueExact,
         NEW s \in [Tids -> TaskStates], NEW q \in Seq(Tids), Distinct(q),
         NEW W \in SUBSET Tids, Elements(q) = W \cup Elements(ready),
         \A t \in W : s[t].is = "Ready",
         \A t \in Tids : t \notin W /\ s[t].is = "Ready" => state[t].is = "Ready",
         \A t \in Tids : state[t].is \in {"Ready", "Zombie", "Reaping", "Gone"} =>
                           s[t].is \in {"Ready", "Zombie", "Reaping", "Gone"},
         \/ state' = s /\ ready' = q
         \/ (\A t \in Tids : s[t].is # "Running") /\ Handoff(s, q)
         \/ (\A t \in Tids : s[t].is = "Running" <=> t = cur) /\ Rotate(s, q)
  PROVE  QueueExact' /\ Fresh
<1>0. Elements(ready) \subseteq Tids /\ Elements(q) \subseteq Tids
  BY DEF TypeOK, Elements
<1>1. Queues(s, q)
  BY Zenon, <1>0 DEF Queues, QueueExact
<1>2. Queues(state', ready')
  BY Zenon, <1>1, HandoffFacts, RotateFacts DEF TypeOK
<1>3. Switched(s)
  <2>1. CASE state' = s
    BY Zenon, <2>1 DEF Switched
  <2>2. CASE (\A t \in Tids : s[t].is # "Running") /\ Handoff(s, q)
    BY Zenon, <2>2, HandoffFacts
  <2>3. CASE (\A t \in Tids : s[t].is = "Running" <=> t = cur) /\ Rotate(s, q)
    BY Zenon, <2>3, RotateFacts DEF TypeOK
  <2> QED BY Zenon, <2>1, <2>2, <2>3
<1>4. \A t \in Elements(ready') : t \in Elements(q) \/ (t \in Tids /\ s[t].is = "Running")
  <2>1. CASE ready' = q
    BY Zenon, <2>1
  <2>2. CASE (\A t \in Tids : s[t].is # "Running") /\ Handoff(s, q)
    <3>1. ready' = <<>> \/ \E i \in DOMAIN q : ready' = Remaining(q, i)
      BY Zenon, <2>2 DEF Handoff
    <3>2. CASE ready' = <<>>
      BY <3>2 DEF Elements
    <3>3. CASE \E i \in DOMAIN q : ready' = Remaining(q, i)
      BY <3>3, RemainingFacts
    <3> QED BY Zenon, <3>1, <3>2, <3>3
  <2>3. CASE (\A t \in Tids : s[t].is = "Running" <=> t = cur) /\ Rotate(s, q)
    <3>1. \/ ready' = <<>>
          \/ \E i \in DOMAIN q : ready' = Remaining(q, i) \o (IF cur = NoTask THEN <<>> ELSE <<cur>>)
      BY Zenon, <2>3 DEF Rotate
    <3>2. CASE ready' = <<>>
      BY <3>2 DEF Elements
    <3>3. ASSUME NEW i \in DOMAIN q,
                 ready' = Remaining(q, i) \o (IF cur = NoTask THEN <<>> ELSE <<cur>>)
          PROVE  \A t \in Elements(ready') : t \in Elements(q) \/ (t \in Tids /\ s[t].is = "Running")
      <4> DEFINE z == IF cur = NoTask THEN <<>> ELSE <<cur>>
                 r == Remaining(q, i)
      <4>1. z \in Seq(Tids) /\ Elements(z) \subseteq {cur} /\ Elements(z) \subseteq Tids
        BY SingletonFacts DEF TypeOK, Elements
      <4>2. r \in Seq(Tids) /\ Elements(r) \subseteq Elements(q)
        BY RemainingFacts
      <4>3. ready' = r \o z
        BY Zenon, <3>3
      <4> HIDE DEF r, z
      <4>4. Elements(ready') = Elements(r) \cup Elements(z)
        BY SMTT(30), <4>1, <4>2, <4>3, ConcatFacts
      <4> QED BY Zenon, <4>1, <4>2, <4>4, <2>3
    <3> QED BY Zenon, <3>1, <3>2, <3>3
  <2> QED BY Zenon, <2>1, <2>2, <2>3
<1>5. Fresh
  <2> SUFFICES ASSUME NEW t \in Elements(ready'), t \notin Elements(ready)
               PROVE  state'[t].is = "Ready"
    BY Zenon DEF Fresh
  <2>1. t \in Tids /\ s[t].is \in {"Ready", "Running"}
    BY Zenon, <1>0, <1>4
  <2>2. state'[t].is \in {"Ready", "Running"}
    BY Zenon, <1>3, <2>1, PlainKinds DEF Switched
  <2> QED BY Zenon, <1>2, <2>2 DEF Queues
<1> QED BY Zenon, <1>2, <1>5 DEF Queues, QueueExact, Distinct

\* Parking the current task keeps the ready queue exact.
LEMMA QueuePark ==
  ASSUME TypeOK, CurrentRuns, QueueExact, cur # NoTask,
         NEW x \in TaskStates, x.is \notin {"Running", "Ready"},
         Handoff([Drained EXCEPT ![cur] = x], ready)
  PROVE  QueueExact' /\ Fresh
<1> DEFINE s == [Drained EXCEPT ![cur] = x]
<1>1. /\ cur \in Tids /\ s \in [Tids -> TaskStates]
      /\ \A t \in Tids : s[t] = IF t = cur THEN x ELSE Drained[t]
      /\ \A t \in Tids : s[t].is # "Running"
  BY Zenon, ParkFacts
<1>2. ready \in Seq(Tids) /\ Distinct(ready)
  BY Zenon DEF TypeOK, QueueExact, Distinct
<1> HIDE DEF s
<1>3. \A t \in Tids : \/ Drained[t] = state[t] /\ state[t].is # "Reaping"
                      \/ state[t].is = "Reaping" /\ Drained[t] = Gone
  BY Zenon, DrainedFacts
<1>4. state[cur].is = "Running"
  BY Zenon, <1>1 DEF CurrentRuns
<1>5. \A t \in Tids : s[t].is = "Ready" => state[t].is = "Ready"
  BY <1>1, <1>3, PlainKinds
<1>6. \A t \in Tids : state[t].is \in {"Ready", "Zombie", "Reaping", "Gone"} =>
                        s[t].is \in {"Ready", "Zombie", "Reaping", "Gone"}
  BY <1>1, <1>3, <1>4, PlainKinds
<1>7. Elements(ready) = {} \cup Elements(ready) /\ {} \in SUBSET Tids
  BY Zenon
<1>8. Handoff(s, ready)
  BY Zenon DEF s
<1> QED BY ZenonT(30), <1>1, <1>2, <1>5, <1>6, <1>7, <1>8, QueueFacts

\* The end of a task wakes whom it must, once, and keeps the ready queue exact.
LEMMA QueueDeath ==
  ASSUME TypeOK, CurrentRuns, QueueExact, ReplyOwed,
         NEW s \in [Tids -> TaskStates], NEW v \in Tids, NEW c \in Codes,
         v = cur \/ parent[v] # v,
         \A t \in Tids : s[t] = state[t] \/ (state[t].is = "Reaping" /\ s[t] = Gone),
         NEW w \in WakeOrders(s, v),
         \/ state' = Terminated(s, v, c) /\ ready' = w \o ready
         \/ v = cur /\ Handoff(Terminated(s, v, c), w \o ready)
  PROVE  QueueExact' /\ Fresh
<1> DEFINE T == Terminated(s, v, c)
<1>1. T \in [Tids -> TaskStates] /\ (v = cur => \A t \in Tids : T[t].is # "Running")
  <2>1. \A t \in Tids : s[t].is = "Running" <=> t = cur
    BY PlainKinds DEF CurrentRuns
  <2> QED BY <2>1, TerminatedFacts
<1>2. \A e \in StrandedEps(s, v) :
        /\ e \in Eps /\ caller[e] \in Tids /\ state[caller[e]] = BlockedCall(e)
        /\ s[caller[e]].is = "BlockedCall" /\ caller[e] # v
  BY ZenonT(30) DEF StrandedEps, ReplyOwed, TypeOK
<1>3. w \in Seq(Tids) /\ Elements(w) = Woken(s, v) /\ Distinct(w)
  <2>1. \A e, f \in StrandedEps(s, v) : caller[e] = caller[f] => e = f
    BY SMTT(30), <1>2, PlainKinds
  <2> QED BY Zenon, <2>1, WakeFacts
<1>4. \A t \in Woken(s, v) : /\ t \in Tids /\ T[t] = Ready
                             /\ s[t].is \in {"BlockedCall", "BlockedWait"}
  <2> SUFFICES ASSUME NEW t \in Woken(s, v)
               PROVE  t \in Tids /\ T[t] = Ready /\ s[t].is \in {"BlockedCall", "BlockedWait"}
    BY ZenonT(30)
  <2>1. CASE \E e \in StrandedEps(s, v) : caller[e] = t
    BY SMTT(30), <2>1, <1>2, TerminatedCases, PlainKinds
  <2>2. CASE Delivers(s, v) /\ t = parent[v]
    <3>1. t \in Tids /\ s[t].is = "BlockedWait"
      BY Zenon, <2>2 DEF Delivers, TypeOK
    <3>2. t # v
      <4>1. CASE v = cur
        <5>1. state[v].is = "Running"
          BY Zenon, <4>1 DEF CurrentRuns
        <5> QED BY ZenonT(30), <5>1, <3>1, PlainKinds
      <4>2. CASE parent[v] # v
        BY Zenon, <4>2, <2>2
      <4> QED BY Zenon, <4>1, <4>2
    <3> QED BY SMTT(30), <3>1, <3>2, <2>2, TerminatedCases, PlainKinds
  <2> QED BY Zenon, <2>1, <2>2 DEF Woken
<1>5. ready \in Seq(Tids) /\ Distinct(ready) /\ Elements(ready) \subseteq Tids
  BY SMTT(30) DEF TypeOK, QueueExact, Distinct, Elements
<1>6. Elements(w) \cap Elements(ready) = {}
  <2>1. \A t \in Elements(ready) : state[t].is \notin {"BlockedCall", "BlockedWait"}
    BY Zenon DEF QueueExact
  <2>2. \A t \in Elements(w) : t \in Tids /\ state[t].is \in {"BlockedCall", "BlockedWait"}
    BY Zenon, <1>3, <1>4, PlainKinds
  <2> QED BY Zenon, <2>1, <2>2
<1> DEFINE q == w \o ready
<1>7. /\ q \in Seq(Tids) /\ Distinct(q)
      /\ Elements(q) = Elements(w) \cup Elements(ready)
  BY SMTT(30), <1>3, <1>5, <1>6, ConcatFacts
<1>8. \A t \in Tids : t \notin Elements(w) /\ T[t].is = "Ready" => state[t].is = "Ready"
  <2> SUFFICES ASSUME NEW t \in Tids, t \notin Woken(s, v), T[t].is = "Ready"
               PROVE  state[t].is = "Ready"
    BY ZenonT(30), <1>3
  <2>1. T[t] = s[t]
    BY SMTT(30), TerminatedCases, PlainKinds DEF Woken
  <2> QED BY ZenonT(30), <2>1, PlainKinds
<1>9. \A t \in Tids : state[t].is \in {"Ready", "Zombie", "Reaping", "Gone"} =>
                        T[t].is \in {"Ready", "Zombie", "Reaping", "Gone"}
  BY SMTT(30), TerminatedCases, PlainKinds
<1>10. \/ state' = T /\ ready' = q
       \/ (\A t \in Tids : T[t].is # "Running") /\ Handoff(T, q)
  BY ZenonT(30), <1>1
<1>11. /\ Elements(w) \in SUBSET Tids
       /\ \A t \in Elements(w) : T[t].is = "Ready"
  BY SMTT(30), <1>3, <1>4, PlainKinds
<1> HIDE DEF T, q
<1> QED BY ZenonT(30), <1>1, <1>7, <1>8, <1>9, <1>10, <1>11, QueueFacts

\* Every step keeps the ready queue exact, and queues only runnable tasks; the
\* exception is a dead reader that the keyboard still has on its list.
LEMMA QueueStep ==
  IInv /\ [Next]_vars =>
    QueueExact' /\ (Fresh \/ (waiters # <<>> /\ ready' = <<Head(waiters)>> \o ready
                              /\ waiters' = Tail(waiters)))
<1> DEFINE Goal == QueueExact' /\ Fresh
<1> SUFFICES ASSUME TypeOK, CurrentRuns, QueueExact, ReplyOwed, PendingExact, WaitSound,
                    ReadersRegistered, [Next]_vars
             PROVE  Goal \/ (QueueExact' /\ waiters # <<>>
                             /\ ready' = <<Head(waiters)>> \o ready /\ waiters' = Tail(waiters))
  BY Zenon DEF IInv
<1>a. cur # NoTask => cur \in Tids /\ state[cur].is = "Running"
  BY Zenon DEF TypeOK, CurrentRuns
<1>b. /\ Drained \in [Tids -> TaskStates] /\ NoTask \notin Tids
      /\ ready \in Seq(Tids) /\ Distinct(ready) /\ Elements(ready) \subseteq Tids
      /\ \A t \in Tids : \/ Drained[t] = state[t] /\ state[t].is # "Reaping"
                         \/ state[t].is = "Reaping" /\ Drained[t] = Gone
      /\ \A t \in Tids : Drained[t].is = "Running" <=> t = cur
  <2>1. NoTask \notin Tids
    BY DEF NoTask, Tids
  <2>2. ready \in Seq(Tids) /\ Distinct(ready) /\ Elements(ready) \subseteq Tids
    BY SMTT(30) DEF TypeOK, QueueExact, Distinct, Elements
  <2> QED BY Zenon, <2>1, <2>2, DrainedFacts DEF CurrentRuns
<1>c. \A t \in Tids : Drained[t].is = "Ready" => state[t].is = "Ready"
  BY Zenon, <1>b, PlainKinds
<1>d. \A t \in Tids : state[t].is \in {"Ready", "Zombie", "Reaping", "Gone"} =>
                        Drained[t].is \in {"Ready", "Zombie", "Reaping", "Gone"}
  BY Zenon, <1>b, PlainKinds
<1>e. Elements(ready) = {} \cup Elements(ready) /\ {} \in SUBSET Tids
  BY Zenon
<1>f. ASSUME NEW s \in [Tids -> TaskStates], state' = s, ready' = ready,
             \A t \in Tids : s[t].is = "Ready" => state[t].is = "Ready",
             \A t \in Tids : state[t].is \in {"Ready", "Zombie", "Reaping", "Gone"} =>
                               s[t].is \in {"Ready", "Zombie", "Reaping", "Gone"}
      PROVE  Goal
  BY SMTT(30), <1>f, <1>b, <1>e, QueueFacts
<1>g. ASSUME NEW u \in Tids, state[u].is \notin {"Ready", "Zombie", "Reaping", "Gone"},
             NEW q \in Seq(Tids), q = <<u>> \o ready \/ q = Append(ready, u)
      PROVE  Distinct(q) /\ Elements(q) = {u} \cup Elements(ready)
  <2> DEFINE z == <<u>>
  <2>1. u \notin Elements(ready)
    BY Zenon, <1>g DEF QueueExact
  <2>2. z \in Seq(Tids) /\ Elements(z) = {u} /\ Distinct(z)
    BY Zenon, SingletonFacts
  <2>3. CASE q = z \o ready
    <3> HIDE DEF z
    <3> QED BY <1>b, <2>1, <2>2, <2>3, ConcatFacts
  <2>4. CASE q = Append(ready, u)
    BY SMTT(30), <1>b, <2>1, <2>4, QueueEndFacts
  <2> QED BY Zenon, <1>g, <2>3, <2>4
<1>h. ASSUME NEW s \in [Tids -> TaskStates], s = state', NEW q \in Seq(Tids), q = ready',
             Distinct(q), NEW W \in SUBSET Tids, Elements(q) = W \cup Elements(ready),
             \A t \in W : s[t].is = "Ready",
             \A t \in Tids : t \notin W /\ s[t].is = "Ready" => state[t].is = "Ready",
             \A t \in Tids : state[t].is \in {"Ready", "Zombie", "Reaping", "Gone"} =>
                               s[t].is \in {"Ready", "Zombie", "Reaping", "Gone"}
      PROVE  Goal
  BY ZenonT(30), <1>h, QueueFacts
<1>i. ASSUME NEW u \in Tids, state[u].is \notin {"Ready", "Zombie", "Reaping", "Gone"},
             state' = [Drained EXCEPT ![u] = Ready],
             ready' = <<u>> \o ready \/ ready' = Append(ready, u)
      PROVE  Goal
  <2>2. \A t \in Tids : state'[t] = IF t = u THEN Ready ELSE Drained[t]
    BY Zenon, <1>i, <1>b
  <2>1. <<u>> \o ready \in Seq(Tids) /\ Append(ready, u) \in Seq(Tids)
    BY SMTT(30), <1>b, SingletonFacts, ConcatFacts
  <2>3. state' \in [Tids -> TaskStates] /\ ready' \in Seq(Tids)
    BY ZenonT(30), <1>i, <2>1, <1>b, ParkedStates
  <2>4. Distinct(ready') /\ Elements(ready') = {u} \cup Elements(ready)
    BY Zenon, <1>i, <2>3, <1>g
  <2>5. /\ \A t \in {u} : state'[t].is = "Ready"
        /\ \A t \in Tids : t \notin {u} /\ state'[t].is = "Ready" => state[t].is = "Ready"
    BY SMTT(30), <2>2, <1>c, PlainKinds
  <2>6. \A t \in Tids : state[t].is \in {"Ready", "Zombie", "Reaping", "Gone"} =>
                          state'[t].is \in {"Ready", "Zombie", "Reaping", "Gone"}
    BY Zenon, <2>2, <1>d, PlainKinds
  <2> DEFINE s == state'
             q == ready'
             W == {u}
  <2>7. /\ s \in [Tids -> TaskStates] /\ s = state' /\ q \in Seq(Tids) /\ q = ready'
        /\ Distinct(q) /\ W \in SUBSET Tids /\ Elements(q) = W \cup Elements(ready)
        /\ \A t \in W : s[t].is = "Ready"
        /\ \A t \in Tids : t \notin W /\ s[t].is = "Ready" => state[t].is = "Ready"
        /\ \A t \in Tids : state[t].is \in {"Ready", "Zombie", "Reaping", "Gone"} =>
                             s[t].is \in {"Ready", "Zombie", "Reaping", "Gone"}
    BY ZenonT(30), <2>3, <2>4, <2>5, <2>6
  <2> HIDE DEF Goal, s, q, W
  <2> QED BY ZenonT(30), <2>7, <1>h
<1>1. ASSUME Yield PROVE Goal
  <2> DEFINE s == Drained
             W == {}
  <2>1. Rotate(s, ready)
    BY Zenon, <1>1 DEF Yield
  <2>2. /\ \A t \in W : s[t].is = "Ready"
        /\ \A t \in Tids : t \notin W /\ s[t].is = "Ready" => state[t].is = "Ready"
        /\ \A t \in Tids : state[t].is \in {"Ready", "Zombie", "Reaping", "Gone"} =>
                             s[t].is \in {"Ready", "Zombie", "Reaping", "Gone"}
        /\ W \in SUBSET Tids /\ Elements(ready) = W \cup Elements(ready)
        /\ s \in [Tids -> TaskStates] /\ \A t \in Tids : s[t].is = "Running" <=> t = cur
    BY Zenon, <1>b, <1>c, <1>d
  <2> HIDE DEF Goal, s, W
  <2> QED BY ZenonT(30), <2>1, <2>2, <1>b, QueueFacts DEF Goal
<1>2. ASSUME NEW s \in [Tids -> TaskStates], NEW c \in Codes, cur # NoTask,
             \A t \in Tids : s[t] = state[t] \/ (state[t].is = "Reaping" /\ s[t] = Gone),
             Dies(s, c)
      PROVE  Goal
  <2>1. PICK w \in WakeOrders(s, cur) : Handoff(Terminated(s, cur, c), w \o ready)
    BY Zenon, <1>2 DEF Dies
  <2> QED BY Zenon, <1>2, <1>a, <2>1, QueueDeath
<1>3. ASSUME Exit PROVE Goal
  BY Zenon, <1>3, <1>2, <1>b DEF Exit, Enters, Codes
<1>4. ASSUME Fault PROVE Goal
  BY ZenonT(30), <1>4, <1>2 DEF Fault, Enters, Codes, TypeOK
<1>5. ASSUME Return PROVE Goal
  BY ZenonT(30), <1>5, <1>b, <1>c, <1>d, <1>f DEF Return, schedVars
<1>6. ASSUME NEW v \in Tids, Kill(v) PROVE Goal
  <2>1. PICK w \in WakeOrders(Drained, v) : ready' = w \o ready
    BY ZenonT(30), <1>6 DEF Kill
  <2>2. parent[v] # v /\ state' = Terminated(Drained, v, "kill") /\ "kill" \in Codes
    BY Zenon, <1>6 DEF Kill, Codes
  <2> QED BY ZenonT(30), <1>b, <2>1, <2>2, QueueDeath
<1>7. ASSUME NEW u \in Tids, Spawn(u) PROVE Goal
  BY Zenon, <1>7, <1>i DEF Spawn, Smallest
<1>8. ASSUME NEW z \in Tids, WaitReap(z) PROVE Goal
  <2>1. state[z].is = "Zombie" /\ ready' = ready /\ state' = [Drained EXCEPT ![z] = Gone]
    BY Zenon, <1>8 DEF WaitReap, Smallest, ZombieChildren, schedVars
  <2>2. \A t \in Tids : state'[t] = IF t = z THEN Gone ELSE Drained[t]
    BY Zenon, <2>1, <1>b
  <2>3. state' \in [Tids -> TaskStates]
    BY ZenonT(30), <2>1, <1>b, ConstructorFacts
  <2> QED BY ZenonT(30), <2>1, <2>2, <2>3, <1>c, <1>d, <1>f, PlainKinds
<1>9. ASSUME WaitPark PROVE Goal
  BY ZenonT(30), <1>9, ParkedStates, QueuePark DEF WaitPark, Enters
<1>10. ASSUME NEW e \in Eps, NEW d \in {0} \cup Delays, RecvPark(e, d) PROVE Goal
  BY ZenonT(30), <1>10, ParkedStates, QueuePark DEF RecvPark, Enters
<1>11. ASSUME NEW d \in Delays, Sleep(d) PROVE Goal
  BY ZenonT(30), <1>11, ParkedStates, QueuePark DEF Sleep, Enters
<1>12. ASSUME ReadPark PROVE Goal
  BY Zenon, <1>12, ParkedStates, QueuePark DEF ReadPark, Enters
<1>13. ASSUME ReadServed PROVE Goal
  BY ZenonT(30), <1>13, <1>b, <1>c, <1>d, <1>f DEF ReadServed, schedVars
<1>14. ASSUME NEW e \in Eps, CallQueue(e) PROVE Goal
  BY ZenonT(30), <1>14, ParkedStates, QueuePark DEF CallQueue, Enters
<1>15. ASSUME NEW e \in Eps, NEW r \in Tids, CallReceiver(e, r) PROVE Goal
  <2> DEFINE s == [Drained EXCEPT ![r] = Ready, ![cur] = BlockedCall(e)]
             q == <<r>> \o ready
  <2>1. cur \in Tids /\ state[cur].is = "Running" /\ state[r].is = "BlockedRecv"
    BY ZenonT(30), <1>15, <1>a DEF CallReceiver, Enters, Smallest, Receivers
  <2>2. /\ s \in [Tids -> TaskStates]
        /\ \A t \in Tids : s[t] = IF t = cur THEN BlockedCall(e) ELSE IF t = r THEN Ready ELSE Drained[t]
    BY Zenon, <2>1, <1>b, ParkedStates
  <2>3. q \in Seq(Tids)
    BY Zenon, <1>b, SingletonFacts, ConcatFacts
  <2>4. Distinct(q) /\ Elements(q) = {r} \cup Elements(ready)
    BY ZenonT(30), <2>1, <2>3, <1>g
  <2>5. Handoff(s, q)
    BY Zenon, <1>15 DEF CallReceiver
  <2> HIDE DEF s, q, Goal
  <2>6. \A t \in Tids : s[t].is # "Running"
    BY SMTT(30), <2>1, <2>2, <1>b, PlainKinds
  <2>7. \A t \in {r} : s[t].is = "Ready"
    BY ZenonT(30), <2>1, <2>2, PlainKinds
  <2>8. \A t \in Tids : t \notin {r} /\ s[t].is = "Ready" => state[t].is = "Ready"
    BY SMTT(30), <2>2, <1>c, PlainKinds
  <2>9. \A t \in Tids : state[t].is \in {"Ready", "Zombie", "Reaping", "Gone"} =>
                          s[t].is \in {"Ready", "Zombie", "Reaping", "Gone"}
    BY ZenonT(30), <2>1, <2>2, <1>d, PlainKinds
  <2> QED BY ZenonT(30), <2>2, <2>3, <2>4, <2>5, <2>6, <2>7, <2>8, <2>9, QueueFacts DEF Goal
<1>16. ASSUME NEW e \in Eps, RecvQueued(e) PROVE Goal
  <2> DEFINE h == Head(pending[e])
  <2>1. /\ pending[e] \in Seq(Tids) /\ pending[e] # <<>> /\ Distinct(pending[e])
        /\ ready' = ready /\ state' = [Drained EXCEPT ![h] = BlockedCall(e)]
    BY Zenon, <1>16 DEF RecvQueued, TypeOK, PendingExact, Distinct, schedVars
  <2>2. h \in Elements(pending[e]) /\ h \in Tids
    BY SMTT(30), <2>1, QueueEndFacts DEF Elements
  <2>3. state[h] = BlockedSend(e)
    BY Zenon, <2>2 DEF PendingExact
  <2> HIDE DEF h
  <2>4. \A t \in Tids : state'[t] = IF t = h THEN BlockedCall(e) ELSE Drained[t]
    BY ZenonT(30), <2>1, <2>2, <1>b
  <2>5. state' \in [Tids -> TaskStates]
    BY ZenonT(30), <2>1, <1>b, ParkedStates
  <2>6. state[h].is = "BlockedSend"
    BY SMTT(30), <2>3, PlainKinds
  <2> QED BY ZenonT(30), <2>1, <2>4, <2>5, <2>6, <1>c, <1>d, <1>f, PlainKinds
<1>17. ASSUME NEW e \in Eps, Reply(e) PROVE Goal
  <2> DEFINE c == caller[e]
  <2>1. cur \in Tids /\ server[e] = cur
    BY Zenon, <1>17, <1>a DEF Reply, Enters
  <2>2. c \in Tids /\ state[c] = BlockedCall(e)
    BY SMTT(30), <2>1, <1>b DEF ReplyOwed, TypeOK
  <2>3. state' = [Drained EXCEPT ![c] = Ready] /\ ready' = <<c>> \o ready
    BY ZenonT(30), <1>17, <2>2, <1>b DEF Reply
  <2> HIDE DEF c
  <2>4. state[c].is = "BlockedCall"
    BY SMTT(30), <2>2, PlainKinds
  <2> QED BY ZenonT(30), <2>2, <2>3, <2>4, <1>i
<1>18. ASSUME Timer PROVE Goal
  <2>1. PICK w \in Descending(Expired) :
          IF since + 1 < Quantum
          THEN since' = since + 1 /\ state' = Ticked /\ ready' = w \o ready /\ cur' = cur
          ELSE since' = 0 /\ Rotate(Ticked, w \o ready)
    BY Zenon, <1>18 DEF Timer
  <2> DEFINE q == w \o ready
  <2>2. Expired \in SUBSET Tids
    BY Zenon DEF Expired
  <2>3. w \in Seq(Tids) /\ Elements(w) = Expired /\ Distinct(w)
    BY SMTT(30), <2>2, FiniteFacts, DescendingFacts
  <2>4. Expired \cap Elements(ready) = {}
    BY Zenon DEF Expired, QueueExact
  <2>5. q \in Seq(Tids) /\ Distinct(q) /\ Elements(q) = Expired \cup Elements(ready)
    BY SMTT(30), <1>b, <2>3, <2>4, ConcatFacts
  <2>6. /\ Ticked \in [Tids -> TaskStates]
        /\ \A t \in Tids : Ticked[t].is = "Running" <=> t = cur
    BY Zenon, TickedFacts DEF CurrentRuns
  <2>7. \A t \in Expired : Ticked[t].is = "Ready"
    BY ZenonT(30), <2>2, TickedFacts, PlainKinds
  <2>8. \A t \in Tids : t \notin Expired /\ Ticked[t].is = "Ready" => state[t].is = "Ready"
    BY ZenonT(30), TickedFacts, <1>c
  <2>9. \A t \in Tids : state[t].is \in {"Ready", "Zombie", "Reaping", "Gone"} =>
                          Ticked[t].is \in {"Ready", "Zombie", "Reaping", "Gone"}
    BY Zenon, TickedFacts, <1>d, <2>7
  <2>10. (state' = Ticked /\ ready' = q) \/ Rotate(Ticked, q)
    BY Zenon, <2>1
  <2> HIDE DEF q, Goal
  <2> QED BY ZenonT(30), <2>2, <2>5, <2>6, <2>7, <2>8, <2>9, <2>10, QueueFacts DEF Goal
<1>19. ASSUME Keyboard
       PROVE  Goal \/ (QueueExact' /\ waiters # <<>>
                       /\ ready' = <<Head(waiters)>> \o ready /\ waiters' = Tail(waiters))
  <2>1. CASE waiters = <<>>
    BY ZenonT(30), <1>19, <2>1, <1>f DEF Keyboard, TypeOK
  <2>2. CASE waiters # <<>>
    <3> DEFINE h == Head(waiters)
    <3>1. h \in Tids /\ 1 \in DOMAIN waiters /\ h = waiters[1]
      BY <2>2 DEF TypeOK
    <3>2. /\ ready' = <<h>> \o ready /\ waiters' = Tail(waiters)
          /\ state' = IF state[h].is = "BlockedInput" THEN [state EXCEPT ![h] = Ready] ELSE state
      BY ZenonT(30), <1>19, <2>2 DEF Keyboard
    <3>3. /\ Live(state[h]) => state[h].is = "BlockedInput"
          /\ state[h].is # "New" /\ h \notin Elements(ready)
      BY Zenon, <3>1 DEF ReadersRegistered
    <3> DEFINE z == <<h>>
    <3>4. z \in Seq(Tids) /\ Elements(z) = {h} /\ Distinct(z)
      BY Zenon, <3>1, SingletonFacts
    <3>5. ready' = z \o ready
      BY ZenonT(30), <3>2
    <3> HIDE DEF z
    <3>6. Distinct(ready') /\ Elements(ready') = {h} \cup Elements(ready)
      BY SMTT(30), <1>b, <3>3, <3>4, <3>5, ConcatFacts
    <3> HIDE DEF h
    <3>7. \A t \in Tids : state'[t] = IF t = h /\ state[t].is = "BlockedInput" THEN Ready ELSE state[t]
      BY ZenonT(30), <3>1, <3>2 DEF TypeOK
    <3>8. state'[h].is \in {"Ready", "Zombie", "Reaping", "Gone"}
      BY ZenonT(30), <3>1, <3>3, <3>7, PlainKinds DEF Live, InTable
    <3>9. QueueExact'
      <4>1. \A t \in Tids : state'[t].is = "Ready" => t \in Elements(ready')
        BY ZenonT(30), <3>1, <3>6, <3>7 DEF QueueExact
      <4>2. \A t \in Elements(ready') : state'[t].is \in {"Ready", "Zombie", "Reaping", "Gone"}
        BY ZenonT(30), <1>b, <3>1, <3>3, <3>6, <3>7, <3>8 DEF QueueExact
      <4> QED BY ZenonT(30), <3>6, <4>1, <4>2 DEF QueueExact, Distinct
    <3> QED BY ZenonT(30), <2>2, <3>2, <3>9 DEF h
  <2> QED BY Zenon, <2>1, <2>2
<1>20. ASSUME UNCHANGED vars PROVE Goal
  BY Zenon, <1>20 DEF vars, QueueExact, Fresh
<1> HIDE DEF Goal
<1> QED BY ZenonT(30), <1>1, <1>3, <1>4, <1>5, <1>6, <1>7, <1>8, <1>9, <1>10, <1>11, <1>12, <1>13,
           <1>14, <1>15, <1>16, <1>17, <1>18, <1>19, <1>20 DEF Next
=============================================================================
