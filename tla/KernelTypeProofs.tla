-------------------------- MODULE KernelTypeProofs --------------------------
(***************************************************************************)
(* The building blocks of the kernel proofs (what the helpers on states,   *)
(* queues and tables return) and the proof that every step keeps types.    *)
(***************************************************************************)
EXTENDS Kernel, FiniteSetTheorems, TLAPS

-----------------------------------------------------------------------------
(* Task states *)

\* The kinds of TaskState that carry no payload are one state each, and each
\* payload has its type.
LEMMA StateFacts ==
  ASSUME NEW s \in TaskStates
  PROVE  /\ s.is = "Ready" => s = Ready
         /\ s.is = "Running" => s = Running
         /\ s.is = "Gone" => s = Gone
         /\ s.is \in {"BlockedSend", "BlockedCall", "BlockedRecv"} => s.ep \in Eps
         /\ s.is = "BlockedSend" => s = BlockedSend(s.ep)
         /\ s.is = "BlockedCall" => s = BlockedCall(s.ep)
         /\ s.is = "BlockedRecv" => s = BlockedRecv(s.ep, s.left)
         /\ s.is = "BlockedSleep" => s = BlockedSleep(s.left)
         /\ s.left \in {0} \cup Delays
         /\ s.left > 0 => s.is \in {"BlockedRecv", "BlockedSleep"}
         /\ s.code \in Codes
BY DEF TaskStates, Plain, Ready, Running, Gone, BlockedSend, BlockedCall,
       BlockedRecv, BlockedSleep, Zombie, Delays, Codes

\* What the constructors build are task states, told apart by their kind.
LEMMA ConstructorFacts ==
  /\ \A s \in {Ready, Running, BlockedWait, BlockedInput, Reaping, Gone, New} : s \in TaskStates
  /\ \A e \in Eps : BlockedSend(e) \in TaskStates /\ BlockedCall(e) \in TaskStates
  /\ \A e \in Eps, d \in {0} \cup Delays : BlockedRecv(e, d) \in TaskStates
  /\ \A d \in Delays : BlockedSleep(d) \in TaskStates
  /\ \A c \in Codes : Zombie(c) \in TaskStates
BY DEF TaskStates, Plain, Ready, Running, BlockedWait, BlockedInput, Reaping, Gone, New

-----------------------------------------------------------------------------
(* Queues *)

Distinct(q) == \A i, j \in DOMAIN q : q[i] = q[j] => i = j

\* Concatenation joins the elements of two queues and keeps them distinct if
\* the queues share none.
LEMMA ConcatFacts ==
  ASSUME NEW T, NEW p \in Seq(T), NEW q \in Seq(T)
  PROVE  /\ p \o q \in Seq(T)
         /\ Elements(p \o q) = Elements(p) \cup Elements(q)
         /\ Distinct(p) /\ Distinct(q) /\ Elements(p) \cap Elements(q) = {} => Distinct(p \o q)
<1>1. /\ p \o q \in Seq(T)
      /\ Len(p \o q) = Len(p) + Len(q)
      /\ \A i \in 1 .. Len(p) + Len(q) :
           (p \o q)[i] = IF i <= Len(p) THEN p[i] ELSE q[i - Len(p)]
  OBVIOUS
<1>2. /\ DOMAIN p = 1 .. Len(p) /\ DOMAIN q = 1 .. Len(q)
      /\ DOMAIN (p \o q) = 1 .. Len(p) + Len(q)
      /\ Len(p) \in Nat /\ Len(q) \in Nat
  BY <1>1
<1>3. Elements(p \o q) \subseteq Elements(p) \cup Elements(q)
  BY <1>1, <1>2 DEF Elements
<1>4. Elements(p) \subseteq Elements(p \o q)
  BY <1>1, <1>2 DEF Elements
<1>5. Elements(q) \subseteq Elements(p \o q)
  <2> SUFFICES ASSUME NEW j \in 1 .. Len(q)
               PROVE  \E i \in DOMAIN (p \o q) : (p \o q)[i] = q[j]
    BY <1>2 DEF Elements
  <2> WITNESS Len(p) + j \in DOMAIN (p \o q)
  <2> QED BY <1>1, <1>2
<1>6. ASSUME Distinct(p), Distinct(q), Elements(p) \cap Elements(q) = {},
             NEW i \in DOMAIN (p \o q), NEW j \in DOMAIN (p \o q),
             (p \o q)[i] = (p \o q)[j]
      PROVE  i = j
  <2>1. CASE i <= Len(p) /\ j <= Len(p)
    BY <1>1, <1>2, <1>6, <2>1 DEF Distinct
  <2>2. CASE i > Len(p) /\ j > Len(p)
    <3>1. /\ i - Len(p) \in DOMAIN q /\ j - Len(p) \in DOMAIN q
          /\ q[i - Len(p)] = q[j - Len(p)]
      BY <1>1, <1>2, <1>6, <2>2
    <3>2. i - Len(p) = j - Len(p)
      BY <3>1, <1>6 DEF Distinct
    <3> QED BY <3>2, <1>2
  <2>3. CASE i <= Len(p) /\ j > Len(p)
    <3>1. p[i] \in Elements(p) /\ q[j - Len(p)] \in Elements(q)
      BY <1>2, <2>3 DEF Elements
    <3> QED BY <3>1, <1>1, <1>2, <1>6, <2>3
  <2>4. CASE i > Len(p) /\ j <= Len(p)
    <3>1. p[j] \in Elements(p) /\ q[i - Len(p)] \in Elements(q)
      BY <1>2, <2>4 DEF Elements
    <3> QED BY <3>1, <1>1, <1>2, <1>6, <2>4
  <2> QED BY <2>1, <2>2, <2>3, <2>4, <1>2
<1> QED BY <1>1, <1>3, <1>4, <1>5, <1>6 DEF Distinct

\* A queue of one task.
LEMMA SingletonFacts ==
  ASSUME NEW T, NEW t \in T
  PROVE  /\ <<t>> \in Seq(T)
         /\ Elements(<<t>>) = {t}
         /\ Distinct(<<t>>)
BY DEF Elements, Distinct

\* The parts of a queue before and behind one of its entries.
LEMMA SplitFacts ==
  ASSUME NEW T, NEW q \in Seq(T), NEW i \in DOMAIN q
  PROVE  LET p == SubSeq(q, i + 1, Len(q))
             r == SubSeq(q, 1, i - 1)
         IN  /\ p \in Seq(T) /\ r \in Seq(T)
             /\ Distinct(q) => /\ Distinct(p) /\ Distinct(r)
                               /\ Elements(p) \cap Elements(r) = {}
                               /\ Elements(p) \cup Elements(r) = Elements(q) \ {q[i]}
<1> DEFINE p == SubSeq(q, i + 1, Len(q))
           r == SubSeq(q, 1, i - 1)
<1>1. /\ DOMAIN q = 1 .. Len(q) /\ Len(q) \in Nat /\ i \in 1 .. Len(q)
      /\ p \in Seq(T) /\ Len(p) = Len(q) - i
      /\ \A j \in 1 .. Len(q) - i : p[j] = q[i + j]
      /\ r \in Seq(T) /\ Len(r) = i - 1
      /\ \A j \in 1 .. i - 1 : r[j] = q[j]
  BY SMTT(30)
<1>2. DOMAIN p = 1 .. Len(q) - i /\ DOMAIN r = 1 .. i - 1
  BY <1>1
<1> HIDE DEF p, r
<1>4. ASSUME Distinct(q)
      PROVE  Elements(p) \cup Elements(r) = Elements(q) \ {q[i]}
  <2>1. Elements(p) \subseteq Elements(q) \ {q[i]}
    <3> SUFFICES ASSUME NEW j \in DOMAIN p PROVE p[j] \in Elements(q) \ {q[i]}
      BY DEF Elements
    <3>1. p[j] = q[i + j] /\ i + j \in DOMAIN q /\ i + j # i
      BY <1>1, <1>2
    <3> QED BY <3>1, <1>4 DEF Elements, Distinct
  <2>2. Elements(r) \subseteq Elements(q) \ {q[i]}
    BY <1>1, <1>2, <1>4 DEF Elements, Distinct
  <2>3. ASSUME NEW j \in DOMAIN q, q[j] # q[i]
        PROVE  q[j] \in Elements(p) \cup Elements(r)
    <3>1. CASE j < i
      BY <3>1, <1>1, <1>2 DEF Elements
    <3>2. CASE j > i
      <4>1. j - i \in DOMAIN p /\ i + (j - i) = j
        BY <3>2, <1>1, <1>2
      <4>2. p[j - i] = q[j]
        BY SMTT(30), <4>1, <1>1, <1>2
      <4> QED BY <4>1, <4>2 DEF Elements
    <3> QED BY <3>1, <3>2, <2>3, <1>1
  <2> QED BY Zenon, <2>1, <2>2, <2>3 DEF Elements
<1>5. ASSUME Distinct(q)
      PROVE  Distinct(p) /\ Distinct(r) /\ Elements(p) \cap Elements(r) = {}
  <2>1. Distinct(p)
    <3> SUFFICES ASSUME NEW j \in DOMAIN p, NEW k \in DOMAIN p, p[j] = p[k] PROVE j = k
      BY DEF Distinct
    <3>1. p[j] = q[i + j] /\ p[k] = q[i + k] /\ i + j \in DOMAIN q /\ i + k \in DOMAIN q
      BY SMTT(30), <1>1, <1>2
    <3>2. i + j = i + k
      BY Zenon, <3>1, <1>5 DEF Distinct
    <3> QED BY <3>2, <1>1, <1>2
  <2>2. Distinct(r)
    BY <1>1, <1>2, <1>5 DEF Distinct
  <2>3. ASSUME NEW j \in DOMAIN p, NEW k \in DOMAIN r PROVE p[j] # r[k]
    <3>1. /\ p[j] = q[i + j] /\ r[k] = q[k]
          /\ i + j \in DOMAIN q /\ k \in DOMAIN q /\ i + j # k
      BY <1>1, <1>2
    <3> QED BY <3>1, <1>5 DEF Distinct
  <2>4. Elements(p) \cap Elements(r) = {}
    BY <2>3 DEF Elements
  <2> QED BY <2>1, <2>2, <2>4
<1> QED BY Zenon, <1>1, <1>4, <1>5 DEF p, r

\* pick_next takes out the entry it returns and keeps every other one.
LEMMA RemainingFacts ==
  ASSUME NEW T, NEW q \in Seq(T), NEW i \in DOMAIN q
  PROVE  /\ Remaining(q, i) \in Seq(T)
         /\ Distinct(q) => /\ Elements(Remaining(q, i)) = Elements(q) \ {q[i]}
                           /\ Distinct(Remaining(q, i))
<1> DEFINE p == SubSeq(q, i + 1, Len(q))
           r == SubSeq(q, 1, i - 1)
<1>1. /\ p \in Seq(T) /\ r \in Seq(T)
      /\ Distinct(q) => /\ Distinct(p) /\ Distinct(r)
                        /\ Elements(p) \cap Elements(r) = {}
                        /\ Elements(p) \cup Elements(r) = Elements(q) \ {q[i]}
  BY SplitFacts
<1>2. Remaining(q, i) = p \o r
  BY DEF Remaining
<1> HIDE DEF p, r
<1> QED BY <1>1, <1>2, ConcatFacts

-----------------------------------------------------------------------------
(* Handing the CPU over *)

\* QueueExact of a task table and a queue a handler is working on.
Queues(s, q) ==
  /\ Distinct(q)
  /\ \A t \in Tids : s[t].is = "Ready" => t \in Elements(q)
  /\ \A t \in Elements(q) : s[t].is \in {"Ready", "Zombie", "Reaping", "Gone"}

\* The new table is s, but for tasks that went from Ready to Running or back.
Switched(s) ==
  \A t \in Tids : \/ state'[t] = s[t]
                  \/ s[t] = Ready /\ state'[t] = Running
                  \/ s[t] = Running /\ state'[t] = Ready

\* Handing the CPU on from a table without a Running task makes at most one
\* Ready task Running, and keeps the ready queue exact.
LEMMA HandoffFacts ==
  ASSUME NEW s \in [Tids -> TaskStates], NEW q \in Seq(Tids),
         \A t \in Tids : s[t].is # "Running",
         Handoff(s, q)
  PROVE  /\ state' \in [Tids -> TaskStates]
         /\ cur' \in Tids \cup {NoTask}
         /\ ready' \in Seq(Tids)
         /\ CurrentRuns'
         /\ Switched(s)
         /\ Queues(s, q) => Queues(state', ready')
<1>1. CASE Eligible(s, q, NoTask) = {} /\ state' = s /\ cur' = NoTask /\ ready' = <<>>
  <2>1. Queues(s, q) => Queues(state', ready')
    <3> SUFFICES ASSUME Queues(s, q) PROVE Queues(state', ready')
      OBVIOUS
    <3>1. \A t \in Tids : s[t].is # "Ready"
      <4> SUFFICES ASSUME NEW t \in Tids, s[t].is = "Ready" PROVE FALSE
        OBVIOUS
      <4>1. PICK i \in DOMAIN q : q[i] = t
        BY DEF Queues, Elements
      <4> QED BY <1>1, <4>1 DEF Eligible, NoTask, Tids
    <3> QED BY <1>1, <3>1 DEF Queues, Distinct, Elements
  <2> QED BY <1>1, <2>1 DEF CurrentRuns, Switched, NoTask, Tids
<1>2. ASSUME NEW i \in DOMAIN q, Smallest(i, Eligible(s, q, NoTask)),
             state' = [t \in Tids |-> IF t = q[i] THEN Running ELSE s[t]],
             cur' = q[i], ready' = Remaining(q, i)
      PROVE  /\ state' \in [Tids -> TaskStates]
             /\ cur' \in Tids \cup {NoTask}
             /\ ready' \in Seq(Tids)
             /\ CurrentRuns'
             /\ Switched(s)
             /\ Queues(s, q) => Queues(state', ready')
  <2>1. q[i] \in Tids /\ s[q[i]].is = "Ready"
    BY <1>2 DEF Smallest, Eligible
  <2>2. s[q[i]] = Ready
    BY <2>1, StateFacts
  <2>3. Running \in TaskStates /\ Running.is = "Running"
    BY ConstructorFacts DEF Running, Plain
  <2>4. Queues(s, q) => Queues(state', ready')
    <3> SUFFICES ASSUME Queues(s, q) PROVE Queues(state', ready')
      OBVIOUS
    <3>1. Elements(ready') = Elements(q) \ {q[i]} /\ Distinct(ready')
      BY <1>2, RemainingFacts DEF Queues
    <3>2. Elements(q) \subseteq Tids
      BY DEF Elements
    <3> QED BY SMTT(30), <1>2, <2>1, <2>3, <3>1, <3>2 DEF Queues
  <2> QED BY <1>2, <2>1, <2>2, <2>3, <2>4, RemainingFacts DEF CurrentRuns, Switched
<1> QED BY <1>1, <1>2 DEF Handoff

\* Yielding and preemption put the current task behind everybody and keep the
\* ready queue exact.
LEMMA RotateFacts ==
  ASSUME NEW s \in [Tids -> TaskStates], NEW q \in Seq(Tids),
         cur \in Tids \cup {NoTask},
         \A t \in Tids : s[t].is = "Running" <=> t = cur,
         Rotate(s, q)
  PROVE  /\ state' \in [Tids -> TaskStates]
         /\ cur' \in Tids \cup {NoTask}
         /\ ready' \in Seq(Tids)
         /\ CurrentRuns'
         /\ Switched(s)
         /\ Queues(s, q) => Queues(state', ready')
<1>1. CASE Eligible(s, q, cur) = {} /\ state' = s /\ cur' = cur /\ ready' = <<>>
  <2>1. Queues(s, q) => Queues(state', ready')
    <3> SUFFICES ASSUME Queues(s, q) PROVE Queues(state', ready')
      OBVIOUS
    <3>1. \A t \in Tids : s[t].is # "Ready"
      <4> SUFFICES ASSUME NEW t \in Tids, s[t].is = "Ready" PROVE FALSE
        OBVIOUS
      <4>1. PICK i \in DOMAIN q : q[i] = t
        BY DEF Queues, Elements
      <4>2. t # cur
        OBVIOUS
      <4> QED BY <1>1, <4>1, <4>2 DEF Eligible
    <3> QED BY <1>1, <3>1 DEF Queues, Distinct, Elements
  <2> QED BY <1>1, <2>1 DEF CurrentRuns, Switched
<1>2. ASSUME NEW i \in DOMAIN q, Smallest(i, Eligible(s, q, cur)),
             state' = [t \in Tids |-> IF t = q[i] THEN Running
                                      ELSE IF t = cur THEN Ready ELSE s[t]],
             cur' = q[i],
             ready' = Remaining(q, i) \o (IF cur = NoTask THEN <<>> ELSE <<cur>>)
      PROVE  /\ state' \in [Tids -> TaskStates]
             /\ cur' \in Tids \cup {NoTask}
             /\ ready' \in Seq(Tids)
             /\ CurrentRuns'
             /\ Switched(s)
             /\ Queues(s, q) => Queues(state', ready')
  <2> DEFINE tail == IF cur = NoTask THEN <<>> ELSE <<cur>>
  <2>1. q[i] \in Tids /\ s[q[i]].is = "Ready" /\ q[i] # cur
    BY <1>2 DEF Smallest, Eligible
  <2>2. s[q[i]] = Ready /\ \A t \in Tids : t = cur => s[t] = Running
    BY <2>1, StateFacts
  <2>3. /\ Running \in TaskStates /\ Running.is = "Running"
        /\ Ready \in TaskStates /\ Ready.is = "Ready"
    BY ConstructorFacts DEF Running, Ready, Plain
  <2>4. /\ tail \in Seq(Tids)
        /\ Elements(tail) = {cur} \ {NoTask}
        /\ Distinct(tail)
    BY SingletonFacts DEF Elements, Distinct
  <2> HIDE DEF tail
  <2>5. ready' = Remaining(q, i) \o tail
    BY <1>2 DEF tail
  <2>6. ready' \in Seq(Tids)
    BY SMTT(30), <2>4, <2>5, ConcatFacts, RemainingFacts
  <2>7. Queues(s, q) => Queues(state', ready')
    <3> SUFFICES ASSUME Queues(s, q) PROVE Queues(state', ready')
      OBVIOUS
    <3>1. /\ Elements(Remaining(q, i)) = Elements(q) \ {q[i]}
          /\ Distinct(Remaining(q, i)) /\ Remaining(q, i) \in Seq(Tids)
      BY RemainingFacts DEF Queues
    <3>2. cur \notin Elements(q)
      BY <2>2, <2>3 DEF Queues, Elements
    <3>3. Elements(ready') = (Elements(q) \ {q[i]}) \cup ({cur} \ {NoTask}) /\ Distinct(ready')
      BY <2>4, <2>5, <3>1, <3>2, ConcatFacts
    <3>4. Elements(q) \subseteq Tids
      BY DEF Elements
    <3> QED BY SMTT(30), <1>2, <2>1, <2>3, <3>3, <3>4 DEF Queues, NoTask, Tids
  <2> QED BY SMTT(30), <1>2, <2>1, <2>2, <2>3, <2>6, <2>7 DEF CurrentRuns, Switched
<1> QED BY Zenon, <1>1, <1>2 DEF Rotate

-----------------------------------------------------------------------------
(* Waking several tasks at once *)

\* Pushing a finite set to the front of a queue queues each member once.
LEMMA DescendingFacts ==
  ASSUME NEW S \in SUBSET Int, IsFiniteSet(S), NEW w \in Descending(S)
  PROVE  w \in Seq(S) /\ Elements(w) = S /\ Distinct(w)
<1>1. Cardinality(S) \in Nat
  BY FS_CardinalityType
<1>2. w \in Seq(S) /\ DOMAIN w = 1 .. Cardinality(S) /\ Elements(w) = S
  BY <1>1 DEF Descending
<1>3. \A i, j \in 1 .. Cardinality(S) : i < j => w[i] > w[j]
  BY DEF Descending
<1>4. \A i \in DOMAIN w : w[i] \in Int
  BY <1>2 DEF Elements
<1> QED BY <1>1, <1>2, <1>3, <1>4 DEF Distinct

\* There are finitely many tasks and endpoints.
LEMMA FiniteFacts ==
  /\ \A S \in SUBSET Tids : S \in SUBSET Int /\ IsFiniteSet(S)
  /\ \A S \in SUBSET Eps : S \in SUBSET Int /\ IsFiniteSet(S)
<1>1. IsFiniteSet(Tids) /\ IsFiniteSet(Eps)
  BY BoundsAssumption, FS_Interval DEF Tids, Eps
<1>2. Tids \subseteq Int /\ Eps \subseteq Int
  BY BoundsAssumption DEF Tids, Eps
<1> QED BY Zenon, <1>1, <1>2, FS_Subset

\* Whom the end of a task wakes.
Woken(s, v) ==
  {caller[e] : e \in StrandedEps(s, v)}
    \cup (IF Delivers(s, v) THEN {parent[v]} ELSE {})

\* The wake-ups of terminate_lifecycle form a queue of exactly those tasks, and
\* of distinct ones if no task is the active caller of two endpoints.
LEMMA WakeFacts ==
  ASSUME TypeOK, NEW s \in [Tids -> TaskStates], NEW v \in Tids,
         NEW w \in WakeOrders(s, v)
  PROVE  /\ w \in Seq(Tids)
         /\ Elements(w) = Woken(s, v)
         /\ (\A e, f \in StrandedEps(s, v) : caller[e] = caller[f] => e = f) => Distinct(w)
<1> DEFINE first == IF Delivers(s, v) THEN <<parent[v]>> ELSE <<>>
           SE == StrandedEps(s, v)
<1>1. PICK x \in Descending(SE) : w = first \o [i \in DOMAIN x |-> caller[x[i]]]
  BY Zenon DEF WakeOrders
<1> DEFINE rest == [i \in DOMAIN x |-> caller[x[i]]]
<1>2. SE \in SUBSET Eps
  BY DEF StrandedEps
<1>3. x \in Seq(SE) /\ Elements(x) = SE /\ Distinct(x)
  BY SMTT(30), <1>2, FiniteFacts, DescendingFacts
<1>4. \A e \in SE : caller[e] \in Tids
  BY DEF StrandedEps, TypeOK
<1>5. rest \in Seq(Tids) /\ DOMAIN rest = DOMAIN x
  BY SMTT(30), <1>3, <1>4
<1>6. Elements(rest) = {caller[e] : e \in SE}
  BY SMTT(30), <1>3, <1>5 DEF Elements
<1>7. (\A e, f \in SE : caller[e] = caller[f] => e = f) => Distinct(rest)
  BY <1>3, <1>5 DEF Distinct
<1>8. /\ first \in Seq(Tids) /\ Distinct(first)
      /\ Elements(first) = IF Delivers(s, v) THEN {parent[v]} ELSE {}
  <2>1. CASE Delivers(s, v)
    <3>1. parent[v] \in Tids
      BY <2>1 DEF Delivers, TypeOK
    <3> QED BY <2>1, <3>1, SingletonFacts
  <2>2. CASE ~Delivers(s, v)
    BY SMTT(30), <2>2 DEF Elements, Distinct
  <2> QED BY <2>1, <2>2
<1>9. Elements(first) \cap Elements(rest) = {}
  <2> SUFFICES ASSUME Delivers(s, v), NEW e \in SE, caller[e] = parent[v] PROVE FALSE
    BY <1>6, <1>8
  <2> QED BY SMTT(30) DEF Delivers, StrandedEps
<1> HIDE DEF first, rest
<1>10. w = first \o rest
  BY SMTT(30), <1>1 DEF first, rest
<1> QED BY SMTT(30), <1>5, <1>6, <1>7, <1>8, <1>9, <1>10, ConcatFacts DEF Woken

-----------------------------------------------------------------------------
(* Type correctness, and one Running task *)

\* drain_reaper touches corpses only.
LEMMA DrainedFacts ==
  ASSUME TypeOK
  PROVE  /\ Drained \in [Tids -> TaskStates]
         /\ \A t \in Tids : \/ Drained[t] = state[t] /\ state[t].is # "Reaping"
                            \/ state[t].is = "Reaping" /\ Drained[t] = Gone
         /\ \A t \in Tids : Drained[t].is = "Running" <=> state[t].is = "Running"
BY SMTT(30), ConstructorFacts DEF TypeOK, Drained, Gone, Plain

\* Taking a task out of a caller queue leaves a queue of the others, in order.
LEMMA WithoutFacts ==
  ASSUME NEW T, NEW q \in Seq(T), NEW v
  PROVE  /\ Without(q, v) \in Seq(T)
         /\ Distinct(q) => /\ Distinct(Without(q, v))
                           /\ Elements(Without(q, v)) = Elements(q) \ {v}
<1>1. CASE v \notin Elements(q)
  BY <1>1 DEF Without
<1>2. CASE v \in Elements(q)
  <2> DEFINE i == CHOOSE i \in DOMAIN q : q[i] = v
             p == SubSeq(q, i + 1, Len(q))
             r == SubSeq(q, 1, i - 1)
  <2>1. i \in DOMAIN q /\ q[i] = v
    BY <1>2 DEF Elements
  <2>2. Without(q, v) = r \o p
    BY Zenon, <1>2 DEF Without
  <2> HIDE DEF i
  <2>3. /\ p \in Seq(T) /\ r \in Seq(T)
        /\ Distinct(q) => /\ Distinct(p) /\ Distinct(r)
                          /\ Elements(p) \cap Elements(r) = {}
                          /\ Elements(p) \cup Elements(r) = Elements(q) \ {v}
    BY <2>1, SplitFacts
  <2> HIDE DEF p, r
  <2> QED BY <2>2, <2>3, ConcatFacts
<1> QED BY <1>1, <1>2

\* The table terminate_lifecycle leaves is a task table, and no task becomes
\* Running or is left Running by it.
LEMMA TerminatedFacts ==
  ASSUME NEW s \in [Tids -> TaskStates], NEW v \in Tids, NEW c \in Codes
  PROVE  /\ Terminated(s, v, c) \in [Tids -> TaskStates]
         /\ \A t \in Tids : Terminated(s, v, c)[t].is = "Running" => s[t].is = "Running" /\ t # v
         /\ \A t \in Tids : s[t].is = "Running" /\ t # v => Terminated(s, v, c)[t].is = "Running"
<1> DEFINE T == Terminated(s, v, c)
<1>1. \A t \in Tids :
        \/ t = v /\ T[t] \in {Zombie(c), Reaping}
        \/ t # v /\ s[t].is = "Zombie" /\ T[t] = Reaping
        \/ t # v /\ s[t].is \in {"BlockedCall", "BlockedWait"} /\ T[t] = Ready
        \/ t # v /\ T[t] = s[t]
  BY SMTT(30) DEF Terminated, OrphanedZombies, StrandedEps, Delivers
<1>2. T = [t \in Tids |-> T[t]]
  BY SMTT(30) DEF Terminated
<1>3. /\ Zombie(c) \in TaskStates /\ Reaping \in TaskStates /\ Ready \in TaskStates
      /\ Zombie(c).is = "Zombie" /\ Reaping.is = "Reaping" /\ Ready.is = "Ready"
  BY SMTT(30), ConstructorFacts DEF Zombie, Reaping, Ready, Plain
<1> HIDE DEF T
<1>4. T \in [Tids -> TaskStates]
  BY <1>1, <1>2, <1>3
<1>5. \A t \in Tids : T[t].is = "Running" <=> s[t].is = "Running" /\ t # v
  BY <1>1, <1>3
<1> QED BY SMTT(30), <1>4, <1>5 DEF T

\* Parking the current task leaves a table in which nobody is Running.
LEMMA ParkFacts ==
  ASSUME TypeOK, CurrentRuns, cur # NoTask,
         NEW x \in TaskStates, x.is # "Running"
  PROVE  /\ cur \in Tids
         /\ [Drained EXCEPT ![cur] = x] \in [Tids -> TaskStates]
         /\ \A t \in Tids : [Drained EXCEPT ![cur] = x][t] = IF t = cur THEN x ELSE Drained[t]
         /\ \A t \in Tids : [Drained EXCEPT ![cur] = x][t].is # "Running"
<1>1. cur \in Tids
  BY DEF TypeOK
<1> QED BY <1>1, DrainedFacts DEF CurrentRuns

\* The states tasks park in.
LEMMA ParkedStates ==
  /\ BlockedWait \in TaskStates /\ BlockedWait.is = "BlockedWait"
  /\ BlockedInput \in TaskStates /\ BlockedInput.is = "BlockedInput"
  /\ \A e \in Eps : /\ BlockedSend(e) \in TaskStates /\ BlockedSend(e).is = "BlockedSend"
                    /\ BlockedCall(e) \in TaskStates /\ BlockedCall(e).is = "BlockedCall"
  /\ \A e \in Eps, d \in {0} \cup Delays :
       BlockedRecv(e, d) \in TaskStates /\ BlockedRecv(e, d).is = "BlockedRecv"
  /\ \A d \in Delays : BlockedSleep(d) \in TaskStates /\ BlockedSleep(d).is = "BlockedSleep"
  /\ Ready \in TaskStates /\ Ready.is = "Ready"
BY SMTT(30), ConstructorFacts DEF BlockedWait, BlockedInput, BlockedSend, BlockedCall,
                        BlockedRecv, BlockedSleep, Ready, Plain

\* What terminate_lifecycle does to the books has the right types.
LEMMA UnlinksType ==
  ASSUME TypeOK, NEW s, NEW v, Unlinks(s, v)
  PROVE  /\ parent' \in [Tids -> Tids \cup {NoTask}]
         /\ caller' \in [Eps -> Tids \cup {NoTask}]
         /\ server' \in [Eps -> Tids \cup {NoTask}]
         /\ pending' \in [Eps -> Seq(Tids)]
BY SMTT(30), WithoutFacts DEF TypeOK, Unlinks

\* A delivered report is a code.
LEMMA ReportsType ==
  ASSUME TypeOK, NEW s, NEW v \in Tids, NEW c \in Codes, Reports(s, v, c)
  PROVE  reported' \in [Tids -> Codes]
<1>1. reported \in [Tids -> Codes]
  BY Zenon DEF TypeOK
<1>2. [reported EXCEPT ![v] = c] \in [Tids -> Codes]
  BY <1>1
<1> QED BY Zenon, <1>1, <1>2 DEF Reports

\* The table after a tick: expired waits are Ready, other deadlines closer.
LEMMA TickedFacts ==
  ASSUME TypeOK
  PROVE  /\ Ticked \in [Tids -> TaskStates]
         /\ \A t \in Tids :
              \/ t \in Expired /\ Ticked[t] = Ready
              \/ /\ t \notin Expired /\ state[t].left > 1
                 /\ Ticked[t].is = state[t].is /\ Ticked[t].ep = state[t].ep
                 /\ state[t].is \in {"BlockedRecv", "BlockedSleep"}
              \/ t \notin Expired /\ state[t].left = 0 /\ Ticked[t] = Drained[t]
         /\ \A t \in Tids : Ticked[t].is = "Running" <=> state[t].is = "Running"
<1>1. ASSUME NEW t \in Tids, state[t].left > 1, t \notin Expired
      PROVE  /\ Ticked[t] \in TaskStates
             /\ Ticked[t].is = state[t].is /\ Ticked[t].ep = state[t].ep
             /\ state[t].is \in {"BlockedRecv", "BlockedSleep"}
  <2>1. /\ state[t] \in TaskStates /\ state[t].left \in 2 .. MaxDelay
        /\ Ticked[t] = [state[t] EXCEPT !.left = @ - 1]
    BY SMTT(30), <1>1, StateFacts, BoundsAssumption DEF TypeOK, Ticked, Delays
  <2>2. state[t].left - 1 \in Delays
    BY <2>1, BoundsAssumption DEF Delays
  <2>3. CASE state[t].is = "BlockedRecv"
    <3>1. state[t] = BlockedRecv(state[t].ep, state[t].left) /\ state[t].ep \in Eps
      BY <2>1, <2>3, StateFacts
    <3>2. Ticked[t] = BlockedRecv(state[t].ep, state[t].left - 1)
      BY <2>1, <3>1 DEF BlockedRecv
    <3> QED BY <2>2, <2>3, <3>1, <3>2, ConstructorFacts DEF BlockedRecv
  <2>4. CASE state[t].is = "BlockedSleep"
    <3>1. state[t] = BlockedSleep(state[t].left)
      BY <2>1, <2>4, StateFacts
    <3>2. Ticked[t] = BlockedSleep(state[t].left - 1) /\ state[t].ep = NoEp
      BY <2>1, <3>1 DEF BlockedSleep
    <3> QED BY <2>2, <2>4, <3>1, <3>2, ConstructorFacts DEF BlockedSleep
  <2> QED BY <2>1, <2>3, <2>4, StateFacts, BoundsAssumption
<1>2. ASSUME NEW t \in Tids, ~(state[t].left > 1), t \notin Expired
      PROVE  state[t].left = 0 /\ Ticked[t] = Drained[t]
  <2>1. state[t] \in TaskStates /\ state[t].left \in {0} \cup Delays
    BY StateFacts DEF TypeOK
  <2>2. state[t].left # 1
    BY <1>2, <2>1, StateFacts DEF Expired
  <2> QED BY <1>2, <2>1, <2>2, BoundsAssumption DEF Delays, Ticked
<1>3. \A t \in Expired : t \in Tids /\ Ticked[t] = Ready /\ state[t].is # "Running"
  BY DEF Expired, Ticked
<1>4. Ticked = [t \in Tids |-> Ticked[t]]
  BY DEF Ticked
<1>5. \A t \in Tids : Ticked[t] \in TaskStates
  BY SMTT(30), <1>1, <1>2, <1>3, DrainedFacts, ConstructorFacts
<1>6. Ready.is = "Ready"
  BY DEF Ready, Plain
<1>7. Ticked \in [Tids -> TaskStates]
  BY <1>4, <1>5
<1> QED BY SMTT(30), <1>1, <1>2, <1>3, <1>6, <1>7, DrainedFacts

\* The inductive invariant: everything Kernel promises of a state, together.
\* The parts lean on each other: a wake-up queues its task once because the
\* endpoints and the keyboard name only tasks that are parked with them, and
\* the CPU stays with CURRENT because none of those is the Running task.
\* IdsGrow says that spawn hands out task ids in increasing order.
IdsGrow == \A t, u \in Tids : state[t].is = "New" /\ t < u => state[u].is = "New"

IInv ==
  /\ TypeOK /\ CurrentRuns /\ QueueExact
  /\ ReplyOwed /\ PendingExact
  /\ WaitSound /\ IdsGrow /\ ReadersRegistered

\* The initial state is well typed and task 1 runs.
LEMMA TypeInit == Init => TypeOK /\ CurrentRuns
<1> SUFFICES ASSUME Init PROVE TypeOK /\ CurrentRuns
  OBVIOUS
<1>1. /\ 1 \in Tids /\ BootTasks - 1 \in Nat /\ 0 \in 0 .. Quantum - 1 /\ 0 \in 0 .. QueueCap
      /\ \A i \in 1 .. BootTasks - 1 : i + 1 \in Tids
  BY BoundsAssumption DEF Tids
<1>2. /\ Running \in TaskStates /\ Ready \in TaskStates /\ New \in TaskStates
      /\ Running.is = "Running" /\ Ready.is = "Ready" /\ New.is = "New"
  BY ConstructorFacts DEF Running, Ready, New, Plain
<1>3. ready \in Seq(Tids)
  BY SMTT(30), <1>1 DEF Init
<1>4. reported \in [Tids -> Codes] /\ parent \in [Tids -> Tids \cup {NoTask}]
  BY Zenon DEF Init, Codes
<1>5. CurrentRuns
  BY SMTT(30), <1>1, <1>2 DEF Init, CurrentRuns
<1> QED BY SMTT(30), <1>1, <1>2, <1>3, <1>4, <1>5 DEF Init, TypeOK

\* Every step keeps the types, and keeps CURRENT and the Running task together.
LEMMA TypeStep == IInv /\ [Next]_vars => TypeOK' /\ CurrentRuns'
<1> SUFFICES ASSUME TypeOK, CurrentRuns, ReplyOwed, PendingExact, ReadersRegistered, [Next]_vars
             PROVE  TypeOK' /\ CurrentRuns'
  BY DEF IInv
<1>a. ASSUME cur # NoTask PROVE cur \in Tids
  BY <1>a DEF TypeOK
<1>b. /\ Drained \in [Tids -> TaskStates]
      /\ \A t \in Tids : Drained[t].is = "Running" <=> t = cur
  BY DrainedFacts DEF CurrentRuns
<1>c. cur \in Tids \cup {NoTask} /\ ready \in Seq(Tids) /\ NoTask \notin Tids
  BY DEF TypeOK, NoTask, Tids
<1>1. ASSUME Yield PROVE TypeOK' /\ CurrentRuns'
  BY ZenonT(30), <1>1, <1>b, <1>c, RotateFacts DEF Yield, TypeOK, ipcVars, inputVars
<1>2. ASSUME NEW s \in [Tids -> TaskStates], NEW c \in Codes, cur # NoTask,
             \A t \in Tids : s[t].is = "Running" <=> t = cur,
             Dies(s, c)
      PROVE  TypeOK' /\ CurrentRuns'
  <2>1. PICK w \in WakeOrders(s, cur) : Handoff(Terminated(s, cur, c), w \o ready)
    BY <1>2 DEF Dies
  <2>2. w \o ready \in Seq(Tids)
    BY SMTT(30), <1>2, <1>a, <1>c, WakeFacts, ConcatFacts
  <2>3. /\ Terminated(s, cur, c) \in [Tids -> TaskStates]
        /\ \A t \in Tids : Terminated(s, cur, c)[t].is # "Running"
    BY <1>2, <1>a, TerminatedFacts
  <2>4. /\ state' \in [Tids -> TaskStates] /\ cur' \in Tids \cup {NoTask}
        /\ ready' \in Seq(Tids) /\ CurrentRuns'
    BY ZenonT(30), <2>1, <2>2, <2>3, HandoffFacts
  <2>5. reported' \in [Tids -> Codes]
    BY Zenon, <1>2, <1>a, ReportsType DEF Dies
  <2> QED BY SMTT(30), <1>2, <2>4, <2>5, UnlinksType DEF Dies, TypeOK, inputVars
<1>3. ASSUME Exit PROVE TypeOK' /\ CurrentRuns'
  BY <1>3, <1>2, <1>b DEF Exit, Enters, Codes
<1>4. ASSUME Fault PROVE TypeOK' /\ CurrentRuns'
  BY ZenonT(30), <1>4, <1>2 DEF Fault, Enters, Codes, TypeOK, CurrentRuns
<1>5. ASSUME Return PROVE TypeOK' /\ CurrentRuns'
  BY SMTT(30), <1>5, <1>b DEF Return, TypeOK, CurrentRuns, schedVars, ipcVars, inputVars
<1>6. ASSUME NEW v \in Tids, Kill(v) PROVE TypeOK' /\ CurrentRuns'
  <2>1. PICK w \in WakeOrders(Drained, v) : ready' = w \o ready
    BY Zenon, <1>6 DEF Kill
  <2>2. ready' \in Seq(Tids)
    BY SMTT(30), <2>1, <1>b, <1>c, WakeFacts, ConcatFacts
  <2>3. /\ state' \in [Tids -> TaskStates]
        /\ \A t \in Tids : state'[t].is = "Running" <=> t = cur
    BY SMTT(30), <1>6, <1>b, TerminatedFacts DEF Kill, Codes
  <2>4. reported' \in [Tids -> Codes]
    BY Zenon, <1>6, ReportsType DEF Kill, Codes
  <2> QED BY SMTT(30), <1>6, <2>2, <2>3, <2>4, UnlinksType DEF Kill, TypeOK, CurrentRuns, inputVars
<1>7. ASSUME NEW t \in Tids, Spawn(t) PROVE TypeOK' /\ CurrentRuns'
  <2>1. state[t].is = "New" /\ cur \in Tids
    BY SMTT(30), <1>7, <1>a DEF Spawn, Smallest, Enters
  <2>2. ready' \in Seq(Tids)
    BY SMTT(30), <1>7, <1>c DEF Spawn
  <2>3. /\ state' \in [Tids -> TaskStates]
        /\ \A u \in Tids : state'[u].is = "Running" <=> u = cur
    BY SMTT(30), <1>7, <2>1, <1>b, ParkedStates DEF Spawn, CurrentRuns
  <2> QED BY SMTT(30), <1>7, <2>1, <2>2, <2>3 DEF Spawn, TypeOK, CurrentRuns, ipcVars, inputVars
<1>8. ASSUME NEW z \in Tids, WaitReap(z) PROVE TypeOK' /\ CurrentRuns'
  <2>1. state[z].is = "Zombie" /\ Gone \in TaskStates /\ Gone.is = "Gone"
    BY SMTT(30), <1>8, ConstructorFacts DEF WaitReap, Smallest, ZombieChildren, Gone, Plain
  <2>2. /\ state' \in [Tids -> TaskStates]
        /\ \A u \in Tids : state'[u].is = "Running" <=> u = cur
    BY SMTT(30), <1>8, <2>1, <1>b DEF WaitReap, CurrentRuns
  <2>3. reported' \in [Tids -> Codes]
    BY SMTT(30), <1>8, StateFacts DEF WaitReap, TypeOK
  <2> QED BY SMTT(30), <1>8, <2>2, <2>3 DEF WaitReap, TypeOK, CurrentRuns, schedVars, ipcVars, inputVars
<1>9. ASSUME WaitPark PROVE TypeOK' /\ CurrentRuns'
  BY ZenonT(30), <1>9, <1>c, ParkedStates, ParkFacts, HandoffFacts
     DEF WaitPark, Enters, TypeOK, ipcVars, inputVars
<1>10. ASSUME NEW e \in Eps, NEW r \in Tids, CallReceiver(e, r) PROVE TypeOK' /\ CurrentRuns'
  <2> DEFINE s == [Drained EXCEPT ![r] = Ready, ![cur] = BlockedCall(e)]
  <2>1. cur \in Tids
    BY SMTT(30), <1>10, <1>a DEF CallReceiver, Enters
  <2>2. s \in [Tids -> TaskStates] /\ \A t \in Tids : s[t].is # "Running"
    BY SMTT(30), <2>1, <1>b, ParkedStates
  <2>3. <<r>> \o ready \in Seq(Tids)
    BY SMTT(30), <1>c, SingletonFacts, ConcatFacts
  <2>4. Handoff(s, <<r>> \o ready)
    BY <1>10 DEF CallReceiver
  <2> HIDE DEF s
  <2>5. /\ state' \in [Tids -> TaskStates] /\ cur' \in Tids \cup {NoTask}
        /\ ready' \in Seq(Tids) /\ CurrentRuns'
    BY ZenonT(30), <2>2, <2>3, <2>4, HandoffFacts
  <2> QED BY SMTT(30), <1>10, <2>1, <2>5 DEF CallReceiver, TypeOK, inputVars
<1>11. ASSUME NEW e \in Eps, CallQueue(e) PROVE TypeOK' /\ CurrentRuns'
  <2>1. cur \in Tids
    BY SMTT(30), <1>11, <1>a DEF CallQueue, Enters
  <2>2. /\ state' \in [Tids -> TaskStates] /\ cur' \in Tids \cup {NoTask}
        /\ ready' \in Seq(Tids) /\ CurrentRuns'
    BY SMTT(30), <1>11, <1>c, ParkedStates, ParkFacts, HandoffFacts DEF CallQueue, Enters
  <2>3. pending' \in [Eps -> Seq(Tids)]
    BY SMTT(30), <1>11, <2>1 DEF CallQueue, TypeOK
  <2> QED BY SMTT(30), <1>11, <2>2, <2>3 DEF CallQueue, TypeOK, inputVars
<1>12. ASSUME NEW e \in Eps, RecvQueued(e) PROVE TypeOK' /\ CurrentRuns'
  <2> DEFINE h == Head(pending[e])
  <2>1. cur \in Tids /\ pending[e] \in Seq(Tids) /\ pending[e] # <<>>
    BY ZenonT(30), <1>12, <1>a DEF RecvQueued, Enters, TypeOK
  <2>2. h \in Tids /\ h \in Elements(pending[e]) /\ Tail(pending[e]) \in Seq(Tids)
    BY SMTT(30), <2>1 DEF Elements
  <2>3. state[h].is = "BlockedSend"
    <3>1. state[h] = BlockedSend(e)
      BY SMTT(30), <2>2 DEF PendingExact
    <3> QED BY SMTT(30), <3>1, ParkedStates
  <2>4. state' = [Drained EXCEPT ![h] = BlockedCall(e)]
    BY SMTT(30), <1>12 DEF RecvQueued
  <2> HIDE DEF h
  <2>5. /\ state' \in [Tids -> TaskStates]
        /\ \A u \in Tids : state'[u].is = "Running" <=> u = cur
    BY SMTT(30), <2>2, <2>3, <2>4, <1>b, ParkedStates DEF CurrentRuns
  <2>6. /\ caller' \in [Eps -> Tids \cup {NoTask}]
        /\ server' \in [Eps -> Tids \cup {NoTask}]
        /\ pending' \in [Eps -> Seq(Tids)]
    BY ZenonT(30), <1>12, <2>1, <2>2 DEF RecvQueued, TypeOK, h
  <2> QED BY ZenonT(30), <1>12, <2>5, <2>6 DEF RecvQueued, TypeOK, CurrentRuns, schedVars, inputVars
<1>13. ASSUME NEW e \in Eps, NEW d \in {0} \cup Delays, RecvPark(e, d)
       PROVE  TypeOK' /\ CurrentRuns'
  BY ZenonT(30), <1>13, <1>c, ParkedStates, ParkFacts, HandoffFacts
     DEF RecvPark, Enters, TypeOK, ipcVars, inputVars
<1>14. ASSUME NEW e \in Eps, Reply(e) PROVE TypeOK' /\ CurrentRuns'
  <2>1. /\ state' \in [Tids -> TaskStates] /\ ready' \in Seq(Tids)
        /\ \A u \in Tids : state'[u].is = "Running" <=> u = cur
    <3>1. CASE caller[e] = NoTask
      BY SMTT(30), <1>14, <3>1, <1>b, <1>c DEF Reply
    <3>2. CASE caller[e] # NoTask
      <4>1. caller[e] \in Tids /\ state[caller[e]].is = "BlockedCall"
        <5>1. state[caller[e]] = BlockedCall(e)
          BY SMTT(30), <3>2 DEF ReplyOwed
        <5> QED BY <3>2, <5>1, ParkedStates DEF TypeOK
      <4>2. ready' \in Seq(Tids)
        BY SMTT(30), <1>14, <3>2, <4>1, <1>c, SingletonFacts, ConcatFacts DEF Reply
      <4> QED BY SMTT(30), <1>14, <3>2, <4>1, <4>2, <1>b, ParkedStates DEF Reply, CurrentRuns
    <3> QED BY SMTT(30), <3>1, <3>2
  <2> QED BY SMTT(30), <1>14, <2>1 DEF Reply, TypeOK, CurrentRuns, inputVars
<1>15. ASSUME NEW d \in Delays, Sleep(d) PROVE TypeOK' /\ CurrentRuns'
  BY Zenon, <1>15, <1>c, ParkedStates, ParkFacts, HandoffFacts
     DEF Sleep, Enters, TypeOK, ipcVars, inputVars
<1>16. ASSUME Timer PROVE TypeOK' /\ CurrentRuns'
  <2>1. PICK w \in Descending(Expired) :
          IF since + 1 < Quantum
          THEN since' = since + 1 /\ state' = Ticked /\ ready' = w \o ready /\ cur' = cur
          ELSE since' = 0 /\ Rotate(Ticked, w \o ready)
    BY <1>16 DEF Timer
  <2>2. w \o ready \in Seq(Tids)
    <3>1. Expired \in SUBSET Tids
      BY DEF Expired
    <3>2. w \in Seq(Tids)
      BY SMTT(30), <3>1, FiniteFacts, DescendingFacts
    <3> QED BY SMTT(30), <3>2, <1>c, ConcatFacts
  <2>3. /\ Ticked \in [Tids -> TaskStates]
        /\ \A t \in Tids : Ticked[t].is = "Running" <=> t = cur
    BY SMTT(30), TickedFacts DEF CurrentRuns
  <2>4. since' \in 0 .. Quantum - 1
    BY SMTT(30), <2>1, BoundsAssumption DEF TypeOK
  <2>5. /\ state' \in [Tids -> TaskStates] /\ cur' \in Tids \cup {NoTask}
        /\ ready' \in Seq(Tids) /\ CurrentRuns'
    <3>1. CASE since + 1 < Quantum
      BY ZenonT(30), <2>1, <2>2, <2>3, <3>1, <1>c DEF CurrentRuns
    <3>2. CASE ~(since + 1 < Quantum)
      BY ZenonT(30), <2>1, <2>2, <2>3, <3>2, <1>c, RotateFacts
    <3> QED BY <3>1, <3>2
  <2> QED BY SMTT(30), <1>16, <2>4, <2>5 DEF Timer, TypeOK, ipcVars, inputVars
<1>17. ASSUME ReadServed PROVE TypeOK' /\ CurrentRuns'
  <2>1. kbd' \in 0 .. QueueCap
    BY SMTT(30), <1>17, BoundsAssumption DEF ReadServed, AtMost, TypeOK
  <2> QED BY SMTT(30), <1>17, <2>1, <1>b DEF ReadServed, TypeOK, CurrentRuns, schedVars, ipcVars
<1>18. ASSUME ReadPark PROVE TypeOK' /\ CurrentRuns'
  <2>1. cur \in Tids
    BY SMTT(30), <1>18, <1>a DEF ReadPark, Enters
  <2>2. waiters' \in Seq(Tids)
    BY SMTT(30), <1>18, <2>1 DEF ReadPark, TypeOK
  <2>3. /\ state' \in [Tids -> TaskStates] /\ cur' \in Tids \cup {NoTask}
        /\ ready' \in Seq(Tids) /\ CurrentRuns'
    BY SMTT(30), <1>18, <1>c, ParkedStates, ParkFacts, HandoffFacts DEF ReadPark, Enters
  <2> QED BY SMTT(30), <1>18, <2>2, <2>3 DEF ReadPark, TypeOK, ipcVars
<1>19. ASSUME Keyboard PROVE TypeOK' /\ CurrentRuns'
  <2>1. CASE waiters = <<>>
    <3>1. kbd' \in 0 .. QueueCap
      BY SMTT(30), <1>19, <2>1, BoundsAssumption DEF Keyboard, AtMost, TypeOK
    <3> QED BY ZenonT(30), <1>19, <2>1, <3>1 DEF Keyboard, TypeOK, CurrentRuns, ipcVars
  <2>2. CASE waiters # <<>>
    <3> DEFINE h == Head(waiters)
    <3>1. h \in Tids /\ Tail(waiters) \in Seq(Tids)
      BY SMTT(30), <2>2 DEF TypeOK
    <3>2. kbd' \in 0 .. QueueCap
      <4>1. PICK n \in Taken(h) : kbd' = AtMost(kbd + 1, QueueCap) - n
        BY SMTT(30), <1>19, <2>2 DEF Keyboard
      <4>2. n \in 0 .. AtMost(MaxRead, AtMost(kbd + 1, QueueCap))
        BY SMTT(30), BoundsAssumption DEF Taken, AtMost, TypeOK
      <4> HIDE DEF h
      <4> QED BY SMTT(30), <4>1, <4>2, BoundsAssumption DEF AtMost, TypeOK
    <3>3. /\ waiters' = Tail(waiters) /\ ready' = <<h>> \o ready
          /\ state' = IF state[h].is = "BlockedInput" THEN [state EXCEPT ![h] = Ready] ELSE state
      BY <1>19, <2>2 DEF Keyboard
    <3> HIDE DEF h
    <3>4. ready' \in Seq(Tids)
      BY ZenonT(30), <3>1, <3>3, <1>c, SingletonFacts, ConcatFacts
    <3>5. /\ state' \in [Tids -> TaskStates]
          /\ \A u \in Tids : state'[u].is = "Running" <=> u = cur
      BY ZenonT(30), <3>1, <3>3, ParkedStates DEF TypeOK, CurrentRuns
    <3> QED BY ZenonT(30), <1>19, <3>1, <3>2, <3>3, <3>4, <3>5 DEF Keyboard, TypeOK, CurrentRuns, ipcVars
  <2> QED BY <2>1, <2>2
<1>20. ASSUME UNCHANGED vars PROVE TypeOK' /\ CurrentRuns'
  BY SMTT(30), <1>20 DEF vars, TypeOK, CurrentRuns
<1> QED BY Zenon, <1>1, <1>3, <1>4, <1>5, <1>6, <1>7, <1>8, <1>9, <1>10, <1>11, <1>12, <1>13,
           <1>14, <1>15, <1>16, <1>17, <1>18, <1>19, <1>20 DEF Next
=============================================================================
