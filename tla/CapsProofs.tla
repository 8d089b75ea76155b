----------------------------- MODULE CapsProofs -----------------------------
(***************************************************************************)
(* Capability confinement for every boot delegation matrix, table size,    *)
(* word width and disk size.  CInv strengthens the checked invariants with *)
(* the facts about task identity they rest on: a parent is older than its  *)
(* children, live tasks descend from a boot task, and the last use went    *)
(* through a real slot.                                                    *)
(***************************************************************************)
EXTENDS Caps, TLAPS

Lineage ==
    /\ \A t \in alive : origin[t] \in 1..BootTasks
    /\ \A t \in alive : parent[t] < t
    /\ use # NoUse => use.by \in Tasks /\ use.slot \in TableSlots /\ use.cap \in Cap

CInv == CapsTypeOK /\ Lineage /\ TreeConfined /\ Confined /\ UseAuthorised

-----------------------------------------------------------------------------
(* Attenuation never widens: the order on capabilities is transitive.      *)
LEMMA WithinTransitive ==
    ASSUME NEW a \in Cap, NEW b \in Cap, NEW c \in Cap, Within(a, b), Within(b, c)
    PROVE  Within(a, c)
  BY CapsAssumption DEF Within, Cap, Words

(* Every capability is within itself. *)
LEMMA WithinReflexive ==
    ASSUME NEW c \in Cap
    PROVE  Within(c, c)
  BY CapsAssumption DEF Within, Cap, Words

(* An empty slot is not a capability. *)
LEMMA NoCapIsNoCap == NoCap \notin Cap
  BY DEF NoCap, Cap

(* A capability that passes the source check exists and is grantable. *)
LEMMA SourceChecked ==
    ASSUME NEW c \in Cap \cup {NoCap}, NEW mask, SrcErrno(c, mask) = "OK"
    PROVE  c \in Cap /\ c # NoCap /\ "g" \in c.rights
  BY NoCapIsNoCap DEF SrcErrno

(* Intersecting the rights yields a capability within the source. *)
LEMMA AttenuatedWithin ==
    ASSUME NEW c \in Cap, NEW mask
    PROVE  /\ Attenuated(c, mask) \in Cap
           /\ Within(Attenuated(c, mask), c)
           /\ Attenuated(c, mask).lo = c.lo /\ Attenuated(c, mask).len = c.len
  BY SMTT(30), CapsAssumption DEF Attenuated, Within, Cap, Words

(* Intersecting the range does, too: the window is not empty, does not     *)
(* wrap and stays inside the held one.                                     *)
LEMMA NarrowedWithin ==
    ASSUME NEW c \in Cap, NEW lo \in Words, NEW len \in Words,
           Fits(c.lo, c.len), RangeErrno(c, lo, len) = "OK"
    PROVE  /\ Narrowed(c, lo, len) \in Cap
           /\ Within(Narrowed(c, lo, len), c)
           /\ Fits(Narrowed(c, lo, len).lo, Narrowed(c, lo, len).len)
  <1>1. CASE c.kind # "block"
    BY <1>1, WithinReflexive DEF Narrowed
  <1>2. CASE c.kind = "block"
    <2> DEFINE f == From(c, lo, len)
               h == To(c, lo, len)
    <2>1. c.lo \in Int /\ c.len \in Int /\ lo \in Int /\ len \in Int /\ Top \in Int
      BY CapsAssumption DEF Cap, Words
    <2>2. Fits(lo, len) /\ h > f
      <3>1. f \in Int /\ h \in Int
        BY <2>1 DEF From, To, Larger, Lesser, Saturated
      <3> QED
        BY <1>2, <3>1 DEF RangeErrno
    <2>3. /\ f \in Int /\ h \in Int /\ c.lo <= f /\ h <= c.lo + c.len /\ h <= Top
          /\ 0 <= f
      BY <2>1, <2>2 DEF From, To, Larger, Lesser, Saturated, Fits, Cap, Words
    <2>4. f \in Words /\ h - f \in Words /\ f + (h - f) = h
      BY <2>1, <2>2, <2>3 DEF Words
    <2> HIDE DEF f, h
    <2>5. Narrowed(c, lo, len) = [c EXCEPT !.lo = f, !.len = h - f]
      BY <1>2 DEF Narrowed, f, h
    <2>6. Narrowed(c, lo, len) \in Cap
      BY Zenon, <2>4, <2>5 DEF Cap
    <2>7. /\ Narrowed(c, lo, len).lo = f /\ Narrowed(c, lo, len).len = h - f
          /\ Narrowed(c, lo, len).kind = c.kind /\ Narrowed(c, lo, len).obj = c.obj
          /\ Narrowed(c, lo, len).rights = c.rights
      BY <2>5 DEF Cap
    <2> QED
      BY <2>3, <2>4, <2>6, <2>7 DEF Within, Fits
  <1> QED
    BY <1>1, <1>2

(* What cap_derive installs is within the capability it was asked about. *)
LEMMA DerivedWithin ==
    ASSUME NEW c \in Cap \cup {NoCap}, NEW mask, NEW lo \in Words, NEW len \in Words,
           Fits(c.lo, c.len), DeriveErrno(c, mask, lo, len) = "OK"
    PROVE  /\ c \in Cap /\ "g" \in c.rights
           /\ Attenuated(Narrowed(c, lo, len), mask) \in Cap
           /\ Within(Attenuated(Narrowed(c, lo, len), mask), c)
           /\ Fits(Attenuated(Narrowed(c, lo, len), mask).lo,
                   Attenuated(Narrowed(c, lo, len), mask).len)
  <1>1. SrcErrno(c, mask) = "OK" /\ RangeErrno(c, lo, len) = "OK"
    BY DEF DeriveErrno
  <1>2. c \in Cap /\ "g" \in c.rights
    BY <1>1, SourceChecked
  <1> DEFINE d == Narrowed(c, lo, len)
             e == Attenuated(d, mask)
  <1>3. d \in Cap /\ Within(d, c) /\ Fits(d.lo, d.len)
    BY <1>1, <1>2, NarrowedWithin
  <1> HIDE DEF d
  <1>4. e \in Cap /\ Within(e, d) /\ e.lo = d.lo /\ e.len = d.len
    BY <1>3, AttenuatedWithin
  <1> HIDE DEF e
  <1>5. Within(e, c)
    BY <1>2, <1>3, <1>4, WithinTransitive
  <1>6. Fits(e.lo, e.len)
    BY <1>3, <1>4
  <1> QED
    BY <1>2, <1>4, <1>5, <1>6 DEF d, e

-----------------------------------------------------------------------------
(* The boot matrix satisfies the invariant. *)
LEMMA InitHolds == Init => CInv
  <1> SUFFICES ASSUME Init PROVE CInv
    OBVIOUS
  <1> USE CapsAssumption DEF Init
  <1>1. CapsTypeOK
    <2>1. EmptyTable \in [TableSlots -> Cap \cup {NoCap}]
      BY DEF EmptyTable
    <2>2. table \in [Tasks -> [TableSlots -> Cap \cup {NoCap}]]
      BY <2>1 DEF Tasks
    <2>3. \A t \in Tasks, s \in TableSlots : Fits(table[t][s].lo, table[t][s].len)
      <3> SUFFICES ASSUME NEW t \in Tasks, NEW s \in TableSlots
                   PROVE  table[t][s].lo + table[t][s].len <= Top
        BY DEF Fits
      <3>1. CASE t <= BootTasks
        <4>1. t \in 1..BootTasks /\ table[t] = BootTable[t]
          BY <3>1 DEF Tasks
        <4> QED
          BY <4>1
      <3>2. CASE ~(t <= BootTasks)
        <4>1. table[t][s] = NoCap
          BY <3>2 DEF EmptyTable
        <4>2. NoCap.lo = 0 /\ NoCap.len = 0
          BY DEF NoCap
        <4> QED
          BY <4>1, <4>2
      <3> QED
        BY <3>1, <3>2
    <2>4. use \in [by : Tasks \cup {NoTask}, slot : TableSlots \cup {0}, cap : Cap \cup {NoCap}]
      BY DEF NoUse
    <2>5. parent \in [Tasks -> Tasks \cup {NoTask}]
      OBVIOUS
    <2>6. origin \in [Tasks -> (1..BootTasks) \cup {NoTask}]
      BY DEF Tasks
    <2> QED
      BY <2>2, <2>3, <2>4, <2>5, <2>6 DEF CapsTypeOK
  <1>0. /\ \A t \in alive : t \in 1..BootTasks /\ parent[t] = 0 /\ origin[t] = t
        /\ 0 \notin alive
    <2>1. alive = 1..BootTasks /\ \A t \in alive : t \in Tasks /\ t <= BootTasks
      BY DEF Tasks
    <2>2. \A t \in alive : parent[t] = 0
      BY <2>1 DEF NoTask
    <2>3. \A t \in alive : origin[t] = t
      BY <2>1
    <2>4. 0 \notin alive
      BY <2>1
    <2> HIDE DEF Init
    <2> QED
      BY <2>1, <2>2, <2>3, <2>4
  <1>2. Lineage
    <2>1. \A t \in alive : origin[t] \in 1..BootTasks /\ parent[t] < t
      <3> HIDE DEF Init
      <3> QED
        BY <1>0
    <2>2. use = NoUse
      OBVIOUS
    <2> HIDE DEF Init
    <2> QED
      BY <2>1, <2>2 DEF Lineage
  <1>3. TreeConfined
    <2> HIDE DEF Init
    <2> QED
      BY <1>0 DEF TreeConfined
  <1>4. Confined
    <2> SUFFICES ASSUME NEW t \in alive, NEW s \in TableSlots, table[t][s] # NoCap
                 PROVE  \E r \in TableSlots : /\ BootTable[origin[t]][r] # NoCap
                                              /\ Within(table[t][s], BootTable[origin[t]][r])
      BY DEF Confined
    <2>1. origin[t] = t /\ table[t] = BootTable[t]
      BY DEF Tasks
    <2>2. BootTable[t][s] \in Cap
      BY <2>1
    <2> QED
      BY <2>1, <2>2, WithinReflexive
  <1>5. UseAuthorised
    BY DEF UseAuthorised
  <1> QED
    BY <1>1, <1>2, <1>3, <1>4, <1>5 DEF CInv

(* The capabilities behind the existential facts of the invariant. *)
LEMMA HeldAreTyped ==
    ASSUME CInv, NEW t \in Tasks, NEW s \in TableSlots
    PROVE  table[t][s] \in Cap \cup {NoCap} /\ Fits(table[t][s].lo, table[t][s].len)
  BY DEF CInv, CapsTypeOK

(* A capability within a held one is confined as the held one is. *)
LEMMA CoveredIsConfined ==
    ASSUME CInv, NEW t \in alive, NEW s \in TableSlots, NEW c \in Cap,
           table[t][s] # NoCap, Within(c, table[t][s])
    PROVE  \E r \in TableSlots : /\ BootTable[origin[t]][r] # NoCap
                                 /\ Within(c, BootTable[origin[t]][r])
  <1>1. t \in Tasks /\ origin[t] \in 1..BootTasks
    BY CapsAssumption DEF CInv, CapsTypeOK, Lineage, Tasks
  <1>2. PICK r \in TableSlots : /\ BootTable[origin[t]][r] # NoCap
                               /\ Within(table[t][s], BootTable[origin[t]][r])
    BY DEF CInv, Confined
  <1>3. table[t][s] \in Cap
    BY <1>1, HeldAreTyped
  <1>4. BootTable[origin[t]][r] \in Cap
    BY <1>1, <1>2, CapsAssumption
  <1>5. Within(c, BootTable[origin[t]][r])
    <2> DEFINE b == BootTable[origin[t]][r]
               d == table[t][s]
    <2>1. b \in Cap /\ d \in Cap /\ Within(c, d) /\ Within(d, b)
      BY <1>2, <1>3, <1>4
    <2> HIDE DEF b, d
    <2>2. Within(c, b)
      BY <2>1, WithinTransitive
    <2> QED
      BY <2>2 DEF b
  <1> QED
    BY <1>2, <1>5

(* cap_derive keeps the invariant. *)
LEMMA DeriveKeeps ==
    ASSUME CInv, NEW t \in Tasks, CapDerive(t)
    PROVE  CInv'
  <1>1. t \in alive /\ UNCHANGED <<created, alive, parent, origin, use>>
    BY DEF CapDerive
  <1>2. PICK src \in TableSlots, mask \in Masks, lo \in Words, len \in Words, s \in TableSlots :
          /\ DeriveErrno(table[t][src], mask, lo, len) = "OK"
          /\ FirstFree(t, s)
          /\ table' = [table EXCEPT ![t][s] =
                          Attenuated(Narrowed(table[t][src], lo, len), mask)]
    BY Zenon DEF CapDerive
  <1> DEFINE c == table[t][src]
             e == Attenuated(Narrowed(c, lo, len), mask)
  <1>3. table \in [Tasks -> [TableSlots -> Cap \cup {NoCap}]]
    BY DEF CInv, CapsTypeOK
  <1>4. c \in Cap /\ "g" \in c.rights /\ e \in Cap /\ Within(e, c) /\ Fits(e.lo, e.len)
    <2>1. c \in Cap \cup {NoCap} /\ Fits(c.lo, c.len)
      BY HeldAreTyped
    <2>2. DeriveErrno(c, mask, lo, len) = "OK"
      BY <1>2
    <2> HIDE DEF c
    <2> QED
      BY <2>1, <2>2, DerivedWithin
  <1>5. table' = [table EXCEPT ![t][s] = e]
    BY <1>2
  <1>6. c # NoCap /\ e # NoCap /\ table[t][s] = NoCap /\ c = table[t][src]
    BY <1>2, <1>4, NoCapIsNoCap DEF FirstFree
  <1> HIDE DEF c, e
  <1>7. /\ table' \in [Tasks -> [TableSlots -> Cap \cup {NoCap}]]
        /\ table'[t][s] = e
        /\ \A u \in Tasks, r \in TableSlots : u # t \/ r # s => table'[u][r] = table[u][r]
    BY <1>3, <1>4, <1>5
  <1>8. alive \subseteq Tasks
    BY CapsAssumption DEF CInv, CapsTypeOK, Tasks
  <1>a. CapsTypeOK'
    <2>1. \A u \in Tasks, r \in TableSlots : Fits(table'[u][r].lo, table'[u][r].len)
      BY <1>4, <1>7 DEF CInv, CapsTypeOK
    <2>2. (\A u \in Tasks, r \in TableSlots : Fits(table[u][r].lo, table[u][r].len))'
      BY <2>1 DEF Fits
    <2> QED
      BY <1>1, <1>7, <2>2 DEF CInv, CapsTypeOK
  <1>b. Lineage'
    BY <1>1 DEF CInv, Lineage
  <1>c. TreeConfined'
    <2> SUFFICES ASSUME NEW u \in alive, parent[u] \in alive, NEW q \in TableSlots,
                        table'[u][q] # NoCap
                 PROVE  \E r \in TableSlots :
                            /\ table'[parent[u]][r] # NoCap
                            /\ "g" \in table'[parent[u]][r].rights
                            /\ Within(table'[u][q], table'[parent[u]][r])
      BY <1>1 DEF TreeConfined
    <2>1. CASE u = t /\ q = s
      <3>1. PICK r \in TableSlots :
                /\ table[parent[t]][r] # NoCap /\ "g" \in table[parent[t]][r].rights
                /\ Within(c, table[parent[t]][r])
        BY <1>1, <1>6, <2>1 DEF CInv, TreeConfined
      <3> DEFINE d == table[parent[t]][r]
      <3>2. d \in Cap /\ Within(c, d)
        BY <1>3, <1>8, <2>1, <3>1
      <3>3. table'[parent[t]][r] = d
        BY <1>6, <1>7, <1>8, <2>1, <3>1
      <3> HIDE DEF d
      <3>4. Within(e, d)
        BY <1>4, <3>2, WithinTransitive
      <3> QED
        BY <1>7, <2>1, <3>1, <3>3, <3>4 DEF d
    <2>2. CASE u # t \/ q # s
      <3>1. table'[u][q] = table[u][q]
        BY <1>7, <1>8, <2>2
      <3>2. PICK r \in TableSlots :
                /\ table[parent[u]][r] # NoCap /\ "g" \in table[parent[u]][r].rights
                /\ Within(table[u][q], table[parent[u]][r])
        BY <3>1 DEF CInv, TreeConfined
      <3>3. table'[parent[u]][r] = table[parent[u]][r]
        BY <1>6, <1>7, <1>8, <3>2
      <3> QED
        BY <3>1, <3>2, <3>3
    <2> QED
      BY <2>1, <2>2
  <1>d. Confined'
    <2> SUFFICES ASSUME NEW u \in alive, NEW q \in TableSlots, table'[u][q] # NoCap
                 PROVE  \E r \in TableSlots : /\ BootTable[origin[u]][r] # NoCap
                                              /\ Within(table'[u][q], BootTable[origin[u]][r])
      BY <1>1 DEF Confined
    <2>1. CASE u = t /\ q = s
      <3>1. Within(e, table[t][src]) /\ table[t][src] # NoCap
        BY <1>4, <1>6
      <3> QED
        BY <1>1, <1>4, <1>7, <2>1, <3>1, CoveredIsConfined
    <2>2. CASE u # t \/ q # s
      BY <1>7, <1>8, <2>2 DEF CInv, Confined
    <2> QED
      BY <2>1, <2>2
  <1>e. UseAuthorised'
    <2> SUFFICES ASSUME use # NoUse
                 PROVE  /\ use.by \in alive
                        /\ Within(use.cap, table'[use.by][use.slot])
                        /\ use.cap.kind = "block" => use.cap.lo + use.cap.len <= Sectors
                        /\ \E r \in TableSlots : Within(use.cap, BootTable[origin[use.by]][r])
      BY <1>1 DEF UseAuthorised
    <2>1. use.by \in Tasks /\ use.slot \in TableSlots /\ use.cap \in Cap
      BY DEF CInv, Lineage
    <2>2. Within(use.cap, table[use.by][use.slot])
      BY SMTT(30) DEF CInv, UseAuthorised
    <2>3. table[use.by][use.slot] # NoCap
      BY SMTT(30), <2>1, <2>2 DEF Within, Cap, NoCap
    <2>4. table'[use.by][use.slot] = table[use.by][use.slot]
      BY <1>6, <1>7, <2>1, <2>3
    <2> QED
      BY <2>2, <2>4 DEF CInv, UseAuthorised
  <1> QED
    BY <1>a, <1>b, <1>c, <1>d, <1>e DEF CInv

(* task_spawn keeps the invariant: the child is new, so nobody's parent,   *)
(* and each capability of its table is within one of the caller's.         *)
LEMMA SpawnKeeps ==
    ASSUME CInv, NEW t \in Tasks, TaskSpawn(t)
    PROVE  CInv'
  <1> DEFINE n == created + 1
  <1>1. /\ t \in alive /\ created < MaxTask /\ created' = created + 1
        /\ alive' = alive \cup {n}
        /\ parent' = [parent EXCEPT ![n] = t] /\ origin' = [origin EXCEPT ![n] = origin[t]]
        /\ use' = use
    BY DEF TaskSpawn
  <1>2. PICK pairs \in Pairs :
          /\ Len(pairs) <= TableSize
          /\ \A i \in DOMAIN pairs : SrcErrno(table[t][pairs[i][1]], pairs[i][2]) = "OK"
          /\ table' = [table EXCEPT ![n] = ChildTable(t, pairs)]
    BY Zenon DEF TaskSpawn
  <1>3. /\ created \in BootTasks..MaxTask /\ alive \subseteq 1..created
        /\ parent \in [Tasks -> Tasks \cup {NoTask}]
        /\ origin \in [Tasks -> (1..BootTasks) \cup {NoTask}]
        /\ table \in [Tasks -> [TableSlots -> Cap \cup {NoCap}]]
    BY DEF CInv, CapsTypeOK
  <1>4. /\ n \in Tasks /\ n \notin alive /\ alive \subseteq Tasks /\ n \in Nat /\ t < n
        /\ created' \in BootTasks..MaxTask /\ alive' \subseteq 1..created'
        /\ \A u \in alive : u < n /\ u \in Nat
    BY <1>1, <1>3, CapsAssumption DEF Tasks
  <1> DEFINE child == ChildTable(t, pairs)
  <1>5. \A s \in TableSlots : child[s] = NoCap \/
            \E r \in TableSlots : /\ table[t][r] \in Cap /\ table[t][r] # NoCap
                                  /\ "g" \in table[t][r].rights
                                  /\ child[s] \in Cap /\ Within(child[s], table[t][r])
                                  /\ Fits(child[s].lo, child[s].len)
    <2> SUFFICES ASSUME NEW s \in TableSlots, s <= Len(pairs)
                 PROVE  \E r \in TableSlots :
                            /\ table[t][r] \in Cap /\ table[t][r] # NoCap
                            /\ "g" \in table[t][r].rights
                            /\ child[s] \in Cap /\ Within(child[s], table[t][r])
                            /\ Fits(child[s].lo, child[s].len)
      BY SMTT(30) DEF ChildTable
    <2>1. PICK k \in 0..MaxPairs : pairs \in [1..k -> TableSlots \X Masks]
      BY DEF Pairs
    <2>2. s \in DOMAIN pairs /\ pairs[s] \in TableSlots \X Masks
      <3>1. pairs \in Seq(TableSlots \X Masks) /\ DOMAIN pairs = 1..k /\ Len(pairs) = k
        BY <2>1, CapsAssumption
      <3> QED
        BY <2>1, <3>1, CapsAssumption DEF TableSlots
    <2> DEFINE r == pairs[s][1]
               mask == pairs[s][2]
               c == table[t][r]
    <2>3. r \in TableSlots /\ SrcErrno(c, mask) = "OK"
      BY <1>2, <2>2
    <2>4. c \in Cap \cup {NoCap} /\ Fits(c.lo, c.len)
      BY <2>3, HeldAreTyped
    <2>5. child[s] = Attenuated(c, mask)
      BY DEF ChildTable
    <2> HIDE DEF c, mask, child
    <2>6. c \in Cap /\ c # NoCap /\ "g" \in c.rights
      BY <2>3, <2>4, SourceChecked
    <2>7. /\ child[s] \in Cap /\ Within(child[s], c)
          /\ child[s].lo = c.lo /\ child[s].len = c.len
      BY <2>5, <2>6, AttenuatedWithin
    <2>8. Fits(child[s].lo, child[s].len)
      BY <2>4, <2>7
    <2> QED
      BY SMTT(30), <2>3, <2>6, <2>7, <2>8 DEF c
  <1>6. child \in [TableSlots -> Cap \cup {NoCap}]
    <2>1. child = [s \in TableSlots |-> child[s]]
      BY DEF ChildTable
    <2>2. \A s \in TableSlots : child[s] \in Cap \cup {NoCap}
      BY <1>5
    <2> HIDE DEF child
    <2> QED
      BY <2>1, <2>2
  <1>7. table' = [table EXCEPT ![n] = child]
    BY <1>2
  <1> HIDE DEF child, n
  <1>8. /\ table' \in [Tasks -> [TableSlots -> Cap \cup {NoCap}]]
        /\ table'[n] = child
        /\ \A u \in Tasks : u # n => table'[u] = table[u]
    BY <1>3, <1>4, <1>6, <1>7
  <1>9. /\ parent' \in [Tasks -> Tasks \cup {NoTask}]
        /\ origin' \in [Tasks -> (1..BootTasks) \cup {NoTask}]
        /\ parent'[n] = t /\ origin'[n] = origin[t]
        /\ \A u \in Tasks : u # n => parent'[u] = parent[u] /\ origin'[u] = origin[u]
    BY <1>1, <1>3, <1>4
  <1>a. CapsTypeOK'
    <2>1. NoCap.lo + NoCap.len <= Top
      <3>1. NoCap.lo = 0 /\ NoCap.len = 0
        BY DEF NoCap
      <3> QED
        BY <3>1, CapsAssumption
    <2>2. \A u \in Tasks, s \in TableSlots : table'[u][s].lo + table'[u][s].len <= Top
      <3> SUFFICES ASSUME NEW u \in Tasks, NEW s \in TableSlots
                   PROVE  table'[u][s].lo + table'[u][s].len <= Top
        OBVIOUS
      <3>1. CASE u = n
        BY <1>5, <1>8, <2>1, <3>1 DEF Fits
      <3>2. CASE u # n
        BY <1>8, <3>2 DEF CInv, CapsTypeOK, Fits
      <3> QED
        BY <3>1, <3>2
    <2>3. use' \in [by : Tasks \cup {NoTask}, slot : TableSlots \cup {0}, cap : Cap \cup {NoCap}]
      BY <1>1 DEF CInv, CapsTypeOK
    <2> QED
      BY <1>4, <1>8, <1>9, <2>2, <2>3 DEF CapsTypeOK, Fits
  <1>b. Lineage'
    <2>1. \A u \in alive' : origin'[u] \in 1..BootTasks /\ parent'[u] < u
      <3> SUFFICES ASSUME NEW u \in alive'
                   PROVE  origin'[u] \in 1..BootTasks /\ parent'[u] < u
        OBVIOUS
      <3>1. CASE u = n
        BY <1>1, <1>4, <1>9, <3>1 DEF CInv, Lineage
      <3>2. CASE u # n
        <4>1. u \in alive /\ u \in Tasks
          BY <1>1, <1>4, <3>2
        <4> QED
          BY <1>9, <3>2, <4>1 DEF CInv, Lineage
      <3> QED
        BY <3>1, <3>2
    <2> QED
      BY <1>1, <2>1 DEF CInv, Lineage
  <1>c. TreeConfined'
    <2> SUFFICES ASSUME NEW u \in alive', parent'[u] \in alive', NEW s \in TableSlots,
                        table'[u][s] # NoCap
                 PROVE  \E r \in TableSlots :
                            /\ table'[parent'[u]][r] # NoCap
                            /\ "g" \in table'[parent'[u]][r].rights
                            /\ Within(table'[u][s], table'[parent'[u]][r])
      BY DEF TreeConfined
    <2>1. CASE u = n
      <3>1. parent'[u] = t /\ table'[t] = table[t] /\ table'[u] = child
        BY SMTT(30), <1>1, <1>4, <1>8, <1>9, <2>1
      <3> QED
        BY SMTT(30), <1>5, <3>1
    <2>2. CASE u # n
      <3>1. u \in alive /\ u \in Tasks /\ parent'[u] = parent[u] /\ table'[u] = table[u]
        BY <1>1, <1>4, <1>8, <1>9, <2>2
      <3>2. parent[u] # n
        BY <1>4, <3>1 DEF CInv, Lineage
      <3>3. parent[u] \in alive /\ table'[parent[u]] = table[parent[u]]
        BY SMTT(30), <1>1, <1>4, <1>8, <3>1, <3>2
      <3> QED
        BY SMTT(30), <3>1, <3>3 DEF CInv, TreeConfined
    <2> QED
      BY <2>1, <2>2
  <1>d. Confined'
    <2> SUFFICES ASSUME NEW u \in alive', NEW s \in TableSlots, table'[u][s] # NoCap
                 PROVE  \E r \in TableSlots : /\ BootTable[origin'[u]][r] # NoCap
                                              /\ Within(table'[u][s], BootTable[origin'[u]][r])
      BY SMTT(30) DEF Confined
    <2>1. CASE u = n
      <3>1. PICK r \in TableSlots : /\ table[t][r] # NoCap /\ child[s] \in Cap
                                   /\ Within(child[s], table[t][r])
        BY <1>5, <1>8, <2>1
      <3> QED
        BY SMTT(30), <1>1, <1>8, <1>9, <2>1, <3>1, CoveredIsConfined
    <2>2. CASE u # n
      <3>1. u \in alive /\ origin'[u] = origin[u] /\ table'[u] = table[u]
        BY <1>1, <1>4, <1>8, <1>9, <2>2
      <3> QED
        BY <3>1 DEF CInv, Confined
    <2> QED
      BY SMTT(30), <2>1, <2>2
  <1>e. UseAuthorised'
    <2> SUFFICES ASSUME use # NoUse
                 PROVE  /\ use.by \in alive'
                        /\ Within(use.cap, table'[use.by][use.slot])
                        /\ use.cap.kind = "block" => use.cap.lo + use.cap.len <= Sectors
                        /\ \E r \in TableSlots : Within(use.cap, BootTable[origin'[use.by]][r])
      BY <1>1 DEF UseAuthorised
    <2>1. use.by \in alive /\ use.by # n /\ use.by \in Tasks
      BY Zenon, <1>4 DEF CInv, UseAuthorised
    <2>2. table'[use.by] = table[use.by] /\ origin'[use.by] = origin[use.by]
      BY <1>8, <1>9, <2>1
    <2> QED
      BY <1>1, <2>1, <2>2 DEF CInv, UseAuthorised
  <1> QED
    BY <1>a, <1>b, <1>c, <1>d, <1>e DEF CInv

(* The end of a task keeps the invariant. *)
LEMMA GoneKeeps ==
    ASSUME CInv, NEW t \in Tasks, TaskGone(t)
    PROVE  CInv'
  <1>1. /\ alive' = alive \ {t} /\ table' = [table EXCEPT ![t] = EmptyTable]
        /\ use' = IF use.by = t THEN NoUse ELSE use
        /\ created' = created /\ parent' = parent /\ origin' = origin
    BY DEF TaskGone
  <1>2. /\ table \in [Tasks -> [TableSlots -> Cap \cup {NoCap}]] /\ alive \subseteq Tasks
    BY CapsAssumption DEF CInv, CapsTypeOK, Tasks
  <1>3. EmptyTable \in [TableSlots -> Cap \cup {NoCap}]
    BY DEF EmptyTable
  <1>4. /\ table' \in [Tasks -> [TableSlots -> Cap \cup {NoCap}]]
        /\ \A u \in Tasks : u # t => table'[u] = table[u]
        /\ table'[t] = EmptyTable
    BY <1>1, <1>2, <1>3
  <1>5. use' = NoUse \/ (use' = use /\ use.by # t)
    BY <1>1
  <1>a. CapsTypeOK'
    <2>1. NoCap.lo + NoCap.len <= Top
      <3>1. NoCap.lo = 0 /\ NoCap.len = 0
        BY DEF NoCap
      <3> QED
        BY <3>1, CapsAssumption
    <2>2. \A u \in Tasks, s \in TableSlots : table'[u][s].lo + table'[u][s].len <= Top
      <3> SUFFICES ASSUME NEW u \in Tasks, NEW s \in TableSlots
                   PROVE  table'[u][s].lo + table'[u][s].len <= Top
        OBVIOUS
      <3>1. CASE u = t
        <4>1. table'[u][s] = NoCap
          BY <1>4, <3>1 DEF EmptyTable
        <4> QED
          BY <2>1, <4>1
      <3>2. CASE u # t
        BY <1>4, <3>2 DEF CInv, CapsTypeOK, Fits
      <3> QED
        BY <3>1, <3>2
    <2>3. use' \in [by : Tasks \cup {NoTask}, slot : TableSlots \cup {0}, cap : Cap \cup {NoCap}]
      <3>1. NoUse \in [by : Tasks \cup {NoTask}, slot : TableSlots \cup {0}, cap : Cap \cup {NoCap}]
        BY DEF NoUse
      <3> QED
        BY <1>5, <3>1 DEF CInv, CapsTypeOK
    <2> QED
      BY Zenon, <1>1, <1>4, <2>2, <2>3 DEF CInv, CapsTypeOK, Fits
  <1>b. Lineage'
    BY SMTT(30), <1>1, <1>5 DEF CInv, Lineage
  <1>c. TreeConfined'
    <2>1. \A u \in alive' : u \in alive /\ u \in Tasks /\ table'[u] = table[u]
      BY <1>1, <1>2, <1>4
    <2> QED
      BY SMTT(30), <1>1, <2>1 DEF CInv, TreeConfined
  <1>d. Confined'
    <2>1. \A u \in alive' : u \in alive /\ table'[u] = table[u]
      BY SMTT(30), <1>1, <1>2, <1>4
    <2> QED
      BY <1>1, <2>1 DEF CInv, Confined
  <1>e. UseAuthorised'
    <2> SUFFICES ASSUME use' = use, use.by # t, use # NoUse
                 PROVE  UseAuthorised'
      BY SMTT(30), <1>5 DEF UseAuthorised
    <2>1. use.by \in alive' /\ use.by \in Tasks /\ table'[use.by] = table[use.by]
      BY SMTT(30), <1>1, <1>2, <1>4 DEF CInv, UseAuthorised
    <2> QED
      BY SMTT(30), <1>1, <2>1 DEF CInv, UseAuthorised
  <1> QED
    BY <1>a, <1>b, <1>c, <1>d, <1>e DEF CInv

(* Exercising authority e within a held capability keeps the invariant. *)
LEMMA UseKeeps ==
    ASSUME CInv, NEW t \in alive, NEW s \in TableSlots, NEW e \in Cap,
           Within(e, table[t][s]),
           e.kind = "block" => e.lo + e.len <= Sectors,
           use' = [by |-> t, slot |-> s, cap |-> e],
           UNCHANGED <<created, alive, parent, origin, table>>
    PROVE  CInv'
  <1>1. t \in Tasks
    BY SMTT(30), CapsAssumption DEF CInv, CapsTypeOK, Tasks
  <1>2. use'.by = t /\ use'.slot = s /\ use'.cap = e
    BY SMTT(30)
  <1>3. use' \in [by : Tasks \cup {NoTask}, slot : TableSlots \cup {0}, cap : Cap \cup {NoCap}]
    BY SMTT(30), <1>1
  <1>4. table[t][s] # NoCap
    BY SMTT(30) DEF Within, Cap, NoCap
  <1>5. \E r \in TableSlots : Within(e, BootTable[origin[t]][r])
    BY SMTT(30), <1>4, CoveredIsConfined
  <1>a. CapsTypeOK'
    BY SMTT(30), <1>3 DEF CInv, CapsTypeOK
  <1>b. Lineage'
    BY SMTT(30), <1>1, <1>2 DEF CInv, Lineage
  <1>c. TreeConfined' /\ Confined'
    BY SMTT(30) DEF CInv, TreeConfined, Confined
  <1>d. UseAuthorised'
    BY SMTT(30), <1>2, <1>5 DEF UseAuthorised
  <1> QED
    BY SMTT(30), <1>a, <1>b, <1>c, <1>d DEF CInv

(* The IPC calls exercise only authority their caller holds. *)
LEMMA EndpointOpKeeps ==
    ASSUME CInv, NEW t \in Tasks, EndpointOp(t)
    PROVE  CInv'
  <1>1. t \in alive /\ UNCHANGED <<created, alive, parent, origin, table>>
    BY DEF EndpointOp
  <1>2. PICK s \in TableSlots, need \in {"r", "w"} :
          /\ table[t][s].kind = "endpoint" /\ need \in table[t][s].rights
          /\ use' = [by |-> t, slot |-> s, cap |-> [table[t][s] EXCEPT !.rights = {need}]]
    BY Zenon DEF EndpointOp
  <1> DEFINE c == table[t][s]
             e == [c EXCEPT !.rights = {need}]
  <1>3. c \in Cap
    BY <1>2, HeldAreTyped DEF NoCap
  <1>4. c.kind = "endpoint" /\ need \in c.rights /\ use' = [by |-> t, slot |-> s, cap |-> e]
    BY <1>2
  <1> HIDE DEF c
  <1>5. e \in Cap /\ Within(e, c) /\ e.kind = "endpoint"
    BY SMTT(30), <1>3, <1>4, CapsAssumption DEF Cap, Within, Words, Rights
  <1> HIDE DEF e
  <1>6. Within(e, table[t][s]) /\ e.kind # "block"
    BY <1>5 DEF c
  <1> QED
    BY <1>1, <1>4, <1>5, <1>6, UseKeeps

(* block_io exercises only authority its caller holds. *)
LEMMA BlockOpKeeps ==
    ASSUME CInv, NEW t \in Tasks, BlockOp(t)
    PROVE  CInv'
  <1>1. t \in alive /\ UNCHANGED <<created, alive, parent, origin, table>>
    BY SMTT(30) DEF BlockOp
  <1>2. PICK s \in TableSlots, need \in {"r", "w"}, rel \in Words, raw \in Counts :
          /\ Truncated(raw) # 0 /\ Truncated(raw) <= MaxSectors
          /\ table[t][s].kind = "block" /\ Covers(table[t][s], rel, Truncated(raw))
          /\ need \in table[t][s].rights
          /\ Fits(table[t][s].lo, rel) /\ OnDisk(table[t][s].lo + rel, Truncated(raw))
          /\ use' = [by |-> t, slot |-> s,
                     cap |-> [table[t][s] EXCEPT !.lo = table[t][s].lo + rel,
                                                 !.len = Truncated(raw),
                                                 !.rights = {need}]]
    BY ZenonT(30) DEF BlockOp
  <1> DEFINE c == table[t][s]
             n == Truncated(raw)
             l == c.lo + rel
             e == [c EXCEPT !.lo = l, !.len = n, !.rights = {need}]
  <1>3. c \in Cap
    BY <1>2, HeldAreTyped DEF NoCap
  <1>4. n \in Nat
    BY CapsAssumption DEF Truncated
  <1>5. /\ c.kind = "block" /\ Covers(c, rel, n) /\ need \in c.rights /\ Fits(c.lo, rel)
        /\ OnDisk(l, n) /\ use' = [by |-> t, slot |-> s, cap |-> e]
    BY <1>2
  <1> HIDE DEF c, n
  <1>6. c.lo \in Nat /\ c.len \in Words /\ rel \in Nat /\ Top \in Nat /\ Sectors \in Nat
    BY <1>3, CapsAssumption DEF Cap, Words
  <1>7. /\ l \in Words /\ n \in Words /\ c.lo <= l /\ l + n <= c.lo + c.len
        /\ l + n <= Sectors
    BY <1>4, <1>5, <1>6 DEF Covers, Fits, OnDisk, Words
  <1> HIDE DEF l
  <1>8. /\ e \in Cap /\ e.lo = l /\ e.len = n /\ e.kind = c.kind /\ e.obj = c.obj
        /\ e.rights = {need}
    BY Zenon, <1>3, <1>7 DEF Cap, Rights
  <1> HIDE DEF e
  <1>9. Within(e, c) /\ e.lo + e.len <= Sectors
    BY SMTT(30), <1>5, <1>7, <1>8 DEF Within
  <1>10. Within(e, table[t][s])
    BY <1>9 DEF c
  <1> QED
    BY SMTT(30), <1>1, <1>5, <1>8, <1>9, <1>10, UseKeeps

-----------------------------------------------------------------------------
(* The inductive invariant of the capability system, for every boot        *)
(* matrix.                                                                 *)
THEOREM CapsInvariant == Spec => []CInv
  <1>1. CInv /\ [Next]_vars => CInv'
    <2> SUFFICES ASSUME CInv, [Next]_vars
                 PROVE  CInv'
      BY SMTT(30)
    <2>1. CASE UNCHANGED vars
      BY SMTT(30), <2>1 DEF vars, CInv, CapsTypeOK, Lineage, TreeConfined, Confined, UseAuthorised
    <2>2. CASE Next
      BY <2>2, DeriveKeeps, SpawnKeeps, GoneKeeps, EndpointOpKeeps, BlockOpKeeps DEF Next
    <2> QED
      BY <2>1, <2>2
  <1> QED
    BY InitHolds, <1>1, PTL DEF Spec

(* No sequence of cap_derive and task_spawn amplifies authority: every     *)
(* capability stays within the boot matrix, row by row, and within what    *)
(* the holder's living parent can still grant.                             *)
THEOREM AuthorityConfined == Spec => [](Confined /\ TreeConfined)
  BY CapsInvariant, PTL DEF CInv

(* Every block transfer and IPC operation the kernel carries out is within *)
(* the capability named, in range and rights, and within the disk.         *)
THEOREM UsesAuthorised == Spec => [](CapsTypeOK /\ UseAuthorised)
  BY CapsInvariant, PTL DEF CInv

=============================================================================
