---------------------------- MODULE VolumeProofs ----------------------------
(***************************************************************************)
(* Proofs about the A/B volume, for every set of packages, number of        *)
(* transfers and number of device faults.  The safety invariants are not    *)
(* inductive alone: MemInv ties storaged's memory to the update in progress *)
(* and Written says what the agent's transfers have left in the target.     *)
(***************************************************************************)
EXTENDS Volume, TLAPS

(* What storaged's memory says when it is down, during an update, and about *)
(* the superblock it mounted.                                               *)
MemInv ==
    /\ ~up => recovery /\ ~keyed /\ active = NoSlot /\ op = "idle"
    /\ op # "idle" => up /\ target = Inactive
    /\ faults = 0 /\ up /\ keyed => sb.ok
    /\ TornSuperblock \/ sb.ok

(* The transfers made so far in the update hold the staged package. *)
Written ==
    /\ op \in {"agent", "applied"} => \A i \in 1..done : slot[target][i] = staged
    /\ op = "applied" => done = Chunks
    /\ staged \in Packages => staged \in delivered

VInv == VolTypeOK /\ MemInv /\ Written /\ AlwaysBootable /\ ActiveAgrees /\ RunningValid

(* A valid slot's first transfer is a package sealed for this volume. *)
LEMMA ValidImage ==
    ASSUME NEW s \in Slots, Valid(s)
    PROVE  Image(s) \in Sealed /\ Image(s) \in Packages
BY VolumeAssumption DEF Valid, Image

(* Validity and image of a slot depend on that slot only. *)
LEMMA ValidFrame ==
    ASSUME NEW s \in Slots, slot'[s] = slot[s]
    PROVE  Valid(s)' = Valid(s) /\ Image(s)' = Image(s)
BY Zenon DEF Valid, Image

(* Other exchanges the two slots. *)
LEMMA OtherSlot ==
    ASSUME NEW s \in Slots
    PROVE  Other(s) \in Slots /\ Other(s) # s /\ s # NoSlot
BY Zenon DEF Slots, Other, NoSlot

(* A transfer into one slot leaves the other alone. *)
LEMMA PutFrame ==
    ASSUME VolTypeOK, NEW s \in Slots, NEW i \in 1..Chunks,
           NEW c \in Packages \cup {Empty, Torn}, slot' = Put(s, i, c)
    PROVE  /\ slot' \in [Slots -> [1..Chunks -> Packages \cup {Empty, Torn}]]
           /\ \A r \in Slots \ {s} : slot'[r] = slot[r]
           /\ slot'[s][i] = c
           /\ \A j \in 1..Chunks \ {i} : slot'[s][j] = slot[s][j]
BY Zenon DEF VolTypeOK, Put

(* The slot an update writes is a slot, and not the active one. *)
LEMMA InactiveSlot ==
    ASSUME VolTypeOK
    PROVE  Inactive \in Slots /\ Inactive # active
BY Zenon, OtherSlot DEF VolTypeOK, Inactive, Slots, NoSlot, Other

(* The volume mkvol writes satisfies the invariant. *)
LEMMA VInit == Init => VInv
<1> SUFFICES ASSUME Init PROVE VInv BY Zenon
<1> USE VolumeAssumption
<1>1. Valid("A") BY Zenon DEF Init, Valid, Slots
<1>2. VolTypeOK
  <2>1. sb \in [ok : BOOLEAN, active : Slots, gens : [Slots -> Nat]] BY Zenon DEF Init, Slots
  <2>2. slot \in [Slots -> [1..Chunks -> Packages \cup {Empty, Torn}]] BY Zenon DEF Init
  <2>3. up \in BOOLEAN /\ recovery \in BOOLEAN /\ keyed \in BOOLEAN BY Zenon DEF Init
  <2> QED BY <2>1, <2>2, <2>3 DEF Init, VolTypeOK
<1>3. MemInv BY Zenon DEF Init, MemInv
<1>4. Written BY Zenon DEF Init, Written
<1>5. AlwaysBootable BY <1>1 DEF Init, AlwaysBootable, Image, Slots
<1>6. ActiveAgrees BY Zenon DEF Init, ActiveAgrees
<1>7. RunningValid BY Zenon DEF Init, RunningValid
<1> QED BY Zenon, <1>2, <1>3, <1>4, <1>5, <1>6, <1>7 DEF VInv

-----------------------------------------------------------------------------
(* Every step keeps the types. *)
LEMMA TypeStep == ASSUME VInv, [Next]_vars PROVE VolTypeOK'
<1> USE VolumeAssumption
<1>0. VolTypeOK /\ MemInv BY Zenon DEF VInv
<1>1. ASSUME NEW p \in Packages \cup {"bad-signature", "absent"}, Stage(p) PROVE VolTypeOK'
  BY Zenon, <1>0, <1>1 DEF VolTypeOK, Stage, mem, update
<1>2. CASE MountNoSuperblock
  BY <1>0, <1>2 DEF VolTypeOK, MountNoSuperblock, update, Faulty
<1>3. ASSUME NEW r1 \in BOOLEAN, NEW r2 \in BOOLEAN, NEW r3 \in BOOLEAN, Mount(r1, r2, r3)
      PROVE VolTypeOK'
  <2>1. sb.active \in Slots /\ Other(sb.active) \in Slots BY Zenon, <1>0, OtherSlot DEF VolTypeOK
  <2>2. slot' \in [Slots -> [1..Chunks -> Packages \cup {Empty, Torn}]]
    <3>1. PICK w \in BOOLEAN : UNCHANGED slot \/ ZeroHeader(sb.active, w)
      BY Zenon, <1>3 DEF Mount
    <3>2. slot' \in {slot, Erased(sb.active), Put(sb.active, 1, Torn)}
      BY Zenon, <3>1 DEF ZeroHeader
    <3>3. \A c \in {Empty, Torn} : Put(sb.active, 1, c) \in [Slots -> [1..Chunks -> Packages \cup {Empty, Torn}]]
      BY Zenon, <1>0, <2>1 DEF VolTypeOK, Put
    <3> QED BY Zenon, <1>0, <3>2, <3>3 DEF VolTypeOK, Erased
  <2>3. active' \in Slots \cup {NoSlot} /\ generation' \in Nat /\ recovery' \in BOOLEAN
    <3>1. \A s \in Slots : Valid(s) => Gen[Image(s)] \in Nat BY Zenon, ValidImage
    <3> QED BY ZenonT(30), <1>0, <1>3, <2>1, <3>1 DEF VolTypeOK, Mount, SlotValidates
  <2>4. faults' \in 0..MaxFaults BY <1>0, <1>3 DEF VolTypeOK, Mount, Faulty, Misses
  <2>5. up' \in BOOLEAN /\ keyed' \in BOOLEAN BY Zenon, <1>3 DEF Mount
  <2> QED BY Zenon, <1>0, <1>3, <2>2, <2>3, <2>4, <2>5 DEF VolTypeOK, Mount, update
<1>4. CASE BeginUpdate
  BY <1>0, <1>4, InactiveSlot DEF VolTypeOK, BeginUpdate, disk
<1>5. CASE Storaged
  <2>1. CASE BeginFails BY <1>0, <2>1 DEF VolTypeOK, BeginFails, update, Faulty
  <2>2. CASE UpdateFailed BY <1>0, <2>2 DEF VolTypeOK, UpdateFailed, Ends, disk, mem
  <2>3. CASE UpdateRefused BY <1>0, <2>3 DEF VolTypeOK, UpdateRefused, Ends, disk, mem
  <2>4. CASE Commit
    <3>1. target \in Slots BY Zenon, <1>0, <2>4, InactiveSlot DEF MemInv, Commit
    <3>2. Gen[Image(target)] \in Nat BY Zenon, <2>4, <3>1, ValidImage DEF Commit, Revalidates
    <3>3. sb' \in [ok : BOOLEAN, active : Slots, gens : [Slots -> Nat]]
      BY Zenon, <1>0, <2>4, <3>1, <3>2 DEF VolTypeOK, Commit, NewSuperblock
    <3> QED BY SMTT(30), <1>0, <2>4, <3>1, <3>2, <3>3 DEF VolTypeOK, Commit, Ends
  <2>5. CASE CommitFails
    <3>a. target \in Slots BY Zenon, <1>0, <2>5, InactiveSlot DEF MemInv, CommitFails
    <3>b. Gen[Image(target)] \in Nat BY Zenon, <2>5, <3>a, ValidImage DEF CommitFails, Revalidates
    <3>c. NewSuperblock \in [ok : BOOLEAN, active : Slots, gens : [Slots -> Nat]]
      BY Zenon, <1>0, <3>a, <3>b DEF VolTypeOK, NewSuperblock
    <3>1. sb' \in [ok : BOOLEAN, active : Slots, gens : [Slots -> Nat]]
      BY Zenon, <1>0, <2>5, <3>c DEF VolTypeOK, CommitFails
    <3>2. Faulty(1) /\ Ends /\ UNCHANGED <<slot, staged, delivered, mem>> BY Zenon, <2>5 DEF CommitFails
    <3> QED BY <1>0, <3>1, <3>2 DEF VolTypeOK, Ends, Faulty, mem
  <2>6. CASE AgentKilled BY Zenon, <1>0, <2>6 DEF VolTypeOK, AgentKilled, disk, mem
  <2> QED BY Zenon, <1>5, <2>1, <2>2, <2>3, <2>4, <2>5, <2>6 DEF Storaged
<1>6. CASE Agent
  <2>0. op = "agent" => target \in Slots BY Zenon, <1>0, InactiveSlot DEF MemInv
  <2>1. CASE AgentRejects BY <1>0, <2>1 DEF VolTypeOK, AgentRejects, mem, Faulty
  <2>2. CASE AgentWrites
    <3>1. done + 1 \in 1..Chunks BY <1>0, <2>2 DEF VolTypeOK, AgentWrites
    <3>2. slot' \in [Slots -> [1..Chunks -> Packages \cup {Empty, Torn}]]
      BY Zenon, <1>0, <2>0, <2>2, <3>1, PutFrame DEF AgentWrites
    <3> QED BY <1>0, <2>2, <3>1, <3>2 DEF VolTypeOK, AgentWrites, mem
  <2>3. CASE AgentWriteFails
    <3>1. done + 1 \in 1..Chunks BY <1>0, <2>3 DEF VolTypeOK, AgentWriteFails
    <3>2. slot[target][done + 1] \in Packages \cup {Empty, Torn}
      BY <1>0, <2>0, <2>3, <3>1 DEF VolTypeOK, AgentWriteFails
    <3>3. slot' \in [Slots -> [1..Chunks -> Packages \cup {Empty, Torn}]]
      BY Zenon, <1>0, <2>0, <2>3, <3>1, <3>2, PutFrame DEF AgentWriteFails
    <3> QED BY <1>0, <2>3, <3>3 DEF VolTypeOK, AgentWriteFails, mem, Faulty
  <2>4. CASE AgentDone BY Zenon, <1>0, <2>4 DEF VolTypeOK, AgentDone, disk, mem
  <2> QED BY Zenon, <1>6, <2>1, <2>2, <2>3, <2>4 DEF Agent
<1>7. CASE Crash
  <2>1. up' \in BOOLEAN /\ recovery' \in BOOLEAN /\ keyed' \in BOOLEAN BY Zenon, <1>7 DEF Crash, Down
  <2> QED BY <1>0, <1>7, <2>1 DEF VolTypeOK, Crash, Down, disk
<1>8. CASE CrashInTransfer
  <2>1. target \in Slots /\ done + 1 \in 1..Chunks
    BY <1>0, <1>8, InactiveSlot DEF MemInv, VolTypeOK, CrashInTransfer
  <2>2. slot' \in [Slots -> [1..Chunks -> Packages \cup {Empty, Torn}]]
    BY Zenon, <1>0, <1>8, <2>1, PutFrame DEF CrashInTransfer
  <2>3. up' \in BOOLEAN /\ recovery' \in BOOLEAN /\ keyed' \in BOOLEAN
    BY Zenon, <1>8 DEF CrashInTransfer, Down
  <2> QED BY <1>0, <1>8, <2>2, <2>3 DEF VolTypeOK, CrashInTransfer, Down
<1>9. CASE CrashInCommit
  <2>1. up' \in BOOLEAN /\ recovery' \in BOOLEAN /\ keyed' \in BOOLEAN
    BY Zenon, <1>9 DEF CrashInCommit, Down
  <2>2. sb' \in [ok : BOOLEAN, active : Slots, gens : [Slots -> Nat]]
    BY Zenon, <1>0, <1>9 DEF VolTypeOK, CrashInCommit
  <2>3. Down /\ UNCHANGED <<slot, staged, delivered, faults>> BY Zenon, <1>9 DEF CrashInCommit
  <2> QED BY SMTT(30), <1>0, <2>1, <2>2, <2>3 DEF VolTypeOK, Down
<1>10. ASSUME NEW s \in Slots, NEW i \in 1..Chunks, Decay(s, i) PROVE VolTypeOK'
  <2>1. slot' \in [Slots -> [1..Chunks -> Packages \cup {Empty, Torn}]]
    BY Zenon, <1>0, <1>10, PutFrame DEF Decay
  <2> QED BY <1>0, <1>10, <2>1 DEF VolTypeOK, Decay, mem, update, Faulty
<1>11. CASE UNCHANGED vars BY ZenonT(30), <1>0, <1>11 DEF VolTypeOK, vars
<1> QED BY Zenon, <1>1, <1>2, <1>3, <1>4, <1>5, <1>6, <1>7, <1>8, <1>9, <1>10, <1>11 DEF Next

-----------------------------------------------------------------------------
(* Every step keeps storaged's memory in line with the update in progress   *)
(* and with the superblock.                                                 *)
LEMMA MemStep == ASSUME VInv, [Next]_vars PROVE MemInv'
<1> USE VolumeAssumption
<1>0. VolTypeOK /\ MemInv BY DEF VInv
<1>1. ASSUME NEW p \in Packages \cup {"bad-signature", "absent"}, Stage(p) PROVE MemInv'
  BY Zenon, <1>0, <1>1 DEF MemInv, Stage, mem, update, Inactive
<1>2. CASE MountNoSuperblock
  BY Zenon, <1>0, <1>2 DEF VolTypeOK, MemInv, MountNoSuperblock, update, Faulty, Inactive
<1>3. ASSUME NEW r1 \in BOOLEAN, NEW r2 \in BOOLEAN, NEW r3 \in BOOLEAN, Mount(r1, r2, r3)
      PROVE MemInv'
  BY Zenon, <1>0, <1>3 DEF MemInv, Mount, update
<1>4. CASE BeginUpdate BY Zenon, <1>0, <1>4 DEF MemInv, BeginUpdate, disk, Inactive
<1>5. CASE Storaged
  <2>1. CASE BeginFails
    BY <1>0, <2>1 DEF VolTypeOK, MemInv, BeginFails, update, Faulty, Inactive
  <2>2. CASE UpdateFailed BY Zenon, <1>0, <2>2 DEF MemInv, UpdateFailed, Ends, disk, mem
  <2>3. CASE UpdateRefused BY Zenon, <1>0, <2>3 DEF MemInv, UpdateRefused, Ends, disk, mem
  <2>4. CASE Commit
    <3>1. up /\ op' = "idle" /\ up' = up /\ sb'.ok
      BY Zenon, <1>0, <2>4 DEF MemInv, Commit, Ends, NewSuperblock
    <3> QED BY Zenon, <3>1 DEF MemInv
  <2>5. CASE CommitFails
    <3>1. op' = "idle" /\ up /\ up' /\ faults' # 0 /\ (TornSuperblock \/ sb' = sb \/ sb'.ok)
      BY <1>0, <2>5 DEF VolTypeOK, MemInv, CommitFails, Ends, mem, Faulty, NewSuperblock
    <3> QED BY Zenon, <1>0, <3>1 DEF MemInv
  <2>6. CASE AgentKilled BY Zenon, <1>0, <2>6 DEF MemInv, AgentKilled, disk, mem, Inactive
  <2> QED BY <1>5, <2>1, <2>2, <2>3, <2>4, <2>5, <2>6 DEF Storaged
<1>6. CASE Agent
  <2>1. CASE AgentRejects
    BY <1>0, <2>1 DEF VolTypeOK, MemInv, AgentRejects, mem, Faulty, Inactive
  <2>2. CASE AgentWrites BY Zenon, <1>0, <2>2 DEF MemInv, AgentWrites, mem, Inactive
  <2>3. CASE AgentWriteFails
    BY <1>0, <2>3 DEF VolTypeOK, MemInv, AgentWriteFails, mem, Faulty, Inactive
  <2>4. CASE AgentDone BY Zenon, <1>0, <2>4 DEF MemInv, AgentDone, disk, mem, Inactive
  <2> QED BY <1>6, <2>1, <2>2, <2>3, <2>4 DEF Agent
<1>7. CASE Crash BY Zenon, <1>0, <1>7 DEF MemInv, Crash, Down, disk
<1>8. CASE CrashInTransfer BY Zenon, <1>0, <1>8 DEF MemInv, CrashInTransfer, Down
<1>9. CASE CrashInCommit
  <2>1. Down /\ TornSuperblock BY Zenon, <1>9 DEF CrashInCommit
  <2> QED BY Zenon, <2>1 DEF MemInv, Down
<1>10. ASSUME NEW s \in Slots, NEW i \in 1..Chunks, Decay(s, i) PROVE MemInv'
  BY Zenon, <1>0, <1>10 DEF VolTypeOK, MemInv, Decay, mem, update, Faulty, Inactive
<1>11. CASE UNCHANGED vars BY Zenon, <1>0, <1>11 DEF MemInv, vars, Inactive
<1> QED BY <1>1, <1>2, <1>3, <1>4, <1>5, <1>6, <1>7, <1>8, <1>9, <1>10, <1>11 DEF Next

(* The agent's transfers stay in the target until the update is decided:    *)
(* nobody else writes a slot, or the staging area, while it runs.           *)
LEMMA WrittenStep == ASSUME VInv, [Next]_vars PROVE Written'
<1> USE VolumeAssumption
<1>0. VolTypeOK /\ MemInv /\ Written BY Zenon DEF VInv
<1>1. ASSUME NEW p \in Packages \cup {"bad-signature", "absent"}, Stage(p) PROVE Written'
  <2>1. op = "idle" /\ op' = "idle" BY Zenon, <1>0, <1>1 DEF MemInv, Stage, update
  <2> QED BY Zenon, <1>0, <1>1, <2>1 DEF Written, Stage
<1>2. CASE MountNoSuperblock
  BY Zenon, <1>0, <1>2 DEF Written, MountNoSuperblock, update
<1>3. ASSUME NEW r1 \in BOOLEAN, NEW r2 \in BOOLEAN, NEW r3 \in BOOLEAN, Mount(r1, r2, r3)
      PROVE Written'
  <2>1. op = "idle" /\ op' = "idle" /\ UNCHANGED <<staged, delivered>>
    BY Zenon, <1>0, <1>3 DEF MemInv, Mount, update
  <2> QED BY Zenon, <1>0, <2>1 DEF Written
<1>4. CASE BeginUpdate BY <1>0, <1>4 DEF Written, BeginUpdate, disk
<1>5. CASE Storaged
  <2>1. CASE BeginFails BY Zenon, <1>0, <2>1 DEF Written, BeginFails, update
  <2>2. op' \in {"idle", "failed"} /\ UNCHANGED <<staged, delivered>> => Written'
    BY Zenon, <1>0 DEF Written
  <2>3. CASE UpdateFailed BY Zenon, <2>2, <2>3 DEF UpdateFailed, Ends, disk
  <2>4. CASE UpdateRefused BY Zenon, <2>2, <2>4 DEF UpdateRefused, Ends, disk
  <2>5. CASE Commit BY Zenon, <2>2, <2>5 DEF Commit, Ends
  <2>6. CASE CommitFails BY Zenon, <2>2, <2>6 DEF CommitFails, Ends
  <2>7. CASE AgentKilled BY Zenon, <2>2, <2>7 DEF AgentKilled, disk
  <2> QED BY <1>5, <2>1, <2>3, <2>4, <2>5, <2>6, <2>7 DEF Storaged
<1>6. CASE Agent
  <2>0. op = "agent" => target \in Slots BY Zenon, <1>0, InactiveSlot DEF MemInv
  <2>1. CASE AgentRejects BY Zenon, <1>0, <2>1 DEF Written, AgentRejects
  <2>2. CASE AgentWrites
    <3>1. done + 1 \in 1..Chunks BY SMTT(30), <1>0, <2>2 DEF VolTypeOK, AgentWrites
    <3>2. /\ slot'[target][done + 1] = staged
          /\ \A j \in 1..Chunks \ {done + 1} : slot'[target][j] = slot[target][j]
      BY ZenonT(30), <1>0, <2>0, <2>2, <3>1, PutFrame DEF AgentWrites
    <3>3. \A i \in 1..done + 1 : slot'[target][i] = staged
      <4>1. \A i \in 1..done : slot[target][i] = staged BY Zenon, <1>0, <2>2 DEF Written, AgentWrites
      <4>2. \A i \in 1..done + 1 : i = done + 1 \/ (i \in 1..done /\ i \in 1..Chunks \ {done + 1})
        BY <1>0, <3>1 DEF VolTypeOK
      <4> QED BY <3>2, <4>1, <4>2
    <3> QED BY Zenon, <1>0, <2>2, <3>3 DEF Written, AgentWrites
  <2>3. CASE AgentWriteFails BY Zenon, <1>0, <2>3 DEF Written, AgentWriteFails
  <2>4. CASE AgentDone BY Zenon, <1>0, <2>4 DEF Written, AgentDone, disk
  <2> QED BY <1>6, <2>1, <2>2, <2>3, <2>4 DEF Agent
<1>7. CASE Crash \/ CrashInTransfer \/ CrashInCommit
  <2>1. op' = "idle" /\ UNCHANGED <<staged, delivered>>
    BY Zenon, <1>7 DEF Crash, CrashInTransfer, CrashInCommit, Down, disk
  <2> QED BY Zenon, <1>0, <2>1 DEF Written
<1>8. ASSUME NEW s \in Slots, NEW i \in 1..Chunks, Decay(s, i) PROVE Written'
  <2>1. op = "idle" /\ op' = "idle" /\ UNCHANGED <<staged, delivered>>
    BY Zenon, <1>0, <1>8 DEF MemInv, Decay, update
  <2> QED BY Zenon, <1>0, <2>1 DEF Written
<1>9. CASE UNCHANGED vars BY Zenon, <1>0, <1>9 DEF Written, vars
<1> QED BY Zenon, <1>1, <1>2, <1>3, <1>4, <1>5, <1>6, <1>7, <1>8, <1>9 DEF Next

(* The steps that write a slot region write the target of an update, or     *)
(* happen while storaged is down.                                           *)
LEMMA ActiveSlotKept ==
    ASSUME VInv, [Next]_vars, up, active # NoSlot
    PROVE  slot'[active] = slot[active]
<1> USE VolumeAssumption
<1>0. VolTypeOK /\ MemInv BY Zenon DEF VInv
<1>1. active \in Slots /\ (op # "idle" => target \in Slots /\ target # active)
  BY Zenon, <1>0, InactiveSlot DEF VolTypeOK, MemInv
<1>2. CASE slot' = slot BY Zenon, <1>2
<1>3. ASSUME op # "idle", NEW c \in Packages \cup {Empty, Torn}, done + 1 \in 1..Chunks,
             slot' = Put(target, done + 1, c)
      PROVE  slot'[active] = slot[active]
  BY <1>0, <1>1, <1>3, PutFrame
<1>4. CASE AgentWrites
  <2>1. done + 1 \in 1..Chunks BY <1>0, <1>4 DEF VolTypeOK, AgentWrites
  <2> QED BY Zenon, <1>3, <1>4, <2>1 DEF AgentWrites
<1>5. CASE AgentWriteFails
  <2>1. done + 1 \in 1..Chunks BY <1>0, <1>5 DEF VolTypeOK, AgentWriteFails
  <2>2. slot[target][done + 1] \in Packages \cup {Empty, Torn}
    BY <1>0, <1>1, <1>5, <2>1 DEF VolTypeOK, AgentWriteFails
  <2> QED BY Zenon, <1>3, <1>5, <2>1, <2>2 DEF AgentWriteFails
<1>6. CASE CrashInTransfer
  <2>1. done + 1 \in 1..Chunks BY <1>0, <1>6 DEF VolTypeOK, CrashInTransfer
  <2> QED BY Zenon, <1>3, <1>6, <2>1 DEF CrashInTransfer
<1>7. CASE Storaged
  BY Zenon, <1>2, <1>7 DEF Storaged, BeginFails, UpdateFailed, UpdateRefused, Commit, CommitFails,
                    AgentKilled, disk
<1>8. CASE AgentRejects \/ AgentDone \/ BeginUpdate \/ Crash \/ CrashInCommit \/ UNCHANGED vars
  BY Zenon, <1>2, <1>8 DEF AgentRejects, AgentDone, BeginUpdate, Crash, CrashInCommit, disk, vars
<1>9. ~(\E p \in Packages \cup {"bad-signature", "absent"} : Stage(p)) BY Zenon DEF Stage
<1>10. ~MountNoSuperblock BY Zenon DEF MountNoSuperblock
<1>11. ~(\E r1, r2, r3 \in BOOLEAN : Mount(r1, r2, r3)) BY Zenon DEF Mount
<1>12. ~(\E s \in Slots, i \in 1..Chunks : Decay(s, i)) BY Zenon DEF Decay
<1> QED BY Zenon, <1>4, <1>5, <1>6, <1>7, <1>8, <1>9, <1>10, <1>11, <1>12 DEF Next, Agent

(* How a step can change what storaged runs: not at all, by a crash, by a   *)
(* mount of a slot that validates, or by a commit of a target that does.    *)
LEMMA ActiveChange ==
    ASSUME VInv, [Next]_vars
    PROVE  \/ up' = up /\ UNCHANGED <<active, generation, recovery, keyed>>
           \/ ~up'
           \/ MountNoSuperblock
           \/ \E r1, r2, r3 \in BOOLEAN : Mount(r1, r2, r3)
           \/ Commit
BY Zenon DEF Next, Storaged, Agent, Stage, BeginUpdate, BeginFails, UpdateFailed, UpdateRefused,
       CommitFails, AgentKilled, AgentRejects, AgentWrites, AgentWriteFails, AgentDone, Crash,
       CrashInTransfer, CrashInCommit, Decay, Down, mem, vars

(* A slot that validates before a mount and is its winner validates after,  *)
(* since only the loser's header is erased.                                 *)
LEMMA MountWinner ==
    ASSUME VInv, NEW r1 \in BOOLEAN, NEW r2 \in BOOLEAN, NEW r3 \in BOOLEAN, Mount(r1, r2, r3)
    PROVE  /\ active' # NoSlot => /\ active' \in Slots /\ Valid(active') /\ slot'[active'] = slot[active']
                                  /\ generation' = Gen[Image(active')]
           /\ Valid(sb.active) /\ r1 /\ r3 => active' = sb.active /\ ~recovery' /\ slot' = slot
<1>0. VolTypeOK /\ MemInv BY Zenon DEF VInv
<1>1. sb.active \in Slots /\ Other(sb.active) \in Slots /\ Other(sb.active) # sb.active
      /\ sb.active # NoSlot /\ Other(sb.active) # NoSlot
  BY Zenon, <1>0, OtherSlot DEF VolTypeOK
<1>2. active = NoSlot BY Zenon, <1>0 DEF MemInv, Mount
<1>3. ~(Valid(sb.active) /\ r1) => \A s \in Slots \ {sb.active} : slot'[s] = slot[s]
  <2>1. \A c \in {Empty, Torn}, s \in Slots \ {sb.active} : Put(sb.active, 1, c)[s] = slot[s]
    BY Zenon, <1>0, <1>1 DEF VolTypeOK, Put
  <2>2. slot' \in {slot, Erased(sb.active), Put(sb.active, 1, Torn)}
    BY Zenon DEF Mount, ZeroHeader
  <2> QED BY Zenon, <2>1, <2>2 DEF Erased
<1>4. CASE Valid(sb.active) /\ r1
  BY Zenon, <1>1, <1>2, <1>4 DEF Mount, SlotValidates
<1>5. CASE ~(Valid(sb.active) /\ r1)
  BY Zenon, <1>1, <1>2, <1>3, <1>5 DEF Mount, SlotValidates
<1> QED BY Zenon, <1>4, <1>5

(* Every step keeps the running slot valid. *)
LEMMA RunningStep == ASSUME VInv, [Next]_vars PROVE RunningValid'
<1> USE VolumeAssumption
<1>0. VolTypeOK /\ MemInv /\ RunningValid /\ VolTypeOK' /\ MemInv' BY Zenon, TypeStep, MemStep DEF VInv
<1> SUFFICES ASSUME up', active' # NoSlot
             PROVE  Valid(active)' /\ generation' = Gen[Image(active)'] /\ (op' # "idle" => target' # active')
  BY Zenon DEF RunningValid
<1>1. op' # "idle" => target' # active'
  BY Zenon, <1>0 DEF VolTypeOK, MemInv, Inactive, Other, Slots, NoSlot
<1>2. active' \in Slots BY Zenon, <1>0 DEF VolTypeOK
<1>3. CASE up' = up /\ UNCHANGED <<active, generation, recovery, keyed>>
  <2>1. slot'[active] = slot[active] BY Zenon, <1>3, ActiveSlotKept
  <2>2. Valid(active) /\ generation = Gen[Image(active)] BY Zenon, <1>0, <1>3 DEF RunningValid
  <2> QED BY Zenon, <1>1, <1>3, <2>1, <2>2 DEF Valid, Image
<1>4. CASE MountNoSuperblock
  BY Zenon, <1>0, <1>4 DEF MemInv, MountNoSuperblock
<1>5. ASSUME NEW r1 \in BOOLEAN, NEW r2 \in BOOLEAN, NEW r3 \in BOOLEAN, Mount(r1, r2, r3)
      PROVE Valid(active)' /\ generation' = Gen[Image(active)']
  BY Zenon, <1>5, MountWinner DEF Valid, Image
<1>6. CASE Commit
  <2>1. active' = target /\ slot' = slot /\ generation' = Gen[Image(target)] /\ Valid(target)
    BY Zenon, <1>6 DEF Commit, Revalidates
  <2> QED BY Zenon, <1>1, <2>1 DEF Valid, Image
<1> QED BY Zenon, <1>1, <1>3, <1>4, <1>5, <1>6, ActiveChange

(* While no fault has happened and the superblock verifies, storaged runs   *)
(* what the superblock names.                                               *)
LEMMA AgreeStep == ASSUME VInv, [Next]_vars PROVE ActiveAgrees' /\ AlwaysBootable'
<1> USE VolumeAssumption
<1>0. VolTypeOK /\ MemInv /\ ActiveAgrees /\ AlwaysBootable /\ VolTypeOK' /\ MemInv' /\ RunningValid'
  BY Zenon, TypeStep, MemStep, RunningStep DEF VInv
<1> SUFFICES ASSUME faults' = 0, sb'.ok
             PROVE  /\ Valid(sb.active)' /\ sb'.gens[sb'.active] = Gen[Image(sb.active)']
                    /\ up' => /\ ~recovery' /\ keyed' /\ active' = sb'.active
                              /\ generation' = sb'.gens[active'] /\ generation' = Gen[Image(active)']
                              /\ op' # "idle" => target' = Other(active')
  BY Zenon DEF ActiveAgrees, AlwaysBootable
<1>1. faults = 0
  <2>1. faults \in Nat BY <1>0 DEF VolTypeOK
  <2>2. CASE \E r1, r2, r3 \in BOOLEAN : Mount(r1, r2, r3)
    BY <2>1, <2>2 DEF Mount, Faulty, Misses
  <2>3. CASE faults' = faults \/ Faulty(1) BY SMTT(30), <2>1, <2>3 DEF Faulty
  <2> QED BY Zenon, <2>2, <2>3
        DEF Next, Storaged, Agent, Stage, MountNoSuperblock, BeginUpdate, BeginFails,
            UpdateFailed, UpdateRefused, Commit, CommitFails, AgentKilled, AgentRejects,
            AgentWrites, AgentWriteFails, AgentDone, Crash, CrashInTransfer, CrashInCommit,
            Decay, disk, vars
<1>2. sb' = sb \/ Commit
  <2>1. ~CommitFails BY <1>1 DEF CommitFails, Faulty
  <2>2. ~CrashInCommit
    <3>1. "ok" \in DOMAIN sb BY <1>0 DEF VolTypeOK
    <3> QED BY Zenon, <3>1 DEF CrashInCommit
  <2> QED BY Zenon, <2>1, <2>2
        DEF Next, Storaged, Agent, Stage, MountNoSuperblock, Mount, BeginUpdate, BeginFails,
            UpdateFailed, UpdateRefused, AgentKilled, AgentRejects, AgentWrites,
            AgentWriteFails, AgentDone, Crash, CrashInTransfer, Decay, disk, vars
<1>3. CASE Commit
  <2>1. up /\ keyed /\ Valid(target) /\ target \in Slots
    BY Zenon, <1>0, <1>3, InactiveSlot DEF MemInv, Commit, Revalidates
  <2>2. ~recovery BY Zenon, <1>0, <1>1, <2>1 DEF MemInv, ActiveAgrees
  <2>3. /\ sb'.active = target /\ sb'.gens[target] = Gen[Image(target)]
        /\ active' = target /\ generation' = Gen[Image(target)] /\ op' = "idle"
        /\ UNCHANGED <<slot, up, recovery, keyed>>
    BY Zenon, <1>3, <2>1 DEF Commit, Ends, NewSuperblock
  <2> QED BY Zenon, <2>1, <2>2, <2>3 DEF Valid, Image
<1>4. CASE sb' = sb
  <2>0. sb.active \in Slots /\ sb.active # NoSlot BY Zenon, <1>0, OtherSlot DEF VolTypeOK
  <2>1. Valid(sb.active) /\ sb.gens[sb.active] = Gen[Image(sb.active)]
    BY Zenon, <1>0, <1>1, <1>4 DEF AlwaysBootable
  <2>2. ASSUME NEW r1 \in BOOLEAN, NEW r2 \in BOOLEAN, NEW r3 \in BOOLEAN, Mount(r1, r2, r3)
        PROVE  active' = sb.active /\ ~recovery' /\ slot' = slot /\ keyed' /\ op' = "idle"
               /\ generation' = Gen[Image(sb.active)]
    <3>1. r1 /\ r3 BY <1>1, <2>2 DEF Mount, Faulty, Misses
    <3> QED BY Zenon, <1>0, <2>0, <2>1, <2>2, <3>1, MountWinner DEF MemInv, Mount, update
  <2>3. slot'[sb.active] = slot[sb.active]
    <3>1. CASE up BY Zenon, <1>0, <1>1, <1>4, <2>0, <3>1, ActiveSlotKept DEF ActiveAgrees
    <3>2. CASE ~up
      <4>1. op = "idle" BY Zenon, <1>0, <3>2 DEF MemInv
      <4>2. ~(\E s \in Slots, i \in 1..Chunks : Decay(s, i)) BY SMTT(30), <1>1 DEF Decay, Faulty
      <4>3. CASE \E p \in Packages \cup {"bad-signature", "absent"} : Stage(p) BY Zenon, <4>3 DEF Stage
      <4>4. CASE MountNoSuperblock BY Zenon, <4>4 DEF MountNoSuperblock
      <4>5. CASE \E r1, r2, r3 \in BOOLEAN : Mount(r1, r2, r3) BY Zenon, <2>2, <4>5
      <4>6. CASE UNCHANGED vars BY Zenon, <4>6 DEF vars
      <4> QED BY Zenon, <3>2, <4>1, <4>2, <4>3, <4>4, <4>5, <4>6
            DEF Next, Storaged, Agent, BeginUpdate, BeginFails, UpdateFailed, UpdateRefused, Commit,
                CommitFails, AgentKilled, AgentRejects, AgentWrites, AgentWriteFails, AgentDone,
                Crash, CrashInTransfer, CrashInCommit
    <3> QED BY Zenon, <3>1, <3>2
  <2>4. Valid(sb.active)' /\ Image(sb.active)' = Image(sb.active)
    BY Zenon, <1>4, <2>1, <2>3 DEF Valid, Image
  <2>5. op' # "idle" => target' = Inactive' BY Zenon, <1>0 DEF MemInv
  <2>6. CASE up /\ up' /\ UNCHANGED <<active, generation, recovery, keyed>>
    <3>1. ~recovery /\ keyed /\ active = sb.active /\ generation = sb.gens[active]
      BY Zenon, <1>0, <1>1, <1>4, <2>6 DEF ActiveAgrees
    <3> QED BY Zenon, <1>4, <2>0, <2>1, <2>4, <2>5, <2>6, <3>1 DEF Inactive
  <2>7. CASE ~up' BY Zenon, <1>4, <2>1, <2>4, <2>7
  <2>8. ~MountNoSuperblock BY SMTT(30), <1>1, <1>4 DEF MountNoSuperblock, Faulty
  <2>9. CASE \E r1, r2, r3 \in BOOLEAN : Mount(r1, r2, r3)
    BY Zenon, <1>4, <2>1, <2>2, <2>4, <2>9
  <2> QED BY Zenon, <1>3, <1>4, <2>6, <2>7, <2>8, <2>9, ActiveChange
<1> QED BY Zenon, <1>2, <1>3, <1>4

(* The invariant is inductive. *)
LEMMA VNext == VInv /\ [Next]_vars => VInv'
BY Zenon, TypeStep, MemStep, WrittenStep, AgreeStep, RunningStep DEF VInv

-----------------------------------------------------------------------------
(* The invariant of every behaviour of mount, update, crash and decay. *)
THEOREM VolumeInvariant == Spec => []VInv
BY VInit, VNext, PTL DEF Spec

(* With any number of device errors, decayed sectors and torn superblocks,  *)
(* storaged's state is well formed and the slot it runs validates and is    *)
(* not being written.                                                       *)
THEOREM RunningSlotValid == Spec => [](VolTypeOK /\ RunningValid)
BY VolumeInvariant, PTL DEF VInv

(* Interrupting, refusing or repeating updates never leaves a superblock    *)
(* that names a slot mount would refuse.                                    *)
THEOREM UpdatesKeepBootable == Spec => [](AlwaysBootable /\ ActiveAgrees)
BY VolumeInvariant, PTL DEF VInv

(* A commit changes the superblock; nothing else does but a write that the  *)
(* device reports as failed, and a tear.                                    *)
LEMMA SuperblockChange == ASSUME [Next]_vars, sb'.ok, sb' # sb, VInv PROVE Commit \/ faults' # 0
<1>1. faults \in Nat BY DEF VInv, VolTypeOK
<1>2. ASSUME CommitFails PROVE faults' # 0 BY <1>1, <1>2 DEF CommitFails, Faulty
<1>3. sb \in [ok : BOOLEAN, active : Slots, gens : [Slots -> Nat]] BY Zenon DEF VInv, VolTypeOK
<1> QED
  BY Zenon, <1>2, <1>3 DEF Next, Storaged, Agent, Stage, MountNoSuperblock, Mount, BeginUpdate, BeginFails,
       UpdateFailed, UpdateRefused, AgentKilled, AgentRejects, AgentWrites,
       AgentWriteFails, AgentDone, Crash, CrashInTransfer, CrashInCommit, Decay, disk, vars

(* commit_slot's freshness gate: the generation of the next boot never goes *)
(* back while no device fault has happened.                                 *)
THEOREM GenerationNeverGoesBack == Spec => GenerationGrows
<1>1. VInv /\ [Next]_vars =>
        [faults' = 0 /\ sb.ok /\ sb'.ok => sb'.gens[sb'.active] >= sb.gens[sb.active]]_vars
  <2> SUFFICES ASSUME VInv, [Next]_vars, faults' = 0, sb.ok, sb'.ok
               PROVE  sb'.gens[sb'.active] >= sb.gens[sb.active]
    BY Zenon
  <2>0. VolTypeOK /\ MemInv /\ ActiveAgrees /\ RunningValid BY Zenon DEF VInv
  <2>1. sb.gens[sb.active] \in Nat BY Zenon, <2>0 DEF VolTypeOK
  <2>2. CASE sb' = sb BY <2>1, <2>2
  <2>3. CASE sb' # sb
    <3>1. Commit BY Zenon, <2>3, SuperblockChange
    <3>2. up /\ target \in Slots /\ faults = 0 BY Zenon, <2>0, <3>1, InactiveSlot DEF MemInv, Commit
    <3>3. active = sb.active /\ generation = sb.gens[active] BY Zenon, <2>0, <3>2 DEF ActiveAgrees
    <3>4. Gen[Image(target)] \in Nat BY Zenon, <3>1, <3>2, ValidImage, VolumeAssumption DEF Commit, Revalidates
    <3>5. active # NoSlot BY Zenon, <2>0, <3>3, OtherSlot DEF VolTypeOK
    <3>6. Gen[Image(target)] > generation BY Zenon, <3>1, <3>5 DEF Commit, Fresh
    <3>7. sb'.gens[sb'.active] = Gen[Image(target)] BY Zenon, <3>1, <3>2 DEF Commit, NewSuperblock
    <3> QED BY <2>1, <3>3, <3>4, <3>6, <3>7
  <2> QED BY Zenon, <2>2, <2>3
<1> QED BY <1>1, VolumeInvariant, PTL DEF Spec, GenerationGrows

-----------------------------------------------------------------------------
(* Before any damage the superblock's slot validates, so what the next boot *)
(* runs is that slot's image.                                               *)
LEMMA InstalledIs ==
    ASSUME VInv, faults = 0, sb.ok
    PROVE  Valid(sb.active) /\ Installed = Image(sb.active)
<1>1. Valid(sb.active) BY Zenon DEF VInv, AlwaysBootable
<1> QED BY Zenon, <1>1 DEF Installed

(* Damage is not undone: the count of faults grows, and no superblock is    *)
(* committed by a storaged that could not verify the old one.               *)
LEMMA DamageStays ==
    ASSUME VInv, [Next]_vars, faults' = 0, sb'.ok
    PROVE  faults = 0 /\ sb.ok
<1>0. VolTypeOK /\ MemInv /\ VolumeAssumption BY Zenon, VolumeAssumption DEF VInv
<1>1. faults = 0
  <2>1. faults \in Nat BY <1>0 DEF VolTypeOK
  <2>2. ASSUME NEW n \in Nat, Faulty(n) PROVE faults = 0 BY <2>1, <2>2 DEF Faulty
  <2>3. CASE \E r1, r2, r3 \in BOOLEAN : Mount(r1, r2, r3)
    BY <2>1, <2>3 DEF Mount, Faulty, Misses
  <2>4. CASE faults' = faults \/ Faulty(1)
    <3>1. 1 \in Nat OBVIOUS
    <3> QED BY Zenon, <2>2, <2>4, <3>1
  <2> QED BY Zenon, <2>3, <2>4
        DEF Next, Storaged, Agent, Stage, MountNoSuperblock, BeginUpdate, BeginFails,
            UpdateFailed, UpdateRefused, Commit, CommitFails, AgentKilled, AgentRejects,
            AgentWrites, AgentWriteFails, AgentDone, Crash, CrashInTransfer, CrashInCommit,
            Decay, disk, vars
<1>2. sb.ok
  <2>1. CASE sb' = sb BY Zenon, <2>1
  <2>2. CASE sb' # sb
    <3>1. Commit BY Zenon, <2>2, SuperblockChange
    <3> QED BY Zenon, <1>0, <1>1, <3>1 DEF Commit, Revalidates, MemInv
  <2> QED BY Zenon, <2>1, <2>2
<1> QED BY Zenon, <1>1, <1>2

(* A step of the update flow is a delivery, an installation, damage or no   *)
(* change of the abstract state.                                            *)
LEMMA UpdateStep ==
    ASSUME VInv, [Next]_vars
    PROVE  [AU!Next]_(AU!updateVars)
<1> USE VolumeAssumption
<1> DEFINE damaged == faults > 0 \/ ~sb.ok
<1>d. CASE damaged' BY Zenon, <1>d DEF AU!Next, AU!Damage
<1> SUFFICES ASSUME ~damaged' PROVE [AU!Next]_(AU!updateVars) BY Zenon, <1>d
<1>0. VolTypeOK /\ MemInv /\ Written /\ ActiveAgrees /\ RunningValid /\ VInv' BY Zenon, VNext DEF VInv
<1>z. faults' = 0 /\ sb'.ok BY SMTT(30), <1>0 DEF VInv, VolTypeOK
<1>1. faults = 0 /\ sb.ok /\ Valid(sb.active) /\ Installed = Image(sb.active)
  BY Zenon, <1>z, DamageStays, InstalledIs
<1>2. faults' = 0 /\ sb'.ok /\ Valid(sb.active)' /\ Installed' = Image(sb.active)'
  <2>1. faults' = 0 /\ sb'.ok BY Zenon, <1>z
  <2>2. Valid(sb.active)' BY Zenon, <1>0, <2>1 DEF VInv, AlwaysBootable
  <2> QED BY Zenon, <2>1, <2>2 DEF Installed
<1>3. CASE Commit
  <2>1. op = "applied" /\ target \in Slots /\ up BY Zenon, <1>0, <1>3, InactiveSlot DEF MemInv, Commit
  <2>2. Image(target) = staged
    <3>1. done = Chunks /\ 1 \in 1..done BY <1>0, <2>1 DEF Written
    <3> QED BY Zenon, <1>0, <2>1, <3>1 DEF Written, Image
  <2>3. Image(target) \in Packages BY Zenon, <1>3, <2>1, ValidImage DEF Commit, Revalidates
  <2>4. staged \in delivered BY Zenon, <1>0, <2>2, <2>3 DEF Written
  <2>5. active = sb.active /\ generation = Gen[Image(active)] BY Zenon, <1>0, <1>1, <2>1 DEF ActiveAgrees
  <2>6. active # NoSlot BY ZenonT(30), <1>0, <2>5, OtherSlot DEF VolTypeOK
  <2>7. Gen[staged] > Gen[Installed] BY Zenon, <1>1, <1>3, <2>2, <2>5, <2>6 DEF Commit, Fresh
  <2>8. Installed' = staged
    <3>1. sb'.active = target /\ slot' = slot BY Zenon, <1>3 DEF Commit, NewSuperblock
    <3> QED BY Zenon, <1>2, <2>2, <3>1 DEF Image
  <2>9. delivered' = delivered BY Zenon, <1>3 DEF Commit
  <2>10. AU!Install(staged) BY Zenon, <1>1, <1>2, <2>4, <2>7, <2>8, <2>9 DEF AU!Install
  <2> QED BY Zenon, <2>2, <2>3, <2>10 DEF AU!Next
<1>4. CASE ~Commit
  <2>1. sb' = sb BY Zenon, <1>2, <1>4, SuperblockChange
  <2>2. Installed' = Installed
    <3>1. sb.active \in Slots /\ sb.active # NoSlot BY ZenonT(30), <1>0, OtherSlot DEF VolTypeOK
    <3>2. slot'[sb.active][1] = slot[sb.active][1]
      <4>1. CASE up BY Zenon, <1>0, <1>1, <3>1, <4>1, ActiveSlotKept DEF ActiveAgrees
      <4>2. CASE ~up
        <5>1. op = "idle" BY Zenon, <1>0, <4>2 DEF MemInv
        <5>2. slot' = slot \/ \E r1, r2, r3 \in BOOLEAN : Mount(r1, r2, r3)
          BY <1>1, <1>2, <4>2, <5>1
             DEF Next, Storaged, Agent, Stage, MountNoSuperblock, BeginUpdate, BeginFails,
                 UpdateFailed, UpdateRefused, Commit, CommitFails, AgentKilled, AgentRejects,
                 AgentWrites, AgentWriteFails, AgentDone, Crash, CrashInTransfer,
                 CrashInCommit, Decay, Faulty, disk, vars
        <5>3. ASSUME NEW r1 \in BOOLEAN, NEW r2 \in BOOLEAN, NEW r3 \in BOOLEAN, Mount(r1, r2, r3)
              PROVE slot' = slot
          <6>1. r1 /\ r3 BY SMTT(30), <1>1, <1>2, <5>3 DEF Mount, Faulty, Misses
          <6> QED BY Zenon, <1>1, <5>3, <6>1, MountWinner
        <5> QED BY Zenon, <5>2, <5>3
      <4> QED BY Zenon, <4>1, <4>2
    <3> QED BY Zenon, <1>1, <1>2, <2>1, <3>2 DEF Image
  <2>3. delivered' = delivered \/ \E p \in Packages : delivered' = delivered \cup {p}
    BY Zenon DEF Next, Storaged, Agent, Stage, MountNoSuperblock, Mount, BeginUpdate, BeginFails,
       UpdateFailed, UpdateRefused, Commit, CommitFails, AgentKilled, AgentRejects, AgentWrites,
       AgentWriteFails, AgentDone, Crash, CrashInTransfer, CrashInCommit, Decay, disk, vars
  <2> QED BY Zenon, <1>1, <1>2, <2>2, <2>3 DEF AU!Next, AU!Deliver, AU!updateVars
<1> QED BY Zenon, <1>3, <1>4

(* The initial states map to the initial state of the one-step update. *)
LEMMA UpdateInit == Init => AU!Init
<1> SUFFICES ASSUME Init PROVE AU!Init OBVIOUS
<1>1. sb.ok /\ sb.active = "A" /\ Image("A") = Factory /\ Valid("A")
  BY SMTT(30), VolumeAssumption DEF Init, Image, Valid, Slots
<1>2. Installed = Factory BY Zenon, <1>1 DEF Installed
<1> QED BY <1>1, <1>2 DEF Init, AU!Init

(* The update flow, with its agent, kills, refusals and crashes between and *)
(* inside transfers, implements the one-step update of AtomicUpdate, until  *)
(* a device fault or a torn superblock.                                     *)
THEOREM UpdateIsAtomic == Spec => ImplementsAtomicUpdate
<1>1. VInv /\ [Next]_vars => [AU!Next]_(AU!updateVars) BY Zenon, UpdateStep
<1> QED BY <1>1, UpdateInit, VolumeInvariant, PTL DEF Spec, ImplementsAtomicUpdate, AU!Spec
=============================================================================
