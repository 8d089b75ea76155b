------------------------------- MODULE Volume -------------------------------
(***************************************************************************)
(* The A/B system volume: mounting with rollback, and the update flow of   *)
(* storaged (servers/storaged/src/main.rs) with its agent, redoubt-updated *)
(* (servers/updated/src/main.rs), over the on-disk layout of               *)
(* crypto/src/layout.rs.  Power can fail between any two disk writes and   *)
(* in the middle of one.                                                   *)
(*                                                                         *)
(* A slot is the sequence of transfers (8 sectors each) its image takes;   *)
(* the first holds the header.  A transfer holds part of a package, the    *)
(* zeros of an empty or erased header, or the mix a torn write leaves.     *)
(* The MAC over header and ciphertext, the digest and the signature are    *)
(* abstracted to what they establish: all transfers belong to one package, *)
(* sealed under this volume's key.                                         *)
(***************************************************************************)
EXTENDS Integers

CONSTANTS Packages,        \* system definitions
          Gen,             \* their generations
          Sealed,          \* the ones sealed under this volume's key
          Factory,         \* the one mkvol writes into slot A
          Chunks,          \* transfers per slot image
          CapSlots,        \* free capability slots of storaged after boot
          MaxFaults,       \* bound: device errors and decayed sectors
          TornSuperblock   \* whether a crash may tear the superblock sector

Slots == {"A", "B"}
NoSlot == "none"
Empty == "empty"
Torn == "torn"

ASSUME VolumeAssumption ==
    /\ Gen \in [Packages -> Nat] /\ Sealed \subseteq Packages /\ Factory \in Sealed
    /\ Packages \cap {Empty, Torn, "bad-signature", "absent"} = {}
    /\ Chunks \in Nat \ {0} /\ CapSlots \in Nat /\ MaxFaults \in Nat
    /\ TornSuperblock \in BOOLEAN

VARIABLES sb,          \* superblock: does it verify, active slot, generations
          slot,        \* the two slot regions
          staged,      \* the staging area: a package, "bad-signature" or "absent"
          delivered,   \* packages that have been staged (history)
          faults,      \* device errors and decayed sectors so far
          up,          \* storaged is running
          recovery, keyed, active, generation, \* its State
          caps,        \* capability slots it has used up
          op,          \* "idle", or the state of a running update
          target,      \* the slot the update writes
          done         \* transfers the agent has written

disk == <<sb, slot, staged, delivered, faults>>
mem == <<up, recovery, keyed, active, generation, caps>>
update == <<op, target, done>>
vars == <<sb, slot, staged, delivered, faults, up, recovery, keyed, active,
          generation, caps, op, target, done>>

Other(s) == IF s = "A" THEN "B" ELSE "A"

(* validate_and_load, given the right volume key. *)
Valid(s) == \E p \in Sealed : \A i \in 1..Chunks : slot[s][i] = p

Image(s) == slot[s][1]

(* n more device errors fit the bound. *)
Faulty(n) == faults + n <= MaxFaults /\ faults' = faults + n

Down == /\ up' = FALSE /\ recovery' = TRUE /\ keyed' = FALSE
        /\ active' = NoSlot /\ generation' = 0 /\ caps' = 0
        /\ op' = "idle" /\ target' = NoSlot /\ done' = 0

Init == /\ sb = [ok |-> TRUE, active |-> "A", gens |-> [s \in Slots |-> IF s = "A" THEN Gen[Factory] ELSE 0]]
        /\ slot = [s \in Slots |-> [i \in 1..Chunks |-> IF s = "A" THEN Factory ELSE Empty]]
        /\ staged = "absent" /\ delivered = {} /\ faults = 0
        /\ up = FALSE /\ recovery = TRUE /\ keyed = FALSE
        /\ active = NoSlot /\ generation = 0 /\ caps = 0
        /\ op = "idle" /\ target = NoSlot /\ done = 0

-----------------------------------------------------------------------------
(* agt updpack: the host stages a package on the powered-off volume; it     *)
(* refuses one whose superblock does not verify.                            *)
Stage(p) == /\ ~up /\ sb.ok
            /\ staged' = p
            /\ delivered' = IF p \in Packages THEN delivered \cup {p} ELSE delivered
            /\ UNCHANGED <<sb, slot, faults, mem, update>>

(* The superblock does not read or verify: recovery, and no volume key.     *)
MountNoSuperblock ==
    /\ ~up
    /\ \/ ~sb.ok /\ UNCHANGED faults
       \/ Faulty(1)
    /\ up' = TRUE
    /\ UNCHANGED <<sb, slot, staged, delivered, recovery, keyed, active, generation, caps, update>>

Misses(r) == IF r THEN 0 ELSE 1

Put(s, i, c) == [slot EXCEPT ![s][i] = c]

Erased(s) == Put(s, 1, Empty)

(* zero_header, of a write that fails too: nobody looks at its outcome. *)
ZeroHeader(s, w) == slot' \in IF w THEN {Erased(s)} ELSE {slot, Erased(s), Put(s, 1, Torn)}

SlotValidatesHeader(s) == slot[s][1] \in Sealed

(* slot_validates, under the key of a superblock that verified. *)
SlotValidates(s) == Valid(s)

(* The superblock verifies.  r1, r2, r3 are the reads of the active slot,   *)
(* of the other one, and of the winner when its payload is loaded; w is the *)
(* write that erases the header of an active slot that does not validate.   *)
Mount(r1, r2, r3) ==
    LET a == sb.active
        ok == SlotValidates(a) /\ r1
        winner == IF ok THEN a ELSE IF SlotValidates(Other(a)) /\ r2 THEN Other(a) ELSE NoSlot
    IN  /\ ~up /\ sb.ok
        /\ up' = TRUE /\ keyed' = TRUE
        /\ \E w \in {TRUE, ok} :
             /\ Faulty(Misses(r1) + Misses(r2) + Misses(r3) + Misses(w))
             /\ IF ok THEN UNCHANGED slot ELSE ZeroHeader(a, w)
        /\ IF winner # NoSlot /\ r3
           THEN active' = winner /\ generation' = Gen[Image(winner)] /\ recovery' = FALSE
           ELSE UNCHANGED <<active, generation, recovery>>
        /\ UNCHANGED <<sb, staged, delivered, caps, update>>

-----------------------------------------------------------------------------
InactiveAlwaysB == "B"

(* The slot the running system does not depend on; recovery installs into A. *)
Inactive == IF active = NoSlot THEN "A" ELSE Other(active)

(* run_update: derive the agent's two capabilities for the inactive slot    *)
(* and the staging area (their slots are never freed) and spawn it.         *)
BeginUpdate == /\ up /\ op = "idle" /\ caps + 2 <= CapSlots
               /\ caps' = caps + 2
               /\ op' = "agent" /\ target' = Inactive /\ done' = 0
               /\ UNCHANGED <<disk, up, recovery, keyed, active, generation>>

(* A derive, or the spawn, fails: the update ends with an error. *)
BeginFails == /\ up /\ op = "idle"
              /\ \/ caps + 2 > CapSlots /\ caps' = CapSlots /\ UNCHANGED faults
                 \/ caps + 2 <= CapSlots /\ caps' = caps + 2 /\ Faulty(1)
              /\ UNCHANGED <<sb, slot, staged, delivered, up, recovery, keyed, active,
                             generation, update>>

(* The agent exits with 16, 17 or 18, before it has written anything. *)
AgentRejects == /\ op = "agent" /\ done = 0
                /\ \/ staged \notin Packages /\ UNCHANGED faults
                   \/ Faulty(1)
                /\ op' = "failed"
                /\ UNCHANGED <<sb, slot, staged, delivered, mem, target, done>>

AgentWrites == /\ op = "agent" /\ done < Chunks /\ staged \in Packages
               /\ slot' = Put(target, done + 1, staged)
               /\ done' = done + 1
               /\ UNCHANGED <<sb, staged, delivered, faults, mem, op, target>>

(* Exit code 19: the transfer fails, having written all, part or nothing.   *)
AgentWriteFails == /\ op = "agent" /\ done < Chunks /\ staged \in Packages
                   /\ Faulty(1)
                   /\ \E c \in {slot[target][done + 1], staged, Torn} :
                        slot' = Put(target, done + 1, c)
                   /\ op' = "failed"
                   /\ UNCHANGED <<sb, staged, delivered, mem, target, done>>

AgentDone == /\ op = "agent" /\ done = Chunks
             /\ op' = "applied"
             /\ UNCHANGED <<disk, mem, target, done>>

AgentKilledNever == FALSE /\ UNCHANGED vars

(* storaged's deadline passes: it kills the agent between two system calls. *)
AgentKilled == /\ op = "agent"
               /\ op' = "failed"
               /\ UNCHANGED <<disk, mem, target, done>>

Ends == op' = "idle" /\ target' = NoSlot /\ done' = 0

(* Any exit code but 0: audited and reported. *)
UpdateFailed == op = "failed" /\ Ends /\ UNCHANGED <<disk, mem>>

(* The agent exited with 0: re-validation and the freshness gate of         *)
(* commit_slot, without which nothing is committed.                         *)
Fresh == active = NoSlot \/ Gen[Image(target)] > generation

RevalidatesKeyOnly == keyed

Revalidates == keyed /\ Valid(target)

UpdateRefused == /\ op = "applied" /\ ~(Revalidates /\ Fresh)
                 /\ Ends
                 /\ UNCHANGED <<disk, mem>>

NewSuperblock == [ok |-> TRUE, active |-> target,
                  gens |-> [s \in Slots |-> IF s = target THEN Gen[Image(s)]
                                            ELSE IF active = s THEN generation ELSE 0]]

Commit == /\ op = "applied" /\ Revalidates /\ Fresh
          /\ sb' = NewSuperblock
          /\ active' = target /\ generation' = Gen[Image(target)]
          /\ Ends
          /\ UNCHANGED <<slot, staged, delivered, faults, up, recovery, keyed, caps>>

CommitFails == /\ op = "applied" /\ Revalidates /\ Fresh
               /\ Faulty(1)
               /\ \/ UNCHANGED sb \/ sb' = NewSuperblock
                  \/ TornSuperblock /\ sb' = [sb EXCEPT !.ok = FALSE]
               /\ Ends
               /\ UNCHANGED <<slot, staged, delivered, mem>>

-----------------------------------------------------------------------------
(* Power fails between two disk writes, or inside one. *)
Crash == up /\ Down /\ UNCHANGED disk

CrashInTransfer == /\ op = "agent" /\ done < Chunks /\ staged \in Packages
                   /\ slot' = Put(target, done + 1, Torn)
                   /\ Down
                   /\ UNCHANGED <<sb, staged, delivered, faults>>

CrashInCommit == /\ op = "applied" /\ Revalidates /\ Fresh /\ TornSuperblock
                 /\ sb' = [sb EXCEPT !.ok = FALSE]
                 /\ Down
                 /\ UNCHANGED <<slot, staged, delivered, faults>>

(* A sector of a slot decays while the machine is off. *)
Decay(s, i) == /\ ~up /\ Faulty(1)
               /\ slot' = Put(s, i, Torn)
               /\ UNCHANGED <<sb, staged, delivered, mem, update>>

Storaged == BeginFails \/ UpdateFailed \/ UpdateRefused \/ Commit \/ CommitFails \/ AgentKilled

Agent == AgentRejects \/ AgentWrites \/ AgentWriteFails \/ AgentDone

Next == \/ \E p \in Packages \cup {"bad-signature", "absent"} : Stage(p)
        \/ MountNoSuperblock
        \/ \E r1, r2, r3 \in BOOLEAN : Mount(r1, r2, r3)
        \/ BeginUpdate \/ Storaged \/ Agent
        \/ Crash \/ CrashInTransfer \/ CrashInCommit
        \/ \E s \in Slots, i \in 1..Chunks : Decay(s, i)

(* storaged polls the agent and the clock until one of them ends the wait,  *)
(* and finishes the update once the agent is gone.                          *)
Spec == Init /\ [][Next]_vars /\ WF_vars(AgentKilled) /\ WF_vars(UpdateFailed)
             /\ WF_vars(UpdateRefused \/ Commit)

-----------------------------------------------------------------------------
(* Types of the disk and of storaged's State; storaged never uses more      *)
(* capability slots than it has.                                            *)
VolTypeOK ==
    /\ sb \in [ok : BOOLEAN, active : Slots, gens : [Slots -> Nat]]
    /\ slot \in [Slots -> [1..Chunks -> Packages \cup {Empty, Torn}]]
    /\ staged \in Packages \cup {"bad-signature", "absent"}
    /\ delivered \subseteq Packages
    /\ faults \in 0..MaxFaults
    /\ up \in BOOLEAN /\ recovery \in BOOLEAN /\ keyed \in BOOLEAN
    /\ active \in Slots \cup {NoSlot} /\ generation \in Nat /\ caps \in 0..CapSlots
    /\ op \in {"idle", "agent", "failed", "applied"}
    /\ target \in Slots \cup {NoSlot} /\ done \in 0..Chunks

(* However often updates are interrupted, refused or repeated, the slot the *)
(* superblock names validates and has the generation the superblock gives   *)
(* it, unless a device fault or a torn superblock has happened: the next    *)
(* mount needs no rollback and no recovery.                                 *)
AlwaysBootable == faults = 0 /\ sb.ok => Valid(sb.active) /\ sb.gens[sb.active] = Gen[Image(sb.active)]

(* What storaged believes it runs is what the superblock names, so that the *)
(* agent's target is the slot no boot depends on.                           *)
ActiveAgrees == faults = 0 /\ sb.ok /\ up =>
    /\ ~recovery /\ keyed /\ active = sb.active
    /\ generation = sb.gens[active] /\ generation = Gen[Image(active)]
    /\ op # "idle" => target = Other(active)

(* Even with device errors, decayed sectors and a torn superblock: a slot   *)
(* storaged has mounted or committed still validates, with the generation   *)
(* storaged has for it, and no update in progress writes into it.           *)
RunningValid == up /\ active # NoSlot =>
    /\ Valid(active) /\ generation = Gen[Image(active)]
    /\ op # "idle" => target # active

(* Without device faults, the generation the superblock makes the next boot *)
(* run never decreases, so no refused or repeated package takes it back.    *)
GenerationGrows == [][faults' = 0 /\ sb.ok /\ sb'.ok => sb'.gens[sb'.active] >= sb.gens[sb.active]]_vars

(* An update that was started is answered: storaged does not wait for a     *)
(* stuck agent beyond its deadline.                                         *)
UpdateAnswered == op # "idle" ~> op = "idle"

(* The package the next boot runs: the active slot's, or the other one's.   *)
Installed == IF sb.ok /\ Valid(sb.active) THEN Image(sb.active)
             ELSE IF sb.ok /\ Valid(Other(sb.active)) THEN Image(Other(sb.active)) ELSE Factory

AU == INSTANCE AtomicUpdate WITH installed <- Installed, damaged <- faults > 0 \/ ~sb.ok

(* The flow of many writes, kills and crashes implements the one-step       *)
(* update, up to the first device fault or torn superblock.                 *)
ImplementsAtomicUpdate == AU!Spec

-----------------------------------------------------------------------------
(* "a torn sector fails the MAC at next mount and falls back to the other   *)
(* valid slot": storaged comes up out of recovery when a slot validates.    *)
TornFallsBack == up /\ faults = 0 /\ (\E s \in Slots : Valid(s)) => ~recovery

(* "enforces generation freshness so stale packages cannot roll the system  *)
(* back": the slot a mount falls back to has not been given, since the       *)
(* superblock was written, a package older than the generation the           *)
(* superblock has for that slot.                                            *)
StaleNeverRuns == up /\ ~recovery /\ sb.ok /\ active # sb.active => generation >= sb.gens[active]
=============================================================================
