---------------------------- MODULE ConfigProofs ----------------------------
(***************************************************************************)
(* Proofs about the audit log and the configuration overrides, for every    *)
(* size of the log, set of keys and number of faults.  ChainIntact becomes  *)
(* inductive with the cursor's type and its reset at power-off; SettingsWhole *)
(* needs besides that only a completed mount leaves recovery mode.          *)
(***************************************************************************)
EXTENDS Config, TLAPS, WellFoundedInduction

Modes == {"off", "rolledback", "tampered", "rollback", "tamper", "scanned", "unscanned"}

LogType ==
    /\ DOMAIN rec = Sectors
    /\ events \in Nat /\ faults \in Nat /\ seq \in 0..Records
    /\ mode \in Modes

(* Records before the cursor are chained, powered off or not. *)
LogInv ==
    /\ LogType
    /\ mode = "off" => seq = 0
    /\ Chained(seq) /\ prev = Events(seq)

Settings == [Keys -> Values]

ConfigType ==
    /\ sector.mac = "good" => sector.text \in Settings
    /\ overrides \in Settings /\ may \subseteq Settings /\ recovery \in BOOLEAN

ConfigInv ==
    /\ ConfigType
    /\ mode # "scanned" => recovery
    /\ SettingsWhole

(* A non-empty set of numbers up to n has a largest one. *)
LEMMA MaxUpTo ==
    ASSUME NEW n \in Nat, NEW S, S \subseteq 0..n, S # {}
    PROVE  Max(S) \in S
<1> DEFINE T == {k \in 0..n : n - k \in S}
<1>1. T \subseteq Nat /\ T # {}
  <2>1. PICK i \in S : TRUE
    OBVIOUS
  <2>2. i \in 0..n /\ n - i \in 0..n /\ n - (n - i) = i
    BY <2>1
  <2>3. n - i \in T
    BY <2>1, <2>2
  <2>4. T \subseteq Nat
    OBVIOUS
  <2> QED BY <2>3, <2>4
<1>2. \E x \in T : \A y \in T : ~(<<y, x>> \in OpToRel(<, Nat))
  <2> HIDE DEF T
  <2> QED BY <1>1, WFMin, NatLessThanWellFounded
<1>3. PICK x \in T : \A y \in T : ~(y < x)
  BY <1>1, <1>2 DEF OpToRel
<1>4. \A k \in S : n - x >= k
  <2> SUFFICES ASSUME NEW k \in S PROVE n - x >= k
    OBVIOUS
  <2>1. k \in 0..n /\ n - k \in 0..n /\ n - (n - k) = k
    OBVIOUS
  <2>2. ~(n - k < x)
    BY <1>3, <2>1
  <2> QED BY <1>3, <2>1, <2>2
<1> QED BY <1>3, <1>4 DEF Max

(* scan_audit stops at a sector up to which the chain holds. *)
LEMMA ScannedChained ==
    ASSUME LogType, NEW limit \in 0..Records
    PROVE  Scanned(limit) \in 0..Records /\ Chained(Scanned(limit))
<1> DEFINE S == {i \in 0..limit : Chained(i)}
<1>1. 0 \in S
  BY AuditAssumption DEF Chained
<1>2. Max(S) \in S
  <2>1. limit \in Nat /\ S \subseteq 0..limit /\ S # {}
    BY <1>1, AuditAssumption
  <2> HIDE DEF S
  <2> QED BY <2>1, MaxUpTo
<1> QED BY <1>2, AuditAssumption DEF Scanned

(* Sectors that stay keep the chain up to them. *)
LEMMA ChainFrame ==
    ASSUME NEW n \in 0..Records, \A i \in 1..n : rec'[i] = rec[i]
    PROVE  Chained(n)' = Chained(n) /\ Events(n)' = Events(n)
<1>1. \A m \in 0..n : Events(m)' = Events(m)
  BY AuditAssumption DEF Events
<1>2. \A j \in 1..n : Check(j, Events(j - 1))' = Check(j, Events(j - 1))
  BY <1>1, AuditAssumption DEF Check
<1> QED BY <1>1, <1>2, AuditAssumption DEF Chained

(* What each action of the log does to it. *)
LEMMA ScanStep ==
    ASSUME LogInv, NEW limit \in 0..Records, ScanAudit(limit)
    PROVE  LogInv'
<1>1. rec' = rec /\ events' = events /\ seq' = Scanned(limit) /\ prev' = Events(Scanned(limit))
  BY DEF ScanAudit
<1>2. faults' \in Nat
  BY AuditAssumption DEF ScanAudit, Faulty, LogInv, LogType
<1>3. mode' \in Modes \ {"off"}
  BY DEF ScanAudit, ScansTo, Modes
<1>4. seq' \in 0..Records /\ Chained(seq')
  BY <1>1, ScannedChained DEF LogInv
<1>5. Chained(seq)' /\ prev' = Events(seq)'
  BY <1>1, <1>4 DEF Chained, Check, Events
<1> QED BY <1>1, <1>2, <1>3, <1>4, <1>5 DEF LogInv, LogType

(* A write behind the cursor, with the cursor where it is. *)
LEMMA WriteKeeps ==
    ASSUME LogInv, NotFull, NEW r, Written(Cursor, r), seq' = seq
    PROVE  DOMAIN rec' = Sectors /\ Chained(seq)' /\ Events(seq)' = Events(seq)
<1>1. seq \in 0..Records /\ seq < Records /\ DOMAIN rec = Sectors
  BY DEF LogInv, LogType, NotFull
<1>2. DOMAIN rec' = Sectors /\ \A i \in 1..seq : rec'[i] = rec[i]
  BY <1>1 DEF Written, Cursor
<1>3. \A n \in 0..Records : n = seq => Chained(n)' /\ Events(n)' = Events(n)
  BY <1>1, <1>2, ChainFrame DEF LogInv
<1> QED BY <1>1, <1>2, <1>3 DEF Chained, Check, Events

(* audit_raw extends the chain by the record it writes. *)
LEMMA AppendStep ==
    ASSUME LogInv, AuditRaw
    PROVE  LogInv'
<1>1. seq \in 0..Records /\ seq < Records /\ DOMAIN rec = Sectors /\ events \in Nat
  BY DEF LogInv, LogType, NotFull, AuditRaw
<1>2. /\ rec' = [rec EXCEPT ![seq + 1] = [prev |-> prev, event |-> events + 1]]
      /\ seq' = seq + 1 /\ prev' = Append(prev, events + 1) /\ events' = events + 1
      /\ faults' = faults
  BY DEF AuditRaw, Written, Cursor, Record, Digest
<1>3. mode' \in Modes \ {"off"}
  BY DEF AuditRaw, LogsTo, Modes
<1>4. DOMAIN rec' = Sectors /\ seq' \in 0..Records
  BY <1>1, <1>2, AuditAssumption
<1>a. rec'[seq + 1] = [prev |-> prev, event |-> events + 1] /\ \A j \in 1..seq : rec'[j] = rec[j]
  <2>1. seq + 1 \in DOMAIN rec
    BY <1>1, AuditAssumption DEF Sectors
  <2> QED BY <1>1, <1>2, <2>1 DEF Sectors
<1>5. \A n \in 0..seq : Chained(n)' = Chained(n) /\ Events(n)' = Events(n)
  <2> SUFFICES ASSUME NEW n \in 0..seq PROVE Chained(n)' = Chained(n) /\ Events(n)' = Events(n)
    OBVIOUS
  <2>1. n \in 0..Records /\ \A i \in 1..n : rec'[i] = rec[i]
    BY <1>1, <1>a, AuditAssumption
  <2> QED BY <2>1, ChainFrame
<1>6. prev = Events(seq) /\ Len(prev) = seq /\ Chained(seq)
  BY <1>1 DEF LogInv, Events
<1>7. \A j \in 1..seq + 1 : Check(j, Events(j - 1))'
  <2> SUFFICES ASSUME NEW j \in 1..seq + 1 PROVE Check(j, Events(j - 1))'
    OBVIOUS
  <2>1. CASE j = seq + 1
    <3>1. rec'[j].event > 0 /\ rec'[j].prev = prev
      BY <1>1, <1>a, <2>1
    <3>2. Events(j - 1)' = prev
      BY <1>1, <1>5, <1>6, <2>1
    <3> QED BY <1>1, <1>6, <2>1, <3>1, <3>2 DEF Check
  <2>2. CASE j \in 1..seq
    <3>1. rec'[j] = rec[j] /\ Events(j - 1)' = Events(j - 1)
      BY <1>1, <1>a, <1>5, <2>2
    <3>2. Check(j, Events(j - 1))
      BY <1>6, <2>2 DEF Chained
    <3> QED BY <3>1, <3>2 DEF Check
  <2> QED BY <1>1, <2>1, <2>2
<1>8. prev' = [j \in 1..seq + 1 |-> rec'[j].event]
  <2>1. \A j \in 1..seq : rec'[j].event = rec[j].event
    BY <1>a
  <2>2. rec'[seq + 1].event = events + 1
    BY <1>a
  <2>3. prev = [j \in 1..seq |-> rec[j].event]
    BY <1>6 DEF Events
  <2> QED BY <1>1, <1>2, <1>6, <2>1, <2>2, <2>3
<1>9. Chained(seq)' /\ prev' = Events(seq)'
  BY <1>2, <1>7, <1>8 DEF Chained, Events
<1> QED BY <1>1, <1>2, <1>3, <1>4, <1>9 DEF LogInv, LogType

(* A write the device reports as failed leaves the chain as it was. *)
LEMMA FailStep ==
    ASSUME LogInv, AuditFails
    PROVE  LogInv'
<1>1. NotFull /\ seq' = seq /\ prev' = prev /\ events' = events + 1
  BY DEF AuditFails
<1>2. PICK r \in {rec[Cursor], Record, Torn} : Written(Cursor, r)
  BY DEF AuditFails
<1>3. faults' \in Nat
  BY AuditAssumption DEF AuditFails, Faulty, LogInv, LogType
<1>4. mode' \in Modes \ {"off"}
  BY DEF AuditFails, LogsTo, Modes
<1>5. DOMAIN rec' = Sectors /\ Chained(seq)' /\ Events(seq)' = Events(seq)
  BY <1>1, <1>2, WriteKeeps
<1> QED BY <1>1, <1>3, <1>4, <1>5 DEF LogInv, LogType

(* Power-off resets the cursor; the empty chain always holds. *)
LEMMA OffStep ==
    ASSUME DOMAIN rec' = Sectors, events' \in Nat, faults' \in Nat, mode' = "off", seq' = 0, prev' = <<>>
    PROVE  LogInv'
<1>1. Chained(seq)'
  BY DEF Chained
<1>2. Events(seq)' = <<>>
  BY DEF Events
<1> QED BY <1>1, <1>2, AuditAssumption DEF LogInv, LogType, Modes

LEMMA CrashStep ==
    ASSUME LogInv, Crash \/ CrashInCommit
    PROVE  LogInv'
<1>1. DOMAIN rec' = Sectors /\ events' \in Nat
  BY DEF LogInv, LogType, Crash, CrashInCommit, Written
<1> QED BY <1>1, OffStep DEF LogInv, LogType, Crash, CrashInCommit, Off

(* Steps that leave cursor and sectors alone. *)
LEMMA IdleStep ==
    ASSUME LogInv, UNCHANGED <<rec, events, seq, prev>>, faults' \in Nat,
           mode' \in Modes, mode' = "off" => mode = "off"
    PROVE  LogInv'
BY DEF LogInv, LogType, Chained, Check, Events

(* Every step of storaged or of its disk keeps the log's invariant. *)
LEMMA LogStep ==
    ASSUME LogInv, [ConfigNext]_cvars
    PROVE  LogInv'
<1>1. CASE \E limit \in 0..Records : ScanAudit(limit)
  BY <1>1, ScanStep
<1>2. CASE MountUnscanned
  <2>1. UNCHANGED <<rec, events, seq, prev>> /\ mode' \in Modes \ {"off"}
    BY <1>2 DEF MountUnscanned, Modes
  <2>2. faults' \in Nat
    BY <1>2, AuditAssumption DEF MountUnscanned, Faulty, LogInv, LogType
  <2> QED BY <2>1, <2>2, IdleStep
<1>3. CASE AuditRaw
  BY <1>3, AppendStep
<1>4. CASE AuditFull
  <2>1. UNCHANGED <<rec, events, seq, prev>> /\ mode' \in Modes \ {"off"}
    BY <1>4 DEF AuditFull, LogsTo, Modes
  <2>2. faults' \in Nat
    BY <1>4 DEF AuditFull, LogInv, LogType
  <2> QED BY <2>1, <2>2, IdleStep
<1>5. CASE AuditFails
  BY <1>5, FailStep
<1>6. CASE Crash \/ CrashInCommit
  BY <1>6, CrashStep
<1>7. CASE UNCHANGED <<rec, events, mode, seq, prev>> /\ (Faulty(1) \/ UNCHANGED faults)
  <2>1. faults' \in Nat /\ mode' \in Modes
    BY <1>7, AuditAssumption DEF Faulty, LogInv, LogType
  <2> QED BY <1>7, <2>1, IdleStep
<1>8. CASE \E i \in Sectors : Altered(i)
  <2>1. DOMAIN rec' = Sectors /\ events' \in Nat /\ faults' \in Nat
    BY <1>8, AuditAssumption DEF Altered, Written, Faulty, LogInv, LogType
  <2>2. mode' = "off" /\ seq' = 0 /\ prev' = prev /\ prev = Events(0)
    BY <1>8 DEF Altered, LogInv
  <2>3. Events(0) = <<>>
    BY DEF Events
  <2> QED BY <2>1, <2>2, <2>3, OffStep
<1>9. CASE UNCHANGED cvars
  <2>1. UNCHANGED <<rec, events, seq, prev>> /\ faults' = faults /\ mode' = mode
    BY <1>9 DEF cvars, vars
  <2> QED BY <2>1, IdleStep DEF LogInv, LogType
<1> QED
  <2>1. CASE ConfigNext
    BY <2>1, <1>1, <1>2, <1>3, <1>4, <1>5, <1>6, <1>7, <1>8
       DEF ConfigNext, MountRollback, MountTampered, MountRecovery, Mount, ConfigUnmounted, Log,
           Commit, CommitSlot, CommitFails, ConfigCrash, ConfigAltered, Set, SetFails, CrashInSet
  <2> QED BY <2>1, <1>9

-----------------------------------------------------------------------------
LEMMA LogInit == ConfigInit => LogInv
<1> SUFFICES ASSUME ConfigInit PROVE LogInv
  OBVIOUS
<1>1. Chained(seq)
  BY DEF ConfigInit, Init, Chained
<1>2. Events(seq) = <<>>
  BY DEF ConfigInit, Init, Events
<1> QED BY <1>1, <1>2, AuditAssumption DEF ConfigInit, Init, LogInv, LogType, Modes

(* For every size of the log: as long as storaged runs, the records before   *)
(* audit_seq are intact and chained and audit_prev is the digest of the last *)
(* of them, through failed, torn and cut writes, crashes and remounts        *)
(* (scan_audit, audit_raw).                                                 *)
THEOREM LogChained == ConfigSpec => []ChainIntact
<1>1. ConfigInit => LogInv
  BY LogInit
<1>2. LogInv /\ [ConfigNext]_cvars => LogInv'
  BY LogStep
<1>3. LogInv => ChainIntact
  BY DEF LogInv, ChainIntact
<1> QED BY <1>1, <1>2, <1>3, PTL DEF ConfigSpec

-----------------------------------------------------------------------------
LEMMA PutType ==
    ASSUME NEW m \in Settings, NEW k \in Keys, NEW v \in Values
    PROVE  Put(m, k, v) \in Settings
BY DEF Settings, Put

LEMMA FactoryType == Factory \in Settings
BY ConfigAssumption DEF Factory, Settings

(* Steps that leave the settings and the recovery flag alone. *)
LEMMA SameSettings ==
    ASSUME ConfigInv, UNCHANGED cfg, mode' = "scanned" \/ recovery,
           mode' = "scanned" /\ ~recovery => mode = "scanned" /\ (faults' = 0 => faults = 0)
    PROVE  ConfigInv'
BY DEF ConfigInv, ConfigType, SettingsWhole, Loaded, cfg

(* Powered off or not mounted, only the sector matters. *)
LEMMA Unserved ==
    ASSUME ConfigType', recovery', Loaded' \in may'
    PROVE  ConfigInv'
BY DEF ConfigInv, SettingsWhole

(* The overrides are whole after every kind of step. *)
LEMMA SettingsStep ==
    ASSUME ConfigInv, LogInv, [ConfigNext]_cvars
    PROVE  ConfigInv'
<1> USE DEF cfg
<1>0. faults \in Nat /\ MaxFaults \in Nat
  BY AuditAssumption DEF LogInv, LogType
<1>1. ASSUME NEW limit \in 0..Records,
             MountRollback(limit) \/ MountTampered(limit) \/ MountRecovery(limit)
      PROVE  ConfigInv'
  <2>1. recovery /\ UNCHANGED cfg
    BY <1>1 DEF MountRollback, MountTampered, MountRecovery, ScanAudit, ScansTo, ConfigInv
  <2> QED BY <2>1, SameSettings
<1>2. ASSUME NEW limit \in 0..Records, Mount(limit)
      PROVE  ConfigInv'
  <2>1. UNCHANGED sector /\ recovery' = FALSE /\ mode' = "scanned"
    BY <1>2 DEF Mount
  <2>2. CASE overrides' = Loaded /\ UNCHANGED may
    <3>1. Loaded \in may /\ Loaded' = Loaded /\ Loaded \in Settings
      BY <2>1, FactoryType DEF ConfigInv, ConfigType, SettingsWhole, Loaded
    <3> QED BY <2>1, <2>2, <3>1 DEF ConfigInv, ConfigType, SettingsWhole
  <2>3. CASE limit < Records /\ overrides' = Factory /\ may' = may \cup {Factory}
    <3>1. Loaded \in may /\ Loaded' = Loaded
      BY <2>1 DEF ConfigInv, SettingsWhole, Loaded
    <3>2. faults' = faults + 1
      BY <1>2, <2>3 DEF Mount, ScanAudit, Faulty
    <3>3. faults' # 0 /\ overrides' \in may' /\ Loaded' \in may'
      BY <2>3, <3>1, <3>2, <1>0
    <3>4. ConfigType'
      BY <2>1, <2>3, FactoryType DEF ConfigInv, ConfigType
    <3> QED BY <2>1, <3>3, <3>4 DEF ConfigInv, SettingsWhole
  <2> QED BY <1>2, <2>2, <2>3 DEF Mount
<1>3. CASE ConfigUnmounted
  BY <1>3, SameSettings DEF ConfigUnmounted, MountUnscanned, ConfigInv
<1>4. CASE Log
  <2>1. mode' = LogsTo[mode] /\ mode \in DOMAIN LogsTo /\ UNCHANGED cfg
    BY <1>4 DEF Log, AuditRaw, AuditFull, AuditFails
  <2>2. faults' = faults \/ faults' = faults + 1
    BY <1>4 DEF Log, AuditRaw, AuditFull, AuditFails, Faulty
  <2>3. mode = "scanned" => mode' = "scanned"
    BY <2>1 DEF LogsTo
  <2> QED BY <2>1, <2>2, <2>3, <1>0, SameSettings DEF ConfigInv
<1>c. CASE Commit
  <2>1. mode' = mode /\ UNCHANGED cfg
    BY <1>c DEF Commit, CommitSlot, CommitFails
  <2>2. faults' = faults \/ faults' = faults + 1
    BY <1>c DEF Commit, CommitSlot, CommitFails, Faulty
  <2> QED BY <2>1, <2>2, <1>0, SameSettings DEF ConfigInv
<1>5. CASE ConfigCrash
  <2>1. Loaded' = Loaded /\ Loaded \in may
    BY <1>5 DEF ConfigCrash, Loaded, ConfigInv, SettingsWhole
  <2> QED BY <1>5, <2>1, FactoryType, Unserved DEF ConfigCrash, Lost, ConfigInv, ConfigType
<1>6. CASE ConfigAltered
  <2>1. recovery /\ UNCHANGED <<overrides, recovery>> /\ may' = may \cup {Factory}
    BY <1>6 DEF ConfigAltered, ConfigInv
  <2>2. sector'.mac # "good"
    BY <1>6 DEF ConfigAltered, BadMac, Blank
  <2> QED BY <2>1, <2>2, FactoryType, Unserved DEF ConfigInv, ConfigType, Loaded
<1>7. ASSUME NEW k \in Keys, NEW v \in Values, Set(k, v)
      PROVE  ConfigInv'
  <2>1. overrides \in may /\ mode = "scanned" /\ ~recovery
    BY <1>7 DEF Set, Writable, ConfigInv, SettingsWhole
  <2>2. overrides' = Put(overrides, k, v) /\ Loaded' = overrides' /\ UNCHANGED recovery
    BY <1>7 DEF Set, Loaded, Sealed
  <2>3. mode' = "scanned"
    BY <1>7, <2>1 DEF Set, AuditRaw, AuditFull, AuditFails, LogsTo
  <2>4. may' \subseteq Settings /\ overrides' \in may' /\ overrides' \in Settings
    BY <1>7, <2>1, <2>2, PutType DEF Set, Certainly, ConfigInv, ConfigType
  <2>5. sector'.text = overrides'
    BY <1>7 DEF Set, Sealed
  <2> QED BY <2>1, <2>2, <2>3, <2>4, <2>5 DEF ConfigInv, ConfigType, SettingsWhole
<1>8. ASSUME NEW k \in Keys, NEW v \in Values, SetFails(k, v)
      PROVE  ConfigInv'
  <2>1. overrides \in may /\ Loaded \in may /\ mode = "scanned" /\ ~recovery
    BY <1>8 DEF SetFails, Writable, ConfigInv, SettingsWhole
  <2>2. overrides' = Put(overrides, k, v) /\ UNCHANGED <<mode, recovery>> /\ faults' = faults + 1
    BY <1>8 DEF SetFails, Faulty
  <2>3. /\ may' \subseteq Settings /\ overrides' \in may' /\ overrides' \in Settings
        /\ Factory \in may' /\ may \subseteq may'
    BY <1>8, <2>1, <2>2, PutType, FactoryType DEF SetFails, Perhaps, ConfigInv, ConfigType
  <2>4. CASE sector' = sector
    <3>1. Loaded' = Loaded
      BY <2>4 DEF Loaded
    <3> QED BY <2>1, <2>2, <2>3, <2>4, <3>1, <1>0 DEF ConfigInv, ConfigType, SettingsWhole
  <2>5. CASE sector' = Sealed(overrides')
    <3>1. Loaded' = overrides' /\ sector'.text = overrides'
      BY <2>5 DEF Loaded, Sealed
    <3> QED BY <2>1, <2>2, <2>3, <3>1 DEF ConfigInv, ConfigType, SettingsWhole
  <2>6. CASE sector' \in {BadMac, Blank}
    <3>1. Loaded' = Factory /\ sector'.mac # "good"
      BY <2>6 DEF Loaded, BadMac, Blank
    <3> QED BY <2>1, <2>2, <2>3, <3>1, <1>0 DEF ConfigInv, ConfigType, SettingsWhole
  <2> QED BY <1>8, <2>4, <2>5, <2>6 DEF SetFails
<1>9. ASSUME NEW k \in Keys, NEW v \in Values, CrashInSet(k, v)
      PROVE  ConfigInv'
  <2>1. overrides \in may
    BY <1>9 DEF CrashInSet, Writable, ConfigInv, SettingsWhole
  <2>2. /\ may' \subseteq Settings /\ Put(overrides, k, v) \in may' /\ Factory \in may'
        /\ Put(overrides, k, v) \in Settings
    BY <1>9, <2>1, PutType, FactoryType DEF CrashInSet, Perhaps, ConfigInv, ConfigType
  <2>3. Loaded' \in {Put(overrides, k, v), Factory}
    BY <1>9 DEF CrashInSet, Loaded, Sealed, BadMac, Blank
  <2>4. sector'.mac = "good" => sector'.text = Put(overrides, k, v)
    BY <1>9 DEF CrashInSet, Sealed, BadMac, Blank
  <2> QED BY <1>9, <2>2, <2>3, <2>4, FactoryType, Unserved DEF CrashInSet, Lost, ConfigType
<1>10. ASSUME NEW i \in Sectors, Altered(i) /\ UNCHANGED cfg
       PROVE  ConfigInv'
  <2>1. recovery /\ UNCHANGED cfg
    BY <1>10 DEF Altered, ConfigInv
  <2> QED BY <2>1, SameSettings
<1>11. CASE UNCHANGED cvars
  <2>1. UNCHANGED cfg /\ faults' = faults /\ mode' = mode
    BY <1>11 DEF cvars, vars
  <2> QED BY <2>1, SameSettings DEF ConfigInv
<1> QED
  <2>1. CASE ConfigNext
    BY <2>1, <1>1, <1>2, <1>3, <1>4, <1>c, <1>5, <1>6, <1>7, <1>8, <1>9, <1>10 DEF ConfigNext
  <2> QED BY <2>1, <1>11

(* For every set of keys and values: what storaged answers from and what its *)
(* sector would give the next mount are the outcome of the sets, of which    *)
(* none that was acknowledged is lost alone (handle_config, mount).          *)
THEOREM SettingsKeptWhole == ConfigSpec => []SettingsWhole
<1>1. ConfigInit => LogInv /\ ConfigInv
  <2> SUFFICES ASSUME ConfigInit PROVE ConfigInv
    BY LogInit
  <2>1. sector.mac # "good" /\ Loaded = Factory
    BY DEF ConfigInit, Blank, Loaded
  <2> QED BY <2>1, FactoryType DEF ConfigInit, ConfigInv, ConfigType, SettingsWhole
<1>2. LogInv /\ ConfigInv /\ [ConfigNext]_cvars => LogInv' /\ ConfigInv'
  BY LogStep, SettingsStep
<1>3. ConfigInv => SettingsWhole
  BY DEF ConfigInv
<1> QED BY <1>1, <1>2, <1>3, PTL DEF ConfigSpec
=============================================================================
