------------------------------- MODULE Config -------------------------------
(***************************************************************************)
(* The runtime configuration of storaged (servers/storaged/src/main.rs,     *)
(* with the sector format of crypto/src/layout.rs): overrides held in       *)
(* memory, written whole to one sector with a MAC at every "set", read back *)
(* at mount.  Composed with the audit log of module AuditLog, which a set   *)
(* and a mount that finds the sector altered append to.                     *)
(*                                                                         *)
(* The overrides are a function from keys to values; a key that is not set  *)
(* has the value Default.  The sector holds overrides under a good MAC, or    *)
(* lacks its magic number, or fails its MAC.                                *)
(***************************************************************************)
EXTENDS AuditLog

CONSTANTS Keys, Values, Default

ASSUME ConfigAssumption == Keys # {} /\ Default \in Values

VARIABLES sector,     \* CONFIG_LBA
          overrides,  \* what storaged answers from
          recovery,   \* storaged runs without a verified slot
          may         \* what a careful reader expects (history), see SettingsWhole

cvars == <<vars, sector, overrides, recovery, may>>
cfg == <<sector, overrides, recovery, may>>

Factory == [k \in Keys |-> Default]
Blank == [mac |-> "none", text |-> Factory]
BadMac == [mac |-> "bad", text |-> Factory]
Sealed(settings) == [mac |-> "good", text |-> settings]

ConfigInit == Init /\ sector = Blank /\ overrides = Factory /\ recovery = TRUE /\ may = {Factory}

(* mount: the rollback is logged before the configuration is looked at. *)
MountRollback(limit) ==
    /\ ScanAudit(limit) /\ mode' = "rollback"
    /\ UNCHANGED cfg

(* A sector that fails its MAC is logged and left out: the defaults hold. *)
MountTampered(limit) ==
    /\ ScanAudit(limit) /\ mode' = "tamper" /\ sector = BadMac
    /\ UNCHANGED cfg

(* mount finds no slot that verifies, and returns before the configuration. *)
MountRecovery(limit) ==
    /\ mode # "tampered" /\ ScanAudit(limit) /\ mode' = "scanned"
    /\ UNCHANGED cfg

(* What mount makes of the sector. *)
Loaded == IF sector.mac = "good" THEN sector.text ELSE Factory

(* mount to the end.  A device that fails to read may fail at the            *)
(* configuration too; what it fails to read is not looked at.               *)
Mount(limit) ==
    /\ ScanAudit(limit) /\ mode' = "scanned" /\ recovery' = FALSE
    /\ \/ /\ sector # BadMac \/ mode = "tampered"
          /\ overrides' = Loaded /\ UNCHANGED may
       \/ /\ limit < Records /\ mode # "tampered"
          /\ overrides' = Factory /\ may' = may \cup {Factory}
    /\ UNCHANGED sector

(* mount returns before the scan. *)
ConfigUnmounted == MountUnscanned /\ UNCHANGED cfg

-----------------------------------------------------------------------------
(* Mutant: a set in recovery mode is carried out. *)
WritableAlways == mode = "scanned"

(* "recovery mode is read-only". *)
Writable == mode = "scanned" /\ ~recovery

Put(settings, k, v) == [settings EXCEPT ![k] = v]

(* A set that happened, and one that may have. *)
Certainly(k, v) == may' = {Put(m, k, v) : m \in may}
Perhaps(k, v) == may' = may \cup {Put(m, k, v) : m \in may} \cup {Factory}

(* handle_config "set": the whole text is rebuilt, written, and then logged. *)
Set(k, v) ==
    /\ Writable
    /\ overrides' = Put(overrides, k, v) /\ sector' = Sealed(overrides')
    /\ AuditRaw \/ AuditFull \/ AuditFails
    /\ Certainly(k, v)
    /\ UNCHANGED recovery

(* "err: io": the device reports an error, whatever it has written; memory   *)
(* keeps the new value, nothing is logged.                                  *)
SetFails(k, v) ==
    /\ Writable /\ Faulty(1)
    /\ overrides' = Put(overrides, k, v)
    /\ sector' \in {sector, Sealed(overrides'), BadMac, Blank}
    /\ Perhaps(k, v)
    /\ UNCHANGED <<rec, torn, events, mode, seq, prev, recovery>>

-----------------------------------------------------------------------------
(* Everything else that is logged. *)
Log == (AuditRaw \/ AuditFull \/ AuditFails) /\ UNCHANGED cfg

(* An update that gets as far as the superblock. *)
Commit == (CommitSlot \/ CommitFails) /\ UNCHANGED cfg

Lost == overrides' = Factory /\ recovery' = TRUE

ConfigCrash == (Crash \/ CrashInCommit) /\ Lost /\ UNCHANGED <<sector, may>>

(* Power fails inside a set: in or after the write of the sector, or inside  *)
(* that of the log.                                                         *)
CrashInSet(k, v) ==
    /\ Writable /\ Crash /\ Lost
    /\ sector' \in {Sealed(Put(overrides, k, v)), BadMac, Blank}
    /\ sector'.mac # "good" => rec' = rec
    /\ Perhaps(k, v)

ConfigAltered == /\ mode = "off" /\ Faulty(1)
                 /\ sector' \in {BadMac, Blank} /\ may' = may \cup {Factory}
                 /\ UNCHANGED <<rec, torn, events, mode, seq, prev, overrides, recovery>>

ConfigNext ==
    \/ \E limit \in 0..Records : MountRollback(limit) \/ MountTampered(limit)
                                    \/ MountRecovery(limit) \/ Mount(limit)
    \/ ConfigUnmounted \/ Log \/ Commit \/ ConfigCrash \/ ConfigAltered
    \/ \E k \in Keys, v \in Values \ {Default} : Set(k, v) \/ SetFails(k, v) \/ CrashInSet(k, v)
    \/ \E i \in Sectors : Altered(i) /\ UNCHANGED cfg

ConfigSpec == ConfigInit /\ [][ConfigNext]_cvars

-----------------------------------------------------------------------------
(* Settings are kept whole: what storaged answers from, and what the sector  *)
(* would give the next mount, are always the outcome of a history in which   *)
(* every acknowledged set happened, one that failed or that the power cut    *)
(* happened or not, and a sector that was torn, altered or unreadable took   *)
(* everything back to the defaults.  In particular a set after a failed one, *)
(* after a fallback or in recovery mode loses no other key.                 *)
SettingsWhole ==
    /\ Loaded \in may
    /\ mode = "scanned" /\ ~recovery => overrides \in may /\ (faults = 0 => overrides = Loaded)
=============================================================================
