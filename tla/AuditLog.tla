------------------------------ MODULE AuditLog ------------------------------
(***************************************************************************)
(* The audit log on the volume (servers/storaged/src/main.rs, with the     *)
(* record format of crypto/src/layout.rs): one hash-chained record per     *)
(* sector, an append cursor held in memory, and the scan that finds the    *)
(* cursor again at mount.                                                  *)
(*                                                                         *)
(* Events are numbered as they are logged.  SHA-256 is injective: a digest *)
(* is the sequence of events of the chain up to its record.  A record is   *)
(* [prev, event]; its sequence number is that of its sector unless it is   *)
(* torn.                                                                   *)
(***************************************************************************)
EXTENDS Integers, SequencesExt, FiniteSetsExt

CONSTANTS Records,     \* AUDIT_RECORDS
          MaxEvents,   \* bound: events logged
          MaxFaults    \* bound: device errors and altered sectors

ASSUME AuditAssumption == Records \in Nat \ {0} /\ MaxEvents \in Nat /\ MaxFaults \in Nat

VARIABLES rec,         \* the sectors
          torn,        \* the superblock does not verify
          faults, events,
          mode,        \* how far storaged is, see ScansTo and LogsTo
          seq, prev    \* audit_seq (records before the cursor) and audit_prev

vars == <<rec, torn, faults, events, mode, seq, prev>>

Sectors == 1..Records
Empty == [prev |-> <<>>, event |-> 0]
Torn == [prev |-> <<>>, event |-> -1]

Init == /\ rec = [i \in Sectors |-> Empty] /\ torn = FALSE /\ faults = 0 /\ events = 0
        /\ mode = "off" /\ seq = 0 /\ prev = <<>>

(* n more device errors or altered sectors fit the bound. *)
Faulty(n) == faults + n <= MaxFaults /\ faults' = faults + n

Digest(r) == Append(r.prev, r.event)

(* check_audit_record: Valid, for sector i after a record with digest p. *)
Check(i, p) == rec[i].event > 0 /\ rec[i].prev = p /\ Len(p) = i - 1

(* The events up to sector i, when the chain holds that far. *)
Events(i) == [j \in 1..i |-> rec[j].event]

(* The chain holds up to sector i. *)
Chained(i) == \A j \in 1..i : Check(j, Events(j - 1))

ScanMissesLast(limit) == LET n == Max({i \in 0..limit : Chained(i)}) IN IF n > 0 THEN n - 1 ELSE n

(* How far scan_audit gets, when it can read the first `limit' sectors. *)
Scanned(limit) == Max({i \in 0..limit : Chained(i)})

(* mount scans once, and once more after each event that it logs on its way *)
(* ("rollback", then "tamper"); after the last scan storaged serves.        *)
ScansTo == [off |-> {"rollback", "tamper", "scanned"}, rolledback |-> {"tamper", "scanned"},
            tampered |-> {"scanned"}]
LogsTo == [rollback |-> "rolledback", tamper |-> "tampered",
           scanned |-> "scanned", unscanned |-> "unscanned"]

(* mount: scan_audit places the cursor. *)
ScanAudit(limit) ==
    /\ mode \in DOMAIN ScansTo /\ ~torn /\ Faulty(IF limit < Records THEN 1 ELSE 0)
    /\ mode' \in ScansTo[mode] /\ seq' = Scanned(limit) /\ prev' = Events(Scanned(limit))
    /\ UNCHANGED <<rec, torn, events>>

(* mount without a superblock that verifies, or with one it cannot read: it *)
(* returns before the scan, and storaged serves in recovery mode.           *)
MountUnscanned == /\ mode = "off" /\ Faulty(IF torn THEN 0 ELSE 1)
                  /\ mode' = "unscanned"
                  /\ UNCHANGED <<rec, torn, events, seq, prev>>

Record == [prev |-> prev, event |-> events + 1]

NotFull == seq < Records

Written(i, r) == rec' = [rec EXCEPT ![i] = r]

(* The sector the next record goes to. *)
Cursor == seq + 1

(* audit_raw, from mount or from a request. *)
AuditRaw ==
    /\ mode \in DOMAIN LogsTo /\ NotFull /\ events < MaxEvents
    /\ mode' = LogsTo[mode] /\ Written(Cursor, Record)
    /\ seq' = seq + 1 /\ prev' = Digest(Record) /\ events' = events + 1
    /\ UNCHANGED <<torn, faults>>

(* A full log stops growing. *)
AuditFull == /\ mode \in DOMAIN LogsTo /\ ~NotFull /\ mode' = LogsTo[mode]
             /\ UNCHANGED <<rec, torn, faults, events, seq, prev>>

AuditFailsAdvances == /\ mode \in DOMAIN LogsTo /\ NotFull /\ events < MaxEvents /\ Faulty(1)
                      /\ mode' = LogsTo[mode]
                      /\ seq' = seq + 1 /\ prev' = Digest(Record) /\ events' = events + 1
                      /\ UNCHANGED <<rec, torn>>

(* The device reports an error, having written all, part or nothing: the    *)
(* event is lost, the cursor stays.                                         *)
AuditFails ==
    /\ mode \in DOMAIN LogsTo /\ NotFull /\ events < MaxEvents /\ Faulty(1)
    /\ mode' = LogsTo[mode]
    /\ \E r \in {rec[Cursor], Record, Torn} : Written(Cursor, r)
    /\ events' = events + 1
    /\ UNCHANGED <<torn, seq, prev>>

(* commit_slot writes the superblock, with the key that a mount has found   *)
(* in the old one.  Its outcome is an event like any other.                 *)
CommitSlot == /\ mode = "scanned" /\ torn' = FALSE
              /\ UNCHANGED <<rec, faults, events, mode, seq, prev>>

(* The device reports an error, with the sector half written. *)
CommitFails == /\ mode = "scanned" /\ Faulty(1) /\ torn' = TRUE
               /\ UNCHANGED <<rec, events, mode, seq, prev>>

Off == mode' = "off" /\ seq' = 0 /\ prev' = <<>>

(* Power fails, perhaps inside the write of a record. *)
Crash == /\ mode # "off" /\ Off
         /\ \/ UNCHANGED <<rec, events>>
            \/ /\ mode \in DOMAIN LogsTo /\ NotFull /\ events < MaxEvents /\ events' = events + 1
               /\ \E r \in {Record, Torn} : Written(Cursor, r)
         /\ UNCHANGED <<torn, faults>>

(* Power fails inside the write of the superblock. *)
CrashInCommit == mode = "scanned" /\ Off /\ torn' = TRUE /\ UNCHANGED <<rec, faults, events>>

(* A sector is altered while the volume is off. *)
Altered(i) == /\ mode = "off" /\ Faulty(1)
              /\ Written(i, Torn)
              /\ UNCHANGED <<torn, events, mode, seq, prev>>

-----------------------------------------------------------------------------
(* While storaged runs, every record before its cursor is intact and the    *)
(* chain ends in the digest the next record will name, whatever writes have *)
(* failed, torn or been cut short before: an append always continues the    *)
(* chain of the records before it.                                          *)
ChainIntact == mode # "off" => Chained(seq) /\ prev = Events(seq)

(* The events a scan of the whole log would find. *)
Verified == Events(Max({i \in 0..Records : Chained(i)}))

(* An event that audit_raw takes for written is the last one of the log     *)
(* that the next scan finds, and without device errors no step takes events *)
(* away from that log or moves them, at a crash, a tear or a remount, as    *)
(* long as mount reaches its scan.  After a mount that does not             *)
(* (storaged:270-284), which a power cut inside the write of the superblock *)
(* (storaged:1087) brings about without a device error, the cursor is at    *)
(* sector 0 and the next event replaces the log (storaged:895-911).         *)
DurableKept ==
    [][/\ mode \in DOMAIN LogsTo /\ seq' > seq => Last(Verified') = events'
       /\ faults' = 0 /\ mode # "unscanned" => IsPrefix(Verified, Verified')]_vars

(* "positions the append cursor after the last intact record": where        *)
(* scan_audit puts it, the next record does not continue the chain.         *)
CursorAfterLast ==
    [][(mode \in DOMAIN ScansTo /\ mode' \in ScansTo[mode] /\ seq' < Records)
          => ~Check(seq' + 1, prev')]_vars

(* "Append-only": in recovery mode too, no intact record is overwritten.    *)
AppendOnlyInRecovery == [][mode = "unscanned" => \A i \in Sectors : Chained(i) => rec'[i] = rec[i]]_vars
=============================================================================
