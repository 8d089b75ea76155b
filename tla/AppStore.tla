------------------------------ MODULE AppStore ------------------------------
(***************************************************************************)
(* The store of signed applications: storaged's paired slots, its index    *)
(* and the one workspace it validates, installs and serves from            *)
(* (servers/storaged/src/main.rs), over the layout of crypto/src/layout.rs; *)
(* agt apppack, which stages a package (tools/agt/src/main.rs); and initfs, *)
(* which fetches an application in pieces and checks it again before       *)
(* running it (servers/initfs/src/main.rs).                                *)
(*                                                                         *)
(* A payload is a sequence of pieces.  One piece stands for a disk transfer *)
(* (8 sectors) and for a chunk of a reply (40 bytes).  SHA-256 is          *)
(* injective: a digest is the payload itself.  A signature is what it      *)
(* signs, or Forged; a MAC is the ciphertext it covers.  ChaCha20 XORs:    *)
(* a piece carries the set of key streams that have been XORed into it.    *)
(***************************************************************************)
EXTENDS Integers, Sequences, FiniteSetsExt

CONSTANTS Packages,     \* what apppack may stage
          AppSlots,     \* APP_SLOTS, 8 in the code: an even number
          MaxLen,       \* bound: pieces of the longest payload
          MaxFaults     \* bound: device errors

Slots == 0..AppSlots - 1
Names == {p.name : p \in Packages}
Forged == <<>>

(* app_signing_message: what the vendor signs. *)
SigningMessage(name, version, len, sha) == <<name, version, len, sha>>

(* ed25519::verify under the pinned public key. *)
Verifies(name, version, len, sha, sig) == sig = SigningMessage(name, version, len, sha)

Piece(text) == [text |-> text, streams |-> {}]

(* chacha20::xor_stream: the same stream a second time undoes the first. *)
Xor(nonce, piece) ==
    [piece EXCEPT !.streams = IF nonce \in @ THEN @ \ {nonce} ELSE @ \cup {nonce}]

XorStream(nonce, pieces) == [i \in DOMAIN pieces |-> Xor(nonce, pieces[i])]

AppNonce(s, version) == <<s, version>>
(* app_peer_slot: slot ^ 1. *)
AppPeerSlot(s) == IF s % 2 = 0 THEN s + 1 ELSE s - 1

Zero == Piece("zero")
Torn == Piece("torn")
ErrText == Piece("err: no app")
PkgHeader == Piece("package header")
NoEntry == [slot |-> AppSlots]
NoApp == [slot |-> AppSlots + 1]   \* staged: a system package, or nothing
NoRun == [name |-> "none"]

ASSUME AppStoreAssumption ==
    /\ AppSlots \in Nat \ {0} /\ AppSlots % 2 = 0
    /\ MaxLen \in Nat \ {0} /\ MaxFaults \in Nat
    /\ \A p \in Packages : p.len = Len(p.payload) /\ p.len \in 1..MaxLen /\ p.version \in Nat

VARIABLES hdr, data,      \* the slots: header sector and ciphertext
          staged,         \* the package in the staging area
          faults,         \* device errors so far
          up, recovery,   \* storaged runs; it found no system to mount
          apps, cached,   \* its index (a Vec whose order is left open) and cached_app
          work,           \* WORKSPACE
          op,             \* the request in progress that writes to the disk
          entry, done,    \* install: what it publishes, its writes so far
          victim, left,   \* remove: the name, the headers still to clear
          pc, want, got,  \* initfs: step of a run, the name, what it has fetched
          ran,            \* the image initfs spawned last (history)
          gone            \* names removed and not installed since (history)

disk == <<hdr, data, staged>>
index == <<up, recovery, apps>>
request == <<op, entry, done, victim, left>>
initfs == <<pc, want, got, ran>>
vars == <<disk, faults, index, cached, work, request, initfs, gone>>

EmptyWork == [i \in 1..MaxLen + 1 |-> Zero]
NothingGot == [len |-> 0, version |-> 0, sha |-> <<>>, sig |-> <<>>, elf |-> <<>>]

Init == /\ hdr = [s \in Slots |-> NoEntry]
        /\ data = [s \in Slots |-> [i \in 1..MaxLen |-> Zero]]
        /\ staged = NoApp /\ faults = 0
        /\ up = FALSE /\ recovery = TRUE /\ apps = {} /\ cached = NoEntry /\ work = EmptyWork
        /\ op = "idle" /\ entry = NoEntry /\ done = 0 /\ victim = "none" /\ left = {}
        /\ pc = "idle" /\ want = "none" /\ got = NothingGot /\ ran = NoRun /\ gone = {}

(* n more device errors fit the bound. *)
Faulty(n) == faults + n <= MaxFaults /\ faults' = faults + n

(* The first pieces of a buffer, overwritten. *)
Over(buf, pieces) == [i \in DOMAIN buf |-> IF i \in DOMAIN pieces THEN pieces[i] ELSE buf[i]]

-----------------------------------------------------------------------------
(* The bytes validate_and_load_app leaves in the workspace. *)
Decrypted(s) == XorStream(AppNonce(s, hdr[s].version), SubSeq(data[s], 1, hdr[s].len))

(* parse_app_header and the header checks: there is a payload to read. *)
Parses(s) == hdr[s] # NoEntry /\ hdr[s].slot = s

(* validate_and_load_app succeeds: MAC, digest and signature. *)
Valid(s) == /\ Parses(s)
            /\ SubSeq(data[s], 1, hdr[s].len) = hdr[s].mac
            /\ [i \in 1..hdr[s].len |-> Decrypted(s)[i].text] = hdr[s].sha
            /\ Verifies(hdr[s].name, hdr[s].version, hdr[s].len, hdr[s].sha, hdr[s].sig)

(* app_entry_from_header; install_app builds the same from a package. *)
Entry(s, h) == [slot |-> s, name |-> h.name, len |-> h.len, version |-> h.version,
                sha |-> h.sha, sig |-> h.sig]

Named(n) == {a \in apps : a.name = n}

(* best_app; NoEntry for None. *)
BestApp(n) == IF Named(n) = {} THEN NoEntry
              ELSE CHOOSE a \in Named(n) : \A b \in Named(n) : b.version <= a.version

(* agt apppack writes the staging area of the powered-off volume; updpack   *)
(* puts a system package there.                                             *)
AppPack(p) == /\ ~up
              /\ staged' = p
              /\ UNCHANGED <<hdr, data, faults, index, cached, work, request, initfs, gone>>

(* load_apps at mount: the slots that validate, save the ones that do not read. *)
LoadApps(unread) ==
    /\ ~up /\ Faulty(Cardinality(unread))
    /\ up' = TRUE /\ recovery' = FALSE
    /\ apps' = {Entry(s, hdr[s]) : s \in {t \in Slots \ unread : Valid(t)}}
    /\ UNCHANGED <<disk, cached, work, request, initfs, gone>>

(* mount ends in recovery and never gets to the applications. *)
MountRecovery == /\ ~up /\ Faulty(1)
                 /\ up' = TRUE
                 /\ UNCHANGED <<disk, recovery, apps, cached, work, request, initfs, gone>>

(* Power fails. *)
Down == /\ up' = FALSE /\ recovery' = TRUE /\ apps' = {} /\ cached' = NoEntry /\ work' = EmptyWork
        /\ op' = "idle" /\ entry' = NoEntry /\ done' = 0 /\ victim' = "none" /\ left' = {}
        /\ pc' = "idle" /\ want' = "none" /\ got' = NothingGot /\ ran' = NoRun

Serving == up /\ op = "idle"

-----------------------------------------------------------------------------
TargetInPlace(n) == IF BestApp(n) # NoEntry THEN {BestApp(n).slot}
                    ELSE {s \in Slots : /\ s % 2 = 0
                                        /\ \A a \in apps : a.slot \notin {s, s + 1}}

TargetAnyFree(n) == {s \in Slots : \A a \in apps : a.slot # s}

(* target_app_slot, before the choice of the first: the peer of the newest   *)
(* version's slot, or the pairs nothing is indexed in.                      *)
TargetAppSlots(n) == IF BestApp(n) # NoEntry THEN {AppPeerSlot(BestApp(n).slot)}
                     ELSE {s \in Slots : /\ s % 2 = 0
                                         /\ \A a \in apps : a.slot \notin {s, s + 1}}

StageImage(p) == <<PkgHeader>> \o [i \in 1..p.len |-> Piece(p.payload[i])]

(* The package's digest, signature and version pass, and there is room. *)
Acceptable(p) == /\ p.payload = p.sha
                 /\ Verifies(p.name, p.version, p.len, p.sha, p.sig)
                 /\ BestApp(p.name) # NoEntry => p.version > BestApp(p.name).version
                 /\ TargetAppSlots(p.name) # {}

(* install_app returns an error before it writes: the staging area fails to *)
(* read after n pieces, or the package is refused.                          *)
InstallRefused ==
    /\ Serving /\ ~recovery /\ staged # NoApp
    /\ \/ /\ ~Acceptable(staged)
          /\ work' = Over(work, StageImage(staged))
          /\ UNCHANGED faults
       \/ /\ Faulty(1)
          /\ \E n \in 0..staged.len : work' = Over(work, SubSeq(StageImage(staged), 1, n))
    /\ UNCHANGED <<disk, index, cached, request, initfs, gone>>

(* install_app has encrypted the payload in place and starts to write. *)
InstallApp ==
    /\ Serving /\ ~recovery /\ staged # NoApp /\ Acceptable(staged)
    /\ LET s == Min(TargetAppSlots(staged.name))
           plain == [i \in 1..staged.len |-> Piece(staged.payload[i])]
       IN  /\ entry' = Entry(s, staged)
           /\ work' = Over(Over(work, StageImage(staged)),
                           XorStream(AppNonce(s, staged.version), plain))
    /\ op' = "install" /\ done' = 0
    /\ gone' = gone \ {staged.name}
    /\ UNCHANGED <<disk, faults, index, cached, victim, left, initfs>>

(* write_app_header and app_header_mac, over the ciphertext in the workspace. *)
Header(e) == [slot |-> e.slot, name |-> e.name, len |-> e.len, version |-> e.version,
              sha |-> e.sha, sig |-> e.sig, mac |-> SubSeq(work, 1, e.len)]

(* The writes of install_app in order: clear the header, the payload piece  *)
(* by piece, publish the header.  What a write puts where:                  *)
WritesHeader(s, h) == hdr' = [hdr EXCEPT ![s] = h] /\ UNCHANGED data
WritesPiece(s, i, piece) == data' = [data EXCEPT ![s][i] = piece] /\ UNCHANGED hdr

InstallWrites == /\ op = "install" /\ done <= entry.len
                 /\ IF done = 0 THEN WritesHeader(entry.slot, NoEntry)
                    ELSE WritesPiece(entry.slot, done, work[done])
                 /\ done' = done + 1
                 /\ UNCHANGED <<staged, faults, index, cached, work, op, entry, victim, left, initfs, gone>>

Ends == op' = "idle" /\ entry' = NoEntry /\ done' = 0 /\ victim' = "none" /\ left' = {}

IndexedTwice == apps \cup {entry}

(* The index after an install: the new entry in place of its slot's. *)
Indexed == {a \in apps : a.slot # entry.slot} \cup {entry}

InstallDone == /\ op = "install" /\ done = entry.len + 1
               /\ WritesHeader(entry.slot, Header(entry))
               /\ apps' = Indexed /\ cached' = NoEntry
               /\ Ends
               /\ UNCHANGED <<staged, faults, up, recovery, work, initfs, gone>>

HeadersNewest(n) == {BestApp(n).slot}

(* The headers remove_app clears. *)
HeadersOf(n) == {a.slot : a \in Named(n)}

RemoveApp(n) == /\ Serving /\ Named(n) # {}
                /\ op' = "remove" /\ victim' = n /\ left' = HeadersOf(n)
                /\ UNCHANGED <<disk, faults, index, cached, work, entry, done, initfs, gone>>

RemoveWrites == /\ op = "remove"
                /\ \E s \in left : WritesHeader(s, NoEntry) /\ left' = left \ {s}
                /\ UNCHANGED <<staged, faults, index, cached, work, op, entry, done, victim, initfs, gone>>

RemoveDone == /\ op = "remove" /\ left = {}
              /\ apps' = apps \ Named(victim) /\ cached' = NoEntry
              /\ gone' = gone \cup {victim}
              /\ Ends
              /\ UNCHANGED <<disk, faults, up, recovery, work, initfs>>

(* run_update forgets the cached application: it reuses the workspace. *)
RunUpdate == /\ Serving
             /\ cached' = NoEntry
             /\ UNCHANGED <<disk, faults, index, work, request, initfs, gone>>

(* The write under way leaves nothing, all or part of itself on the disk. *)
HalfWritten ==
    \/ UNCHANGED <<hdr, data>>
    \/ /\ op = "install"
       /\ IF done \in 1..entry.len
          THEN \E piece \in {Torn, work[done]} : WritesPiece(entry.slot, done, piece)
          ELSE \E h \in {NoEntry, Header(entry)} : /\ h # NoEntry => done > entry.len
                                                  /\ WritesHeader(entry.slot, h)
    \/ op = "remove" /\ \E s \in left : WritesHeader(s, NoEntry)

(* The device reports an error: the request ends, index and cache stay. *)
WriteFails == /\ op # "idle" /\ (op = "remove" => left # {})
              /\ Faulty(1)
              /\ HalfWritten
              /\ Ends
              /\ UNCHANGED <<staged, index, cached, work, initfs, gone>>

Crash == up /\ HalfWritten /\ Down /\ UNCHANGED <<staged, faults, gone>>

-----------------------------------------------------------------------------
(* cache_app: WORKSPACE is taken to hold the newest version of n already. *)
Hit(b) == cached # NoEntry /\ cached.slot = b.slot /\ cached.version = b.version

(* What cache_app(n) returns; `fails' says that a read fails on the way. *)
CacheResult(n, fails) ==
    LET b == BestApp(n)
    IN  IF b = NoEntry THEN NoEntry
        ELSE IF Hit(b) THEN cached
        ELSE IF /\ ~fails /\ Valid(b.slot)
                /\ hdr[b.slot].version = b.version /\ hdr[b.slot].sha = b.sha
        THEN Entry(b.slot, hdr[b.slot]) ELSE NoEntry

(* What it does: a load overwrites the workspace even if it fails; only a   *)
(* successful one replaces cached_app.                                      *)
CacheApp(n, fails) ==
    LET b == BestApp(n)
        loads == b # NoEntry /\ ~Hit(b)
    IN  /\ IF fails THEN loads /\ Faulty(1) ELSE UNCHANGED faults
        /\ cached' = IF loads /\ CacheResult(n, fails) # NoEntry THEN CacheResult(n, fails) ELSE cached
        /\ IF loads /\ Parses(b.slot)
           THEN \E k \in IF fails THEN 0..hdr[b.slot].len - 1 ELSE {hdr[b.slot].len} :
                    work' = Over(work, SubSeq(Decrypted(b.slot), 1, k))
           ELSE UNCHANGED work

(* run_installed_app, one action per call it makes to storaged.             *)
RunInstalledApp(n) == /\ up /\ pc = "idle"
                      /\ pc' = "info" /\ want' = n /\ got' = NothingGot /\ ran' = NoRun
                      /\ UNCHANGED <<disk, faults, index, cached, work, request, gone>>

Answers == pc' = "idle" /\ want' = "none" /\ got' = NothingGot

AskInfo(fails) ==
    /\ Serving /\ pc = "info"
    /\ CacheApp(want, fails)
    /\ LET e == CacheResult(want, fails)
       IN  IF e = NoEntry THEN Answers
           ELSE /\ got' = [got EXCEPT !.len = e.len, !.version = e.version]
                /\ pc' = "hash" /\ UNCHANGED want
    /\ UNCHANGED <<disk, index, request, ran, gone>>

(* app_hash and app_sig; app_fixed takes an error text for the bytes it wants. *)
AskHash ==
    /\ Serving /\ pc = "hash"
    /\ LET b == BestApp(want)
       IN  got' = [got EXCEPT !.sha = IF b = NoEntry THEN <<ErrText.text>> ELSE b.sha]
    /\ pc' = "sig"
    /\ UNCHANGED <<disk, faults, index, cached, work, request, want, ran, gone>>

(* The two parts of a signature come with two calls. *)
AskSig ==
    /\ Serving /\ pc = "sig"
    /\ LET b == BestApp(want)
       IN  got' = [got EXCEPT !.sig = Append(@, IF b = NoEntry THEN Forged ELSE b.sig)]
    /\ pc' = IF Len(got.sig) = 0 THEN "sig" ELSE "chunk"
    /\ UNCHANGED <<disk, faults, index, cached, work, request, want, ran, gone>>

(* app_chunk at an offset: past the end the reply is empty and unpacks to zeros. *)
Chunk(e, off, buf) == IF e = NoEntry THEN ErrText ELSE IF off >= e.len THEN Zero ELSE buf[off + 1]

GrownByData(e, buf) == IF e = NoEntry THEN got.elf ELSE Append(got.elf, Chunk(e, Len(got.elf), buf))

(* The transfer takes the reply's bytes, whatever they are. *)
Grown(e, buf) == Append(got.elf, Chunk(e, Len(got.elf), buf))

AskChunk(fails) ==
    /\ Serving /\ pc = "chunk" /\ Len(got.elf) < got.len
    /\ CacheApp(want, fails)
    /\ got' = [got EXCEPT !.elf = Grown(CacheResult(want, fails), work')]
    /\ UNCHANGED <<disk, index, request, pc, want, ran, gone>>

SignatureOnly == \A i \in 1..2 : Verifies(want, got.version, got.len, got.sha, got.sig[i])

(* The image has the digest, and the signature covers name, version, length *)
(* and digest.                                                              *)
Authentic == /\ got.elf = [i \in 1..Len(got.sha) |-> Piece(got.sha[i])]
             /\ \A i \in 1..2 : Verifies(want, got.version, got.len, got.sha, got.sig[i])

(* The checks before the program is spawned.  The spawn, and the wait for    *)
(* the program, are steps of module Servers.                                *)
Launch == /\ pc = "chunk" /\ Len(got.elf) = got.len
          /\ ran' = IF Authentic THEN [name |-> want, version |-> got.version, image |-> got.elf] ELSE NoRun
          /\ Answers
          /\ UNCHANGED <<disk, faults, index, cached, work, request, gone>>

Fetch == \E fails \in BOOLEAN : AskInfo(fails) \/ AskChunk(fails)

Step == Fetch \/ AskHash \/ AskSig \/ Launch

Handler == InstallWrites \/ InstallDone \/ RemoveWrites \/ RemoveDone

Next == \/ \E p \in Packages \cup {NoApp} : AppPack(p)
        \/ \E unread \in SUBSET Slots : LoadApps(unread)
        \/ MountRecovery
        \/ InstallRefused \/ InstallApp \/ Handler \/ RunUpdate
        \/ \E n \in Names : RemoveApp(n) \/ RunInstalledApp(n)
        \/ Step
        \/ WriteFails \/ Crash

(* A handler runs to its end; storaged's loop turns to its query endpoint   *)
(* after every configuration request, so a waiting initfs gets its turn.    *)
Spec == Init /\ [][Next]_vars /\ WF_vars(Handler) /\ SF_vars(Step)

-----------------------------------------------------------------------------
Texts == UNION {{p.payload[i] : i \in 1..p.len} : p \in Packages}
             \cup {Zero.text, Torn.text, ErrText.text, PkgHeader.text}
Versions == {p.version : p \in Packages}

(* initfs runs nothing but the payload of a package the vendor signed under *)
(* the requested name, in the version it was told, however installs,        *)
(* removals, failed loads and stale caches fall between the calls of a      *)
(* transfer.                                                                *)
RunsOnlySigned == ran # NoRun =>
    \E p \in Packages : /\ Verifies(p.name, p.version, p.len, p.payload, p.sig)
                        /\ p.name = ran.name /\ p.version = ran.version
                        /\ ran.image = [i \in 1..p.len |-> Piece(p.payload[i])]

ValidOf(n) == {s \in Slots : Valid(s) /\ hdr[s].name = n}

(* "Slots are paired so an application update never overwrites the last     *)
(* verified version": short of removing it, no step (an install at any of   *)
(* its writes, a crash inside one) takes away the newest version of an      *)
(* application that is on the disk.                                         *)
NewestKept == [][\A n \in Names : \A s \in ValidOf(n) :
    faults' = 0 /\ victim # n => \E t \in ValidOf(n)' : hdr'[t].version >= hdr[s].version]_vars

(* A pair belongs to one application, in two different versions.            *)
OneAppPerPair == faults = 0 =>
    \A s \in Slots : Valid(s) /\ Valid(AppPeerSlot(s)) =>
        /\ hdr[s].name = hdr[AppPeerSlot(s)].name
        /\ hdr[s].version # hdr[AppPeerSlot(s)].version

(* Between two requests the index is exactly what the disk validates.       *)
IndexExact == faults = 0 /\ Serving /\ ~recovery =>
    apps = {Entry(s, hdr[s]) : s \in {t \in Slots : Valid(t)}}

(* "a removed program remains non-executable after reboot". *)
RemovedStaysRemoved == \A n \in gone : ValidOf(n) = {}

(* The same while the device reports no error. *)
RemovedStaysRemovedOnGoodDisk == faults = 0 => RemovedStaysRemoved

(* initfs always ends the transfer and the checks of a run: its loop does   *)
(* not spin on an application that was removed, replaced or became          *)
(* unreadable meanwhile.  How long the program then runs is up to it.       *)
RunAnswered == pc # "idle" ~> pc = "idle"

(* "The most recently verified program, held in WORKSPACE": between two     *)
(* requests the workspace holds the payload of the cached application.      *)
CacheHeld == Serving /\ cached # NoEntry => \A i \in 1..cached.len : work[i] = Piece(cached.sha[i])
=============================================================================
