--------------------------- MODULE AcmeCertificates ---------------------------
(***************************************************************************)
(* The managed certificate directory of one virtual host: installation of  *)
(* a renewed pair, revocation with quarantine, the recovery both run       *)
(* first, and the TLS readers that load the pair under a shared lock.      *)
(*                                                                         *)
(* The file a name points to is the transaction that wrote its contents,   *)
(* so two names with one value are hard links of one inode.  Every file    *)
(* system call is one step, at which the call may fail or the process may  *)
(* die.                                                                    *)
(***************************************************************************)
EXTENDS Naturals, FiniteSets

CONSTANTS
    Procs,          \* processes that mutate: server, companion command
    Readers,        \* TLS certificate loaders
    None,           \* an absent file, journal or lock holder
    MaxSerial,      \* bound on installs and revocations
    MaxFaults       \* bound on failing steps and crashes

ASSUME NoneAssumption   == None \notin Nat /\ None \notin Procs
ASSUME BoundsAssumption == MaxSerial \in Nat /\ MaxFaults \in Nat

VARIABLES
    active,      \* fullchain.pem and privkey.pem
    backup,      \* .fullchain.pem.previous and .privkey.pem.previous
    temps,       \* temporary files, as <<slot, transaction>>
    quarantine,  \* .revoked-<transaction>-* files
    journal,     \* .install.transaction
    rjournal,    \* .revocation.transaction
    lock,        \* exclusive holder of .fluxheim-acme.lock, or None
    loc,         \* what each process is doing
    reader,      \* what each reader has loaded
    revoked,     \* what the CA has revoked, and for which transaction
    serial,      \* transactions started
    faults,      \* failures and crashes so far
    hit          \* history: the kinds of work they interrupted

trouble == <<faults, hit>>
vars == <<active, backup, temps, quarantine, journal, rjournal, lock, loc, reader,
          revoked, serial, faults, hit>>
files == <<active, backup, temps, quarantine>>

Slots == {"cert", "key"}
Serials == 1..MaxSerial
File == Serials \cup {None}
Pair == [Slots -> File]
NoPair == [s \in Slots |-> None]
Journal == [phase : {"prepared", "publishing", "published"}, tx : Serials,
            existed : [Slots -> BOOLEAN]]
RevocationJournal == [phase : {"prepared", "quarantined", "pending", "confirmed"}, tx : Serials]
ASSUME JournalAssumption == None \notin Journal \cup RevocationJournal

InstallSteps == {"write", "journal", "backup", "publishing", "publish", "published",
                 "clean", "complete"}
RecoverySteps == {"ri_read", "ri_drop", "ri_restore", "ri_temps", "ri_clear"}
RevokeSteps == {"rv_begin", "rv_move", "rv_undo", "rv_paired", "rv_read", "rv_pending",
                "rv_remote", "rv_confirm", "rv_complete"}
RestoreSteps == {"rr_read", "rr_restore", "rr_clear"}
Steps == InstallSteps \cup RecoverySteps \cup RevokeSteps \cup RestoreSteps
Idle == [pc |-> "idle", job |-> "doctor", slot |-> "cert", tx |-> None, failed |-> FALSE,
         existed |-> [s \in Slots |-> FALSE]]

(* Files, both journals and the state of every process keep their types;   *)
(* no name is ever left with contents that no transaction wrote.           *)
TypeOK ==
    /\ active \in Pair /\ backup \in Pair
    /\ temps \subseteq Slots \X Serials
    /\ quarantine \in [Serials -> Pair]
    /\ journal \in Journal \cup {None}
    /\ rjournal \in RevocationJournal \cup {None}
    /\ lock \in Procs \cup {None}
    /\ loc \in [Procs -> [pc : Steps \cup {"idle"}, job : {"install", "doctor", "revoke"},
                          slot : Slots, tx : Serials \cup {None},
                          failed : BOOLEAN, existed : [Slots -> BOOLEAN]]]
    /\ reader \in [Readers -> [pc : {"out", "in", "half", "loaded"}, pair : Pair]]
    /\ revoked \subseteq [cert : Serials, by : Serials]
    /\ serial \in 0..MaxSerial /\ faults \in 0..MaxFaults
    /\ hit \subseteq {"install", "recovery", "revocation"}

At(p, step) == loc[p].pc = step
AtSlot(p, step, slot) == loc[p].pc = step /\ loc[p].slot = slot
Goto(p, step) == loc' = [loc EXCEPT ![p].pc = step, ![p].slot = "cert"]
(* The certificate first, then the key, then the next step.                *)
Advance(p, step) ==
    loc' = [loc EXCEPT ![p].pc = IF loc[p].slot = "cert" THEN @ ELSE step,
                       ![p].slot = IF @ = "cert" THEN "key" ELSE "cert"]
Finish(p) == loc' = [loc EXCEPT ![p] = Idle] /\ lock' = None
Leave(p, step) == IF step = "idle" THEN Finish(p) ELSE Goto(p, step) /\ UNCHANGED lock
Work(step) == CASE step \in InstallSteps  -> "install"
                [] step \in RecoverySteps -> "recovery"
                [] OTHER                  -> "revocation"
Fault(p) == faults < MaxFaults /\ faults' = faults + 1 /\ hit' = hit \cup {Work(loc[p].pc)}
Works == UNCHANGED trouble
Env == <<reader, revoked, serial>>
-----------------------------------------------------------------------------
(***************************************************************************)
(* AcmeMutationLock and AcmeCertificateReadLock: flock on one lock file    *)
(***************************************************************************)
Reading == {r \in Readers : reader[r].pc # "out"}
MutantReadersIgnored == lock = None
LockFree == lock = None /\ Reading = {}

(* install_managed_certificate, recover_managed_certificate_transaction    *)
(* and begin_managed_certificate_quarantine start alike.                   *)
Start(p, job) ==
    /\ At(p, "idle") /\ LockFree
    /\ lock' = p
    /\ job # "doctor" => serial < MaxSerial
    /\ serial' = IF job = "doctor" THEN serial ELSE serial + 1
    /\ loc' = [loc EXCEPT ![p] = [Idle EXCEPT !.pc = "rr_read", !.job = job,
                                              !.tx = IF job = "doctor" THEN None ELSE serial + 1]]
    /\ UNCHANGED <<files, journal, rjournal, reader, revoked, trouble>>

(* The process dies; the kernel releases its lock.                         *)
Crash(p) ==
    /\ ~At(p, "idle") /\ Fault(p)
    /\ Finish(p)
    /\ UNCHANGED <<files, journal, rjournal, Env>>

ReaderLocks(r) ==
    /\ reader[r].pc = "out" /\ lock = None
    /\ reader' = [reader EXCEPT ![r] = [pc |-> "in", pair |-> NoPair]]
    /\ UNCHANGED <<files, journal, rjournal, lock, loc, revoked, serial, trouble>>

(* load_rustls_certified_key_from_paths reads the chain, then the key.     *)
ReaderLoads(r) ==
    /\ \/ /\ reader[r].pc = "in"
          /\ reader' = [reader EXCEPT ![r].pc = "half", ![r].pair["cert"] = active["cert"]]
       \/ /\ reader[r].pc = "half"
          /\ reader' = [reader EXCEPT ![r].pc = "loaded", ![r].pair["key"] = active["key"]]
    /\ UNCHANGED <<files, journal, rjournal, lock, loc, revoked, serial, trouble>>

ReaderUnlocks(r) ==
    /\ reader[r].pc = "loaded"
    /\ reader' = [reader EXCEPT ![r] = [pc |-> "out", pair |-> NoPair]]
    /\ UNCHANGED <<files, journal, rjournal, lock, loc, revoked, serial, trouble>>
-----------------------------------------------------------------------------
(***************************************************************************)
(* recover_interrupted_revocation                                          *)
(***************************************************************************)
QuarantinedPair(tx) == \A s \in Slots : active[s] = None /\ quarantine[tx][s] # None
AfterRevocation(p) == IF loc[p].failed THEN "idle"
                      ELSE IF loc[p].job = "revoke" THEN "rv_begin" ELSE "ri_read"

ReadRevocation(p) ==
    /\ At(p, "rr_read")
    /\ \/ /\ rjournal = None
          /\ Goto(p, AfterRevocation(p)) /\ UNCHANGED <<lock, rjournal, trouble>>
       \/ /\ rjournal # None /\ rjournal.phase \in {"prepared", "quarantined"}
          /\ Goto(p, "rr_restore")
          /\ UNCHANGED <<lock, rjournal, trouble>>
       \/ /\ rjournal # None /\ rjournal.phase = "pending"
          /\ Finish(p) /\ UNCHANGED <<rjournal, trouble>>
       \/ /\ rjournal # None /\ rjournal.phase = "confirmed"
          /\ \/ /\ QuarantinedPair(rjournal.tx) /\ Works /\ rjournal' = None
                /\ Goto(p, AfterRevocation(p)) /\ UNCHANGED lock
             \/ ~QuarantinedPair(rjournal.tx) /\ Works /\ Finish(p) /\ UNCHANGED rjournal
             \/ QuarantinedPair(rjournal.tx) /\ Fault(p) /\ Finish(p) /\ rjournal' \in {rjournal, None}
    /\ UNCHANGED <<files, journal, Env>>

(* restore_quarantined_file, also run by Drop.                             *)
RestoreQuarantined(p, slot) ==
    LET tx == rjournal.tx
        here == active[slot] # None
        there == quarantine[tx][slot] # None
    IN  /\ AtSlot(p, "rr_restore", slot)
        /\ \/ /\ here /\ ~there /\ Works
              /\ Advance(p, "rr_clear") /\ UNCHANGED <<lock, files>>
           \/ /\ ~here /\ there /\ Works
              /\ active' = [active EXCEPT ![slot] = quarantine[tx][slot]]
              /\ quarantine' = [quarantine EXCEPT ![tx][slot] = None]
              /\ Advance(p, "rr_clear") /\ UNCHANGED <<lock, backup, temps>>
           \/ (here <=> there) /\ Works /\ Finish(p) /\ UNCHANGED files
           \/ Fault(p) /\ Finish(p) /\ UNCHANGED files
        /\ UNCHANGED <<journal, rjournal, Env>>

ClearRevocation(p) ==
    /\ At(p, "rr_clear")
    /\ \/ Works /\ rjournal' = None /\ Leave(p, AfterRevocation(p))
       \/ Fault(p) /\ rjournal' \in {rjournal, None} /\ Finish(p)
    /\ UNCHANGED <<files, journal, Env>>
-----------------------------------------------------------------------------
(***************************************************************************)
(* recover_interrupted_install, before a job and after a failed install    *)
(***************************************************************************)
AfterRecovery(p) == IF loc[p].job = "install" /\ ~loc[p].failed THEN "write" ELSE "idle"

ReadJournal(p) ==
    /\ At(p, "ri_read")
    /\ IF journal = None THEN Leave(p, AfterRecovery(p))
       ELSE /\ Goto(p, IF journal.phase = "publishing" THEN "ri_restore" ELSE "ri_drop")
            /\ UNCHANGED lock
    /\ UNCHANGED <<files, journal, rjournal, Env, trouble>>

(* prepared, published: the backups go.                                    *)
DropBackup(p, slot) ==
    /\ AtSlot(p, "ri_drop", slot)
    /\ \/ Works /\ backup' = [backup EXCEPT ![slot] = None] /\ Advance(p, "ri_temps") /\ UNCHANGED lock
       \/ Fault(p) /\ UNCHANGED backup /\ Finish(p)
    /\ UNCHANGED <<active, temps, quarantine, journal, rjournal, Env>>

(* rename(2) of one hard link onto another of the same inode does nothing. *)
Renamed(from, slot) ==
    IF backup[slot] = active[slot] THEN UNCHANGED <<active, backup>>
    ELSE active' = [active EXCEPT ![slot] = from] /\ backup' = [backup EXCEPT ![slot] = None]

(* publishing: restore_original                                            *)
RestoreOriginal(p, slot) ==
    /\ AtSlot(p, "ri_restore", slot)
    /\ \/ /\ journal.existed[slot] /\ backup[slot] # None /\ Works
          /\ Renamed(backup[slot], slot)
          /\ Advance(p, "ri_temps") /\ UNCHANGED lock
       \/ /\ ~journal.existed[slot] /\ Works
          /\ active' = [active EXCEPT ![slot] = None] /\ UNCHANGED backup
          /\ Advance(p, "ri_temps") /\ UNCHANGED lock
       \/ /\ journal.existed[slot] /\ backup[slot] = None /\ Works
          /\ Finish(p) /\ UNCHANGED <<active, backup>>
       \/ Fault(p) /\ Finish(p) /\ UNCHANGED <<active, backup>>
    /\ UNCHANGED <<temps, quarantine, journal, rjournal, Env>>

RemoveTemps(p) ==
    /\ At(p, "ri_temps")
    /\ \/ /\ Works /\ temps' = temps \ (Slots \X {journal.tx})
          /\ Goto(p, "ri_clear") /\ UNCHANGED lock
       \/ Fault(p) /\ Finish(p) /\ UNCHANGED temps
    /\ UNCHANGED <<active, backup, quarantine, journal, rjournal, Env>>

ClearJournal(p) ==
    /\ At(p, "ri_clear")
    /\ \/ Works /\ journal' = None /\ Leave(p, AfterRecovery(p))
       \/ Fault(p) /\ journal' \in {journal, None} /\ Finish(p)
    /\ UNCHANGED <<files, rjournal, Env>>
-----------------------------------------------------------------------------
(***************************************************************************)
(* install_certificate_files                                               *)
(***************************************************************************)
Own(p) == Slots \X {loc[p].tx}
(* After the journal is begun, an error runs the recovery and then ends.   *)
Recover(p) == loc' = [loc EXCEPT ![p].pc = "ri_read", ![p].slot = "cert", ![p].failed = TRUE]
Entry(p, phase, existed) == [phase |-> phase, tx |-> loc[p].tx, existed |-> existed]

WriteTemps(p) ==
    /\ At(p, "write")
    /\ \/ Works /\ temps' = temps \cup Own(p) /\ Goto(p, "journal") /\ UNCHANGED lock
       \/ Fault(p) /\ Finish(p) /\ temps' \in {temps, temps \cup Own(p)}
    /\ UNCHANGED <<active, backup, quarantine, journal, rjournal, Env>>

BeginJournal(p) ==
    LET entry == Entry(p, "prepared", [s \in Slots |-> FALSE])
    IN  /\ At(p, "journal")
        /\ \/ Works /\ journal' = entry /\ Goto(p, "backup") /\ UNCHANGED <<lock, temps>>
           \/ /\ Fault(p) /\ journal' \in {journal, entry}
              /\ temps' \in {temps, temps \ Own(p)} /\ Finish(p)
        /\ UNCHANGED <<active, backup, quarantine, rjournal, Env>>

(* backup_existing_file: a hard link, unless the backup name is taken.     *)
MutantKeyNotBackedUp(p, slot) ==
    /\ AtSlot(p, "backup", slot)
    /\ backup' = IF slot = "cert" THEN [backup EXCEPT !["cert"] = active["cert"]] ELSE backup
    /\ loc' = [loc EXCEPT ![p].pc = IF slot = "cert" THEN @ ELSE "publishing",
                          ![p].slot = IF slot = "cert" THEN "key" ELSE "cert",
                          ![p].existed[slot] = (active[slot] # None)]
    /\ UNCHANGED <<active, temps, quarantine, journal, rjournal, lock, Env, trouble>>

BackupFile(p, slot) ==
    /\ AtSlot(p, "backup", slot)
    /\ \/ /\ active[slot] = None /\ Works
          /\ Advance(p, "publishing") /\ UNCHANGED backup
       \/ /\ active[slot] # None /\ backup[slot] = None /\ Works
          /\ backup' = [backup EXCEPT ![slot] = active[slot]]
          /\ loc' = [loc EXCEPT ![p].pc = IF slot = "cert" THEN @ ELSE "publishing",
                                ![p].slot = IF slot = "cert" THEN "key" ELSE "cert",
                                ![p].existed[slot] = TRUE]
       \/ active[slot] # None /\ backup[slot] # None /\ Works /\ Recover(p) /\ UNCHANGED backup
       \/ Fault(p) /\ Recover(p) /\ UNCHANGED backup
    /\ UNCHANGED <<active, temps, quarantine, journal, rjournal, lock, Env>>

MutantPublishWithoutPhase(p) ==
    At(p, "publishing") /\ Goto(p, "publish")
    /\ UNCHANGED <<files, journal, rjournal, lock, Env, trouble>>

EnterPublishing(p) ==
    LET entry == Entry(p, "publishing", loc[p].existed)
    IN  /\ At(p, "publishing")
        /\ \/ Works /\ journal' = entry /\ Goto(p, "publish")
           \/ Fault(p) /\ journal' \in {journal, entry} /\ Recover(p)
        /\ UNCHANGED <<files, rjournal, lock, Env>>

PublishFile(p, slot) ==
    /\ AtSlot(p, "publish", slot)
    /\ \/ /\ Works /\ active' = [active EXCEPT ![slot] = loc[p].tx]
          /\ temps' = temps \ {<<slot, loc[p].tx>>}
          /\ Advance(p, "published")
       \/ Fault(p) /\ Recover(p) /\ UNCHANGED <<active, temps>>
    /\ UNCHANGED <<backup, quarantine, journal, rjournal, lock, Env>>

MutantPublishedUnrecorded(p) ==
    /\ At(p, "published") /\ Goto(p, "clean")
    /\ UNCHANGED <<files, journal, rjournal, lock, Env, trouble>>

EnterPublished(p) ==
    LET entry == Entry(p, "published", loc[p].existed)
    IN  /\ At(p, "published")
        /\ \/ Works /\ journal' = entry /\ Goto(p, "clean")
           \/ Fault(p) /\ journal' \in {journal, entry} /\ Recover(p)
        /\ UNCHANGED <<files, rjournal, lock, Env>>

CleanBackup(p, slot) ==
    /\ AtSlot(p, "clean", slot)
    /\ \/ Works /\ backup' = [backup EXCEPT ![slot] = None] /\ Advance(p, "complete")
       \/ Fault(p) /\ Recover(p) /\ UNCHANGED backup
    /\ UNCHANGED <<active, temps, quarantine, journal, rjournal, lock, Env>>

CompleteInstall(p) ==
    /\ At(p, "complete")
    /\ \/ Works /\ journal' = None /\ Finish(p)
       \/ Fault(p) /\ journal' \in {journal, None} /\ Recover(p) /\ UNCHANGED lock
    /\ UNCHANGED <<files, rjournal, Env>>
-----------------------------------------------------------------------------
(***************************************************************************)
(* revoke_instant_acme_certificate on a ManagedCertificateQuarantine       *)
(***************************************************************************)
Revocation(p, phase) == [phase |-> phase, tx |-> loc[p].tx]

(* Drop: before remote contact the pair is put back, later it stays away.  *)
Drop(p) == /\ loc' = [loc EXCEPT ![p].pc = "rr_restore", ![p].slot = "cert", ![p].failed = TRUE]
           /\ UNCHANGED lock

(* begin_managed_certificate_quarantine, before the guard object exists.   *)
MutantQuarantineUnchecked(p) ==
    /\ At(p, "rv_begin") /\ rjournal' = Revocation(p, "prepared") /\ Goto(p, "rv_move")
    /\ UNCHANGED <<files, journal, lock, Env, trouble>>

BeginQuarantine(p) ==
    /\ At(p, "rv_begin")
    /\ \/ /\ \E s \in Slots : active[s] = None
          /\ Works /\ Finish(p) /\ UNCHANGED rjournal
       \/ /\ \A s \in Slots : active[s] # None
          /\ Works /\ rjournal' = Revocation(p, "prepared")
          /\ Goto(p, "rv_move") /\ UNCHANGED lock
       \/ /\ \A s \in Slots : active[s] # None
          /\ Fault(p) /\ rjournal' \in {rjournal, Revocation(p, "prepared")} /\ Finish(p)
    /\ UNCHANGED <<files, journal, Env>>

(* A key that cannot be moved brings the certificate back.                 *)
QuarantineFile(p, slot) ==
    /\ AtSlot(p, "rv_move", slot)
    /\ \/ /\ Works
          /\ quarantine' = [quarantine EXCEPT ![loc[p].tx][slot] = active[slot]]
          /\ active' = [active EXCEPT ![slot] = None]
          /\ Advance(p, "rv_paired") /\ UNCHANGED lock
       \/ /\ Fault(p) /\ UNCHANGED <<active, quarantine>>
          /\ Leave(p, IF slot = "cert" THEN "idle" ELSE "rv_undo")
    /\ UNCHANGED <<backup, temps, journal, rjournal, Env>>

UndoQuarantine(p) ==
    /\ At(p, "rv_undo")
    /\ \/ /\ \/ Works /\ rjournal' = None
             \/ Fault(p) /\ UNCHANGED rjournal
          /\ active' = [active EXCEPT !["cert"] = quarantine[loc[p].tx]["cert"]]
          /\ quarantine' = [quarantine EXCEPT ![loc[p].tx]["cert"] = None]
       \/ Fault(p) /\ UNCHANGED <<active, quarantine, rjournal>>
    /\ Finish(p)
    /\ UNCHANGED <<backup, temps, journal, Env>>

EnterQuarantined(p) ==
    /\ At(p, "rv_paired")
    /\ \/ /\ Works /\ rjournal' = Revocation(p, "quarantined")
          /\ Goto(p, "rv_read") /\ UNCHANGED lock
       \/ /\ Fault(p) /\ rjournal' \in {rjournal, Revocation(p, "quarantined")}
          /\ Finish(p)
    /\ UNCHANGED <<files, journal, Env>>

(* read_quarantined_certificate and the parse of its leaf.                 *)
ReadQuarantined(p) ==
    /\ At(p, "rv_read")
    /\ \/ Works /\ Goto(p, "rv_pending") /\ UNCHANGED lock
       \/ Fault(p) /\ Drop(p)
    /\ UNCHANGED <<files, journal, rjournal, Env>>

MutantContactFirst(p) ==
    /\ At(p, "rv_pending") /\ Goto(p, "rv_remote")
    /\ UNCHANGED <<files, journal, rjournal, lock, Env, trouble>>

MarkRemotePending(p) ==
    /\ At(p, "rv_pending")
    /\ \/ /\ Works /\ rjournal' = Revocation(p, "pending")
          /\ Goto(p, "rv_remote") /\ UNCHANGED lock
       \/ Fault(p) /\ rjournal' \in {rjournal, Revocation(p, "pending")} /\ Drop(p)
    /\ UNCHANGED <<files, journal, Env>>

(* The CA acts or not; its answer may be lost or late (external).          *)
MutantRestoreOnError(p) ==
    LET leaf == [cert |-> quarantine[loc[p].tx]["cert"], by |-> loc[p].tx]
    IN  /\ At(p, "rv_remote")
        /\ \/ /\ Works /\ revoked' = revoked \cup {leaf}
              /\ Goto(p, "rv_confirm") /\ UNCHANGED lock
           \/ Fault(p) /\ revoked' \in {revoked, revoked \cup {leaf}} /\ Drop(p)
        /\ UNCHANGED <<files, journal, rjournal, reader, serial>>

ContactCA(p) ==
    LET leaf == [cert |-> quarantine[loc[p].tx]["cert"], by |-> loc[p].tx]
    IN  /\ At(p, "rv_remote")
        /\ \/ /\ Works /\ revoked' = revoked \cup {leaf}
              /\ Goto(p, "rv_confirm") /\ UNCHANGED lock
           \/ Fault(p) /\ revoked' \in {revoked, revoked \cup {leaf}} /\ Finish(p)
        /\ UNCHANGED <<files, journal, rjournal, reader, serial>>

MarkRemoteConfirmed(p) ==
    /\ At(p, "rv_confirm")
    /\ \/ /\ Works /\ rjournal' = Revocation(p, "confirmed")
          /\ Goto(p, "rv_complete") /\ UNCHANGED lock
       \/ Fault(p) /\ rjournal' \in {rjournal, Revocation(p, "confirmed")} /\ Finish(p)
    /\ UNCHANGED <<files, journal, Env>>

CompleteRevocation(p) ==
    /\ At(p, "rv_complete")
    /\ \/ Works /\ rjournal' = None
       \/ Fault(p) /\ rjournal' \in {rjournal, None}
    /\ Finish(p)
    /\ UNCHANGED <<files, journal, Env>>
-----------------------------------------------------------------------------
Init ==
    /\ active = NoPair /\ backup = NoPair /\ temps = {}
    /\ quarantine = [t \in Serials |-> NoPair]
    /\ journal = None /\ rjournal = None /\ lock = None
    /\ loc = [p \in Procs |-> Idle]
    /\ reader = [r \in Readers |-> [pc |-> "out", pair |-> NoPair]]
    /\ revoked = {} /\ serial = 0 /\ faults = 0 /\ hit = {}

Recovery(p) ==
    \/ ReadRevocation(p) \/ ClearRevocation(p) \/ ReadJournal(p) \/ RemoveTemps(p)
    \/ ClearJournal(p)
    \/ \E s \in Slots : RestoreQuarantined(p, s) \/ DropBackup(p, s) \/ RestoreOriginal(p, s)

Install(p) ==
    \/ WriteTemps(p) \/ BeginJournal(p) \/ EnterPublishing(p) \/ EnterPublished(p)
    \/ CompleteInstall(p)
    \/ \E s \in Slots : BackupFile(p, s) \/ PublishFile(p, s) \/ CleanBackup(p, s)

Revoke(p) ==
    \/ BeginQuarantine(p) \/ UndoQuarantine(p) \/ EnterQuarantined(p) \/ ReadQuarantined(p)
    \/ MarkRemotePending(p) \/ ContactCA(p) \/ MarkRemoteConfirmed(p) \/ CompleteRevocation(p)
    \/ \E s \in Slots : QuarantineFile(p, s)

Next ==
    \/ \E p \in Procs :
          \/ \E job \in {"install", "doctor", "revoke"} : Start(p, job)
          \/ Crash(p) \/ Recovery(p) \/ Install(p) \/ Revoke(p)
    \/ \E r \in Readers : ReaderLocks(r) \/ ReaderLoads(r) \/ ReaderUnlocks(r)

Spec == Init /\ [][Next]_vars
-----------------------------------------------------------------------------
(***************************************************************************)
(* Properties                                                              *)
(***************************************************************************)
Settled == lock = None /\ journal = None /\ rjournal = None
Complete(pair) == pair["cert"] = pair["key"]

(* Installation is "a transactional two-file operation": whatever failed   *)
(* or died before, once no journal is left the certificate and the key on  *)
(* disk come from one issuance, or both are absent.                        *)
SettledPairMatches == Settled => Complete(active)

(* A TLS reader that holds the shared lock reads the key of the            *)
(* certificate it has read, unless an interrupted writer left a journal.   *)
ReadersSeeOnePair ==
    \A r \in Readers : reader[r].pc = "loaded" /\ journal = None /\ rjournal = None
                            => Complete(reader[r].pair)

(* "remote-pending ... retain quarantine and fail closed on disk": when    *)
(* the CA has revoked a certificate and the journal of that revocation is  *)
(* still there, it no longer allows the pair back, no certificate is       *)
(* active and the quarantine holds the pair.                               *)
RevokedMeansQuarantined ==
    \A x \in revoked : rjournal # None /\ rjournal.tx = x.by
        => /\ rjournal.phase \in {"pending", "confirmed"}
           /\ QuarantinedPair(x.by)

(* A certificate the CA has revoked is not put back on disk.               *)
RevokedStaysOut == Settled => \A x \in revoked : active["cert"] # x.cert

(* The same where it does hold: while only revocations, and the recovery   *)
(* of revocations, have been interrupted (a lost answer of the CA, a crash *)
(* in any phase of ManagedCertificateQuarantine).                          *)
RevocationSurvivesInterruption == hit \subseteq {"revocation"} => RevokedStaysOut

(* While an install is publishing, the pair it replaces is still complete  *)
(* in the active, backup and quarantine slots, even when recovery is stuck.*)
Places(slot) == {active[slot], backup[slot]} \cup {quarantine[t][slot] : t \in Serials}
OldPairKept ==
    journal # None /\ journal.phase = "publishing" /\ (\A s \in Slots : journal.existed[s])
        => \E t \in Serials \ {journal.tx} : \A s \in Slots : t \in Places(s)

(* As long as no recovery of an install was itself interrupted (installs   *)
(* and revocations may be), recover_interrupted_install can run: a         *)
(* publication left unfinished has the backups its journal promises.       *)
RecoveryCanRun ==
    "recovery" \notin hit /\ lock = None /\ journal # None /\ journal.phase = "publishing"
        => \A s \in Slots : journal.existed[s] => backup[s] # None
=============================================================================
