------------------------ MODULE AcmeCertificatesProofs ------------------------
(***************************************************************************)
(* Proofs about AcmeCertificates for any processes, readers, and number of *)
(* transactions, failures and crashes.                                     *)
(*                                                                         *)
(* Only the holder of the lock is at work, so the invariant is a relation  *)
(* between the files, the two journals and the step of the holder; where   *)
(* nobody holds the lock it is what any crash may leave behind.            *)
(***************************************************************************)
EXTENDS AcmeCertificates, TLAPS

(* The holder of the lock, and nobody else, is at work.                    *)
Holding == \A p \in Procs : ~At(p, "idle") <=> lock = p

(* A reader at work keeps every writer out, so what it has read still is   *)
(* what is there.                                                          *)
ReadersCurrent == \A r \in Readers :
    /\ reader[r].pc # "out" => lock = None
    /\ reader[r].pc \in {"half", "loaded"} => reader[r].pair["cert"] = active["cert"]
    /\ reader[r].pc = "loaded" => reader[r].pair["key"] = active["key"]

(* What a transaction has left nowhere yet.                                *)
Unused(t) == \A s \in Slots :
    active[s] # t /\ backup[s] # t /\ \A u \in Serials : quarantine[u][s] # t
Fresh(t) ==
    /\ Unused(t) /\ quarantine[t] = NoPair
    /\ journal # None => journal.tx # t
    /\ rjournal # None => rjournal.tx # t
    /\ \A x \in revoked : x.by # t

(* Transactions not yet begun have left nothing, and what was revoked is   *)
(* in the quarantine of its revocation.                                    *)
Numbered ==
    /\ \A t \in Serials : t > serial => Fresh(t)
    /\ \A x \in revoked : quarantine[x.by]["cert"] = x.cert

(* Which job is at which step, and what its transaction has done before.   *)
JobFits(p) ==
    /\ ~At(p, "idle") /\ loc[p].job # "doctor" => loc[p].tx # None
    /\ ~At(p, "idle") /\ loc[p].tx # None => loc[p].tx <= serial
    /\ loc[p].pc \in InstallSteps => loc[p].job = "install" /\ ~loc[p].failed
    /\ loc[p].pc \in RevokeSteps => loc[p].job = "revoke" /\ ~loc[p].failed
    /\ loc[p].pc \in RecoverySteps =>
           loc[p].job # "revoke" /\ (loc[p].failed => loc[p].job = "install")
    /\ loc[p].pc \in RestoreSteps /\ loc[p].failed =>
           loc[p].job = "revoke" /\ loc[p].pc # "rr_read"
Early(p) == \/ loc[p].pc \in RestoreSteps \cup RecoverySteps /\ ~loc[p].failed
            \/ loc[p].pc \in {"write", "journal", "rv_begin"}
NotYetUsed(p) ==
    /\ Early(p) /\ loc[p].tx # None => Fresh(loc[p].tx)
    /\ Early(p) \/ AtSlot(p, "backup", "cert") => ~loc[p].existed["cert"]
    /\ Early(p) \/ At(p, "backup") => ~loc[p].existed["key"]
    /\ loc[p].pc \in {"backup", "publishing"} => Unused(loc[p].tx)
    /\ loc[p].pc = "publish" =>
           \A s \in Slots : \A u \in Serials : quarantine[u][s] # loc[p].tx

-----------------------------------------------------------------------------
(* Revocation.  Each file is in its place or in the quarantine.            *)
Either == rjournal # None =>
    /\ \A s \in Slots : active[s] = None <=> quarantine[rjournal.tx][s] # None
    /\ rjournal.phase = "confirmed" => QuarantinedPair(rjournal.tx)

RevocationFits(p) ==
    /\ loc[p].pc \in InstallSteps \cup RecoverySteps \cup {"rv_begin"} => rjournal = None
    /\ loc[p].pc \in {"rr_restore", "rr_clear"} =>
           /\ rjournal # None /\ rjournal.phase # "confirmed"
           /\ ~loc[p].failed => rjournal.phase \in {"prepared", "quarantined"}
           /\ \A x \in revoked : x.by # rjournal.tx
    /\ AtSlot(p, "rr_restore", "key") \/ At(p, "rr_clear") => active["cert"] # None
    /\ At(p, "rr_clear") => active["key"] # None
    /\ loc[p].pc \in {"rv_move", "rv_undo", "rv_paired"} => rjournal = Revocation(p, "prepared")
    /\ loc[p].pc \in {"rv_read", "rv_pending"} => rjournal = Revocation(p, "quarantined")
    /\ loc[p].pc \in {"rv_remote", "rv_confirm"} => rjournal = Revocation(p, "pending")
    /\ At(p, "rv_complete") => rjournal = Revocation(p, "confirmed")
    /\ AtSlot(p, "rv_move", "cert") => active["cert"] # None
    /\ At(p, "rv_move") \/ At(p, "rv_undo") => active["key"] # None
    /\ AtSlot(p, "rv_move", "key") \/ At(p, "rv_undo") => active["cert"] = None
    /\ loc[p].pc \in {"rv_paired", "rv_read", "rv_pending", "rv_remote", "rv_confirm", "rv_complete"} =>
           QuarantinedPair(loc[p].tx)
    /\ loc[p].pc \in {"rv_move", "rv_undo", "rv_paired", "rv_read", "rv_pending", "rv_remote"} =>
           \A x \in revoked : x.by # loc[p].tx

-----------------------------------------------------------------------------
(* Installation.  The pair with the quarantine put back, and what is known *)
(* of it unless an install is publishing.                                  *)
Whole(s) == IF rjournal # None /\ quarantine[rjournal.tx][s] # None
            THEN quarantine[rjournal.tx][s] ELSE active[s]
Publishing == journal # None /\ journal.phase = "publishing"
OneIssuance == ~Publishing => Whole("cert") = Whole("key")

(* While one is publishing: the pair it replaces, if there was one.        *)
Replaced == Publishing =>
    /\ journal.existed["cert"] = journal.existed["key"]
    /\ journal.existed["cert"] =>
           \E t \in Serials \ {journal.tx} : \A s \in Slots : t \in Places(s) /\ backup[s] \in {None, t}

InstallFits(p) ==
    /\ loc[p].pc \in {"write", "journal"} => journal = None
    /\ loc[p].pc \in {"backup", "publishing", "ri_drop", "clean", "complete"} => journal # None /\ ~Publishing
    /\ loc[p].pc \in {"publish", "published"} => journal = Entry(p, "publishing", loc[p].existed)
    /\ \A s \in Slots : (AtSlot(p, "backup", "key") /\ s = "cert") \/ At(p, "publishing") =>
           /\ loc[p].existed[s] <=> active[s] # None
           /\ loc[p].existed[s] => backup[s] = active[s]
    /\ loc[p].pc \in {"publish", "published"} => \A s \in Slots : loc[p].existed[s] => backup[s] # None
    /\ AtSlot(p, "publish", "key") \/ At(p, "published") => active["cert"] = loc[p].tx
    /\ At(p, "published") => active["key"] = loc[p].tx
    /\ At(p, "ri_restore") => Publishing
    /\ AtSlot(p, "ri_restore", "key") =>
           IF journal.existed["key"] THEN backup["key"] \in {None, active["cert"]}
           ELSE active["cert"] = None
    /\ loc[p].pc \in {"ri_temps", "ri_clear"} => journal # None /\ Complete(active)

(* Where a recovery has taken the backup of a slot.                        *)
Taken(s) == \E p \in Procs :
    loc[p].pc \in {"ri_temps", "ri_clear"} \/ (AtSlot(p, "ri_restore", "key") /\ s = "cert")
Recoverable ==
    "recovery" \notin hit /\ Publishing
        => \A s \in Slots : journal.existed[s] => backup[s] # None \/ Taken(s)

-----------------------------------------------------------------------------
(* As long as only revocations were interrupted: installs leave nothing    *)
(* behind, and no certificate is in two places.                            *)
QuietFits(p) ==
    /\ loc[p].pc \in RecoverySteps => At(p, "ri_read") /\ ~loc[p].failed
    /\ AtSlot(p, "backup", "cert") \/ At(p, "complete") => backup["cert"] = None
    /\ At(p, "backup") \/ At(p, "complete") => backup["key"] = None
    /\ AtSlot(p, "clean", "key") => backup["cert"] = None
Installing(p) == loc[p].pc \in InstallSteps \ {"write", "journal"}
OnePlace == \A t \in Serials : quarantine[t]["cert"] # None =>
    /\ quarantine[t]["cert"] # active["cert"]
    /\ \A u \in Serials \ {t} : quarantine[u]["cert"] # quarantine[t]["cert"]
Quiet == hit \subseteq {"revocation"} =>
    /\ \A p \in Procs : QuietFits(p)
    /\ (\A p \in Procs : ~Installing(p)) => journal = None /\ backup = NoPair
    /\ OnePlace

-----------------------------------------------------------------------------
Fits(p) == JobFits(p) /\ NotYetUsed(p) /\ RevocationFits(p) /\ InstallFits(p)

Local == [pc : Steps \cup {"idle"}, job : {"install", "doctor", "revoke"}, slot : Slots,
          tx : Serials \cup {None}, failed : BOOLEAN, existed : [Slots -> BOOLEAN]]
DataTypes ==
    /\ active \in Pair /\ backup \in Pair /\ temps \subseteq Slots \X Serials
    /\ quarantine \in [Serials -> Pair]
    /\ journal \in Journal \cup {None} /\ rjournal \in RevocationJournal \cup {None}
    /\ revoked \subseteq [cert : Serials, by : Serials] /\ serial \in 0..MaxSerial
ReaderTypes == reader \in [Readers -> [pc : {"out", "in", "half", "loaded"}, pair : Pair]]
WorkTypes ==
    /\ lock \in Procs \cup {None} /\ loc \in [Procs -> Local]
    /\ faults \in 0..MaxFaults /\ hit \subseteq {"install", "recovery", "revocation"}

(* What is on disk, what the readers have, and what the processes do.      *)
DiskInv == DataTypes /\ Numbered /\ Either /\ RevokedMeansQuarantined /\ OneIssuance /\ Replaced
ReaderInv == ReaderTypes /\ ReadersCurrent
WorkInv == WorkTypes /\ Holding /\ (\A p \in Procs : Fits(p)) /\ Recoverable /\ Quiet
IndInv == DiskInv /\ ReaderInv /\ WorkInv

-----------------------------------------------------------------------------
(* How a step leaves the process that took it.                             *)
Others(p) == loc' \in [Procs -> Local] /\ \A q \in Procs \ {p} : loc'[q] = loc[q]
Becomes(p, step, slot, failed) ==
    /\ Others(p)
    /\ loc'[p].pc = step /\ loc'[p].slot = slot /\ loc'[p].failed = failed
    /\ loc'[p].job = loc[p].job /\ loc'[p].tx = loc[p].tx /\ loc'[p].existed = loc[p].existed
Ends(p) == Others(p) /\ loc'[p].pc = "idle" /\ lock' = None

LEMMA GotoBecomes ==
    ASSUME WorkTypes, NEW p \in Procs, NEW step \in Steps, Goto(p, step)
    PROVE  Becomes(p, step, "cert", loc[p].failed)
  BY DEF WorkTypes, Goto, Becomes, Others, Local, Slots

LEMMA AdvanceBecomes ==
    ASSUME WorkTypes, NEW p \in Procs, NEW step \in Steps, Advance(p, step)
    PROVE  IF loc[p].slot = "cert" THEN Becomes(p, loc[p].pc, "key", loc[p].failed)
           ELSE Becomes(p, step, "cert", loc[p].failed)
  BY DEF WorkTypes, Advance, Becomes, Others, Local, Slots

LEMMA FinishEnds ==
    ASSUME WorkTypes, NEW p \in Procs, Finish(p)
    PROVE  Ends(p)
  BY DEF WorkTypes, Finish, Ends, Others, Local, Slots, Idle

LEMMA RecoverBecomes ==
    ASSUME WorkTypes, NEW p \in Procs, Recover(p)
    PROVE  Becomes(p, "ri_read", "cert", TRUE)
<1> DEFINE next == [loc[p] EXCEPT !.pc = "ri_read", !.slot = "cert", !.failed = TRUE]
<1>1. next \in Local
  BY DEF WorkTypes, Local, Steps, RecoverySteps, Slots
<1>2. loc' = [loc EXCEPT ![p] = next]
  BY DEF WorkTypes, Recover, Local
<1>3. Others(p) /\ loc'[p] = next
  BY <1>1, <1>2 DEF WorkTypes, Others
<1>4. loc[p] \in Local
  BY DEF WorkTypes
<1> QED BY <1>3, <1>4 DEF Becomes, Local

LEMMA DropBecomes ==
    ASSUME WorkTypes, NEW p \in Procs, Drop(p)
    PROVE  Becomes(p, "rr_restore", "cert", TRUE)
<1> DEFINE next == [loc[p] EXCEPT !.pc = "rr_restore", !.slot = "cert", !.failed = TRUE]
<1>1. next \in Local
  BY DEF WorkTypes, Local, Steps, RestoreSteps, Slots
<1>2. loc' = [loc EXCEPT ![p] = next]
  BY DEF WorkTypes, Drop, Local
<1>3. Others(p) /\ loc'[p] = next
  BY <1>1, <1>2 DEF WorkTypes, Others
<1>4. loc[p] \in Local
  BY DEF WorkTypes
<1> QED BY <1>3, <1>4 DEF Becomes, Local

(* Only the holder of the lock is at work, and no reader is.               *)
LEMMA AtWork ==
    ASSUME IndInv, NEW p \in Procs, ~At(p, "idle")
    PROVE  /\ lock = p /\ lock # None /\ \A q \in Procs \ {p} : loc[q].pc = "idle"
           /\ \A r \in Readers : reader[r].pc = "out"
  BY NoneAssumption DEF IndInv, WorkInv, WorkTypes, ReaderInv, ReadersCurrent, Holding, At

LEMMA ReadersStayOut ==
    ASSUME IndInv, NEW p \in Procs, ~At(p, "idle"), UNCHANGED reader
    PROVE  ReaderInv'
  BY AtWork DEF IndInv, ReaderInv, ReaderTypes, ReadersCurrent

LEMMA IdleFits ==
    ASSUME NEW q \in Procs, loc'[q].pc = "idle"
    PROVE  Fits(q)' /\ QuietFits(q)' /\ ~Installing(q)'
  BY DEF Fits, JobFits, NotYetUsed, RevocationFits, InstallFits, QuietFits, Installing, At, AtSlot,
     Early, InstallSteps, RevokeSteps, RecoverySteps, RestoreSteps

(***************************************************************************)
(* A step of p preserves the invariant if what it does to the disk does,   *)
(* and p fits its new step or has ended.                                   *)
(***************************************************************************)
LEMMA DiskUntouched ==
    ASSUME DiskInv, UNCHANGED <<active, backup, quarantine, journal, rjournal, revoked, serial>>,
           temps' \subseteq Slots \X Serials
    PROVE  DiskInv'
  BY DEF DiskInv, DataTypes, Numbered, Fresh, Unused, Either, QuarantinedPair, RevokedMeansQuarantined,
     OneIssuance, Whole, Publishing, Replaced, Places

LEMMA QuietNow ==
    ASSUME IndInv, NEW p \in Procs, ~At(p, "idle"), hit \subseteq {"revocation"}
    PROVE  /\ QuietFits(p) /\ OnePlace
           /\ ~Installing(p) => journal = None /\ backup = NoPair
<1>1. \A q \in Procs \ {p} : ~Installing(q)
  BY AtWork DEF Installing, InstallSteps
<1> QED BY <1>1 DEF IndInv, WorkInv, Quiet

LEMMA Going ==
    ASSUME IndInv, NEW p \in Procs, ~At(p, "idle"), Others(p), loc'[p].pc # "idle",
           UNCHANGED <<lock, reader>>, faults' \in 0..MaxFaults,
           hit' \subseteq {"install", "recovery", "revocation"},
           DiskInv', Fits(p)', Recoverable',
           hit' \subseteq {"revocation"} =>
               /\ QuietFits(p)' /\ OnePlace'
               /\ ~Installing(p)' => (journal = None /\ backup = NoPair)'
    PROVE  IndInv'
<1>1. lock = p /\ \A q \in Procs \ {p} : loc'[q].pc = "idle"
  BY AtWork DEF Others
<1>2. ReaderInv'
  BY ReadersStayOut
<1>3. WorkTypes' /\ Holding'
  BY <1>1 DEF Others, IndInv, WorkInv, WorkTypes, Holding, At
<1>4. \A q \in Procs : Fits(q)'
  BY <1>1, IdleFits
<1>5. Quiet'
  <2> SUFFICES ASSUME hit' \subseteq {"revocation"}
               PROVE  /\ \A q \in Procs : QuietFits(q)'
                      /\ (\A q \in Procs : ~Installing(q)') => (journal = None /\ backup = NoPair)'
                      /\ OnePlace'
    BY DEF Quiet
  <2> QED BY <1>1, IdleFits
<1> QED BY <1>2, <1>3, <1>4, <1>5 DEF IndInv, WorkInv

LEMMA Ended ==
    ASSUME IndInv, NEW p \in Procs, ~At(p, "idle"), Finish(p),
           UNCHANGED reader, faults' \in 0..MaxFaults,
           hit' \subseteq {"install", "recovery", "revocation"},
           DiskInv', Recoverable',
           hit' \subseteq {"revocation"} => (journal = None /\ backup = NoPair /\ OnePlace)'
    PROVE  IndInv'
<1>1. Ends(p)
  BY FinishEnds DEF IndInv, WorkInv
<1>2. lock' = None /\ \A q \in Procs : loc'[q].pc = "idle"
  BY <1>1, AtWork DEF Ends, Others
<1>3. ReaderInv'
  BY ReadersStayOut
<1>4. WorkTypes' /\ Holding'
  BY <1>1, <1>2, NoneAssumption DEF Ends, Others, IndInv, WorkInv, WorkTypes, Holding, At
<1>5. (\A q \in Procs : Fits(q)') /\ \A q \in Procs : QuietFits(q)'
  BY <1>2, IdleFits
<1> QED BY <1>3, <1>4, <1>5 DEF IndInv, WorkInv, Quiet

LEMMA FaultCounts ==
    ASSUME IndInv, NEW p \in Procs, Fault(p)
    PROVE  /\ faults' \in 0..MaxFaults /\ hit' = hit \cup {Work(loc[p].pc)}
           /\ hit' \subseteq {"install", "recovery", "revocation"}
  BY BoundsAssumption DEF IndInv, WorkInv, WorkTypes, Fault, Work

LEMMA WorkCounts ==
    ASSUME IndInv, Works
    PROVE  faults' \in 0..MaxFaults /\ hit' \subseteq {"install", "recovery", "revocation"} /\ hit' = hit
  BY DEF IndInv, WorkInv, WorkTypes, Works, trouble

LEMMA WorkOf ==
    ASSUME NEW step \in Steps
    PROVE  /\ step \in InstallSteps => Work(step) = "install"
           /\ step \in RecoverySteps => Work(step) = "recovery"
           /\ step \in RevokeSteps \cup RestoreSteps => Work(step) = "revocation"
  BY DEF Steps, InstallSteps, RecoverySteps, RevokeSteps, RestoreSteps, Work

(* A failure or a crash that ends the process.                             *)
LEMMA FaultEnds ==
    ASSUME IndInv, NEW p \in Procs, ~At(p, "idle"), Fault(p), Finish(p), UNCHANGED reader,
           DiskInv', UNCHANGED <<journal, backup>> \/ ~Publishing',
           loc[p].pc \in RevokeSteps \cup RestoreSteps =>
               UNCHANGED <<journal, backup>> /\ (OnePlace => OnePlace')
    PROVE  IndInv'
<1>1. loc[p].pc \in Steps
  BY DEF IndInv, WorkInv, WorkTypes, Local, At
<1>2. Recoverable'
  <2> SUFFICES ASSUME "recovery" \notin hit', Publishing', NEW s \in Slots, (journal.existed[s])'
               PROVE  backup'[s] # None
    BY DEF Recoverable
  <2>1. loc[p].pc \notin RecoverySteps /\ "recovery" \notin hit
    BY <1>1, FaultCounts, WorkOf
  <2>2. ~Taken(s)
    BY <2>1, AtWork DEF Taken, AtSlot, RecoverySteps
  <2> QED BY <2>1, <2>2 DEF IndInv, WorkInv, Recoverable, Publishing
<1>3. ASSUME hit' \subseteq {"revocation"}
      PROVE  (journal = None /\ backup = NoPair /\ OnePlace)'
  <2>1. hit \subseteq {"revocation"} /\ loc[p].pc \in RevokeSteps \cup RestoreSteps
    BY <1>1, <1>3, FaultCounts, WorkOf DEF Steps
  <2>2. ~Installing(p)
    BY <2>1 DEF Installing, InstallSteps, RevokeSteps, RestoreSteps
  <2> QED BY <2>1, <2>2, QuietNow
<1> QED BY <1>2, <1>3, FaultCounts, Ended

-----------------------------------------------------------------------------
LEMMA CrashStep ==
    ASSUME IndInv, NEW p \in Procs, Crash(p)
    PROVE  IndInv'
<1>1. UNCHANGED <<active, backup, temps, quarantine, journal, rjournal, reader, revoked, serial>>
  BY DEF Crash, files, Env
<1>2. DiskInv'
  BY <1>1, DiskUntouched DEF IndInv, DiskInv, DataTypes
<1>3. OnePlace => OnePlace'
  BY <1>1 DEF OnePlace
<1> QED BY <1>1, <1>2, <1>3, FaultEnds DEF Crash

(* What is left to show of a step that leaves journal and backups alone,   *)
(* other than a recovery of an install.                                    *)
LEMMA Moving ==
    ASSUME IndInv, NEW p \in Procs, ~At(p, "idle"), Others(p), loc'[p].pc # "idle", Works,
           UNCHANGED <<lock, journal, backup, reader>>, DiskInv', Fits(p)',
           loc[p].pc \notin {"ri_restore", "ri_temps", "ri_clear"},
           hit \subseteq {"revocation"} =>
               /\ OnePlace => OnePlace'
               /\ QuietFits(p)' /\ (~Installing(p)' => ~Installing(p))
    PROVE  IndInv'
<1>1. Recoverable'
  <2>1. \A s \in Slots : ~Taken(s)
    BY AtWork DEF Taken, AtSlot
  <2> QED BY <2>1, WorkCounts DEF IndInv, WorkInv, Recoverable, Publishing
<1>2. ASSUME hit' \subseteq {"revocation"}
      PROVE  QuietFits(p)' /\ OnePlace' /\ (~Installing(p)' => (journal = None /\ backup = NoPair)')
  BY <1>2, QuietNow, WorkCounts
<1> QED BY <1>1, <1>2, WorkCounts, Going

LEMMA Halting ==
    ASSUME IndInv, NEW p \in Procs, ~At(p, "idle"), Finish(p), Works,
           UNCHANGED <<journal, backup, reader>>, DiskInv',
           "recovery" \in hit \/ loc[p].pc \notin {"ri_restore", "ri_temps", "ri_clear"},
           hit \subseteq {"revocation"} => (OnePlace => OnePlace') /\ ~Installing(p)
    PROVE  IndInv'
<1>1. Recoverable'
  <2>1. "recovery" \in hit \/ \A s \in Slots : ~Taken(s)
    BY AtWork DEF Taken, AtSlot
  <2> QED BY <2>1, WorkCounts DEF IndInv, WorkInv, Recoverable, Publishing
<1>2. hit' \subseteq {"revocation"} => (journal = None /\ backup = NoPair /\ OnePlace)'
  BY QuietNow, WorkCounts
<1> QED BY <1>1, <1>2, WorkCounts, Ended

-----------------------------------------------------------------------------
(* recover_interrupted_revocation                                          *)

(* The journal of a revocation goes when the pair is away or back.         *)
LEMMA RevocationCleared ==
    ASSUME DiskInv, rjournal # None, rjournal' = None,
           (\A s \in Slots : active[s] = None) \/ (\A s \in Slots : active[s] # None),
           UNCHANGED <<active, backup, temps, quarantine, journal, revoked, serial>>
    PROVE  DiskInv'
<1>1. OneIssuance'
  BY DEF DiskInv, OneIssuance, Either, Whole, Publishing, Slots
<1> QED BY <1>1 DEF DiskInv, DataTypes, Numbered, Fresh, Unused, Either, RevokedMeansQuarantined,
     Publishing, Replaced, Places

LEMMA ReadRevocationStep ==
    ASSUME IndInv, NEW p \in Procs, ReadRevocation(p)
    PROVE  IndInv'
<1>1. loc[p].pc = "rr_read" /\ ~At(p, "idle") /\ Fits(p) /\ WorkTypes /\ DiskInv
      /\ UNCHANGED <<active, backup, temps, quarantine, journal, reader, revoked, serial>>
  BY DEF ReadRevocation, At, IndInv, WorkInv, files, Env
<1>2. ~loc[p].failed /\ loc[p].pc \in RestoreSteps /\ loc[p].pc \notin RecoverySteps \cup InstallSteps
  BY <1>1 DEF Fits, JobFits, RestoreSteps, RecoverySteps, InstallSteps
<1>3. AfterRevocation(p) \in {"rv_begin", "ri_read"} /\ AfterRevocation(p) \in Steps
      /\ (AfterRevocation(p) = "rv_begin" <=> loc[p].job = "revoke")
  BY <1>2 DEF AfterRevocation, Steps, RevokeSteps, RecoverySteps
<1>4. (OnePlace => OnePlace') /\ ~Installing(p)
  BY <1>1, <1>2 DEF OnePlace, Installing
<1>5. rjournal' = rjournal => DiskInv'
  BY <1>1, DiskUntouched DEF DiskInv, DataTypes
<1>6. ASSUME Goto(p, AfterRevocation(p)), rjournal' = None, DiskInv', Works, UNCHANGED lock
      PROVE  IndInv'
  <2>1. Becomes(p, AfterRevocation(p), "cert", loc[p].failed)
    BY <1>1, <1>3, <1>6, GotoBecomes
  <2>2. Fits(p)'
    BY <1>1, <1>2, <1>3, <1>6, <2>1 DEF Becomes, Fits, JobFits, NotYetUsed, RevocationFits, InstallFits,
       At, AtSlot, Early, Fresh, Unused, InstallSteps, RevokeSteps, RecoverySteps, RestoreSteps, Local, WorkTypes
  <2>3. QuietFits(p)'
    BY <1>1, <1>2, <1>3, <2>1 DEF Becomes, QuietFits, At, AtSlot, RecoverySteps
  <2> QED BY <1>1, <1>3, <1>4, <1>6, <2>1, <2>2, <2>3, Moving DEF Becomes
<1>7. CASE rjournal = None /\ Goto(p, AfterRevocation(p)) /\ UNCHANGED <<lock, rjournal, trouble>>
  BY <1>5, <1>6, <1>7 DEF Works
<1>8. CASE rjournal # None /\ rjournal.phase \in {"prepared", "quarantined"} /\ Goto(p, "rr_restore")
           /\ UNCHANGED <<lock, rjournal, trouble>>
  <2>1. Becomes(p, "rr_restore", "cert", loc[p].failed)
    BY <1>1, <1>8, GotoBecomes DEF Steps, RestoreSteps
  <2>2. \A x \in revoked : x.by # rjournal.tx
    BY <1>1, <1>8 DEF DiskInv, RevokedMeansQuarantined
  <2>3. Fits(p)'
    BY <1>1, <1>2, <1>8, <2>1, <2>2 DEF Becomes, Fits, JobFits, NotYetUsed, RevocationFits, InstallFits,
       At, AtSlot, Early, Fresh, Unused, InstallSteps, RevokeSteps, RecoverySteps, RestoreSteps, Local, WorkTypes
  <2>4. QuietFits(p)'
    BY <2>1 DEF Becomes, QuietFits, At, AtSlot, RecoverySteps
  <2> QED BY <1>1, <1>4, <1>5, <1>8, <2>1, <2>3, <2>4, Moving DEF Becomes, Works
<1>9. CASE rjournal # None /\ Finish(p) /\ UNCHANGED <<rjournal, trouble>>
  BY <1>1, <1>4, <1>5, <1>9, Halting DEF Works
<1>10. CASE rjournal # None /\ QuarantinedPair(rjournal.tx) /\ Works /\ rjournal' = None
            /\ Goto(p, AfterRevocation(p)) /\ UNCHANGED lock
  <2>1. DiskInv'
    BY <1>1, <1>10, RevocationCleared DEF QuarantinedPair
  <2> QED BY <1>6, <1>10, <2>1
<1>11. CASE rjournal # None /\ QuarantinedPair(rjournal.tx) /\ Fault(p) /\ Finish(p)
            /\ rjournal' \in {rjournal, None}
  <2>1. DiskInv'
    BY <1>1, <1>5, <1>11, RevocationCleared DEF QuarantinedPair
  <2> QED BY <1>1, <1>4, <1>11, <2>1, FaultEnds
<1> QED BY <1>7, <1>8, <1>9, <1>10, <1>11 DEF ReadRevocation, Works

LEMMA RestoreQuarantinedStep ==
    ASSUME IndInv, NEW p \in Procs, NEW slot \in Slots, RestoreQuarantined(p, slot)
    PROVE  IndInv'
<1>1. loc[p].pc = "rr_restore" /\ loc[p].slot = slot /\ ~At(p, "idle") /\ Fits(p) /\ WorkTypes /\ DiskInv
      /\ UNCHANGED <<journal, rjournal, reader, revoked, serial>>
  BY DEF RestoreQuarantined, AtSlot, At, IndInv, WorkInv, Env
<1>2. loc[p].pc \in RestoreSteps /\ ~Installing(p) /\ "rr_clear" \in Steps
  BY <1>1 DEF RestoreSteps, Installing, InstallSteps, Steps
<1>3. rjournal # None /\ rjournal.tx \in Serials /\ rjournal.phase # "confirmed"
      /\ \A x \in revoked : x.by # rjournal.tx
  BY <1>1 DEF Fits, RevocationFits, DiskInv, DataTypes, RevocationJournal
<1>4. UNCHANGED files => DiskInv' /\ (OnePlace => OnePlace')
  BY <1>1, DiskUntouched DEF files, DiskInv, DataTypes, OnePlace
<1>5. ASSUME Advance(p, "rr_clear"), Works, UNCHANGED <<lock, backup>>, active'[slot] # None,
             slot = "key" => active'["cert"] = active["cert"], DiskInv', OnePlace => OnePlace',
             \A t \in Serials : Fresh(t) => Fresh(t)'
      PROVE  IndInv'
  <2>1. IF slot = "cert" THEN Becomes(p, "rr_restore", "key", loc[p].failed)
        ELSE Becomes(p, "rr_clear", "cert", loc[p].failed)
    BY <1>1, <1>2, <1>5, AdvanceBecomes
  <2>2. JobFits(p)' /\ InstallFits(p)'
    BY <1>1, <2>1 DEF Becomes, Fits, JobFits, InstallFits, At, AtSlot,
       InstallSteps, RevokeSteps, RecoverySteps, RestoreSteps
  <2>3. NotYetUsed(p)'
    BY <1>1, <1>5, <2>1 DEF Becomes, Fits, JobFits, NotYetUsed, At, AtSlot, Early,
       InstallSteps, RevokeSteps, RecoverySteps, RestoreSteps, Local, WorkTypes
  <2>4. RevocationFits(p)'
    BY <1>1, <1>3, <1>5, <2>1 DEF Becomes, Fits, RevocationFits, At, AtSlot,
       InstallSteps, RevokeSteps, RecoverySteps, RestoreSteps, Slots
  <2>5. QuietFits(p)'
    BY <2>1 DEF Becomes, QuietFits, At, AtSlot, RecoverySteps
  <2> QED BY <1>1, <1>2, <1>5, <2>1, <2>2, <2>3, <2>4, <2>5, Moving DEF Becomes, Fits
<1>6. CASE active[slot] # None /\ Works /\ Advance(p, "rr_clear") /\ UNCHANGED <<lock, files>>
  <2>1. \A t \in Serials : Fresh(t) => Fresh(t)'
    BY <1>1, <1>6 DEF Fresh, Unused, files
  <2> QED BY <1>4, <1>5, <1>6, <2>1 DEF files
<1>7. CASE /\ active[slot] = None /\ quarantine[rjournal.tx][slot] # None /\ Works
           /\ active' = [active EXCEPT ![slot] = quarantine[rjournal.tx][slot]]
           /\ quarantine' = [quarantine EXCEPT ![rjournal.tx][slot] = None]
           /\ Advance(p, "rr_clear") /\ UNCHANGED <<lock, backup, temps>>
  <2>1. /\ active' \in Pair /\ quarantine' \in [Serials -> Pair]
        /\ active'[slot] = quarantine[rjournal.tx][slot]
        /\ \A s \in Slots \ {slot} : active'[s] = active[s]
        /\ \A t \in Serials, s \in Slots : quarantine'[t][s] =
               IF t = rjournal.tx /\ s = slot THEN None ELSE quarantine[t][s]
    BY <1>1, <1>3, <1>7 DEF DiskInv, DataTypes, Pair, File
  <2>2. \A t \in Serials : Fresh(t) => Fresh(t)'
    BY <1>1, <1>3, <1>7, <2>1 DEF Fresh, Unused, NoPair, DiskInv, DataTypes, Pair
  <2>3. DataTypes' /\ Numbered' /\ Either' /\ RevokedMeansQuarantined'
    BY <1>1, <1>3, <1>7, <2>1, <2>2 DEF DiskInv, DataTypes, Numbered, Either, RevokedMeansQuarantined,
       Slots
  <2>4. OneIssuance'
    BY <1>1, <1>3, <1>7, <2>1 DEF DiskInv, OneIssuance, Whole, Publishing, Slots
  <2>5. Replaced'
    BY <1>1, <1>3, <1>7, <2>1, NoneAssumption DEF DiskInv, Replaced, Publishing, Places, Serials
  <2>6. OnePlace => OnePlace'
    BY <1>1, <1>3, <1>7, <2>1 DEF OnePlace, Slots
  <2> QED BY <1>5, <1>7, <2>1, <2>2, <2>3, <2>4, <2>5, <2>6 DEF DiskInv, Slots
<1>8. CASE Works /\ Finish(p) /\ UNCHANGED files
  BY <1>1, <1>2, <1>4, <1>8, Halting DEF files
<1>9. CASE Fault(p) /\ Finish(p) /\ UNCHANGED files
  BY <1>1, <1>2, <1>4, <1>9, FaultEnds DEF files
<1> QED BY <1>6, <1>7, <1>8, <1>9 DEF RestoreQuarantined

LEMMA ClearRevocationStep ==
    ASSUME IndInv, NEW p \in Procs, ClearRevocation(p)
    PROVE  IndInv'
<1>1. loc[p].pc = "rr_clear" /\ ~At(p, "idle") /\ Fits(p) /\ WorkTypes /\ DiskInv
      /\ UNCHANGED <<active, backup, temps, quarantine, journal, reader, revoked, serial>>
  BY DEF ClearRevocation, At, IndInv, WorkInv, files, Env
<1>2. loc[p].pc \in RestoreSteps /\ ~Installing(p) /\ (OnePlace => OnePlace')
  BY <1>1 DEF RestoreSteps, Installing, InstallSteps, OnePlace
<1>3. rjournal' \in {rjournal, None} => DiskInv'
  <2>1. rjournal # None /\ \A s \in Slots : active[s] # None
    BY <1>1 DEF Fits, RevocationFits, At, Slots
  <2> QED BY <1>1, <2>1, DiskUntouched, RevocationCleared DEF DiskInv, DataTypes
<1>4. CASE Works /\ rjournal' = None /\ Finish(p)
  BY <1>1, <1>2, <1>3, <1>4, Halting
<1>5. CASE Works /\ rjournal' = None /\ AfterRevocation(p) # "idle" /\ Goto(p, AfterRevocation(p))
           /\ UNCHANGED lock
  <2>1. ~loc[p].failed /\ AfterRevocation(p) \in {"rv_begin", "ri_read"} /\ AfterRevocation(p) \in Steps
        /\ (AfterRevocation(p) = "rv_begin" <=> loc[p].job = "revoke")
    BY <1>5 DEF AfterRevocation, Steps, RevokeSteps, RecoverySteps
  <2>2. Becomes(p, AfterRevocation(p), "cert", loc[p].failed)
    BY <1>1, <1>5, <2>1, GotoBecomes
  <2>3. Fits(p)'
    BY <1>1, <1>5, <2>1, <2>2 DEF Becomes, Fits, JobFits, NotYetUsed, RevocationFits, InstallFits,
       At, AtSlot, Early, Fresh, Unused, InstallSteps, RevokeSteps, RecoverySteps, RestoreSteps, Local, WorkTypes
  <2>4. QuietFits(p)'
    BY <2>1, <2>2 DEF Becomes, QuietFits, At, AtSlot, RecoverySteps
  <2> QED BY <1>1, <1>2, <1>3, <1>5, <2>1, <2>2, <2>3, <2>4, Moving DEF Becomes
<1>6. CASE Fault(p) /\ rjournal' \in {rjournal, None} /\ Finish(p)
  BY <1>1, <1>2, <1>3, <1>6, FaultEnds
<1> QED BY <1>4, <1>5, <1>6 DEF ClearRevocation, Leave

-----------------------------------------------------------------------------
(* recover_interrupted_install                                             *)
LEMMA ReadJournalStep ==
    ASSUME IndInv, NEW p \in Procs, ReadJournal(p)
    PROVE  IndInv'
<1>1. loc[p].pc = "ri_read" /\ ~At(p, "idle") /\ Fits(p) /\ WorkTypes /\ DiskInv /\ Works
      /\ UNCHANGED <<active, backup, temps, quarantine, journal, rjournal, reader, revoked, serial>>
  BY DEF ReadJournal, At, IndInv, WorkInv, files, Env, Works
<1>2. ~Installing(p) /\ (OnePlace => OnePlace') /\ DiskInv'
  BY <1>1, DiskUntouched DEF Installing, InstallSteps, OnePlace, DiskInv, DataTypes
<1>3. CASE Finish(p)
  BY <1>1, <1>2, <1>3, Halting
<1>4. CASE journal = None /\ AfterRecovery(p) # "idle" /\ Goto(p, AfterRecovery(p)) /\ UNCHANGED lock
  <2>1. ~loc[p].failed /\ AfterRecovery(p) = "write" /\ loc[p].job = "install"
    BY <1>4 DEF AfterRecovery
  <2>2. Becomes(p, "write", "cert", loc[p].failed)
    BY <1>1, <1>4, <2>1, GotoBecomes DEF Steps, InstallSteps
  <2>3. Fits(p)'
    BY <1>1, <1>4, <2>1, <2>2 DEF Becomes, Fits, JobFits, NotYetUsed, RevocationFits, InstallFits,
       At, AtSlot, Early, Fresh, Unused, InstallSteps, RevokeSteps, RecoverySteps, RestoreSteps, Local, WorkTypes
  <2>4. QuietFits(p)'
    BY <2>2 DEF Becomes, QuietFits, At, AtSlot, RecoverySteps
  <2> QED BY <1>1, <1>2, <1>4, <2>2, <2>3, <2>4, Moving DEF Becomes
<1>5. CASE journal # None /\ UNCHANGED lock
           /\ Goto(p, IF journal.phase = "publishing" THEN "ri_restore" ELSE "ri_drop")
  <2> DEFINE step == IF journal.phase = "publishing" THEN "ri_restore" ELSE "ri_drop"
  <2>1. step \in Steps /\ step \in {"ri_restore", "ri_drop"} /\ (step = "ri_restore" <=> Publishing)
    BY <1>5 DEF Steps, RecoverySteps, Publishing
  <2> HIDE DEF step
  <2>2. Becomes(p, step, "cert", loc[p].failed)
    BY <1>1, <1>5, <2>1, GotoBecomes DEF step
  <2>3. Fits(p)'
    BY <1>1, <1>5, <2>1, <2>2 DEF Becomes, Fits, JobFits, NotYetUsed, RevocationFits, InstallFits, Publishing,
       At, AtSlot, Early, Fresh, Unused, InstallSteps, RevokeSteps, RecoverySteps, RestoreSteps, Local, WorkTypes
  <2>4. ~(hit \subseteq {"revocation"})
    BY <1>1, <1>2, <1>5, QuietNow
  <2> QED BY <1>1, <1>2, <1>5, <2>1, <2>2, <2>3, <2>4, Moving DEF Becomes
<1> QED BY <1>3, <1>4, <1>5 DEF ReadJournal, Leave

LEMMA DropBackupStep ==
    ASSUME IndInv, NEW p \in Procs, NEW slot \in Slots, DropBackup(p, slot)
    PROVE  IndInv'
<1>1. loc[p].pc = "ri_drop" /\ loc[p].slot = slot /\ ~At(p, "idle") /\ Fits(p) /\ WorkTypes /\ DiskInv
      /\ UNCHANGED <<active, temps, quarantine, journal, rjournal, reader, revoked, serial>>
  BY DEF DropBackup, AtSlot, At, IndInv, WorkInv, Env
<1>2. ~(hit \subseteq {"revocation"}) /\ loc[p].pc \notin RevokeSteps \cup RestoreSteps
  BY <1>1, QuietNow DEF QuietFits, At, RecoverySteps, RevokeSteps, RestoreSteps
<1>3. journal # None /\ ~Publishing /\ rjournal = None /\ ~Publishing'
  BY <1>1 DEF Fits, InstallFits, RevocationFits, RecoverySteps, Publishing
<1>4. CASE Works /\ backup' = [backup EXCEPT ![slot] = None] /\ Advance(p, "ri_temps") /\ UNCHANGED lock
  <2>1. IF slot = "cert" THEN Becomes(p, "ri_drop", "key", loc[p].failed)
        ELSE Becomes(p, "ri_temps", "cert", loc[p].failed)
    BY <1>1, <1>4, AdvanceBecomes DEF Steps, RecoverySteps
  <2>2. backup' \in Pair /\ \A s \in Slots : backup'[s] \in {backup[s], None}
    BY <1>1, <1>4 DEF DiskInv, DataTypes, Pair, File
  <2>3. \A t \in Serials : Fresh(t) => Fresh(t)'
    BY <1>1, <2>2, NoneAssumption DEF Fresh, Unused, Serials
  <2>4. DiskInv'
    BY <1>1, <1>3, <2>2, <2>3 DEF DiskInv, DataTypes, Numbered, Either, QuarantinedPair,
       RevokedMeansQuarantined, OneIssuance, Whole, Replaced
  <2>5. Complete(active)
    BY <1>1, <1>3 DEF DiskInv, OneIssuance, Whole, Complete
  <2>6. Fits(p)'
    BY <1>1, <1>3, <2>1, <2>3, <2>5 DEF Becomes, Fits, JobFits, NotYetUsed, RevocationFits, InstallFits, Publishing, Complete,
       At, AtSlot, Early, InstallSteps, RevokeSteps, RecoverySteps, RestoreSteps, Local, WorkTypes
  <2>7. Recoverable'
    BY <1>3 DEF Recoverable
  <2> QED BY <1>1, <1>2, <1>4, <2>1, <2>4, <2>6, <2>7, WorkCounts, Going DEF Becomes
<1>5. CASE Fault(p) /\ UNCHANGED backup /\ Finish(p)
  BY <1>1, <1>2, <1>5, DiskUntouched, FaultEnds DEF DiskInv, DataTypes
<1> QED BY <1>4, <1>5 DEF DropBackup

LEMMA RestoreOriginalStep ==
    ASSUME IndInv, NEW p \in Procs, NEW slot \in Slots, RestoreOriginal(p, slot)
    PROVE  IndInv'
<1>1. loc[p].pc = "ri_restore" /\ loc[p].slot = slot /\ ~At(p, "idle") /\ Fits(p) /\ WorkTypes /\ DiskInv
      /\ UNCHANGED <<temps, quarantine, journal, rjournal, reader, revoked, serial>>
  BY DEF RestoreOriginal, AtSlot, At, IndInv, WorkInv, Env
<1>2. ~(hit \subseteq {"revocation"}) /\ loc[p].pc \notin RevokeSteps \cup RestoreSteps
  BY <1>1, QuietNow DEF QuietFits, At, RecoverySteps, RevokeSteps, RestoreSteps
<1>3. Publishing /\ rjournal = None /\ Publishing'
  BY <1>1 DEF Fits, InstallFits, RevocationFits, RecoverySteps, Publishing, At
<1>4. journal.existed["cert"] = journal.existed["key"] /\ journal.tx \in Serials
  BY <1>1, <1>3 DEF DiskInv, Replaced, Publishing, DataTypes, Journal
<1>5. ASSUME Works, Advance(p, "ri_temps"), UNCHANGED lock, DiskInv',
             \A t \in Serials : Fresh(t) => Fresh(t)',
             \A s \in Slots \ {slot} : backup'[s] = backup[s] /\ active'[s] = active[s],
             slot = "cert" => IF journal.existed["key"] THEN backup["key"] \in {None, active'["cert"]}
                              ELSE active'["cert"] = None,
             slot = "key" => Complete(active')
      PROVE  IndInv'
  <2>1. IF slot = "cert" THEN Becomes(p, "ri_restore", "key", loc[p].failed)
        ELSE Becomes(p, "ri_temps", "cert", loc[p].failed)
    BY <1>1, <1>5, AdvanceBecomes DEF Steps, RecoverySteps
  <2>2. Fits(p)'
    BY <1>1, <1>3, <1>5, <2>1 DEF Becomes, Fits, JobFits, NotYetUsed, RevocationFits, InstallFits, Publishing, Complete,
       At, AtSlot, Early, InstallSteps, RevokeSteps, RecoverySteps, RestoreSteps, Local, WorkTypes, Slots
  <2>3. Recoverable'
    <3>1. slot = "key" => \A s \in Slots : Taken(s)'
      BY <2>1 DEF Taken, Becomes, Slots
    <3>2. slot = "cert" => Taken("cert")' /\ ~Taken("key")
      BY <1>1, <2>1, AtWork DEF Taken, Becomes, AtSlot
    <3> QED BY <1>1, <1>3, <1>5, <3>1, <3>2, WorkCounts DEF IndInv, WorkInv, Recoverable, Publishing, Slots
  <2> QED BY <1>1, <1>2, <1>5, <2>1, <2>2, <2>3, WorkCounts, Going DEF Becomes
<1>6. CASE /\ journal.existed[slot] /\ backup[slot] # None /\ Works
           /\ Renamed(backup[slot], slot) /\ Advance(p, "ri_temps") /\ UNCHANGED lock
  <2>1. /\ active' \in Pair /\ backup' \in Pair
        /\ active'[slot] = backup[slot] /\ backup'[slot] \in {backup[slot], None}
        /\ \A s \in Slots \ {slot} : active'[s] = active[s] /\ backup'[s] = backup[s]
    BY <1>1, <1>6 DEF Renamed, DiskInv, DataTypes, Pair, File
  <2>2. \A t \in Serials : Fresh(t) => Fresh(t)'
    BY <1>1, <2>1, NoneAssumption DEF Fresh, Unused, Serials
  <2>3. PICK t \in Serials \ {journal.tx} : \A s \in Slots : t \in Places(s) /\ backup[s] \in {None, t}
    BY <1>1, <1>3, <1>4, <1>6 DEF DiskInv, Replaced, Slots
  <2>4. \A s \in Slots : t \in Places(s)' /\ backup'[s] \in {None, t}
    BY <1>1, <1>6, <2>1, <2>3 DEF Places
  <2>5. DiskInv'
    BY <1>1, <1>3, <2>1, <2>2, <2>3, <2>4 DEF DiskInv, DataTypes, Numbered, Either, QuarantinedPair,
       RevokedMeansQuarantined, OneIssuance, Replaced, Publishing
  <2>6. slot = "cert" => backup["key"] \in {None, active'["cert"]} /\ journal.existed["key"]
    BY <1>4, <1>6, <2>1, <2>3 DEF Slots
  <2>7. slot = "key" => Complete(active')
    BY <1>1, <1>4, <1>6, <2>1 DEF Fits, InstallFits, AtSlot, Complete, Slots
  <2> QED BY <1>5, <1>6, <2>1, <2>2, <2>5, <2>6, <2>7
<1>7. CASE /\ ~journal.existed[slot] /\ Works
           /\ active' = [active EXCEPT ![slot] = None] /\ UNCHANGED backup
           /\ Advance(p, "ri_temps") /\ UNCHANGED lock
  <2>1. active' \in Pair /\ active'[slot] = None /\ \A s \in Slots \ {slot} : active'[s] = active[s]
    BY <1>1, <1>7 DEF DiskInv, DataTypes, Pair, File
  <2>2. \A t \in Serials : Fresh(t) => Fresh(t)'
    BY <1>1, <1>7, <2>1, NoneAssumption DEF Fresh, Unused, Serials
  <2>3. ~journal.existed["cert"] /\ ~journal.existed["key"]
    BY <1>4, <1>7 DEF Slots
  <2>4. DiskInv'
    BY <1>1, <1>3, <1>4, <1>7, <2>1, <2>2, <2>3 DEF DiskInv, DataTypes, Numbered, Either, QuarantinedPair,
       RevokedMeansQuarantined, OneIssuance, Replaced, Publishing
  <2>5. slot = "key" => Complete(active')
    BY <1>1, <2>1, <2>3 DEF Fits, InstallFits, AtSlot, Complete, Slots
  <2> QED BY <1>5, <1>7, <2>1, <2>2, <2>3, <2>4, <2>5
<1>8. CASE /\ journal.existed[slot] /\ backup[slot] = None /\ Works
           /\ Finish(p) /\ UNCHANGED <<active, backup>>
  <2>1. ~Taken(slot)
    BY <1>1, AtWork DEF Taken, AtSlot
  <2>2. "recovery" \in hit
    BY <1>3, <1>8, <2>1 DEF IndInv, WorkInv, Recoverable
  <2> QED BY <1>1, <1>2, <1>8, <2>2, DiskUntouched, Halting DEF DiskInv, DataTypes
<1>9. CASE Fault(p) /\ Finish(p) /\ UNCHANGED <<active, backup>>
  BY <1>1, <1>2, <1>9, DiskUntouched, FaultEnds DEF DiskInv, DataTypes
<1> QED BY <1>6, <1>7, <1>8, <1>9 DEF RestoreOriginal

LEMMA RemoveTempsStep ==
    ASSUME IndInv, NEW p \in Procs, RemoveTemps(p)
    PROVE  IndInv'
<1>1. loc[p].pc = "ri_temps" /\ ~At(p, "idle") /\ Fits(p) /\ WorkTypes /\ DiskInv
      /\ UNCHANGED <<active, backup, quarantine, journal, rjournal, reader, revoked, serial>>
  BY DEF RemoveTemps, At, IndInv, WorkInv, Env
<1>2. ~(hit \subseteq {"revocation"}) /\ loc[p].pc \notin RevokeSteps \cup RestoreSteps
  BY <1>1, QuietNow DEF QuietFits, At, RecoverySteps, RevokeSteps, RestoreSteps
<1>3. CASE /\ Works /\ temps' = temps \ (Slots \X {journal.tx}) /\ Goto(p, "ri_clear") /\ UNCHANGED lock
  <2>1. Becomes(p, "ri_clear", "cert", loc[p].failed)
    BY <1>1, <1>3, GotoBecomes DEF Steps, RecoverySteps
  <2>2. DiskInv'
    BY <1>1, <1>3, DiskUntouched DEF DiskInv, DataTypes
  <2>3. Fits(p)'
    BY <1>1, <2>1 DEF Becomes, Fits, JobFits, NotYetUsed, RevocationFits, InstallFits, Complete, Fresh, Unused,
       At, AtSlot, Early, InstallSteps, RevokeSteps, RecoverySteps, RestoreSteps, Local, WorkTypes
  <2>4. Recoverable'
    BY <2>1 DEF Recoverable, Taken, Becomes
  <2> QED BY <1>1, <1>2, <1>3, <2>1, <2>2, <2>3, <2>4, WorkCounts, Going DEF Becomes
<1>4. CASE Fault(p) /\ Finish(p) /\ UNCHANGED temps
  BY <1>1, <1>2, <1>4, DiskUntouched, FaultEnds DEF DiskInv, DataTypes
<1> QED BY <1>3, <1>4 DEF RemoveTemps

(* The journal of an install goes when the files are of one issuance.      *)
LEMMA JournalCleared ==
    ASSUME DiskInv, rjournal = None, Complete(active), journal' = None,
           UNCHANGED <<active, backup, temps, quarantine, rjournal, revoked, serial>>
    PROVE  DiskInv' /\ ~Publishing'
  BY DEF DiskInv, DataTypes, Numbered, Fresh, Unused, Either, RevokedMeansQuarantined, QuarantinedPair,
     OneIssuance, Whole, Complete, Publishing, Replaced

LEMMA ClearJournalStep ==
    ASSUME IndInv, NEW p \in Procs, ClearJournal(p)
    PROVE  IndInv'
<1>1. loc[p].pc = "ri_clear" /\ ~At(p, "idle") /\ Fits(p) /\ WorkTypes /\ DiskInv
      /\ UNCHANGED <<active, backup, temps, quarantine, rjournal, reader, revoked, serial>>
  BY DEF ClearJournal, At, IndInv, WorkInv, files, Env
<1>2. ~(hit \subseteq {"revocation"}) /\ loc[p].pc \notin RevokeSteps \cup RestoreSteps
  BY <1>1, QuietNow DEF QuietFits, At, RecoverySteps, RevokeSteps, RestoreSteps
<1>3. rjournal = None /\ Complete(active)
  BY <1>1 DEF Fits, RevocationFits, InstallFits, RecoverySteps
<1>4. journal' = None => DiskInv' /\ Recoverable'
  BY <1>1, <1>3, JournalCleared DEF Recoverable
<1>5. CASE Works /\ journal' = None /\ Finish(p)
  BY <1>1, <1>2, <1>4, <1>5, WorkCounts, Ended
<1>6. CASE Works /\ journal' = None /\ AfterRecovery(p) # "idle" /\ Goto(p, AfterRecovery(p)) /\ UNCHANGED lock
  <2>1. ~loc[p].failed /\ AfterRecovery(p) = "write" /\ loc[p].job = "install"
    BY <1>6 DEF AfterRecovery
  <2>2. Becomes(p, "write", "cert", loc[p].failed)
    BY <1>1, <1>6, <2>1, GotoBecomes DEF Steps, InstallSteps
  <2>3. Fits(p)'
    BY <1>1, <1>3, <1>6, <2>1, <2>2 DEF Becomes, Fits, JobFits, NotYetUsed, RevocationFits, InstallFits,
       At, AtSlot, Early, Fresh, Unused, InstallSteps, RevokeSteps, RecoverySteps, RestoreSteps, Local, WorkTypes
  <2> QED BY <1>1, <1>2, <1>4, <1>6, <2>2, <2>3, WorkCounts, Going DEF Becomes
<1>7. CASE Fault(p) /\ journal' \in {journal, None} /\ Finish(p)
  <2>1. CASE journal' = None
    BY <1>1, <1>2, <1>3, <1>7, <2>1, JournalCleared, FaultEnds
  <2>2. CASE journal' = journal
    BY <1>1, <1>2, <1>7, <2>2, DiskUntouched, FaultEnds DEF DiskInv, DataTypes
  <2> QED BY <1>7, <2>1, <2>2
<1> QED BY <1>5, <1>6, <1>7 DEF ClearJournal, Leave

-----------------------------------------------------------------------------
(* install_certificate_files                                               *)

(* A failure after the journal was begun runs the recovery.                *)
LEMMA FaultRecovers ==
    ASSUME IndInv, NEW p \in Procs, loc[p].pc \in InstallSteps, Recover(p),
           UNCHANGED <<lock, reader, rjournal, serial>>,
           ~(hit' \subseteq {"revocation"}), faults' \in 0..MaxFaults,
           hit' \subseteq {"install", "recovery", "revocation"},
           DiskInv', Recoverable'
    PROVE  IndInv'
<1>1. ~At(p, "idle") /\ Fits(p) /\ WorkTypes
  BY DEF IndInv, WorkInv, At, InstallSteps
<1>2. Becomes(p, "ri_read", "cert", TRUE)
  BY <1>1, RecoverBecomes
<1>3. Fits(p)'
  BY <1>1, <1>2 DEF Becomes, Fits, JobFits, NotYetUsed, RevocationFits, InstallFits,
     At, AtSlot, Early, InstallSteps, RevokeSteps, RecoverySteps, RestoreSteps
<1> QED BY <1>1, <1>2, <1>3, Going DEF Becomes

(* Where an install is, and what its failures leave of the invariant.      *)
LEMMA InstallFault ==
    ASSUME IndInv, NEW p \in Procs, loc[p].pc \in InstallSteps, Fault(p)
    PROVE  /\ faults' \in 0..MaxFaults /\ ~(hit' \subseteq {"revocation"})
           /\ hit' \subseteq {"install", "recovery", "revocation"}
           /\ UNCHANGED <<journal, backup>> \/ ~Publishing' => Recoverable'
<1>1. loc[p].pc \in Steps /\ ~At(p, "idle")
  BY DEF IndInv, WorkInv, WorkTypes, Local, Steps, InstallSteps, At
<1>2. hit' = hit \cup {"install"} /\ faults' \in 0..MaxFaults
      /\ hit' \subseteq {"install", "recovery", "revocation"}
  BY <1>1, FaultCounts, WorkOf
<1>3. \A s \in Slots : ~Taken(s)
  BY <1>1, AtWork DEF Taken, AtSlot, InstallSteps
<1>4. UNCHANGED <<journal, backup>> \/ ~Publishing' => Recoverable'
  BY <1>2, <1>3 DEF IndInv, WorkInv, Recoverable, Publishing
<1> QED BY <1>2, <1>4

LEMMA WriteTempsStep ==
    ASSUME IndInv, NEW p \in Procs, WriteTemps(p)
    PROVE  IndInv'
<1>1. loc[p].pc = "write" /\ ~At(p, "idle") /\ Fits(p) /\ WorkTypes /\ DiskInv
      /\ UNCHANGED <<active, backup, quarantine, journal, rjournal, reader, revoked, serial>>
  BY DEF WriteTemps, At, IndInv, WorkInv, Env
<1>2. loc[p].tx \in Serials /\ ~Installing(p) /\ loc[p].pc \notin RevokeSteps \cup RestoreSteps
  BY <1>1 DEF Fits, JobFits, InstallSteps, WorkTypes, Local, Installing, RevokeSteps, RestoreSteps, At
<1>3. DiskInv' /\ (OnePlace => OnePlace')
  <2>1. temps' \subseteq Slots \X Serials
    BY <1>1, <1>2 DEF WriteTemps, Own, DiskInv, DataTypes
  <2> QED BY <1>1, <2>1, DiskUntouched DEF OnePlace
<1>4. CASE Works /\ Goto(p, "journal") /\ UNCHANGED lock
  <2>1. Becomes(p, "journal", "cert", loc[p].failed)
    BY <1>1, <1>4, GotoBecomes DEF Steps, InstallSteps
  <2>2. Fits(p)'
    BY <1>1, <2>1 DEF Becomes, Fits, JobFits, NotYetUsed, RevocationFits, InstallFits,
       At, AtSlot, Early, Fresh, Unused, InstallSteps, RevokeSteps, RecoverySteps, RestoreSteps, Local, WorkTypes
  <2>3. QuietFits(p)'
    BY <2>1 DEF Becomes, QuietFits, At, AtSlot, RecoverySteps
  <2> QED BY <1>1, <1>2, <1>3, <1>4, <2>1, <2>2, <2>3, Moving DEF Becomes
<1>5. CASE Fault(p) /\ Finish(p)
  BY <1>1, <1>2, <1>3, <1>5, FaultEnds
<1> QED BY <1>4, <1>5 DEF WriteTemps

(* A journal entry of the install of p, whatever its phase, is a journal.  *)
LEMMA EntryIsJournal ==
    ASSUME WorkTypes, NEW p \in Procs, loc[p].tx # None,
           NEW phase \in {"prepared", "publishing", "published"}, NEW existed \in [Slots -> BOOLEAN]
    PROVE  /\ Entry(p, phase, existed) \in Journal /\ Entry(p, phase, existed) # None
           /\ Entry(p, phase, existed).phase = phase /\ Entry(p, phase, existed).tx = loc[p].tx
           /\ Entry(p, phase, existed).existed = existed
  BY JournalAssumption DEF WorkTypes, Local, Entry, Journal

(* Recording a phase other than publishing when the files match.           *)
LEMMA PhaseRecorded ==
    ASSUME DiskInv, WorkTypes, NEW p \in Procs, JobFits(p), ~At(p, "idle"), loc[p].tx # None,
           rjournal = None, Complete(active),
           NEW phase \in {"prepared", "published"}, NEW existed \in [Slots -> BOOLEAN],
           journal' = Entry(p, phase, existed), temps' \subseteq Slots \X Serials,
           UNCHANGED <<active, backup, quarantine, rjournal, revoked, serial>>
    PROVE  DiskInv' /\ journal' # None /\ ~Publishing'
<1>1. journal' \in Journal /\ journal' # None /\ journal'.phase = phase /\ journal'.tx = loc[p].tx
  BY EntryIsJournal
<1>2. loc[p].tx \in Serials /\ loc[p].tx <= serial
  BY DEF WorkTypes, Local, JobFits
<1>3. Numbered'
  BY <1>1, <1>2 DEF DiskInv, DataTypes, Numbered, Fresh, Unused, Serials
<1> QED BY <1>1, <1>3 DEF DiskInv, DataTypes, Either, RevokedMeansQuarantined, QuarantinedPair,
     OneIssuance, Whole, Complete, Publishing, Replaced

LEMMA BeginJournalStep ==
    ASSUME IndInv, NEW p \in Procs, BeginJournal(p)
    PROVE  IndInv'
<1> DEFINE none == [s \in Slots |-> FALSE]
<1>1. loc[p].pc = "journal" /\ ~At(p, "idle") /\ Fits(p) /\ WorkTypes /\ DiskInv
      /\ UNCHANGED <<active, backup, quarantine, rjournal, reader, revoked, serial>>
  BY DEF BeginJournal, At, IndInv, WorkInv, Env
<1>2. loc[p].tx # None /\ ~Installing(p) /\ loc[p].pc \notin RevokeSteps \cup RestoreSteps
  BY <1>1 DEF Fits, JobFits, InstallSteps, Installing, RevokeSteps, RestoreSteps, At
<1>3. rjournal = None /\ journal = None /\ Complete(active) /\ none \in [Slots -> BOOLEAN]
  BY <1>1 DEF Fits, RevocationFits, InstallFits, InstallSteps, DiskInv, OneIssuance, Publishing, Whole, Complete
<1>4. temps' \subseteq Slots \X Serials
  BY <1>1 DEF BeginJournal, DiskInv, DataTypes
<1>5. journal' = Entry(p, "prepared", none) => DiskInv' /\ journal' # None /\ ~Publishing'
  BY <1>1, <1>2, <1>3, <1>4, PhaseRecorded DEF Fits
<1>6. CASE Works /\ journal' = Entry(p, "prepared", none) /\ Goto(p, "backup") /\ UNCHANGED <<lock, temps>>
  <2>1. Becomes(p, "backup", "cert", loc[p].failed)
    BY <1>1, <1>6, GotoBecomes DEF Steps, InstallSteps
  <2>2. Fits(p)'
    BY <1>1, <1>2, <1>3, <1>5, <1>6, <2>1 DEF Becomes, Fits, JobFits, NotYetUsed, RevocationFits, InstallFits,
       At, AtSlot, Early, Fresh, Unused, InstallSteps, RevokeSteps, RecoverySteps, RestoreSteps, Local, WorkTypes
  <2>3. Installing(p)' /\ Recoverable'
    BY <1>5, <1>6, <2>1 DEF Becomes, Installing, InstallSteps, Recoverable
  <2>4. hit \subseteq {"revocation"} => QuietFits(p)' /\ OnePlace'
    <3> SUFFICES ASSUME hit \subseteq {"revocation"} PROVE QuietFits(p)' /\ OnePlace'
      OBVIOUS
    <3>1. backup = NoPair /\ OnePlace
      BY <1>1, <1>2, QuietNow
    <3> QED BY <1>1, <2>1, <3>1 DEF Becomes, QuietFits, At, AtSlot, RecoverySteps, NoPair, Slots, OnePlace
  <2> QED BY <1>1, <1>5, <1>6, <2>1, <2>2, <2>3, <2>4, WorkCounts, Going DEF Becomes
<1>7. CASE Fault(p) /\ journal' \in {journal, Entry(p, "prepared", none)} /\ Finish(p)
  <2>1. DiskInv'
    BY <1>1, <1>4, <1>5, <1>7, DiskUntouched
  <2> QED BY <1>1, <1>2, <1>5, <1>7, <2>1, FaultEnds
<1> QED BY <1>6, <1>7 DEF BeginJournal

LEMMA BackupFileStep ==
    ASSUME IndInv, NEW p \in Procs, NEW slot \in Slots, BackupFile(p, slot)
    PROVE  IndInv'
<1>1. loc[p].pc = "backup" /\ loc[p].slot = slot /\ ~At(p, "idle") /\ Fits(p) /\ WorkTypes /\ DiskInv
      /\ UNCHANGED <<active, temps, quarantine, journal, rjournal, lock, reader, revoked, serial>>
  BY DEF BackupFile, AtSlot, At, IndInv, WorkInv, Env
<1>2. loc[p].pc \in InstallSteps /\ Installing(p) /\ loc[p].tx \in Serials /\ rjournal = None
  BY <1>1 DEF InstallSteps, Installing, Fits, JobFits, RevocationFits, WorkTypes, Local, At
<1>3. journal # None /\ ~Publishing /\ ~Publishing' /\ Recoverable'
  BY <1>1 DEF Fits, InstallFits, Publishing, Recoverable
<1>4. ~loc[p].existed["key"] /\ (slot = "cert" => ~loc[p].existed["cert"])
  BY <1>1 DEF Fits, NotYetUsed, At, AtSlot
<1>5. backup' = backup => DiskInv'
  BY <1>1, DiskUntouched DEF DiskInv, DataTypes
<1>6. OnePlace => OnePlace'
  BY <1>1 DEF OnePlace
<1>7. CASE active[slot] = None /\ Works /\ Advance(p, "publishing") /\ UNCHANGED backup
  <2>1. IF slot = "cert" THEN Becomes(p, "backup", "key", loc[p].failed)
        ELSE Becomes(p, "publishing", "cert", loc[p].failed)
    BY <1>1, <1>7, AdvanceBecomes DEF Steps, InstallSteps
  <2>2. Fits(p)'
    BY <1>1, <1>2, <1>3, <1>4, <1>7, <2>1 DEF Becomes, Fits, JobFits, NotYetUsed, RevocationFits, InstallFits, Publishing,
       At, AtSlot, Early, Unused, InstallSteps, RevokeSteps, RecoverySteps, RestoreSteps, Local, WorkTypes, Slots
  <2>3. hit \subseteq {"revocation"} => QuietFits(p)'
    BY <1>1, <1>7, <2>1, QuietNow DEF Becomes, QuietFits, At, AtSlot, RecoverySteps, Slots
  <2>4. Others(p) /\ Installing(p)' /\ loc'[p].pc # "idle"
    BY <2>1 DEF Becomes, Installing, InstallSteps
  <2> QED BY <1>1, <1>5, <1>6, <1>7, <2>2, <2>3, <2>4, Moving
<1>8. CASE /\ active[slot] # None /\ backup[slot] = None /\ Works
           /\ backup' = [backup EXCEPT ![slot] = active[slot]]
           /\ loc' = [loc EXCEPT ![p].pc = IF slot = "cert" THEN @ ELSE "publishing",
                                 ![p].slot = IF slot = "cert" THEN "key" ELSE "cert",
                                 ![p].existed[slot] = TRUE]
  <2>1. /\ Others(p)
        /\ loc'[p].pc = IF slot = "cert" THEN "backup" ELSE "publishing"
        /\ loc'[p].slot = IF slot = "cert" THEN "key" ELSE "cert"
        /\ loc'[p].failed = loc[p].failed /\ loc'[p].job = loc[p].job /\ loc'[p].tx = loc[p].tx
        /\ loc'[p].existed = [loc[p].existed EXCEPT ![slot] = TRUE]
    <3> DEFINE next == [loc[p] EXCEPT !.pc = IF slot = "cert" THEN "backup" ELSE "publishing",
                                      !.slot = IF slot = "cert" THEN "key" ELSE "cert",
                                      !.existed = [loc[p].existed EXCEPT ![slot] = TRUE]]
    <3>1. loc[p] \in Local
      BY <1>1 DEF WorkTypes
    <3>2. next \in Local
      BY <3>1 DEF Local, Steps, InstallSteps, Slots
    <3>3. loc' = [loc EXCEPT ![p] = next]
      BY <1>1, <1>8 DEF WorkTypes, Local
    <3> QED BY <1>1, <3>1, <3>2, <3>3 DEF WorkTypes, Others, Local
  <2>2. /\ backup' \in Pair /\ backup'[slot] = active[slot]
        /\ \A s \in Slots \ {slot} : backup'[s] = backup[s]
    BY <1>1, <1>8 DEF DiskInv, DataTypes, Pair
  <2>3. /\ loc'[p].existed[slot] /\ \A s \in Slots \ {slot} : loc'[p].existed[s] = loc[p].existed[s]
    BY <1>1, <2>1 DEF WorkTypes, Local
  <2>4. DiskInv'
    <3>1. \A t \in Serials : Fresh(t) => Fresh(t)'
      BY <1>1, <2>2 DEF Fresh, Unused
    <3> QED BY <1>1, <1>2, <1>3, <2>2, <3>1 DEF DiskInv, DataTypes, Numbered, Either, RevokedMeansQuarantined,
         QuarantinedPair, OneIssuance, Whole, Replaced
  <2>5. JobFits(p)' /\ NotYetUsed(p)' /\ RevocationFits(p)'
    BY <1>1, <1>2, <1>4, <2>1, <2>2, <2>3 DEF Fits, JobFits, NotYetUsed, RevocationFits,
       At, AtSlot, Early, Unused, InstallSteps, RevokeSteps, RecoverySteps, RestoreSteps, Slots
  <2>6. InstallFits(p)'
    <3>1. ASSUME slot = "key"
          PROVE  (loc[p].existed["cert"] <=> active["cert"] # None)
                 /\ (loc[p].existed["cert"] => backup["cert"] = active["cert"])
      BY <1>1, <3>1 DEF Fits, InstallFits, AtSlot, Slots
    <3>2. \A s \in Slots : (slot = "cert" /\ s = "cert") \/ slot = "key" =>
             /\ loc'[p].existed[s] <=> active[s] # None
             /\ loc'[p].existed[s] => backup'[s] = active[s]
      BY <1>8, <2>2, <2>3, <3>1 DEF Slots
    <3> QED BY <1>1, <1>3, <2>1, <3>2 DEF InstallFits, At, AtSlot, Publishing, Slots
  <2>7. hit \subseteq {"revocation"} => QuietFits(p)' /\ OnePlace'
    BY <1>1, <1>6, <2>1, <2>2, QuietNow DEF QuietFits, At, AtSlot, RecoverySteps, Slots
  <2>8. Installing(p)' /\ loc'[p].pc # "idle"
    BY <2>1 DEF Installing, InstallSteps
  <2> QED BY <1>1, <1>3, <1>8, <2>1, <2>4, <2>5, <2>6, <2>7, <2>8, WorkCounts, Going DEF Fits
<1>9. CASE active[slot] # None /\ backup[slot] # None /\ Works /\ Recover(p) /\ UNCHANGED backup
  <2>1. ~(hit \subseteq {"revocation"})
    BY <1>1, <1>9, QuietNow DEF QuietFits, At, AtSlot, Slots
  <2> QED BY <1>1, <1>2, <1>3, <1>5, <1>9, <2>1, WorkCounts, FaultRecovers
<1>10. CASE Fault(p) /\ Recover(p) /\ UNCHANGED backup
  BY <1>1, <1>2, <1>3, <1>5, <1>10, InstallFault, FaultRecovers
<1> QED BY <1>7, <1>8, <1>9, <1>10 DEF BackupFile

LEMMA EnterPublishingStep ==
    ASSUME IndInv, NEW p \in Procs, EnterPublishing(p)
    PROVE  IndInv'
<1> DEFINE entry == Entry(p, "publishing", loc[p].existed)
<1>1. loc[p].pc = "publishing" /\ ~At(p, "idle") /\ Fits(p) /\ WorkTypes /\ DiskInv
      /\ UNCHANGED <<active, backup, temps, quarantine, rjournal, lock, reader, revoked, serial>>
  BY DEF EnterPublishing, At, IndInv, WorkInv, files, Env
<1>2. loc[p].pc \in InstallSteps /\ loc[p].tx \in Serials /\ loc[p].tx # None /\ loc[p].tx <= serial
      /\ rjournal = None /\ ~Publishing /\ Unused(loc[p].tx)
  BY <1>1, NoneAssumption DEF InstallSteps, Fits, JobFits, NotYetUsed, RevocationFits, InstallFits,
     WorkTypes, Local, At
<1>3. Complete(active)
  BY <1>1, <1>2 DEF DiskInv, OneIssuance, Whole, Complete
<1>4. \A s \in Slots : /\ loc[p].existed[s] \in BOOLEAN
                       /\ loc[p].existed[s] <=> active[s] # None
                       /\ loc[p].existed[s] => backup[s] = active[s]
  BY <1>1 DEF Fits, InstallFits, At, WorkTypes, Local
<1>5. ASSUME journal' = entry
      PROVE  DiskInv' /\ Publishing' /\ Recoverable'
  <2>1. journal' \in Journal /\ journal' # None /\ journal'.phase = "publishing"
        /\ journal'.tx = loc[p].tx /\ journal'.existed = loc[p].existed
    BY <1>1, <1>2, <1>5, EntryIsJournal DEF WorkTypes, Local
  <2>2. loc[p].existed["cert"] = loc[p].existed["key"]
    BY <1>3, <1>4 DEF Complete, Slots
  <2>3. ASSUME loc[p].existed["cert"]
        PROVE  \E t \in Serials \ {journal'.tx} :
                   \A s \in Slots : (t \in Places(s) /\ backup[s] \in {None, t})'
    <3>1. active["cert"] \in Serials /\ active["cert"] # loc[p].tx
      BY <1>1, <1>2, <1>4, <2>3 DEF DiskInv, DataTypes, Pair, File, Unused, Slots
    <3>2. \A s \in Slots : active[s] = active["cert"] /\ backup[s] = active["cert"]
      BY <1>3, <1>4, <2>2, <2>3 DEF Complete, Slots
    <3> QED BY <1>1, <2>1, <3>1, <3>2 DEF Places
  <2>4. Replaced'
    BY <2>1, <2>2, <2>3 DEF Replaced
  <2>5. Numbered'
    BY <1>1, <1>2, <2>1 DEF DiskInv, DataTypes, Numbered, Fresh, Unused, Serials
  <2>6. Recoverable'
    BY <1>1, <1>4, <2>1 DEF Recoverable
  <2> QED BY <1>1, <1>2, <2>1, <2>4, <2>5, <2>6 DEF DiskInv, DataTypes, Either, RevokedMeansQuarantined,
       QuarantinedPair, OneIssuance, Publishing
<1>6. CASE Works /\ journal' = entry /\ Goto(p, "publish")
  <2>1. Becomes(p, "publish", "cert", loc[p].failed)
    BY <1>1, <1>6, GotoBecomes DEF Steps, InstallSteps
  <2>2. entry' = entry
    BY <2>1 DEF Becomes, Entry
  <2>3. Fits(p)'
    BY <1>1, <1>2, <1>4, <1>6, <2>1, <2>2 DEF Becomes, Fits, JobFits, NotYetUsed, RevocationFits, InstallFits,
       At, AtSlot, Early, Unused, InstallSteps, RevokeSteps, RecoverySteps, RestoreSteps
  <2>4. Others(p) /\ loc'[p].pc # "idle" /\ Installing(p)' /\ QuietFits(p)'
    BY <2>1 DEF Becomes, Installing, InstallSteps, QuietFits, At, AtSlot, RecoverySteps
  <2>5. hit \subseteq {"revocation"} => OnePlace'
    BY <1>1, QuietNow DEF OnePlace
  <2> QED BY <1>1, <1>5, <1>6, <2>3, <2>4, <2>5, WorkCounts, Going
<1>7. CASE Fault(p) /\ journal' \in {journal, entry} /\ Recover(p)
  <2>1. DiskInv' /\ Recoverable'
    <3>1. CASE journal' = journal
      BY <1>1, <1>2, <1>7, <3>1, DiskUntouched, InstallFault DEF DiskInv, DataTypes
    <3> QED BY <1>5, <1>7, <3>1
  <2> QED BY <1>1, <1>2, <1>7, <2>1, InstallFault, FaultRecovers
<1> QED BY <1>6, <1>7 DEF EnterPublishing

LEMMA PublishFileStep ==
    ASSUME IndInv, NEW p \in Procs, NEW slot \in Slots, PublishFile(p, slot)
    PROVE  IndInv'
<1>1. loc[p].pc = "publish" /\ loc[p].slot = slot /\ ~At(p, "idle") /\ Fits(p) /\ WorkTypes /\ DiskInv
      /\ UNCHANGED <<backup, quarantine, journal, rjournal, lock, reader, revoked, serial>>
  BY DEF PublishFile, AtSlot, At, IndInv, WorkInv, Env
<1>2. loc[p].pc \in InstallSteps /\ loc[p].tx \in Serials /\ loc[p].tx # None /\ loc[p].tx <= serial
      /\ rjournal = None
  BY <1>1, NoneAssumption DEF InstallSteps, Fits, JobFits, RevocationFits, WorkTypes, Local, At
<1>3. /\ journal # None /\ journal.phase = "publishing" /\ journal.tx = loc[p].tx
      /\ journal.existed = loc[p].existed
      /\ \A s \in Slots : loc[p].existed[s] => backup[s] # None
  BY <1>1, <1>2, EntryIsJournal DEF Fits, InstallFits, WorkTypes, Local
<1>4. CASE Works /\ active' = [active EXCEPT ![slot] = loc[p].tx]
           /\ temps' = temps \ {<<slot, loc[p].tx>>} /\ Advance(p, "published")
  <2>1. IF slot = "cert" THEN Becomes(p, "publish", "key", loc[p].failed)
        ELSE Becomes(p, "published", "cert", loc[p].failed)
    BY <1>1, <1>4, AdvanceBecomes DEF Steps, InstallSteps
  <2>2. active' \in Pair /\ active'[slot] = loc[p].tx /\ \A s \in Slots \ {slot} : active'[s] = active[s]
    BY <1>1, <1>2, <1>4 DEF DiskInv, DataTypes, Pair, File
  <2>3. Numbered'
    BY <1>1, <1>2, <2>2 DEF DiskInv, DataTypes, Numbered, Fresh, Unused, Serials
  <2>4. Replaced'
    <3> SUFFICES ASSUME journal.existed["cert"]
                 PROVE  \E t \in Serials \ {journal.tx} :
                            \A s \in Slots : (t \in Places(s) /\ backup[s] \in {None, t})'
      BY <1>1 DEF DiskInv, Replaced, Publishing
    <3>1. PICK t \in Serials \ {journal.tx} : \A s \in Slots : t \in Places(s) /\ backup[s] \in {None, t}
      BY <1>1, <1>3 DEF DiskInv, Replaced, Publishing
    <3>2. \A s \in Slots : backup[s] = t
      BY <1>1, <1>3, <3>1 DEF DiskInv, Replaced, Publishing, Slots
    <3> QED BY <1>1, <3>1, <3>2 DEF Places
  <2>5. DiskInv'
    BY <1>1, <1>2, <1>3, <1>4, <2>2, <2>3, <2>4 DEF DiskInv, DataTypes, Either, RevokedMeansQuarantined,
       OneIssuance, Publishing
  <2>6. Entry(p, "publishing", loc[p].existed)' = Entry(p, "publishing", loc[p].existed)
    BY <2>1 DEF Becomes, Entry
  <2>7. Fits(p)'
    BY <1>1, <1>2, <2>1, <2>2, <2>6 DEF Becomes, Fits, JobFits, NotYetUsed, RevocationFits, InstallFits,
       At, AtSlot, Early, InstallSteps, RevokeSteps, RecoverySteps, RestoreSteps, Slots
  <2>8. Others(p) /\ loc'[p].pc # "idle" /\ Installing(p)' /\ QuietFits(p)'
    BY <2>1 DEF Becomes, Installing, InstallSteps, QuietFits, At, AtSlot, RecoverySteps
  <2>9. OnePlace => OnePlace'
    BY <1>1, <2>2 DEF OnePlace, Fits, NotYetUsed, Slots
  <2> QED BY <1>1, <1>4, <2>5, <2>7, <2>8, <2>9, Moving
<1>5. CASE Fault(p) /\ Recover(p) /\ UNCHANGED <<active, temps>>
  BY <1>1, <1>2, <1>5, DiskUntouched, InstallFault, FaultRecovers DEF DiskInv, DataTypes
<1> QED BY <1>4, <1>5 DEF PublishFile

LEMMA EnterPublishedStep ==
    ASSUME IndInv, NEW p \in Procs, EnterPublished(p)
    PROVE  IndInv'
<1> DEFINE entry == Entry(p, "published", loc[p].existed)
<1>1. loc[p].pc = "published" /\ ~At(p, "idle") /\ Fits(p) /\ WorkTypes /\ DiskInv
      /\ UNCHANGED <<active, backup, temps, quarantine, rjournal, lock, reader, revoked, serial>>
  BY DEF EnterPublished, At, IndInv, WorkInv, files, Env
<1>2. loc[p].pc \in InstallSteps /\ loc[p].tx # None /\ rjournal = None /\ Complete(active)
      /\ temps' \subseteq Slots \X Serials /\ loc[p].existed \in [Slots -> BOOLEAN]
  BY <1>1 DEF InstallSteps, Fits, JobFits, RevocationFits, InstallFits, WorkTypes, Local, At, Complete,
     DiskInv, DataTypes
<1>3. journal' = entry => DiskInv' /\ journal' # None /\ ~Publishing'
  BY <1>1, <1>2, PhaseRecorded DEF Fits
<1>4. CASE Works /\ journal' = entry /\ Goto(p, "clean")
  <2>1. Becomes(p, "clean", "cert", loc[p].failed)
    BY <1>1, <1>4, GotoBecomes DEF Steps, InstallSteps
  <2>2. Fits(p)'
    BY <1>1, <1>2, <1>3, <1>4, <2>1 DEF Becomes, Fits, JobFits, NotYetUsed, RevocationFits, InstallFits,
       At, AtSlot, Early, InstallSteps, RevokeSteps, RecoverySteps, RestoreSteps
  <2>3. Others(p) /\ loc'[p].pc # "idle" /\ Installing(p)' /\ QuietFits(p)'
    BY <2>1 DEF Becomes, Installing, InstallSteps, QuietFits, At, AtSlot, RecoverySteps
  <2>4. Recoverable' /\ (hit \subseteq {"revocation"} => OnePlace')
    BY <1>1, <1>3, <1>4, QuietNow DEF Recoverable, OnePlace
  <2> QED BY <1>1, <1>3, <1>4, <2>2, <2>3, <2>4, WorkCounts, Going
<1>5. CASE Fault(p) /\ journal' \in {journal, entry} /\ Recover(p)
  <2>1. DiskInv' /\ Recoverable'
    <3>1. CASE journal' = journal
      BY <1>1, <1>2, <1>5, <3>1, DiskUntouched, InstallFault
    <3> QED BY <1>2, <1>3, <1>5, <3>1, InstallFault
  <2> QED BY <1>1, <1>2, <1>5, <2>1, InstallFault, FaultRecovers
<1> QED BY <1>4, <1>5 DEF EnterPublished

LEMMA CleanBackupStep ==
    ASSUME IndInv, NEW p \in Procs, NEW slot \in Slots, CleanBackup(p, slot)
    PROVE  IndInv'
<1>1. loc[p].pc = "clean" /\ loc[p].slot = slot /\ ~At(p, "idle") /\ Fits(p) /\ WorkTypes /\ DiskInv
      /\ UNCHANGED <<active, temps, quarantine, journal, rjournal, lock, reader, revoked, serial>>
  BY DEF CleanBackup, AtSlot, At, IndInv, WorkInv, Env
<1>2. loc[p].pc \in InstallSteps /\ rjournal = None /\ journal # None /\ ~Publishing /\ ~Publishing'
  BY <1>1 DEF InstallSteps, Fits, RevocationFits, InstallFits, Publishing
<1>3. CASE Works /\ backup' = [backup EXCEPT ![slot] = None] /\ Advance(p, "complete")
  <2>1. IF slot = "cert" THEN Becomes(p, "clean", "key", loc[p].failed)
        ELSE Becomes(p, "complete", "cert", loc[p].failed)
    BY <1>1, <1>3, AdvanceBecomes DEF Steps, InstallSteps
  <2>2. /\ backup' \in Pair /\ backup'[slot] = None
        /\ \A s \in Slots : backup'[s] \in {backup[s], None}
        /\ \A s \in Slots \ {slot} : backup'[s] = backup[s]
    BY <1>1, <1>3 DEF DiskInv, DataTypes, Pair, File
  <2>3. \A t \in Serials : Fresh(t) => Fresh(t)'
    BY <1>1, <2>2, NoneAssumption DEF Fresh, Unused, Serials
  <2>4. DiskInv'
    BY <1>1, <1>2, <2>2, <2>3 DEF DiskInv, DataTypes, Numbered, Either, QuarantinedPair,
       RevokedMeansQuarantined, OneIssuance, Whole, Replaced
  <2>5. Fits(p)'
    BY <1>1, <1>2, <2>1 DEF Becomes, Fits, JobFits, NotYetUsed, RevocationFits, InstallFits, Publishing,
       At, AtSlot, Early, InstallSteps, RevokeSteps, RecoverySteps, RestoreSteps
  <2>6. Others(p) /\ loc'[p].pc # "idle" /\ Installing(p)' /\ Recoverable'
    BY <1>2, <2>1 DEF Becomes, Installing, InstallSteps, Recoverable
  <2>7. hit \subseteq {"revocation"} => QuietFits(p)' /\ OnePlace'
    BY <1>1, <2>1, <2>2, QuietNow DEF Becomes, QuietFits, At, AtSlot, RecoverySteps, Slots, OnePlace
  <2> QED BY <1>1, <1>3, <2>4, <2>5, <2>6, <2>7, WorkCounts, Going
<1>4. CASE Fault(p) /\ Recover(p) /\ UNCHANGED backup
  BY <1>1, <1>2, <1>4, DiskUntouched, InstallFault, FaultRecovers DEF DiskInv, DataTypes
<1> QED BY <1>3, <1>4 DEF CleanBackup

LEMMA CompleteInstallStep ==
    ASSUME IndInv, NEW p \in Procs, CompleteInstall(p)
    PROVE  IndInv'
<1>1. loc[p].pc = "complete" /\ ~At(p, "idle") /\ Fits(p) /\ WorkTypes /\ DiskInv
      /\ UNCHANGED <<active, backup, temps, quarantine, rjournal, reader, revoked, serial>>
  BY DEF CompleteInstall, At, IndInv, WorkInv, files, Env
<1>2. loc[p].pc \in InstallSteps /\ rjournal = None /\ ~Publishing
  BY <1>1 DEF InstallSteps, Fits, RevocationFits, InstallFits
<1>3. Complete(active)
  BY <1>1, <1>2 DEF DiskInv, OneIssuance, Whole, Complete
<1>4. journal' = None => DiskInv' /\ ~Publishing' /\ Recoverable'
  BY <1>1, <1>2, <1>3, JournalCleared DEF Recoverable
<1>5. CASE Works /\ journal' = None /\ Finish(p)
  <2>1. hit \subseteq {"revocation"} => (backup = NoPair /\ OnePlace)'
    <3> SUFFICES ASSUME hit \subseteq {"revocation"} PROVE backup = NoPair /\ OnePlace'
      BY <1>1
    <3>1. backup["cert"] = None /\ backup["key"] = None /\ OnePlace
      BY <1>1, QuietNow DEF QuietFits, At
    <3> QED BY <1>1, <3>1 DEF NoPair, Slots, DiskInv, DataTypes, Pair, OnePlace
  <2> QED BY <1>1, <1>4, <1>5, <2>1, WorkCounts, Ended
<1>6. CASE Fault(p) /\ journal' \in {journal, None} /\ Recover(p) /\ UNCHANGED lock
  <2>1. DiskInv' /\ Recoverable'
    <3>1. CASE journal' = journal
      BY <1>1, <1>2, <1>6, <3>1, DiskUntouched, InstallFault DEF DiskInv, DataTypes
    <3> QED BY <1>4, <1>6, <3>1
  <2> QED BY <1>1, <1>2, <1>6, <2>1, InstallFault, FaultRecovers
<1> QED BY <1>5, <1>6 DEF CompleteInstall

-----------------------------------------------------------------------------
(* revoke_instant_acme_certificate                                         *)

(* A phase of the revocation is recorded where the files agree with it.    *)
LEMMA RevocationRecorded ==
    ASSUME DiskInv, WorkTypes, NEW p \in Procs, loc[p].tx \in Serials, loc[p].tx <= serial,
           NEW phase \in {"prepared", "quarantined", "pending", "confirmed"},
           rjournal' = Revocation(p, phase),
           UNCHANGED <<active, backup, temps, quarantine, journal, revoked, serial>>,
           \A s \in Slots : active[s] = None <=> quarantine[loc[p].tx][s] # None,
           phase = "confirmed" => QuarantinedPair(loc[p].tx),
           rjournal # None => rjournal.tx = loc[p].tx,
           rjournal = None => \A s \in Slots : quarantine[loc[p].tx][s] = None,
           \/ \A x \in revoked : x.by # loc[p].tx
           \/ phase \in {"pending", "confirmed"} /\ QuarantinedPair(loc[p].tx)
    PROVE  DiskInv' /\ rjournal' # None
<1>1. rjournal' \in RevocationJournal /\ rjournal' # None
      /\ rjournal'.phase = phase /\ rjournal'.tx = loc[p].tx
  BY JournalAssumption DEF Revocation, RevocationJournal
<1>2. DataTypes' /\ Numbered'
  BY <1>1 DEF DiskInv, DataTypes, Numbered, Fresh, Unused, Serials
<1>3. Either' /\ RevokedMeansQuarantined'
  BY <1>1 DEF Either, RevokedMeansQuarantined, QuarantinedPair
<1>4. OneIssuance' /\ Replaced'
  BY <1>1 DEF DiskInv, OneIssuance, Whole, Publishing, Replaced, Places, Slots
<1> QED BY <1>1, <1>2, <1>3, <1>4 DEF DiskInv

(* What is known of a revocation under way.                                *)
LEMMA RevokingNow ==
    ASSUME IndInv, NEW p \in Procs, loc[p].pc \in RevokeSteps
    PROVE  /\ ~At(p, "idle") /\ Fits(p) /\ WorkTypes /\ DiskInv /\ ~Installing(p)
           /\ loc[p].tx \in Serials /\ loc[p].tx <= serial /\ loc[p].job = "revoke" /\ ~loc[p].failed
           /\ loc[p].pc \notin {"ri_restore", "ri_temps", "ri_clear"}
           /\ loc[p].pc # "rv_begin" => rjournal # None /\ rjournal.tx = loc[p].tx
<1>1. ~At(p, "idle") /\ Fits(p) /\ WorkTypes /\ DiskInv /\ ~Installing(p)
      /\ loc[p].pc \notin {"ri_restore", "ri_temps", "ri_clear"}
  BY DEF IndInv, WorkInv, At, Installing, RevokeSteps, InstallSteps
<1>2. loc[p].tx \in Serials /\ loc[p].tx <= serial /\ loc[p].job = "revoke" /\ ~loc[p].failed
  BY <1>1 DEF Fits, JobFits, WorkTypes, Local
<1>3. \A phase \in {"prepared", "quarantined", "pending", "confirmed"} :
          Revocation(p, phase) # None /\ Revocation(p, phase).tx = loc[p].tx
  BY <1>2, JournalAssumption DEF Revocation, RevocationJournal
<1>4. loc[p].pc # "rv_begin" => rjournal # None /\ rjournal.tx = loc[p].tx
  BY <1>1, <1>3 DEF Fits, RevocationFits, RevokeSteps, At
<1> QED BY <1>1, <1>2, <1>4

(* A failure of a revocation that goes on.                                 *)
LEMMA RevocationFault ==
    ASSUME IndInv, NEW p \in Procs, loc[p].pc \in RevokeSteps, Fault(p), UNCHANGED <<journal, backup>>
    PROVE  /\ faults' \in 0..MaxFaults /\ hit' \subseteq {"install", "recovery", "revocation"}
           /\ Recoverable'
           /\ hit' \subseteq {"revocation"} => OnePlace /\ (journal = None /\ backup = NoPair)'
<1>1. loc[p].pc \in Steps
  BY DEF IndInv, WorkInv, WorkTypes, Local, Steps
<1>2. hit' = hit \cup {"revocation"} /\ faults' \in 0..MaxFaults
      /\ hit' \subseteq {"install", "recovery", "revocation"}
  BY <1>1, FaultCounts, WorkOf
<1>3. \A s \in Slots : ~Taken(s)
  BY RevokingNow, AtWork DEF Taken, AtSlot
<1>4. Recoverable'
  BY <1>2, <1>3 DEF IndInv, WorkInv, Recoverable, Publishing
<1> QED BY <1>2, <1>4, RevokingNow, QuietNow

LEMMA BeginQuarantineStep ==
    ASSUME IndInv, NEW p \in Procs, BeginQuarantine(p)
    PROVE  IndInv'
<1>1. loc[p].pc = "rv_begin" /\ loc[p].pc \in RevokeSteps
      /\ UNCHANGED <<active, backup, temps, quarantine, journal, reader, revoked, serial>>
  BY DEF BeginQuarantine, At, files, Env, RevokeSteps
<1>2. rjournal = None /\ Fresh(loc[p].tx) /\ (OnePlace => OnePlace')
  BY <1>1, RevokingNow, NoneAssumption DEF Fits, RevocationFits, NotYetUsed, Early, OnePlace, Serials
<1>3. UNCHANGED rjournal => DiskInv'
  BY <1>1, RevokingNow, DiskUntouched DEF DiskInv, DataTypes
<1>4. ASSUME \A s \in Slots : active[s] # None, rjournal' = Revocation(p, "prepared")
      PROVE  DiskInv'
  BY <1>1, <1>2, <1>4, RevokingNow, RevocationRecorded DEF Fresh, NoPair
<1>5. CASE Works /\ Finish(p) /\ UNCHANGED rjournal
  BY <1>1, <1>2, <1>3, <1>5, RevokingNow, Halting
<1>6. CASE /\ \A s \in Slots : active[s] # None
           /\ Works /\ rjournal' = Revocation(p, "prepared") /\ Goto(p, "rv_move") /\ UNCHANGED lock
  <2>1. Becomes(p, "rv_move", "cert", loc[p].failed)
    BY <1>1, <1>6, RevokingNow, GotoBecomes DEF Steps, RevokeSteps
  <2>2. Revocation(p, "prepared")' = Revocation(p, "prepared")
    BY <2>1 DEF Becomes, Revocation
  <2>3. Fits(p)'
    BY <1>1, <1>2, <1>6, <2>1, <2>2, RevokingNow DEF Becomes, Fits, JobFits, NotYetUsed, RevocationFits, InstallFits, Fresh,
       At, AtSlot, Early, InstallSteps, RevokeSteps, RecoverySteps, RestoreSteps, Slots
  <2>4. Others(p) /\ loc'[p].pc # "idle" /\ QuietFits(p)'
    BY <2>1 DEF Becomes, QuietFits, At, AtSlot, RecoverySteps
  <2> QED BY <1>1, <1>2, <1>4, <1>6, <2>3, <2>4, RevokingNow, Moving
<1>7. CASE /\ \A s \in Slots : active[s] # None
           /\ Fault(p) /\ rjournal' \in {rjournal, Revocation(p, "prepared")} /\ Finish(p)
  BY <1>1, <1>2, <1>3, <1>4, <1>7, RevokingNow, FaultEnds
<1> QED BY <1>5, <1>6, <1>7 DEF BeginQuarantine

LEMMA QuarantineFileStep ==
    ASSUME IndInv, NEW p \in Procs, NEW slot \in Slots, QuarantineFile(p, slot)
    PROVE  IndInv'
<1> DEFINE tx == loc[p].tx
<1>1. loc[p].pc = "rv_move" /\ loc[p].slot = slot /\ loc[p].pc \in RevokeSteps
      /\ UNCHANGED <<backup, temps, journal, rjournal, reader, revoked, serial>>
  BY DEF QuarantineFile, AtSlot, Env, RevokeSteps
<1>2. ~At(p, "idle") /\ Fits(p) /\ WorkTypes /\ DiskInv /\ ~Installing(p)
      /\ tx \in Serials /\ tx <= serial /\ rjournal # None /\ rjournal.tx = tx
      /\ rjournal = Revocation(p, "prepared") /\ active[slot] # None
      /\ \A x \in revoked : x.by # tx
  BY <1>1, RevokingNow DEF Fits, RevocationFits, At, AtSlot, Slots
<1> HIDE DEF tx
<1>3. rjournal.phase = "prepared"
  BY <1>2 DEF Revocation
<1>4. UNCHANGED <<active, quarantine>> => DiskInv' /\ (OnePlace => OnePlace')
  BY <1>1, <1>2, DiskUntouched DEF DiskInv, DataTypes, OnePlace
<1>5. CASE /\ Works
           /\ quarantine' = [quarantine EXCEPT ![loc[p].tx][slot] = active[slot]]
           /\ active' = [active EXCEPT ![slot] = None]
           /\ Advance(p, "rv_paired") /\ UNCHANGED lock
  <2>1. IF slot = "cert" THEN Becomes(p, "rv_move", "key", loc[p].failed)
        ELSE Becomes(p, "rv_paired", "cert", loc[p].failed)
    BY <1>1, <1>2, <1>5, AdvanceBecomes DEF Steps, RevokeSteps
  <2>2. /\ active' \in Pair /\ quarantine' \in [Serials -> Pair] /\ active'[slot] = None
        /\ \A s \in Slots \ {slot} : active'[s] = active[s]
        /\ \A t \in Serials, s \in Slots : quarantine'[t][s] =
               IF t = tx /\ s = slot THEN active[slot] ELSE quarantine[t][s]
    BY <1>2, <1>5 DEF DiskInv, DataTypes, Pair, File, tx
  <2>3. \A t \in Serials \ {tx} : Fresh(t) => Fresh(t)'
    BY <1>1, <1>2, <2>2, NoneAssumption DEF Fresh, Unused, NoPair, DiskInv, DataTypes, Pair, Serials
  <2>4. DataTypes' /\ Numbered' /\ Either' /\ RevokedMeansQuarantined'
    <3>1. Numbered'
      BY <1>1, <1>2, <2>2, <2>3 DEF DiskInv, DataTypes, Numbered, Serials, Slots
    <3> QED BY <1>1, <1>2, <1>3, <2>2, <3>1 DEF DiskInv, DataTypes, Either, RevokedMeansQuarantined
  <2>5. OneIssuance'
    BY <1>1, <1>2, <2>2 DEF DiskInv, Either, OneIssuance, Whole, Publishing, Slots
  <2>6. Replaced'
    BY <1>1, <1>2, <2>2, NoneAssumption DEF DiskInv, Replaced, Publishing, Places, Serials, Either
  <2>7. OnePlace => OnePlace'
    BY <1>1, <1>2, <2>2 DEF OnePlace, Slots
  <2>8. Revocation(p, "prepared")' = Revocation(p, "prepared") /\ loc'[p].tx = tx
    BY <2>1 DEF Becomes, Revocation, tx
  <2>9. slot = "key" => QuarantinedPair(loc[p].tx)'
    <3> SUFFICES ASSUME slot = "key" PROVE QuarantinedPair(loc[p].tx)'
      OBVIOUS
    <3>1. active["cert"] = None /\ quarantine[tx]["cert"] # None
      BY <1>1, <1>2 DEF Fits, RevocationFits, AtSlot, DiskInv, Either, Slots
    <3> QED BY <1>2, <2>2, <2>8, <3>1 DEF QuarantinedPair, Slots
  <2>10. JobFits(p)' /\ NotYetUsed(p)' /\ InstallFits(p)'
    BY <1>1, <1>2, <2>1 DEF Becomes, Fits, JobFits, NotYetUsed, InstallFits,
       At, AtSlot, Early, InstallSteps, RevokeSteps, RecoverySteps, RestoreSteps
  <2>11. RevocationFits(p)'
    <3>1. rjournal' = Revocation(p, "prepared")' /\ \A x \in revoked' : x.by # loc'[p].tx
      BY <1>1, <1>2, <2>8
    <3>2. slot = "cert" => active'["key"] # None
      BY <1>1, <1>2, <2>2 DEF Fits, RevocationFits, At, Slots
    <3> QED BY <2>1, <2>2, <2>9, <3>1, <3>2 DEF Becomes, RevocationFits,
         At, AtSlot, InstallSteps, RecoverySteps, Slots
  <2>12. Others(p) /\ loc'[p].pc # "idle" /\ QuietFits(p)'
    BY <2>1 DEF Becomes, QuietFits, At, AtSlot, RecoverySteps
  <2> QED BY <1>1, <1>2, <1>5, <2>4, <2>5, <2>6, <2>7, <2>10, <2>11, <2>12, Moving DEF DiskInv, Fits
<1>6. CASE Fault(p) /\ UNCHANGED <<active, quarantine>> /\ Finish(p)
  BY <1>1, <1>2, <1>4, <1>6, FaultEnds
<1>7. CASE Fault(p) /\ UNCHANGED <<active, quarantine>> /\ slot = "key" /\ Goto(p, "rv_undo") /\ UNCHANGED lock
  <2>1. Becomes(p, "rv_undo", "cert", loc[p].failed)
    BY <1>1, <1>2, <1>7, GotoBecomes DEF Steps, RevokeSteps
  <2>2. Revocation(p, "prepared")' = Revocation(p, "prepared")
    BY <2>1 DEF Becomes, Revocation
  <2>3. Fits(p)'
    BY <1>1, <1>2, <1>7, <2>1, <2>2 DEF Becomes, Fits, JobFits, NotYetUsed, RevocationFits, InstallFits,
       At, AtSlot, Early, InstallSteps, RevokeSteps, RecoverySteps, RestoreSteps
  <2>4. Others(p) /\ loc'[p].pc # "idle" /\ QuietFits(p)'
    BY <2>1 DEF Becomes, QuietFits, At, AtSlot, RecoverySteps
  <2> QED BY <1>1, <1>2, <1>4, <1>7, <2>3, <2>4, RevocationFault, Going
<1> QED BY <1>5, <1>6, <1>7 DEF QuarantineFile, Leave, Slots

LEMMA UndoQuarantineStep ==
    ASSUME IndInv, NEW p \in Procs, UndoQuarantine(p)
    PROVE  IndInv'
<1> DEFINE tx == loc[p].tx
<1>1. loc[p].pc = "rv_undo" /\ loc[p].pc \in RevokeSteps /\ Finish(p)
      /\ UNCHANGED <<backup, temps, journal, reader, revoked, serial>>
  BY DEF UndoQuarantine, At, Env, RevokeSteps
<1>2. ~At(p, "idle") /\ Fits(p) /\ WorkTypes /\ DiskInv /\ ~Installing(p)
      /\ tx \in Serials /\ tx <= serial /\ rjournal # None /\ rjournal.tx = tx
      /\ rjournal = Revocation(p, "prepared") /\ active["cert"] = None /\ active["key"] # None
      /\ \A x \in revoked : x.by # tx
  BY <1>1, RevokingNow DEF Fits, RevocationFits, At
<1> HIDE DEF tx
<1>3. rjournal.phase = "prepared" /\ quarantine[tx]["cert"] # None /\ quarantine[tx]["key"] = None
  BY <1>2 DEF Revocation, DiskInv, Either, Slots
<1>4. ASSUME active' = [active EXCEPT !["cert"] = quarantine[loc[p].tx]["cert"]],
             quarantine' = [quarantine EXCEPT ![loc[p].tx]["cert"] = None],
             rjournal' \in {rjournal, None}
      PROVE  DiskInv' /\ (OnePlace => OnePlace')
  <2>1. /\ active' \in Pair /\ quarantine' \in [Serials -> Pair]
        /\ active'["cert"] = quarantine[tx]["cert"] /\ active'["key"] = active["key"]
        /\ \A t \in Serials, s \in Slots : quarantine'[t][s] =
               IF t = tx /\ s = "cert" THEN None ELSE quarantine[t][s]
    BY <1>2, <1>4 DEF DiskInv, DataTypes, Pair, File, Slots, tx
  <2>2. \A t \in Serials : Fresh(t) => Fresh(t)'
    BY <1>1, <1>2, <1>4, <2>1 DEF Fresh, Unused, NoPair, DiskInv, DataTypes, Pair, Slots
  <2>3. DataTypes' /\ Numbered' /\ Either' /\ RevokedMeansQuarantined'
    BY <1>1, <1>2, <1>3, <1>4, <2>1, <2>2 DEF DiskInv, DataTypes, Numbered, Either, RevokedMeansQuarantined,
       Slots
  <2>4. OneIssuance'
    BY <1>1, <1>2, <1>3, <1>4, <2>1 DEF DiskInv, OneIssuance, Whole, Publishing, Slots
  <2>5. Replaced'
    BY <1>1, <1>2, <2>1, NoneAssumption DEF DiskInv, Replaced, Publishing, Places, Serials, Slots
  <2>6. OnePlace => OnePlace'
    BY <1>2, <2>1 DEF OnePlace, Slots
  <2> QED BY <2>3, <2>4, <2>5, <2>6 DEF DiskInv
<1>5. UNCHANGED <<active, quarantine, rjournal>> => DiskInv' /\ (OnePlace => OnePlace')
  BY <1>1, <1>2, DiskUntouched DEF DiskInv, DataTypes, OnePlace
<1>6. CASE Works
  BY <1>1, <1>2, <1>4, <1>5, <1>6, Halting DEF UndoQuarantine
<1>7. CASE Fault(p)
  BY <1>1, <1>2, <1>4, <1>5, <1>7, FaultEnds DEF UndoQuarantine
<1> QED BY <1>6, <1>7 DEF UndoQuarantine

(* A revocation that goes on with its files as they are.                   *)
LEMMA RevocationGoesOn ==
    ASSUME IndInv, NEW p \in Procs, loc[p].pc \in RevokeSteps, NEW step \in RevokeSteps,
           Works, Goto(p, step), DiskInv', RevocationFits(p)',
           step \notin {"rv_begin"},
           UNCHANGED <<active, backup, quarantine, journal, lock, reader, serial>>
    PROVE  IndInv'
<1>1. Becomes(p, step, "cert", loc[p].failed)
  BY RevokingNow, GotoBecomes DEF Steps
<1>2. JobFits(p)' /\ NotYetUsed(p)' /\ InstallFits(p)'
  BY <1>1, RevokingNow DEF Becomes, Fits, JobFits, NotYetUsed, InstallFits,
     At, AtSlot, Early, InstallSteps, RevokeSteps, RecoverySteps, RestoreSteps
<1>3. Others(p) /\ loc'[p].pc # "idle" /\ QuietFits(p)' /\ (OnePlace => OnePlace')
  BY <1>1 DEF Becomes, QuietFits, At, AtSlot, RecoverySteps, RevokeSteps, OnePlace
<1> QED BY <1>2, <1>3, RevokingNow, Moving DEF Fits

(* The guard is dropped before the CA is contacted: the pair comes back.   *)
LEMMA FaultDrops ==
    ASSUME IndInv, NEW p \in Procs, loc[p].pc \in {"rv_read", "rv_pending"},
           Fault(p), Drop(p), DiskInv', rjournal' \in {rjournal, Revocation(p, "pending")},
           UNCHANGED <<active, backup, quarantine, journal, reader, revoked, serial>>
    PROVE  IndInv'
<1>1. loc[p].pc \in RevokeSteps
  BY DEF RevokeSteps
<1>2. Becomes(p, "rr_restore", "cert", TRUE)
  BY <1>1, RevokingNow, DropBecomes
<1>3. UNCHANGED lock
  BY DEF Drop
<1>4. rjournal' # None /\ rjournal'.tx = loc[p].tx /\ rjournal'.phase \in {"quarantined", "pending"}
  <2>1. rjournal = Revocation(p, "quarantined")
    BY <1>1, RevokingNow DEF Fits, RevocationFits
  <2> QED BY <1>1, <2>1, RevokingNow, JournalAssumption DEF Revocation, RevocationJournal
<1>5. \A x \in revoked' : x.by # rjournal'.tx
  BY <1>1, <1>4, RevokingNow DEF Fits, RevocationFits
<1>6. Fits(p)'
  BY <1>1, <1>2, <1>4, <1>5, RevokingNow DEF Becomes, Fits, JobFits, NotYetUsed, RevocationFits, InstallFits,
     At, AtSlot, Early, InstallSteps, RevokeSteps, RecoverySteps, RestoreSteps
<1>7. Others(p) /\ loc'[p].pc # "idle" /\ QuietFits(p)' /\ (OnePlace => OnePlace')
  BY <1>2 DEF Becomes, QuietFits, At, AtSlot, RecoverySteps, RevokeSteps, OnePlace
<1> QED BY <1>1, <1>6, <1>7, <1>3, RevokingNow, RevocationFault, Going

(* The steps from the moved pair to the removal of the journal: what they  *)
(* record, and that the files agree with it.                               *)
LEMMA PhaseOfRevocation ==
    ASSUME IndInv, NEW p \in Procs, NEW phase \in {"quarantined", "pending", "confirmed"},
           loc[p].pc \in {"rv_paired", "rv_read", "rv_pending", "rv_remote", "rv_confirm", "rv_complete"},
           rjournal' = Revocation(p, phase),
           loc[p].pc \in {"rv_confirm", "rv_complete"} => phase # "quarantined",
           UNCHANGED <<active, backup, temps, quarantine, journal, revoked, serial>>
    PROVE  DiskInv'
<1>1. loc[p].pc \in RevokeSteps /\ loc[p].pc # "rv_begin"
  BY DEF RevokeSteps
<1>2. QuarantinedPair(loc[p].tx)
      /\ (phase = "quarantined" => \A x \in revoked : x.by # loc[p].tx)
  BY <1>1, RevokingNow DEF Fits, RevocationFits
<1> QED BY <1>1, <1>2, RevokingNow, RevocationRecorded DEF QuarantinedPair

LEMMA EnterQuarantinedStep ==
    ASSUME IndInv, NEW p \in Procs, EnterQuarantined(p)
    PROVE  IndInv'
<1>1. loc[p].pc = "rv_paired" /\ loc[p].pc \in RevokeSteps
      /\ UNCHANGED <<active, backup, temps, quarantine, journal, reader, revoked, serial>>
  BY DEF EnterQuarantined, At, files, Env, RevokeSteps
<1>2. rjournal' \in {rjournal, Revocation(p, "quarantined")} => DiskInv'
  BY <1>1, RevokingNow, DiskUntouched, PhaseOfRevocation DEF DiskInv, DataTypes
<1>3. CASE Works /\ rjournal' = Revocation(p, "quarantined") /\ Goto(p, "rv_read") /\ UNCHANGED lock
  <2>1. Becomes(p, "rv_read", "cert", loc[p].failed)
    BY <1>1, <1>3, RevokingNow, GotoBecomes DEF Steps, RevokeSteps
  <2>2. RevocationFits(p)'
    BY <1>1, <1>3, <2>1, RevokingNow DEF Becomes, Fits, RevocationFits, Revocation, QuarantinedPair,
       At, AtSlot, InstallSteps, RecoverySteps
  <2> QED BY <1>1, <1>2, <1>3, <2>2, RevocationGoesOn DEF RevokeSteps
<1>4. CASE Fault(p) /\ rjournal' \in {rjournal, Revocation(p, "quarantined")} /\ Finish(p)
  BY <1>1, <1>2, <1>4, RevokingNow, FaultEnds DEF OnePlace
<1> QED BY <1>3, <1>4 DEF EnterQuarantined

LEMMA ReadQuarantinedStep ==
    ASSUME IndInv, NEW p \in Procs, ReadQuarantined(p)
    PROVE  IndInv'
<1>1. loc[p].pc = "rv_read" /\ loc[p].pc \in RevokeSteps
      /\ UNCHANGED <<active, backup, temps, quarantine, journal, rjournal, reader, revoked, serial>>
  BY DEF ReadQuarantined, At, files, Env, RevokeSteps
<1>2. DiskInv'
  BY <1>1, RevokingNow, DiskUntouched DEF DiskInv, DataTypes
<1>3. CASE Works /\ Goto(p, "rv_pending") /\ UNCHANGED lock
  <2>1. Becomes(p, "rv_pending", "cert", loc[p].failed)
    BY <1>1, <1>3, RevokingNow, GotoBecomes DEF Steps, RevokeSteps
  <2>2. RevocationFits(p)'
    BY <1>1, <1>3, <2>1, RevokingNow DEF Becomes, Fits, RevocationFits, Revocation, QuarantinedPair,
       At, AtSlot, InstallSteps, RecoverySteps
  <2> QED BY <1>1, <1>2, <1>3, <2>2, RevocationGoesOn DEF RevokeSteps
<1>4. CASE Fault(p) /\ Drop(p)
  BY <1>1, <1>2, <1>4, FaultDrops
<1> QED BY <1>3, <1>4 DEF ReadQuarantined

LEMMA MarkRemotePendingStep ==
    ASSUME IndInv, NEW p \in Procs, MarkRemotePending(p)
    PROVE  IndInv'
<1>1. loc[p].pc = "rv_pending" /\ loc[p].pc \in RevokeSteps
      /\ UNCHANGED <<active, backup, temps, quarantine, journal, reader, revoked, serial>>
  BY DEF MarkRemotePending, At, files, Env, RevokeSteps
<1>2. rjournal' \in {rjournal, Revocation(p, "pending")} => DiskInv'
  BY <1>1, RevokingNow, DiskUntouched, PhaseOfRevocation DEF DiskInv, DataTypes
<1>3. CASE Works /\ rjournal' = Revocation(p, "pending") /\ Goto(p, "rv_remote") /\ UNCHANGED lock
  <2>1. Becomes(p, "rv_remote", "cert", loc[p].failed)
    BY <1>1, <1>3, RevokingNow, GotoBecomes DEF Steps, RevokeSteps
  <2>2. RevocationFits(p)'
    BY <1>1, <1>3, <2>1, RevokingNow DEF Becomes, Fits, RevocationFits, Revocation, QuarantinedPair,
       At, AtSlot, InstallSteps, RecoverySteps
  <2> QED BY <1>1, <1>2, <1>3, <2>2, RevocationGoesOn DEF RevokeSteps
<1>4. CASE Fault(p) /\ rjournal' \in {rjournal, Revocation(p, "pending")} /\ Drop(p)
  BY <1>1, <1>2, <1>4, FaultDrops
<1> QED BY <1>3, <1>4 DEF MarkRemotePending

LEMMA ContactCAStep ==
    ASSUME IndInv, NEW p \in Procs, ContactCA(p)
    PROVE  IndInv'
<1> DEFINE leaf == [cert |-> quarantine[loc[p].tx]["cert"], by |-> loc[p].tx]
<1>1. loc[p].pc = "rv_remote" /\ loc[p].pc \in RevokeSteps
      /\ UNCHANGED <<active, backup, temps, quarantine, journal, rjournal, reader, serial>>
  BY DEF ContactCA, At, files, RevokeSteps
<1>2. ~At(p, "idle") /\ DiskInv /\ Fits(p) /\ ~Installing(p) /\ loc[p].tx \in Serials /\ loc[p].tx <= serial
      /\ rjournal = Revocation(p, "pending") /\ QuarantinedPair(loc[p].tx)
  BY <1>1, RevokingNow DEF Fits, RevocationFits
<1>3. rjournal.phase = "pending" /\ rjournal.tx = loc[p].tx
  BY <1>2 DEF Revocation
<1>4. leaf \in [cert : Serials, by : Serials] /\ leaf.by = loc[p].tx /\ leaf.cert = quarantine[loc[p].tx]["cert"]
  BY <1>2 DEF QuarantinedPair, DiskInv, DataTypes, Pair, File, Slots
<1> HIDE DEF leaf
<1>5. revoked' \in {revoked, revoked \cup {leaf}} => DiskInv'
  <2> SUFFICES ASSUME revoked' \in {revoked, revoked \cup {leaf}} PROVE DiskInv'
    OBVIOUS
  <2>1. DataTypes' /\ Numbered'
    BY <1>1, <1>2, <1>4 DEF DiskInv, DataTypes, Numbered, Fresh, Unused, Serials
  <2>2. RevokedMeansQuarantined'
    BY <1>1, <1>2, <1>3, <1>4 DEF DiskInv, RevokedMeansQuarantined, QuarantinedPair
  <2> QED BY <1>1, <1>2, <2>1, <2>2 DEF DiskInv, Either, QuarantinedPair, OneIssuance, Whole, Publishing,
       Replaced, Places
<1>6. CASE Works /\ revoked' = revoked \cup {leaf} /\ Goto(p, "rv_confirm") /\ UNCHANGED lock
  <2>1. Becomes(p, "rv_confirm", "cert", loc[p].failed)
    BY <1>1, <1>6, RevokingNow, GotoBecomes DEF Steps, RevokeSteps
  <2>2. RevocationFits(p)'
    BY <1>1, <1>2, <2>1 DEF Becomes, RevocationFits, Revocation, QuarantinedPair,
       At, AtSlot, InstallSteps, RecoverySteps
  <2> QED BY <1>1, <1>5, <1>6, <2>2, RevocationGoesOn DEF RevokeSteps
<1>7. CASE Fault(p) /\ revoked' \in {revoked, revoked \cup {leaf}} /\ Finish(p)
  BY <1>1, <1>2, <1>5, <1>7, FaultEnds DEF OnePlace
<1> QED BY <1>6, <1>7 DEF ContactCA, leaf

LEMMA MarkRemoteConfirmedStep ==
    ASSUME IndInv, NEW p \in Procs, MarkRemoteConfirmed(p)
    PROVE  IndInv'
<1>1. loc[p].pc = "rv_confirm" /\ loc[p].pc \in RevokeSteps
      /\ UNCHANGED <<active, backup, temps, quarantine, journal, reader, revoked, serial>>
  BY DEF MarkRemoteConfirmed, At, files, Env, RevokeSteps
<1>2. rjournal' \in {rjournal, Revocation(p, "confirmed")} => DiskInv'
  BY <1>1, RevokingNow, DiskUntouched, PhaseOfRevocation DEF DiskInv, DataTypes
<1>3. CASE Works /\ rjournal' = Revocation(p, "confirmed") /\ Goto(p, "rv_complete") /\ UNCHANGED lock
  <2>1. Becomes(p, "rv_complete", "cert", loc[p].failed)
    BY <1>1, <1>3, RevokingNow, GotoBecomes DEF Steps, RevokeSteps
  <2>2. RevocationFits(p)'
    BY <1>1, <1>3, <2>1, RevokingNow DEF Becomes, Fits, RevocationFits, Revocation, QuarantinedPair,
       At, AtSlot, InstallSteps, RecoverySteps
  <2> QED BY <1>1, <1>2, <1>3, <2>2, RevocationGoesOn DEF RevokeSteps
<1>4. CASE Fault(p) /\ rjournal' \in {rjournal, Revocation(p, "confirmed")} /\ Finish(p)
  BY <1>1, <1>2, <1>4, RevokingNow, FaultEnds DEF OnePlace
<1> QED BY <1>3, <1>4 DEF MarkRemoteConfirmed

LEMMA CompleteRevocationStep ==
    ASSUME IndInv, NEW p \in Procs, CompleteRevocation(p)
    PROVE  IndInv'
<1>1. loc[p].pc = "rv_complete" /\ loc[p].pc \in RevokeSteps /\ Finish(p)
      /\ rjournal' \in {rjournal, None}
      /\ UNCHANGED <<active, backup, temps, quarantine, journal, reader, revoked, serial>>
  BY DEF CompleteRevocation, At, files, Env, RevokeSteps
<1>2. DiskInv'
  <2>1. \A s \in Slots : active[s] = None
    BY <1>1, RevokingNow DEF Fits, RevocationFits, QuarantinedPair
  <2> QED BY <1>1, <2>1, RevokingNow, DiskUntouched, RevocationCleared DEF DiskInv, DataTypes
<1>3. CASE Works
  BY <1>1, <1>2, <1>3, RevokingNow, Halting DEF OnePlace
<1>4. CASE Fault(p)
  BY <1>1, <1>2, <1>4, RevokingNow, FaultEnds DEF OnePlace
<1> QED BY <1>3, <1>4 DEF CompleteRevocation

-----------------------------------------------------------------------------
(* The lock is taken only when it is free, and no reader is at work.       *)
LEMMA StartStep ==
    ASSUME IndInv, NEW p \in Procs, NEW job \in {"install", "doctor", "revoke"}, Start(p, job)
    PROVE  IndInv'
<1> DEFINE tx == IF job = "doctor" THEN None ELSE serial + 1
           next == [Idle EXCEPT !.pc = "rr_read", !.job = job, !.tx = tx]
<1>1. lock = None /\ lock' = p /\ p # None /\ UNCHANGED <<active, backup, temps, quarantine, journal, rjournal>>
      /\ UNCHANGED <<reader, revoked, faults, hit>> /\ WorkTypes /\ DiskInv /\ Recoverable
  BY NoneAssumption DEF Start, LockFree, files, trouble, IndInv, WorkInv
<1>2. \A q \in Procs : loc[q].pc = "idle"
  BY <1>1, NoneAssumption DEF IndInv, WorkInv, Holding, At
<1>3. serial' \in 0..MaxSerial /\ serial <= serial' /\ tx \in Serials \cup {None}
      /\ (tx # None => tx = serial' /\ tx > serial) /\ (job # "doctor" => tx # None)
  BY <1>1, BoundsAssumption, NoneAssumption DEF Start, Serials, DiskInv, DataTypes
<1>4. tx # None => Fresh(tx)
  BY <1>1, <1>3 DEF DiskInv, Numbered
<1> HIDE DEF tx
<1>5. Idle \in Local /\ ~Idle.failed /\ ~Idle.existed["cert"] /\ ~Idle.existed["key"]
  BY DEF Idle, Local, Slots
<1>6. next \in Local
  BY <1>3, <1>5 DEF Local, Steps, RestoreSteps
<1>7. loc' = [loc EXCEPT ![p] = next]
  BY DEF Start, tx
<1>8. Others(p) /\ loc'[p] = next
  BY <1>1, <1>6, <1>7 DEF WorkTypes, Others
<1>9. DiskInv' /\ \A t \in Serials : Fresh(t) => Fresh(t)'
  <2>1. \A t \in Serials : Fresh(t) => Fresh(t)'
    BY <1>1 DEF Fresh, Unused
  <2>2. Numbered'
    BY <1>1, <1>3, <2>1 DEF DiskInv, DataTypes, Numbered, Serials
  <2> QED BY <1>1, <1>3, <2>1, <2>2 DEF DiskInv, DataTypes, Either, QuarantinedPair, RevokedMeansQuarantined,
       OneIssuance, Whole, Publishing, Replaced, Places
<1>10. ReaderInv'
  <2>1. \A r \in Readers : reader[r].pc = "out"
    BY DEF Start, LockFree, Reading
  <2> QED BY <1>1, <2>1 DEF IndInv, ReaderInv, ReaderTypes, ReadersCurrent
<1>11. WorkTypes' /\ Holding'
  <2>1. loc'[p].pc = "rr_read"
    BY <1>8, <1>5 DEF Local
  <2> QED BY <1>1, <1>2, <1>8, <2>1 DEF WorkTypes, Holding, Others, At
<1>12. Fits(p)'
  <2>1. /\ loc'[p].pc = "rr_read" /\ loc'[p].job = job /\ loc'[p].tx = tx /\ ~loc'[p].failed
        /\ ~loc'[p].existed["cert"] /\ ~loc'[p].existed["key"]
    BY <1>8, <1>5 DEF Local
  <2>2. loc'[p].tx # None => loc'[p].tx <= serial'
    BY <1>3, <2>1
  <2>3. loc'[p].tx # None => Fresh(loc[p].tx)'
    BY <1>1, <1>4, <2>1 DEF Fresh, Unused
  <2> QED BY <1>3, <2>1, <2>2, <2>3 DEF Fits, JobFits, NotYetUsed, RevocationFits, InstallFits,
     At, AtSlot, Early, InstallSteps, RevokeSteps, RecoverySteps, RestoreSteps
<1>13. \A q \in Procs : Fits(q)'
  BY <1>2, <1>8, <1>12, IdleFits DEF Others
<1>14. Recoverable'
  <2>1. \A s \in Slots : ~Taken(s)
    BY <1>2 DEF Taken, AtSlot
  <2> QED BY <1>1, <2>1 DEF Recoverable, Publishing
<1>15. Quiet'
  <2>1. \A q \in Procs : ~Installing(q)
    BY <1>2 DEF Installing, InstallSteps
  <2>2. QuietFits(p)'
    BY <1>8, <1>5 DEF Local, QuietFits, At, AtSlot, RecoverySteps
  <2>3. \A q \in Procs : QuietFits(q)'
    BY <1>2, <1>8, <2>2, IdleFits DEF Others
  <2> QED BY <1>1, <2>1, <2>3 DEF IndInv, WorkInv, Quiet, OnePlace
<1> QED BY <1>9, <1>10, <1>11, <1>13, <1>14, <1>15 DEF IndInv, WorkInv

LEMMA ReadersTouchNothing ==
    ASSUME IndInv, ReaderInv',
           UNCHANGED <<active, backup, temps, quarantine, journal, rjournal, lock, loc, revoked, serial, faults, hit>>
    PROVE  IndInv'
<1>1. DiskInv'
  BY DiskUntouched DEF IndInv, DiskInv, DataTypes
<1>2. WorkTypes' /\ Holding' /\ Recoverable' /\ Quiet'
  BY DEF IndInv, WorkInv, WorkTypes, Holding, Recoverable, Publishing, Taken, Quiet, QuietFits, Installing,
     OnePlace, At, AtSlot
<1>3. ASSUME NEW p \in Procs PROVE Fits(p)'
  BY DEF IndInv, WorkInv, Fits, JobFits, NotYetUsed, RevocationFits, InstallFits,
     At, AtSlot, Early, Fresh, Unused, Revocation, QuarantinedPair, Publishing, Entry, Complete
<1> QED BY <1>1, <1>2, <1>3 DEF IndInv, WorkInv

LEMMA ReaderSteps ==
    ASSUME IndInv, NEW r \in Readers, ReaderLocks(r) \/ ReaderLoads(r) \/ ReaderUnlocks(r)
    PROVE  IndInv'
<1>1. UNCHANGED <<active, backup, temps, quarantine, journal, rjournal, lock, loc, revoked, serial, faults, hit>>
  BY DEF ReaderLocks, ReaderLoads, ReaderUnlocks, files, trouble
<1>2. active \in Pair /\ NoPair \in Pair
  BY DEF IndInv, DiskInv, DataTypes, NoPair, Pair, File
<1>3. ReaderInv'
  <2>1. CASE ReaderLocks(r)
    BY <1>1, <1>2, <2>1 DEF ReaderLocks, IndInv, ReaderInv, ReaderTypes, ReadersCurrent
  <2>2. CASE ReaderLoads(r)
    BY <1>1, <1>2, <2>2 DEF ReaderLoads, IndInv, ReaderInv, ReaderTypes, ReadersCurrent, Pair, Slots
  <2>3. CASE ReaderUnlocks(r)
    BY <1>1, <1>2, <2>3 DEF ReaderUnlocks, IndInv, ReaderInv, ReaderTypes, ReadersCurrent
  <2> QED BY <2>1, <2>2, <2>3
<1> QED BY <1>1, <1>3, ReadersTouchNothing

-----------------------------------------------------------------------------
LEMMA InitInv == Init => IndInv
<1> SUFFICES ASSUME Init PROVE IndInv
  OBVIOUS
<1>1. DiskInv
  <2>1. NoPair \in Pair /\ NoPair["cert"] = None /\ NoPair["key"] = None
    BY DEF NoPair, Pair, File, Slots
  <2>2. \A t \in Serials : Fresh(t)
    BY <2>1, NoneAssumption DEF Init, Fresh, Unused, Serials, Slots
  <2> QED BY <2>1, <2>2, BoundsAssumption DEF Init, DiskInv, DataTypes, Numbered, Either,
       RevokedMeansQuarantined, OneIssuance, Whole, Publishing, Replaced
<1>2. ReaderInv
  BY DEF Init, ReaderInv, ReaderTypes, ReadersCurrent, NoPair, Pair, File
<1>3. Idle \in Local /\ Idle.pc = "idle"
  BY DEF Idle, Local, Slots
<1>4. WorkTypes /\ Holding /\ \A p \in Procs : loc[p].pc = "idle"
  BY <1>3, NoneAssumption, BoundsAssumption DEF Init, WorkTypes, Holding, At
<1>5. \A p \in Procs : Fits(p) /\ QuietFits(p) /\ ~Installing(p)
  BY <1>4 DEF Fits, JobFits, NotYetUsed, RevocationFits, InstallFits, QuietFits, Installing, At, AtSlot,
     Early, InstallSteps, RevokeSteps, RecoverySteps, RestoreSteps
<1>6. Recoverable /\ Quiet
  BY <1>5 DEF Init, Recoverable, Publishing, Quiet, OnePlace, NoPair, Slots
<1> QED BY <1>1, <1>2, <1>4, <1>5, <1>6 DEF IndInv, WorkInv

LEMMA StepInv == IndInv /\ [Next]_vars => IndInv'
<1> SUFFICES ASSUME IndInv, [Next]_vars PROVE IndInv'
  OBVIOUS
<1>1. CASE UNCHANGED vars
  <2>1. ReaderInv'
    BY <1>1 DEF vars, IndInv, ReaderInv, ReaderTypes, ReadersCurrent
  <2> QED BY <1>1, <2>1, ReadersTouchNothing DEF vars
<1>2. ASSUME NEW p \in Procs, Recovery(p) PROVE IndInv'
  BY <1>2, ReadRevocationStep, ClearRevocationStep, ReadJournalStep, RemoveTempsStep, ClearJournalStep,
     RestoreQuarantinedStep, DropBackupStep, RestoreOriginalStep DEF Recovery
<1>3. ASSUME NEW p \in Procs, Install(p) PROVE IndInv'
  BY <1>3, WriteTempsStep, BeginJournalStep, EnterPublishingStep, EnterPublishedStep, CompleteInstallStep,
     BackupFileStep, PublishFileStep, CleanBackupStep DEF Install
<1>4. ASSUME NEW p \in Procs, Revoke(p) PROVE IndInv'
  BY <1>4, BeginQuarantineStep, UndoQuarantineStep, EnterQuarantinedStep, ReadQuarantinedStep,
     MarkRemotePendingStep, ContactCAStep, MarkRemoteConfirmedStep, CompleteRevocationStep,
     QuarantineFileStep DEF Revoke
<1> QED BY <1>1, <1>2, <1>3, <1>4, StartStep, CrashStep, ReaderSteps DEF Next

(* At every step of every process the files, the two journals, the readers *)
(* and the place in install_managed_certificate, in a recovery or in a     *)
(* revocation fit each other, and what a crash leaves fits a recovery.     *)
THEOREM Invariance == Spec => []IndInv
  BY InitInv, StepInv, PTL DEF Spec

-----------------------------------------------------------------------------
(* No file of the managed directory ever has contents that no transaction  *)
(* of install_certificate_files wrote, and both journals parse.            *)
THEOREM TypeCorrect == Spec => []TypeOK
<1>1. IndInv => TypeOK
  BY DEF IndInv, DiskInv, DataTypes, ReaderInv, ReaderTypes, WorkInv, WorkTypes, Local, TypeOK
<1> QED BY <1>1, Invariance, PTL

(* Whatever calls failed and whichever processes died, once no journal is  *)
(* left and nobody holds the lock, fullchain.pem and privkey.pem are of    *)
(* one issuance, or both are absent.                                       *)
THEOREM PairStaysWhole == Spec => []SettledPairMatches
<1>1. IndInv => SettledPairMatches
  BY DEF IndInv, DiskInv, OneIssuance, Publishing, Whole, SettledPairMatches, Settled, Complete
<1> QED BY <1>1, Invariance, PTL

(* load_rustls_certified_key_from_paths under the shared lock reads the    *)
(* key of the chain it has read, unless a journal is left.                 *)
THEOREM ReadersConsistent == Spec => []ReadersSeeOnePair
<1>1. IndInv => ReadersSeeOnePair
  BY DEF IndInv, DiskInv, OneIssuance, Publishing, Whole, ReaderInv, ReadersCurrent, ReadersSeeOnePair, Complete
<1> QED BY <1>1, Invariance, PTL

(* What the CA has revoked is in quarantine for as long as the journal of  *)
(* its revocation is there, and that journal no longer lets it back.       *)
THEOREM QuarantineHolds == Spec => []RevokedMeansQuarantined
<1>1. IndInv => RevokedMeansQuarantined
  BY DEF IndInv, DiskInv
<1> QED BY <1>1, Invariance, PTL

(* While an install is publishing, both files of the pair it replaces are  *)
(* still there, whatever has interrupted it and its recoveries.            *)
THEOREM OldPairNeverLost == Spec => []OldPairKept
<1>1. IndInv => OldPairKept
  BY DEF IndInv, DiskInv, Replaced, Publishing, OldPairKept, Slots
<1> QED BY <1>1, Invariance, PTL

(* restore_original finds the backups the journal promises, unless a       *)
(* recovery of an install was interrupted before.                          *)
THEOREM RecoveryIsPossible == Spec => []RecoveryCanRun
<1>1. IndInv => RecoveryCanRun
  <2> SUFFICES ASSUME IndInv, lock = None PROVE RecoveryCanRun
    BY DEF RecoveryCanRun
  <2>1. \A p \in Procs : loc[p].pc = "idle"
    BY NoneAssumption DEF IndInv, WorkInv, Holding, At
  <2>2. \A s \in Slots : ~Taken(s)
    BY <2>1 DEF Taken, AtSlot
  <2> QED BY <2>2 DEF IndInv, WorkInv, Recoverable, Publishing, RecoveryCanRun
<1> QED BY <1>1, Invariance, PTL

(* A crash in any phase of ManagedCertificateQuarantine, a lost answer of  *)
(* the CA and an interrupted recovery of a revocation never put a revoked  *)
(* certificate back.                                                       *)
THEOREM RevocationsSurvive == Spec => []RevocationSurvivesInterruption
<1>1. IndInv => RevocationSurvivesInterruption
  <2> SUFFICES ASSUME IndInv, hit \subseteq {"revocation"}, NEW x \in revoked
               PROVE  active["cert"] # x.cert
    BY DEF RevocationSurvivesInterruption, RevokedStaysOut
  <2>1. x.cert \in Serials /\ x.by \in Serials /\ quarantine[x.by]["cert"] = x.cert
    BY DEF IndInv, DiskInv, DataTypes, Numbered
  <2> QED BY <2>1, NoneAssumption DEF IndInv, WorkInv, Quiet, OnePlace, Serials
<1> QED BY <1>1, Invariance, PTL
=============================================================================
