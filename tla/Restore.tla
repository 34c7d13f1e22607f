------------------------------- MODULE Restore -------------------------------
(***************************************************************************)
(* Encrypted backup and offline restore of one installation.               *)
(*                                                                         *)
(*   internal/lifecycle/backup.go, restore.go, recovery_journal.go         *)
(*   internal/store/backup.go, backup_files.go, backup_format.go,          *)
(*   internal/store/restore.go, recovery_evidence.go                       *)
(*   internal/config/installation_lock.go, cmd/llm-monitor/main.go         *)
(*                                                                         *)
(* A running hub and a backup share the installation lease; a restore      *)
(* takes it exclusively.  A restore copies the live files aside, prepares  *)
(* a database of a new deployment generation whose trust is reset, writes  *)
(* a journal, and only then replaces the live files one by one.  It can    *)
(* stop anywhere: the journal makes the hub refuse to start until exactly  *)
(* that transaction has been resumed and committed.                        *)
(*                                                                         *)
(* A row <<g, n>> stands for one admitted frame with the notification it   *)
(* caused: g is the generation that admitted it, n its rowid.  SQLite      *)
(* keeps what was committed last in the -wal file, and replays whatever    *)
(* -wal it finds beside a database.                                        *)
(***************************************************************************)
EXTENDS Naturals, Sequences, FiniteSets, FiniteSetsExt

CONSTANTS MaxGen,      \* deployment generations, the first included
          MaxRowid,    \* rowids of one database
          MaxBackups,  \* backups published
          MaxSecret,   \* notification secrets ever written
          MaxFault     \* interrupted restores

ASSUME RestoreAssumption == {MaxGen, MaxRowid, MaxBackups, MaxSecret} \subseteq Nat \ {0} /\ MaxFault \in Nat

Gens  == 1..MaxGen
Row   == Gens \X (1..MaxRowid)
Files == {"db", "wal", "conf"}   \* monitor.sqlite3, its -wal, and the other fixed files

VARIABLES live,     \* file -> its content
          vault,    \* the live notification-secrets directory
          hub,      \* is the hub running
          lastGen,  \* generations drawn so far
          secrets,  \* secrets written so far
          backups,  \* the published backups
          saver,    \* the running backup
          journal,  \* recovery/active.json
          area,     \* generation -> recovery/<transaction>/
          restorer, \* the running restore
          faults,   \* restores interrupted and database files lost
          admitted, \* every row the hub ever admitted
          told      \* row -> times its notification was sent

restoreVars == <<live, vault, hub, lastGen, secrets, backups, saver, journal,
                 area, restorer, faults, admitted, told>>

----------------------------------------------------------------------------
(* What a file holds *)

Absent    == [gen |-> 0, state |-> "none", rows |-> {}, due |-> {}, creds |-> {}, secret |-> 0]
Conf(g)   == [Absent EXCEPT !.gen = g, !.state = "conf"]
NoVault   == [gen |-> 0, names |-> {}]
Nothing   == [f \in Files |-> Absent]

\* What SQLite reads: the -wal, whoever wrote it, is replayed over the file.
Database(files) == IF files["wal"] # Absent THEN files["wal"] ELSE files["db"]
Readable(files) == files["db"] # Absent

HighWater(rows) == Max({0} \cup {r[2] : r \in rows})

EmptyArea == [files |-> Nothing, vault |-> NoVault, saved |-> Nothing, savedVault |-> NoVault]
NoJournal == [txn |-> 0, state |-> "none", same |-> FALSE, later |-> {}]
Idle      == [pc |-> "idle", gen |-> 0, backup |-> 0, done |-> {}]
NoSaver   == [pc |-> "idle", image |-> Absent, names |-> {}]

RestoreInit ==
  LET first == [Absent EXCEPT !.gen = 1, !.state = "normal", !.creds = {1}, !.secret = 1] IN
  /\ live = [Nothing EXCEPT !["db"] = first, !["conf"] = Conf(1)]
  /\ vault = [gen |-> 1, names |-> {1}]
  /\ hub = FALSE
  /\ lastGen = 1 /\ secrets = 1
  /\ backups = <<>>
  /\ saver = NoSaver
  /\ journal = NoJournal
  /\ area = [g \in Gens |-> EmptyArea]
  /\ restorer = Idle
  /\ faults = 0
  /\ admitted = {} /\ told = [r \in Row |-> 0]

----------------------------------------------------------------------------
(* The installation lease and the two checks made under it *)

\* Mutant of SharedLease: starting takes no lease.
NoLease == TRUE

SharedLease == restorer.pc = "idle"

ExclusiveLease == ~hub /\ saver.pc = "idle" /\ restorer.pc = "idle"

\* An interrupted replacement must not be opened.
RequireRecoveryReady == journal.state # "prepared"

\* The journal and the database must name the same generation.
ValidateRecoveryDeployment ==
  journal.txn = 0 \/ (journal.state = "committed" /\ journal.txn = Database(live).gen)

----------------------------------------------------------------------------
(* The hub: it starts, admits, notifies, rotates a secret and stops *)

StartHub ==
  /\ ~hub /\ SharedLease /\ RequireRecoveryReady
  /\ Readable(live) /\ ValidateRecoveryDeployment
  /\ hub' = TRUE
  /\ UNCHANGED <<live, vault, lastGen, secrets, backups, saver, journal, area,
                 restorer, faults, admitted, told>>

\* A clean stop folds the -wal into the database; a crash leaves it beside it.
StopHub ==
  /\ hub
  /\ hub' = FALSE
  /\ \/ UNCHANGED live
     \/ live' = [live EXCEPT !["db"] = Database(live), !["wal"] = Absent]
  /\ UNCHANGED <<vault, lastGen, secrets, backups, saver, journal, area,
                 restorer, faults, admitted, told>>

\* Checkpoints run between commits: the -wal holds the last one.
Commit(db) == live' = [live EXCEPT !["db"] = Database(live), !["wal"] = db]

\* ConsumeBootstrapAndCreateAdmin ends the bootstrap boundary.
Bootstrap ==
  LET db == Database(live) IN
  /\ hub /\ db.state = "bootstrap"
  /\ Commit([db EXCEPT !.state = "normal"])
  /\ UNCHANGED <<vault, hub, lastGen, secrets, backups, saver, journal, area,
                 restorer, faults, admitted, told>>

\* A reviewed host is enrolled again: its credential is of this generation.
Enroll ==
  LET db == Database(live) IN
  /\ hub /\ db.state = "normal" /\ db.gen \notin db.creds
  /\ Commit([db EXCEPT !.creds = @ \cup {db.gen}])
  /\ UNCHANGED <<vault, hub, lastGen, secrets, backups, saver, journal, area,
                 restorer, faults, admitted, told>>

Admit ==
  LET db  == Database(live)
      row == <<db.gen, HighWater(db.rows) + 1>>
  IN
  /\ hub /\ db.state = "normal" /\ db.creds # {}
  /\ row \in Row
  /\ Commit([db EXCEPT !.rows = @ \cup {row}, !.due = @ \cup {row}])
  /\ admitted' = admitted \cup {row}
  /\ UNCHANGED <<vault, hub, lastGen, secrets, backups, saver, journal, area,
                 restorer, faults, told>>

Notify ==
  LET db == Database(live) IN
  /\ hub
  /\ \E row \in db.due :
        /\ told' = [told EXCEPT ![row] = @ + 1]
        /\ Commit([db EXCEPT !.due = @ \ {row}])
  /\ UNCHANGED <<vault, hub, lastGen, secrets, backups, saver, journal, area,
                 restorer, faults, admitted>>

\* The vault file is written before the row that refers to it, and never removed.
RotateSecret ==
  LET db == Database(live) IN
  /\ hub /\ db.state = "normal" /\ secrets < MaxSecret
  /\ secrets' = secrets + 1
  /\ vault' = [vault EXCEPT !.names = @ \cup {secrets + 1}]
  /\ Commit([db EXCEPT !.secret = secrets + 1])
  /\ UNCHANGED <<hub, lastGen, backups, saver, journal, area, restorer, faults,
                 admitted, told>>

\* The disk loses the database file while nothing runs.
Wreck ==
  /\ ~hub /\ saver.pc = "idle" /\ Readable(live)
  /\ live["db"].rows # {} /\ faults < MaxFault
  /\ faults' = faults + 1
  /\ live' = [live EXCEPT !["db"] = Absent]
  /\ UNCHANGED <<vault, hub, lastGen, secrets, backups, saver, journal, area,
                 restorer, admitted, told>>

----------------------------------------------------------------------------
(* Backup: pin a database image, copy the files it refers to, publish *)

\* CreateBackup: under the shared lease, of a deployment that may be changed.
BackupAllowed ==
  /\ saver.pc = "idle" /\ SharedLease /\ RequireRecoveryReady
  /\ Readable(live) /\ Database(live).state = "normal"

\* createSQLiteSnapshot: the image is one moment of the database.
SnapshotDatabase ==
  /\ BackupAllowed /\ Len(backups) < MaxBackups
  /\ saver' = [pc |-> "collect", image |-> Database(live), names |-> {}]
  /\ UNCHANGED <<live, vault, hub, lastGen, secrets, backups, journal, area,
                 restorer, faults, admitted, told>>

\* prepareBackupInputs: the secrets listed are those the image refers to, not
\* those the database refers to by now.
SecretsOf(image) == {image.secret}

\* writeEncryptedBackup: each file must still be what was hashed.
CollectFiles ==
  /\ saver.pc = "collect"
  /\ SecretsOf(saver.image) \subseteq vault.names
  /\ saver' = [saver EXCEPT !.pc = "publish", !.names = SecretsOf(saver.image)]
  /\ UNCHANGED <<live, vault, hub, lastGen, secrets, backups, journal, area,
                 restorer, faults, admitted, told>>

\* The archive is decrypted and verified before it is linked to its name, then
\* the success is recorded if the deployment is still the one confirmed.
PublishBackup ==
  /\ saver.pc = "publish"
  /\ backups' = Append(backups, [image |-> saver.image, names |-> saver.names, keys |-> saver.image.gen])
  /\ saver' = NoSaver
  /\ UNCHANGED <<live, vault, hub, lastGen, secrets, journal, area,
                 restorer, faults, admitted, told>>

----------------------------------------------------------------------------
(* Restore *)

\* decryptBackupToStaging: everything but the keys of the archived generation.
Unpacked(backup) == [image |-> backup.image, names |-> backup.names]

\* resetRestoredTrust: a new generation, no credential, and no notification of
\* the restored past.
ResetTrust(image, g) ==
  [image EXCEPT !.gen = g, !.state = "bootstrap", !.creds = {}, !.due = {}]

\* verifyRestoredTrustState, before the prepared database gets its name.
TrustIsReset(db, g) ==
  db.gen = g /\ db.state = "bootstrap" /\ db.creds = {} /\ db.due = {}

\* Mutant of Restored: only the generation is new.
RestoredAsArchived(image, g) == {[image EXCEPT !.gen = g, !.state = "bootstrap"]}

\* store.RestoreBackup: nothing comes of an image that is not of a normal
\* deployment, that names the new generation, or whose reset is incomplete.
Restored(image, g) ==
  {db \in {ResetTrust(image, g)} : image.state = "normal" /\ image.gen # g /\ TrustIsReset(db, g)}

\* Mutant of SameGeneration: any readable database is compared.
SameIfReadable(files, image) == Readable(files)

\* ReadRecoveryEvidence: rowids compare only within one generation.
SameGeneration(files, image) == Readable(files) /\ Database(files).gen = image.gen

LaterRows(files, image) ==
  IF SameGeneration(files, image)
  THEN {r \in Database(files).rows : r[2] > HighWater(image.rows)}
  ELSE {}

\* Manager.Restore up to the copies of the fixed files: nothing live has changed
\* yet, and an interruption leaves only a directory nobody looks at again.
BeginRestore(b) ==
  /\ ExclusiveLease /\ RequireRecoveryReady
  /\ lastGen < MaxGen
  /\ lastGen' = lastGen + 1
  /\ restorer' = [pc |-> "prepare", gen |-> lastGen + 1, backup |-> b, done |-> {}]
  /\ area' = [area EXCEPT ![lastGen + 1].saved = live]
  /\ UNCHANGED <<live, vault, hub, secrets, backups, saver, journal, faults,
                 admitted, told>>

\* store.RestoreBackup, the rewritten configuration, and the journal that makes
\* the prepared files the installation.
PrepareRestore ==
  LET g == restorer.gen
      b == Unpacked(backups[restorer.backup])
  IN
  /\ restorer.pc = "prepare"
  /\ \E db \in Restored(b.image, g) :
        area' = [area EXCEPT ![g].files = [Nothing EXCEPT !["db"] = db, !["conf"] = Conf(g)],
                             ![g].vault = [gen |-> g, names |-> b.names]]
  /\ journal' = [txn |-> g, state |-> "prepared",
                 same |-> SameGeneration(live, b.image),
                 later |-> LaterRows(live, b.image)]
  /\ restorer' = [restorer EXCEPT !.pc = "install"]
  /\ UNCHANGED <<live, vault, hub, lastGen, secrets, backups, saver, faults,
                 admitted, told>>

\* Mutant of Replacement: a file that was installed before is not recognised.
ReplacementOnce(file, now, old, new) ==
  IF now \notin {Absent, old} THEN {} ELSE {new}

\* activateRestore for one file of the journal: what must it become, given what
\* is there.  A file that is neither the old nor the new one stops the restore.
Replacement(file, now, old, new) ==
  IF now = new THEN {new}
  ELSE IF now \notin {Absent, old} THEN {}
  ELSE {new}

InstallFile(file) ==
  LET g == restorer.gen
      to == Replacement(file, live[file], area[g].saved[file], area[g].files[file])
  IN
  /\ restorer.pc = "install" /\ file \in Files \ restorer.done
  /\ IF to = {} THEN restorer' = Idle /\ UNCHANGED live
     ELSE /\ live' = [live EXCEPT ![file] = CHOOSE c \in to : TRUE]
          /\ restorer' = [restorer EXCEPT !.done = @ \cup {file},
                             !.pc = IF restorer.done \cup {file} = Files THEN "vault" ELSE "install"]
  /\ UNCHANGED <<vault, hub, lastGen, secrets, backups, saver, journal, area,
                 faults, admitted, told>>

\* installRecoveryBlobs: the prepared directory is renamed into place after the
\* live one was renamed away; once it has moved, the destination is verified.
MoveVaultAway ==
  LET g == restorer.gen IN
  /\ restorer.pc = "vault"
  /\ area[g].vault # NoVault /\ vault # NoVault /\ area[g].savedVault = NoVault
  /\ vault' = NoVault
  /\ area' = [area EXCEPT ![g].savedVault = vault]
  /\ UNCHANGED <<live, hub, lastGen, secrets, backups, saver, journal, restorer,
                 faults, admitted, told>>

MoveVaultIn ==
  LET g == restorer.gen IN
  /\ restorer.pc = "vault"
  /\ area[g].vault # NoVault /\ vault = NoVault
  /\ vault' = area[g].vault
  /\ area' = [area EXCEPT ![g].vault = NoVault]
  /\ UNCHANGED <<live, hub, lastGen, secrets, backups, saver, journal, restorer,
                 faults, admitted, told>>

\* verifyRecoveryBlobs against the manifest of the prepared transaction.
VaultInstalled(g) ==
  /\ area[g].vault = NoVault
  /\ Database(area[g].files).secret \in vault.names /\ vault.gen = g

CommitRestore ==
  /\ restorer.pc = "vault" /\ VaultInstalled(restorer.gen)
  /\ journal' = [journal EXCEPT !.state = "committed"]
  /\ restorer' = Idle
  /\ UNCHANGED <<live, vault, hub, lastGen, secrets, backups, saver, area,
                 faults, admitted, told>>

\* Only the recorded transaction can be resumed, from its prepared files.
ResumeRestore ==
  /\ ExclusiveLease /\ journal.state = "prepared"
  /\ restorer' = [Idle EXCEPT !.pc = "install", !.gen = journal.txn]
  /\ UNCHANGED <<live, vault, hub, lastGen, secrets, backups, saver, journal,
                 area, faults, admitted, told>>

InterruptRestore ==
  /\ restorer.pc # "idle" /\ faults < MaxFault
  /\ faults' = faults + 1
  /\ restorer' = Idle
  /\ UNCHANGED <<live, vault, hub, lastGen, secrets, backups, saver, journal,
                 area, admitted, told>>

RestoreStep ==
  \/ PrepareRestore
  \/ \E file \in Files : InstallFile(file)
  \/ MoveVaultAway \/ MoveVaultIn \/ CommitRestore \/ ResumeRestore

RestoreNext ==
  \/ StartHub \/ StopHub \/ Bootstrap \/ Enroll \/ Admit \/ Notify
  \/ RotateSecret \/ Wreck
  \/ SnapshotDatabase \/ CollectFiles \/ PublishBackup
  \/ \E b \in DOMAIN backups : BeginRestore(b)
  \/ RestoreStep \/ InterruptRestore

\* The operator resumes a prepared transaction, as the journal and the command
\* line tell them to, and a restore that is running goes on.
RestoreSpec == RestoreInit /\ [][RestoreNext]_restoreVars /\ WF_restoreVars(RestoreStep)

----------------------------------------------------------------------------
(* Properties *)

\* A hub that runs (main.go) has in front of it the database, the -wal, the
\* configuration and the secrets of one generation, and the secret its
\* destination refers to: no interleaving of an interrupted restore, a resume
\* and a start shows it a half-replaced installation.
NoMixedInstallation ==
  hub => LET db == Database(live) IN
         /\ live["db"].gen = db.gen /\ live["conf"].gen = db.gen /\ vault.gen = db.gen
         /\ db.secret \in vault.names

\* Trust of an earlier generation (resetRestoredTrust) never comes back with a
\* backup: no credential issued before a restore is live after it, and no
\* notification is sent again because the row that was due is restored.
OldTrustStaysDead ==
  /\ hub => Database(live).creds \subseteq {Database(live).gen}
  /\ \A r \in Row : told[r] <= 1

\* A running hub is of one generation, in what it reads and in whom it trusts.
HubIsOfOneGeneration == NoMixedInstallation /\ OldTrustStaysDead

\* What the result of a restore says was lost (ReadRecoveryEvidence) is what is
\* in the copied database and not in the restored one, whenever it claims to
\* compare the two; rowids restart below the mark after an earlier restore.
EvidenceIsComplete ==
  journal.same =>
    journal.later = Database(area[journal.txn].saved).rows \ area[journal.txn].files["db"].rows

\* A restore whose journal is durable is committed in the end, however often it
\* is interrupted (activateRestore is idempotent over its own partial work).
RestoreFinishes == (journal.state = "prepared") ~> (journal.state = "committed")

\* The installation as it will be opened next: from the moment its journal is
\* durable, a prepared restore has happened.
Installed == IF journal.state = "prepared" THEN area[journal.txn].files ELSE live

Promise == INSTANCE Installation WITH
  gen  <- IF Readable(Installed) THEN Database(Installed).gen ELSE 0,
  rows <- IF Readable(Installed) THEN Database(Installed).rows ELSE {},
  up   <- hub,
  ever <- admitted

\* Writing the journal is the one moment at which the installation is replaced;
\* installing, resuming and committing change nothing a hub can see.
AtomicReplacement == Promise!Spec
=============================================================================
