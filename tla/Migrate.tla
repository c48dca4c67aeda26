------------------------------ MODULE Migrate ------------------------------
(***************************************************************************)
(* runMigrations and applyMigration (migrate.go), the last part of Open:   *)
(* each pending migration runs on the local file, which becomes the next   *)
(* snapshot.  Versions are numbered 1, 2, ... without gaps.                *)
(***************************************************************************)
EXTENDS Commit

CONSTANT Up   \* Up[v][db]: the database after migration v ran on db

ASSUME MigrateAssumption ==
  \A c \in Clients : \A v \in 1..Version[c] : v \in DOMAIN Up /\ Up[v] \in [DB -> DB]

VARIABLE lastVer   \* lastAttemptedVer, 0 for none

MigrateTypeOK == lastVer \in [Clients -> Nat]

MigrateInit == lastVer = [c \in Clients |-> 0]

\* The database is at a schema version this client does not know.
MigrateTooNew(c) ==
  /\ At(c, "migrate") /\ manifest # NoManifest
  /\ manifest.schema > Version[c]
  /\ Shut(c)
  /\ lastVer' = [lastVer EXCEPT ![c] = 0]
  /\ UNCHANGED <<storeVars, updateVars>>

\* All migrations are applied: sync, and Open returns.
MigrateDone(c) ==
  /\ At(c, "migrate") /\ manifest # NoManifest
  /\ manifest.schema = Version[c]
  /\ syncToManifest(c, manifest, conn[c], snapshotKey[c], "idle")
  /\ lastVer' = [lastVer EXCEPT ![c] = 0]
  /\ UNCHANGED <<storeVars, saved, savedSeq, stale, attempt, snapKey, schemaVer, left,
                 began, updateVars>>

\* A second try of the same migration that keeps the local file.
neverForce(c, m) == snapshotKey[c]

\* A second try of the same migration finds the file already migrated:
\* clearing the snapshot key forces a download.
forceRefresh(c, m) == IF lastVer[c] = m.schema + 1 THEN NoSnap ELSE snapshotKey[c]

MigrateNext(c) ==
  /\ At(c, "migrate") /\ manifest # NoManifest
  /\ manifest.schema < Version[c]
  /\ syncToManifest(c, manifest, conn[c], forceRefresh(c, manifest), "up")
  /\ lastVer' = [lastVer EXCEPT ![c] = manifest.schema + 1]
  /\ UNCHANGED <<storeVars, saved, savedSeq, stale, attempt, snapKey, schemaVer, left,
                 began, updateVars>>

\* Up, VACUUM, close, upload, reopen.
MigrateUp(c) ==
  LET after == Up[cm[c].schema + 1][conn[c]]
  IN /\ At(c, "up")
     /\ conn' = [conn EXCEPT ![c] = after]
     /\ PutSnapshot(after, cm[c].seq, cm[c].schema + 1)
     /\ snapKey' = [snapKey EXCEPT ![c] = NextSnap]
     /\ Goto(c, "migcas")
     /\ UNCHANGED <<saved, localSeq, snapshotKey, cm, savedSeq, stale, ret, attempt,
                    schemaVer, left, began, updateVars, lastVer>>

\* The manifest that the CAS of c tries to put.
migrateManifest(c) ==
  [seq |-> cm[c].seq, schema |-> cm[c].schema + 1,
   snap |-> [key |-> snapKey[c], seq |-> cm[c].seq], log |-> <<>>]

PutMigrate(c) ==
  /\ IfMatch(cm[c])
  /\ PutManifest(migrateManifest(c), c \notin stale)
  /\ UNCHANGED <<blobVars, hist, base>>

MigrateCas(c) ==
  /\ At(c, "migcas")
  /\ PutMigrate(c)
  /\ cm' = [cm EXCEPT ![c] = migrateManifest(c)]
  /\ localSeq' = [localSeq EXCEPT ![c] = cm[c].seq]
  /\ snapshotKey' = [snapshotKey EXCEPT ![c] = snapKey[c]]
  /\ snapKey' = [snapKey EXCEPT ![c] = NoSnap]
  /\ Goto(c, "migrate")
  /\ UNCHANGED <<conn, saved, savedSeq, stale, ret, attempt, schemaVer, left, began,
                 updateVars, lastVer>>

\* 412: look at the manifest again.
MigrateLost(c) ==
  /\ At(c, "migcas")
  /\ \/ ~IfMatch(cm[c]) /\ UNCHANGED storeVars
     \/ "retry412" \in Faults /\ PutMigrate(c)
  /\ snapKey' = [snapKey EXCEPT ![c] = NoSnap]
  /\ Goto(c, "migrate")
  /\ UNCHANGED <<connVars, ret, attempt, schemaVer, left, began, updateVars, lastVer>>

\* It takes effect and the answer is lost: Open fails.
MigratePhantom(c) ==
  /\ "phantom" \in Faults
  /\ At(c, "migcas")
  /\ PutMigrate(c)
  /\ Shut(c)
  /\ lastVer' = [lastVer EXCEPT ![c] = 0]
  /\ UNCHANGED updateVars

MigrateStep(c) ==
  \/ MigrateTooNew(c) \/ MigrateDone(c) \/ MigrateNext(c) \/ MigrateUp(c)
  \/ MigrateCas(c) \/ MigrateLost(c) \/ MigratePhantom(c)
=============================================================================
