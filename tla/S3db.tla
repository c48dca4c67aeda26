-------------------------------- MODULE S3db --------------------------------
(***************************************************************************)
(* The whole system: clients that open one database in one bucket, read,   *)
(* update, compact, collect garbage and migrate, and a store and a process *)
(* that may fail.                                                          *)
(***************************************************************************)
EXTENDS Compact, GC, Migrate

vars == <<storeVars, connVars, flowVars, updateVars, todo, lastVer>>

Init == ClientInit /\ CommitInit /\ GCInit /\ MigrateInit

\* The operation of c ends early, and its local variables with it.
EndEarly(c) ==
  /\ Forget(c)
  /\ todo' = [todo EXCEPT ![c] = {}]
  /\ lastVer' = [lastVer EXCEPT ![c] = 0]

\* An application calls a method of the handle.
Call(c) ==
  \/ (OpenStart(c) \/ ViewStart(c)) /\ UNCHANGED <<updateVars, todo, lastVer>>
  \/ UpdateStart(c) /\ UNCHANGED <<todo, lastVer>>
  \/ CompactStart(c) /\ UNCHANGED <<todo, lastVer>>
  \/ GCStart(c) /\ UNCHANGED lastVer

\* A method that is under way takes a step.
Step(c) ==
  \/ ClientStep(c) /\ UNCHANGED <<updateVars, todo, lastVer>>
  \/ CommitStep(c) /\ UNCHANGED <<todo, lastVer>>
  \/ CompactStep(c) /\ UNCHANGED <<todo, lastVer>>
  \/ GCStep(c) /\ UNCHANGED lastVer
  \/ MigrateStep(c) /\ UNCHANGED todo
  \/ (RefreshRejected(c) \/ NotFound(c) \/ ApplyConflict(c)) /\ EndEarly(c)

\* It is cut short, or the handle is closed.
Disrupt(c) == (StoreError(c) \/ Crash(c) \/ Close(c)) /\ EndEarly(c)

Next ==
  \/ \E c \in Clients : Call(c) \/ Step(c) \/ Disrupt(c)
  \/ Elapse /\ UNCHANGED lastVer

Spec == Init /\ [][Next]_vars

\* Every method that was called keeps running: its process is scheduled and
\* the store answers.  Nothing obliges an application to call, a handle to be
\* closed, a store to fail or a process to die.
Fairness == \A c \in Clients : WF_vars(Step(c))
FairSpec == Spec /\ Fairness
-----------------------------------------------------------------------------
TypeOK == StoreTypeOK /\ ClientTypeOK /\ CommitTypeOK /\ GCTypeOK /\ MigrateTypeOK

\* No step uses a nil connection, and a step inside a SAVEPOINT has one: a
\* failed refresh leaves conn nil and the next sync must notice
\* (commit.go:49-56, and the panic s3db.go:387-390 speaks of).
ConnOpen ==
  \A c \in Clients :
    /\ pc[c] \in {"fetch", "apply", "view", "up", "migcas", "compact", "compactcas"}
                   \cup UpdateLabels => conn[c] # NoConn
    /\ pc[c] \in {"unorphan", "upload", "cas", "reload", "rebase"} => saved[c] # NoConn

\* validate never refuses a manifest that an operation is about to put
\* (manifest.go:83): an invalid one would be refused by every later load.
PutNeverInvalid ==
  \A c \in Clients :
    /\ At(c, "cas") => validate(newManifest(c))
    /\ At(c, "compactcas") => validate(compactManifest(c))
    /\ At(c, "migcas") => validate(migrateManifest(c))

\* The log replays from the snapshot without a conflict, and yields what the
\* commits, one after the other, made of the database.
LogApplies ==
  manifest # NoManifest =>
    LET k == epoch(manifest)
    IN /\ Len(hist[k]) = Len(manifest.log) + 1
       /\ \A i \in DOMAIN manifest.log :
            LET cs == csBody[manifest.log[i].key.id]
            IN Applies(hist[k][i], cs) /\ hist[k][i + 1] = Patch(hist[k][i], cs)

\* The same, as long as no client commits from a connection that lost
\* changesets in a ROLLBACK.  A clean rebase has to prove that the uploaded
\* changeset may follow those of the others (commit.go:241-246).
LogReplays == sound => LogApplies

\* The local file of a client holds what replaying the log up to localSeq
\* yields, in every state in which no SAVEPOINT is open and no migration is
\* in progress: after syncs that fail half-way, rollbacks, lost CAS attempts
\* and compactions (verifyLocalMatchesReplay of the tests).
LocalMatchesReplay ==
  \A c \in Clients :
    /\ sound /\ c \notin stale
    /\ conn[c] # NoConn /\ saved[c] = NoConn
    /\ pc[c] \notin {"migrate", "migcas"}
    => LET k == snapshotKey[c]
       IN /\ Pos(k, localSeq[c]) \in DOMAIN hist[k]
          /\ Agree(conn[c], Content(k, localSeq[c]))

\* View's fn runs on a state that includes every commit that had finished
\* when View was called, and on no half of a log.
ViewFresh ==
  \A c \in Clients :
    At(c, "view") => localSeq[c] = cm[c].seq /\ localSeq[c] >= began[c].seq

\* Every changeset of the log lies under the prefix of the current epoch:
\* no straggler of an older epoch is ever committed.
LogInEpoch ==
  manifest # NoManifest =>
    \A i \in DOMAIN manifest.log : manifest.log[i].key.epoch = epoch(manifest)

\* The bucket holds everything that the manifest refers to.
BlobsPresent ==
  manifest # NoManifest =>
    /\ epoch(manifest) \in snapshots
    /\ liveChangesets(manifest) \subseteq changesets

\* doUpdate never takes a committed changeset for an orphan (commit.go:179).
OrphanNotLive ==
  \A c \in Clients : manifest # NoManifest => orphan[c] \notin liveChangesets(manifest)

\* An operation loses no more CAS attempts than the manifest was replaced
\* since it was called: ErrConflict means MaxRetries writes of others.
ConflictNeedsContention ==
  \A c \in Clients : pc[c] \notin {"idle", "closed"} => attempt[c] <= clock - began[c].clock

\* With a grace period, a sync under way finds the changesets it needs: an
\* epoch is kept for as long as a client may hold its manifest (gc.go:47).
GraceKeepsChangesets ==
  \A c \in Clients :
    At(c, "fetch") => \A i \in Missing(cm[c], localSeq[c]) : cm[c].log[i].key \in changesets

\* ... and the snapshot it is about to download (options.go:75-78).
GraceKeepsSnapshot ==
  \A c \in Clients : At(c, "download") => epoch(cm[c]) \in snapshots
-----------------------------------------------------------------------------
\* The step replaces the manifest by one that has one more log entry.
Commits == manifest # NoManifest /\ manifest' # manifest /\ manifest'.seq # manifest.seq

\* The manifest is created once, its sequence number grows by one with each
\* commit, and it changes otherwise only when a snapshot takes over the log
\* at the same sequence number (manifest.go:35-37).
SeqSteps ==
  [][ manifest # NoManifest =>
        \/ /\ manifest'.seq = manifest.seq + 1
           /\ manifest'.snap = manifest.snap
           /\ Len(manifest'.log) = Len(manifest.log) + 1
           /\ \A i \in DOMAIN manifest.log : manifest'.log[i] = manifest.log[i]
        \/ /\ manifest'.seq = manifest.seq
           /\ manifest'.snap.seq = manifest.seq
           /\ manifest'.log = <<>> ]_manifest

\* The snapshot of the manifest that is put holds what snapshot and log of the
\* one before held, migrated if the schema version changes.
KeepsContents ==
  LET before == Content(epoch(manifest), manifest.seq)
  IN Agree(SnapBody(epoch(manifest')),
           IF manifest'.schema = manifest.schema THEN before
           ELSE Up[manifest'.schema][before])

NewSnapshot == manifest # NoManifest /\ epoch(manifest') # epoch(manifest)

\* Compaction never loses work (compact.go:21), and no migration runs on a
\* file that it, or another client's unfinished work, already changed: as long as no
\* client compacts from a connection that lost changesets in a ROLLBACK.
SoundSnapshotExact == [][sound' /\ NewSnapshot => KeepsContents]_manifest

\* Every commit is what its fn makes of the database at its place in the
\* log, although fn ran on an older state and was not run again after a clean
\* rebase: the log order is a serial order (DESIGN.md, "Conflict semantics").
Serializable ==
  [][ \A c \in Clients :
        sound' /\ Commits /\ At(c, "cas") /\ csKey[c] = manifest'.log[Len(manifest'.log)].key =>
          LET k == epoch(manifest)
          IN Agree(hist'[k][Len(hist'[k])], Effect[fn[c]][hist[k][Len(hist[k])]]) ]_vars

\* A client commits only to the schema version it was opened for
\* (manifest.go:39-40, s3db.go:274-276).
CommitsMatchSchema ==
  [][ \A c \in Clients :
        Commits /\ csKey[c] = manifest'.log[Len(manifest'.log)].key =>
          manifest.schema = schemaVer[c] ]_vars

\* Every operation ends: the loops of doUpdate, compactLocked and
\* runMigrations do not run forever, and no step waits for another client.
OperationsEnd ==
  \A c \in Clients : pc[c] \notin {"idle", "closed"} ~> pc[c] \in {"idle", "closed"}
=============================================================================
