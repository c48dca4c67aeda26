------------------------------ MODULE GCProofs ------------------------------
(***************************************************************************)
(* Proofs that garbage collection deletes nothing that the manifest, or    *)
(* with a grace period a sync under way, refers to, as long as nobody      *)
(* compacts or migrates beside the collector.                              *)
(***************************************************************************)
EXTENDS FlowProofs

\* The types of the variables that the lemmas below need.
Shape3 ==
  /\ Shapes /\ snapKey \in [Clients -> Nat] /\ todo \in [Clients -> SUBSET Nat]
  /\ left \in [Clients -> [OpKinds -> Nat]]

\* They follow from the type invariant.
LEMMA Shape3Holds == ASSUME Typed PROVE Shape3
BY DEF Typed, TypeOK, StoreTypeOK, ClientTypeOK, CommitTypeOK, GCTypeOK, MigrateTypeOK, Shapes, Shape3

\* A step of c leaves what it uploaded, listed and may start to the others.
LEMMA RestUntouched ==
  ASSUME Typed, NEW c \in Clients, NEW d \in Clients \ {c}, Call(c) \/ Step(c) \/ Disrupt(c)
  PROVE  snapKey'[d] = snapKey[d] /\ todo'[d] = todo[d] /\ left'[d] = left[d]
<1>0. Shape3
  BY Shape3Holds
<1> USE <1>0 DEF Shape3, flowVars
<1>e. Return(c) \/ Shut(c) => snapKey'[d] = snapKey[d] /\ left'[d] = left[d]
  BY DEF Return, Shut
<1>1. CASE Call(c)
  BY <1>1 DEF Call, OpenStart, ViewStart, UpdateStart, CompactStart, GCStart, Start
<1>2. CASE Disrupt(c)
  BY <1>2, <1>e DEF Disrupt, StoreError, Crash, Close, EndEarly, Fail
<1>3. CASE ClientStep(c) /\ UNCHANGED <<updateVars, todo, lastVer>>
  BY <1>3, <1>e DEF ClientStep, Refresh, Download, Fetch, Apply, Open, OpenEmpty, BootUpload,
     BootPut, BootLost, BootPhantom, View, OpenWith, Fail
<1>4. CASE CommitStep(c) /\ UNCHANGED <<todo, lastVer>>
  BY <1>4, <1>e DEF CommitStep, CaptureNothing, Capture, Unorphan, Upload, Cas, CasPhantom, CasLost,
     Reload, RebaseEntry, RebaseNotFound, Rebased, Exhausted, rollbackAndResync
<1>5. CASE CompactStep(c) /\ UNCHANGED <<todo, lastVer>>
  BY <1>5, <1>e DEF CompactStep, CompactNothing, CompactUpload, CompactCas, CompactPhantom,
     CompactLost
<1>6. CASE GCStep(c) /\ UNCHANGED lastVer
  BY <1>6, <1>e DEF GCStep, GCStat, GCList, GCSweep, GCSwept, GCSnaps, GCDelete, GCDone, gcFrame
<1>7. CASE MigrateStep(c) /\ UNCHANGED todo
  BY <1>7, <1>e DEF MigrateStep, MigrateTooNew, MigrateDone, MigrateNext, MigrateUp, MigrateCas,
     MigrateLost, MigratePhantom
<1>8. CASE (RefreshRejected(c) \/ NotFound(c) \/ ApplyConflict(c)) /\ EndEarly(c)
  BY <1>8, <1>e DEF RefreshRejected, NotFound, ApplyConflict, EndEarly, Fail
<1> QED
  BY <1>1, <1>2, <1>3, <1>4, <1>5, <1>6, <1>7, <1>8 DEF Step
-----------------------------------------------------------------------------
(***************************************************************************)
(* What a step does to the bucket.                                         *)
(***************************************************************************)

\* Only orphans of its own, swept epochs and expired snapshots are deleted, and
\* a snapshot becomes young only when it is put.
Deletes(c) ==
  /\ \A x \in changesets \ changesets' :
       x = NoKey \/ x \in Own(c) \/ (pc[c] = "gcsweep" /\ x.epoch \in todo[c])
  /\ \A k \in snapshots \ snapshots' :
       pc[c] = "gcdelete" /\ k # epoch(cm[c]) /\ (Grace => k \notin young)
  /\ Grace => young \subseteq young'
  /\ \A k \in young' \ young : k = NextSnap \/ (k = InitSnap /\ pc[c] = "bootupload")

\* That is all that any step deletes.
LEMMA StepDeletes ==
  ASSUME Typed, NEW c \in Clients, Call(c) \/ Step(c) \/ Disrupt(c)
  PROVE  Deletes(c)
<1> USE DEF Deletes
<1>0. UNCHANGED <<changesets, snapshots, young>> => Deletes(c)
  OBVIOUS
<1>1. CASE Call(c)
  BY <1>0, <1>1 DEF Call, OpenStart, ViewStart, UpdateStart, CompactStart, GCStart, Start, storeVars
<1>2. CASE Disrupt(c)
  BY <1>0, <1>2 DEF Disrupt, StoreError, Crash, Close, storeVars
<1>3. CASE ClientStep(c) /\ UNCHANGED <<updateVars, todo, lastVer>>
  <2>1. CASE BootUpload(c)
    BY <2>1 DEF BootUpload, At
  <2> QED
    BY <1>0, <1>3, <2>1 DEF ClientStep, Refresh, Download, Fetch, Apply, Open, OpenEmpty,
       BootPut, BootLost, BootPhantom, View, storeVars, blobVars
<1>4. CASE CommitStep(c) /\ UNCHANGED <<todo, lastVer>>
  <2>1. CASE Upload(c) \/ Capture(c)
    BY <2>1 DEF Upload, Capture
  <2>2. CASE Unorphan(c) \/ Exhausted(c)
    BY <1>0, <2>2 DEF Unorphan, Exhausted, DeleteChangesets, Own, storeVars
  <2> QED
    BY <1>0, <1>4, <2>1, <2>2 DEF CommitStep, CaptureNothing, Cas, CasPhantom, CasLost,
       Reload, RebaseEntry, RebaseNotFound, Rebased, rollbackAndResync, PutCommit, storeVars, blobVars
<1>5. CASE CompactStep(c) /\ UNCHANGED <<todo, lastVer>>
  <2>1. CASE CompactUpload(c)
    BY <2>1 DEF CompactUpload, PutSnapshot
  <2> QED
    BY <1>0, <1>5, <2>1 DEF CompactStep, CompactNothing, CompactCas, CompactPhantom,
       CompactLost, PutCompact, storeVars, blobVars
<1>6. CASE GCStep(c) /\ UNCHANGED lastVer
  <2>1. CASE GCSweep(c)
    BY <2>1 DEF GCSweep, DeleteChangesets, groupByEpoch, At
  <2>2. CASE GCDelete(c)
    BY <1>0, <2>2 DEF GCDelete, DeleteSnapshot, expired, oldEnough, storeVars, At
  <2> QED
    BY <1>0, <1>6, <2>1, <2>2 DEF GCStep, GCStat, GCList, GCSwept, GCSnaps, GCDone, storeVars
<1>7. CASE MigrateStep(c) /\ UNCHANGED todo
  <2>1. CASE MigrateUp(c)
    BY <2>1 DEF MigrateUp, PutSnapshot
  <2> QED
    BY <1>0, <1>7, <2>1 DEF MigrateStep, MigrateTooNew, MigrateDone, MigrateNext, MigrateCas,
       MigrateLost, MigratePhantom, PutMigrate, storeVars, blobVars
<1>8. CASE (RefreshRejected(c) \/ NotFound(c) \/ ApplyConflict(c)) /\ EndEarly(c)
  BY <1>0, <1>8 DEF RefreshRejected, NotFound, ApplyConflict, storeVars
<1> QED
  BY <1>1, <1>2, <1>3, <1>4, <1>5, <1>6, <1>7, <1>8 DEF Step

\* A put of a manifest creates it, or extends or folds the one that c holds.
Puts(c) ==
  \/ manifest = NoManifest /\ manifest' = InitManifest /\ pc[c] = "bootput"
  \/ /\ manifest # NoManifest /\ manifest = cm[c] /\ epoch(manifest') = epoch(manifest)
     /\ pc[c] = "cas" /\ manifest' = newManifest(c)
  \/ /\ manifest # NoManifest /\ manifest = cm[c] /\ epoch(manifest') = snapKey[c]
     /\ pc[c] \in Pending /\ manifest'.log = <<>>

\* Such a step leaves the other blobs alone.
LEMMA StepPuts ==
  ASSUME Typed, NEW c \in Clients, Call(c) \/ Step(c) \/ Disrupt(c)
  PROVE  manifest' = manifest \/ (Puts(c) /\ UNCHANGED blobVars)
<1> USE DEF Puts
<1>1. CASE Call(c)
  BY <1>1 DEF Call, OpenStart, ViewStart, UpdateStart, CompactStart, GCStart, Start, storeVars
<1>2. CASE Disrupt(c)
  BY <1>2 DEF Disrupt, StoreError, Crash, Close, storeVars
<1>3. CASE ClientStep(c) /\ UNCHANGED <<updateVars, todo, lastVer>>
  BY <1>3 DEF ClientStep, Refresh, Download, Fetch, Apply, Open, OpenEmpty, BootUpload, At,
     BootPut, BootLost, BootPhantom, View, IfNoneMatch, PutManifest, storeVars
<1>4. CASE CommitStep(c) /\ UNCHANGED <<todo, lastVer>>
  <2>1. PutCommit(c) => /\ manifest # NoManifest /\ manifest = cm[c] /\ UNCHANGED blobVars
                        /\ manifest' = newManifest(c) /\ epoch(manifest') = epoch(manifest)
    BY IfMatchFacts DEF PutCommit, PutManifest, newManifest, appendLog, epoch
  <2> QED
    BY <1>4, <2>1 DEF CommitStep, CaptureNothing, Capture, Unorphan, Upload, Cas, CasPhantom, CasLost,
       Reload, RebaseEntry, RebaseNotFound, Rebased, Exhausted, rollbackAndResync,
       DeleteChangesets, At, storeVars
<1>5. CASE CompactStep(c) /\ UNCHANGED <<todo, lastVer>>
  <2>1. PutCompact(c) => /\ manifest # NoManifest /\ manifest = cm[c] /\ UNCHANGED blobVars
                         /\ manifest'.log = <<>> /\ epoch(manifest') = snapKey[c]
    BY IfMatchFacts DEF PutCompact, PutManifest, compactManifest, withSnapshot, epoch
  <2> QED
    BY <1>5, <2>1 DEF CompactStep, CompactNothing, CompactUpload, CompactCas, CompactPhantom,
       CompactLost, PutSnapshot, Pending, At, storeVars
<1>6. CASE GCStep(c) /\ UNCHANGED lastVer
  BY <1>6 DEF GCStep, GCStat, GCList, GCSweep, GCSwept, GCSnaps, GCDelete, GCDone,
     DeleteChangesets, DeleteSnapshot, storeVars
<1>7. CASE MigrateStep(c) /\ UNCHANGED todo
  <2>1. PutMigrate(c) => /\ manifest # NoManifest /\ manifest = cm[c] /\ UNCHANGED blobVars
                         /\ manifest'.log = <<>> /\ epoch(manifest') = snapKey[c]
    BY IfMatchFacts DEF PutMigrate, PutManifest, migrateManifest, epoch
  <2> QED
    BY <1>7, <2>1 DEF MigrateStep, MigrateTooNew, MigrateDone, MigrateNext, MigrateUp, MigrateCas,
       MigrateLost, MigratePhantom, PutSnapshot, Pending, At, storeVars
<1>8. CASE (RefreshRejected(c) \/ NotFound(c) \/ ApplyConflict(c)) /\ EndEarly(c)
  BY <1>8 DEF RefreshRejected, NotFound, ApplyConflict, storeVars
<1> QED
  BY <1>1, <1>2, <1>3, <1>4, <1>5, <1>6, <1>7, <1>8 DEF Step
-----------------------------------------------------------------------------
(***************************************************************************)
(* Where the client that takes the step gets to, and with what.            *)
(***************************************************************************)

\* An operation goes on to a label of its own kind, or was allowed to start.
RoleMoves(c) ==
  /\ \A op \in OpKinds : left'[c][op] > 0 => left[c][op] > 0
  /\ Target(c)' \in UpdateLabels => Target(c) \in UpdateLabels \/ left[c]["update"] > 0
  /\ Target(c)' \in Sweeping => Target(c) \in Sweeping \/ left[c]["gc"] > 0
  /\ Target(c)' \in {"compact", "compactcas"} =>
       \/ Target(c) \in {"compact", "compactcas"} \/ left[c]["compact"] > 0
       \/ AutoCompact > 0 /\ Target(c) \in UpdateLabels

\* Where the labels of the three kinds are.
LEMMA Kinds ==
  LET Elsewhere == {"idle", "closed", "view", "open", "bootupload", "bootput", "migrate", "up", "migcas"}
      Folding == {"compact", "compactcas"}
  IN /\ Elsewhere \cap UpdateLabels = {} /\ Elsewhere \cap Sweeping = {} /\ Elsewhere \cap Folding = {}
     /\ Elsewhere \cap SyncLabels = {} /\ UpdateLabels \cap SyncLabels = {} /\ Sweeping \cap SyncLabels = {}
     /\ Folding \cap SyncLabels = {} /\ UpdateLabels \cap Sweeping = {} /\ UpdateLabels \cap Folding = {}
     /\ Sweeping \cap Folding = {}
BY DEF UpdateLabels, Sweeping, SyncLabels

\* Every step of c moves like that.
LEMMA StepRole ==
  ASSUME Typed, NEW c \in Clients, Call(c) \/ Step(c) \/ Disrupt(c)
  PROVE  RoleMoves(c)
<1>0. Shape3 /\ FlowInv(c)
  BY Shape3Holds, ClientFacts
<1> USE DEF Shape3, Shapes
<1> DEFINE Elsewhere == {"idle", "closed", "view", "open", "bootupload", "bootput", "migrate", "up", "migcas"}
           Folding == {"compact", "compactcas"}
           Kept == left'[c] = left[c]
<1>1. ASSUME Kept,
             \/ Target(c)' \in Elsewhere
             \/ Target(c)' = Target(c)
             \/ Target(c) \in UpdateLabels /\ Target(c)' \in UpdateLabels
             \/ Target(c) \in Sweeping /\ Target(c)' \in Sweeping
             \/ Target(c)' \in Folding
                /\ (Target(c) \in Folding \/ (AutoCompact > 0 /\ Target(c) \in UpdateLabels))
      PROVE  RoleMoves(c)
  BY <1>1, Kinds DEF RoleMoves
<1>2. ASSUME Return(c) \/ Shut(c) PROVE RoleMoves(c)
  <2>1. pc'[c] \in {"idle", "closed"} /\ Kept
    BY <1>0, <1>2 DEF Return, Shut, Goto
  <2> QED
    BY <1>1, <2>1, Kinds DEF Target
<1>3. CASE Call(c)
  <2>1. ASSUME NEW op \in OpKinds, NEW from, NEW l, NEW r, Start(c, op, from, l, r),
               l = "open" \/ (l = "refresh" /\ op # "open"),
               r = (CASE op = "open" -> "migrate" [] op = "view" -> "view" [] op = "update" -> "capture"
                      [] op = "compact" -> "compact" [] OTHER -> "gc")
        PROVE  RoleMoves(c)
    <3>1. /\ pc'[c] = l /\ ret'[c] = r /\ left[c][op] > 0 /\ left[c] \in [OpKinds -> Nat]
          /\ left'[c] = [left[c] EXCEPT ![op] = left[c][op] - 1]
      BY <1>0, <2>1 DEF Start, Goto
    <3>2. \A o \in OpKinds : left'[c][o] > 0 => left[c][o] > 0
      BY <3>1
    <3>3. Target(c)' = IF l = "open" THEN "open" ELSE r
      BY <2>1, <3>1 DEF Target, SyncLabels
    <3> QED
      BY <2>1, <3>1, <3>2, <3>3 DEF RoleMoves, UpdateLabels, Sweeping, OpKinds
  <2> QED
    BY <1>3, <2>1 DEF Call, OpenStart, ViewStart, UpdateStart, CompactStart, GCStart, OpKinds
<1>4. CASE Disrupt(c)
  BY <1>2, <1>4 DEF Disrupt, StoreError, Crash, Close, Fail
<1>5. CASE ClientStep(c) /\ UNCHANGED <<updateVars, todo, lastVer>>
  <2>1. CASE Refresh(c)
    <3>1. /\ pc[c] = "refresh" /\ ret'[c] = ret[c] /\ pc'[c] \in {"download", "fetch", ret[c]} /\ Kept
          /\ ret[c] \in {"view", "capture", "compact", "gc"}
      BY <1>0, <2>1, SyncMoves DEF Refresh, At, FlowInv
    <3> QED
      BY <1>1, <3>1 DEF Target, SyncLabels
  <2>2. CASE Download(c) \/ Fetch(c) \/ Apply(c)
    <3>1. /\ pc[c] \in {"download", "fetch", "apply"} /\ ret'[c] = ret[c] /\ Kept
          /\ pc'[c] \in {"fetch", "apply", ret[c]} /\ ret[c] \in Rets
      BY <1>0, <2>2 DEF Download, Fetch, Apply, At, Goto
    <3> QED
      BY <1>1, <3>1 DEF Target, SyncLabels, Rets, OpenRets
  <2>3. CASE Open(c) \/ BootPut(c)
    <3>1. PICK m, next : /\ Kept /\ next \in {"idle", "migrate"}
                         /\ syncToManifest(c, m, NoConn, NoSnap, next)
      BY <2>3 DEF Open, BootPut, OpenWith
    <3>2. ret'[c] = next /\ pc'[c] \in {"download", "fetch", next}
      BY <3>1, SyncMoves
    <3> QED
      BY <1>1, <3>1, <3>2 DEF Target, SyncLabels
  <2>4. CASE OpenEmpty(c) \/ BootUpload(c) \/ BootLost(c) \/ (BootPhantom(c) /\ ~Fail(c))
    <3>1. pc'[c] \in {"open", "bootupload", "bootput"} /\ Kept
      BY <1>0, <2>4 DEF OpenEmpty, BootUpload, BootLost, BootPhantom, Goto
    <3> QED
      BY <1>1, <3>1 DEF Target, SyncLabels
  <2> QED
    BY <1>2, <1>5, <2>1, <2>2, <2>3, <2>4 DEF ClientStep, View, BootPhantom, Fail
<1>6. CASE CommitStep(c) /\ UNCHANGED <<todo, lastVer>>
  <2> DEFINE Updating == Target(c) \in UpdateLabels
  <2>1. pc[c] \in UpdateLabels => Updating
    BY Kinds DEF Target
  <2>2. ASSUME NEW m, UpdateDone(c, m), Updating, Kept PROVE RoleMoves(c)
    <3>1. pc'[c] = "idle" \/ (pc'[c] = "refresh" /\ ret'[c] = "compact" /\ AutoCompact > 0)
      BY <1>0, <2>2 DEF UpdateDone, Goto
    <3> QED
      BY <1>1, <2>2, <3>1 DEF Target, SyncLabels
  <2>3. CASE CaptureNothing(c) \/ Cas(c)
    BY <1>2, <2>1, <2>2, <2>3 DEF CaptureNothing, Cas, At, UpdateLabels
  <2>4. CASE Capture(c) \/ Unorphan(c) \/ Upload(c) \/ CasLost(c) \/ Rebased(c)
    <3>1. pc[c] \in UpdateLabels /\ pc'[c] \in {"unorphan", "upload", "cas", "reload", "exhausted"} /\ Kept
      BY <1>0, <2>4 DEF Capture, Unorphan, Upload, CasLost, Rebased, Goto, Again, At, UpdateLabels
    <3> QED
      BY <1>1, <2>1, <3>1 DEF Target, SyncLabels, UpdateLabels
  <2>5. ASSUME NEW m, rollbackAndResync(c, m), Updating PROVE RoleMoves(c)
    <3>1. /\ Kept /\ pc'[c] \in {"download", "fetch", "capture", "exhausted"}
          /\ ret'[c] \in {"capture", "exhausted"}
      BY <2>5, SyncMoves DEF rollbackAndResync, Again
    <3> QED
      BY <1>1, <2>5, <3>1 DEF Target, SyncLabels, UpdateLabels
  <2>6. CASE (Reload(c) /\ ~rollbackAndResync(c, manifest))
             \/ (RebaseEntry(c) /\ ~rollbackAndResync(c, m2[c]))
    <3>1. pc[c] \in UpdateLabels /\ pc'[c] = "rebase" /\ Kept
      BY <1>0, <2>6 DEF Reload, RebaseEntry, At, Goto, flowVars, UpdateLabels
    <3> QED
      BY <1>1, <2>1, <3>1 DEF Target, SyncLabels, UpdateLabels
  <2>7. CASE Reload(c) \/ RebaseEntry(c)
    <3>1. Updating
      BY <2>1, <2>7 DEF Reload, RebaseEntry, At, UpdateLabels
    <3> QED
      BY <2>5, <2>6, <2>7, <3>1
  <2> QED
    BY <1>2, <1>6, <2>3, <2>4, <2>7 DEF CommitStep, CasPhantom, RebaseNotFound, Exhausted
<1>7. CASE CompactStep(c) /\ UNCHANGED <<todo, lastVer>>
  <2>1. CASE CompactUpload(c) \/ (CompactLost(c) /\ ~Return(c))
    <3>1. /\ pc[c] \in Folding /\ Kept /\ ret'[c] = ret[c] /\ ret[c] = "compact"
          /\ pc'[c] \in {"compactcas", "refresh"}
      BY <1>0, <2>1 DEF CompactUpload, CompactLost, Goto, At, FlowInv
    <3> QED
      BY <1>1, <3>1 DEF Target, SyncLabels
  <2>2. CASE CompactCas(c)
    <3>1. pc'[c] = "idle" /\ Kept
      BY <1>0, <2>2 DEF CompactCas, Goto
    <3> QED
      BY <1>1, <3>1 DEF Target, SyncLabels
  <2> QED
    BY <1>2, <1>7, <2>1, <2>2 DEF CompactStep, CompactNothing, CompactPhantom
<1>8. CASE GCStep(c) /\ UNCHANGED lastVer
  <2>1. CASE ~GCDone(c)
    <3>1. pc[c] \in Sweeping /\ pc'[c] \in Sweeping /\ Kept
      BY <1>0, <1>8, <2>1 DEF GCStep, GCStat, GCList, GCSweep, GCSwept, GCSnaps, GCDelete, At, Goto,
         gcFrame, Sweeping
    <3> QED
      BY <1>1, <3>1, Kinds DEF Target
  <2> QED
    BY <1>2, <2>1 DEF GCDone
<1>9. CASE MigrateStep(c) /\ UNCHANGED todo
  <2>1. CASE MigrateDone(c) \/ MigrateNext(c)
    <3>1. PICK key, next : /\ Kept /\ next \in {"idle", "up"}
                           /\ syncToManifest(c, manifest, conn[c], key, next)
      BY <2>1 DEF MigrateDone, MigrateNext
    <3>2. ret'[c] = next /\ pc'[c] \in {"download", "fetch", next}
      BY <3>1, SyncMoves
    <3> QED
      BY <1>1, <3>1, <3>2 DEF Target, SyncLabels
  <2>2. CASE MigrateUp(c) \/ MigrateCas(c) \/ MigrateLost(c)
    <3>1. pc'[c] \in {"migcas", "migrate"} /\ Kept
      BY <1>0, <2>2 DEF MigrateUp, MigrateCas, MigrateLost, Goto
    <3> QED
      BY <1>1, <3>1 DEF Target, SyncLabels
  <2> QED
    BY <1>2, <1>9, <2>1, <2>2 DEF MigrateStep, MigrateTooNew, MigratePhantom
<1>10. CASE (RefreshRejected(c) \/ NotFound(c) \/ ApplyConflict(c)) /\ EndEarly(c)
  BY <1>2, <1>10 DEF RefreshRejected, NotFound, ApplyConflict, Fail
<1> QED
  BY <1>3, <1>4, <1>5, <1>6, <1>7, <1>8, <1>9, <1>10 DEF Step

\* The manifests that c holds are the ones it held, or it got the one of the bucket.
ManifestMoves(c) ==
  /\ cm'[c] \in {cm[c], m2[c], manifest', InitManifest}
  /\ m2'[c] \in {m2[c], manifest', InitManifest}

\* No step of c gets one from elsewhere.
LEMMA StepManifests ==
  ASSUME Typed, NEW c \in Clients, Call(c) \/ Step(c) \/ Disrupt(c)
  PROVE  ManifestMoves(c)
<1>0. Shape3
  BY Shape3Holds
<1> USE DEF Shape3, Shapes, ManifestMoves
<1>e. Return(c) \/ Shut(c) => cm'[c] \in {cm[c], InitManifest}
  BY <1>0 DEF Return, Shut
<1>f. Forget(c) => m2'[c] = InitManifest
  BY <1>0 DEF Forget
<1>1. CASE Call(c)
  BY <1>1 DEF Call, OpenStart, ViewStart, UpdateStart, CompactStart, GCStart, Start, connVars, updateVars
<1>2. CASE Disrupt(c)
  BY <1>2, <1>e, <1>f DEF Disrupt, StoreError, Crash, Close, EndEarly, Fail
<1>3. CASE ClientStep(c) /\ UNCHANGED <<updateVars, todo, lastVer>>
  <2>1. CASE Refresh(c) \/ Open(c) \/ BootPut(c)
    BY <1>0, <1>3, <2>1, SyncMoves DEF Refresh, Open, BootPut, OpenWith, PutManifest, storeVars, updateVars
  <2> QED
    BY <1>3, <1>e, <2>1 DEF ClientStep, Download, Fetch, Apply, OpenEmpty, BootUpload,
       BootLost, BootPhantom, View, Fail, connVars, updateVars
<1>4. CASE CommitStep(c) /\ UNCHANGED <<todo, lastVer>>
  <2>1. ASSUME NEW m, rollbackAndResync(c, m) PROVE cm'[c] = m /\ m2'[c] = InitManifest
    BY <1>0, <2>1, SyncMoves DEF rollbackAndResync
  <2>2. CASE Reload(c) \/ RebaseEntry(c)
    BY <1>0, <2>1, <2>2 DEF Reload, RebaseEntry, storeVars, connVars, rollbackAndResync
  <2>3. CASE Cas(c)
    BY <1>0, <1>f, <2>3 DEF Cas, PutCommit, PutManifest, UpdateDone
  <2>4. CASE Rebased(c)
    BY <1>0, <2>4 DEF Rebased
  <2> QED
    BY <1>4, <1>e, <1>f, <2>2, <2>3, <2>4 DEF CommitStep, CaptureNothing, Capture, Unorphan, Upload,
       CasPhantom, CasLost, RebaseNotFound, Exhausted, UpdateDone, connVars, updateVars
<1>5. CASE CompactStep(c) /\ UNCHANGED <<todo, lastVer>>
  BY <1>0, <1>5, <1>e DEF CompactStep, CompactNothing, CompactUpload, CompactCas, CompactPhantom,
     CompactLost, PutCompact, PutManifest, connVars, updateVars
<1>6. CASE GCStep(c) /\ UNCHANGED lastVer
  BY <1>6, <1>e DEF GCStep, GCStat, GCList, GCSweep, GCSwept, GCSnaps, GCDelete, GCDone, gcFrame,
     connVars, updateVars
<1>7. CASE MigrateStep(c) /\ UNCHANGED todo
  <2>1. CASE MigrateDone(c) \/ MigrateNext(c)
    BY <1>0, <2>1, SyncMoves DEF MigrateDone, MigrateNext, storeVars, updateVars
  <2> QED
    BY <1>0, <1>7, <1>e, <2>1 DEF MigrateStep, MigrateTooNew, MigrateUp, MigrateCas,
       MigrateLost, MigratePhantom, PutMigrate, PutManifest, connVars, updateVars
<1>8. CASE (RefreshRejected(c) \/ NotFound(c) \/ ApplyConflict(c)) /\ EndEarly(c)
  BY <1>8, <1>e, <1>f DEF RefreshRejected, NotFound, ApplyConflict, EndEarly, Fail
<1> QED
  BY <1>1, <1>2, <1>3, <1>4, <1>5, <1>6, <1>7, <1>8 DEF Step

\* A GC works with the manifest that it loaded, and sweeps what it listed, if
\* the snapshot that it asked for was old.
SweepMoves(c) ==
  /\ Target(c)' \in Sweeping /\ pc'[c] # "refresh" =>
       /\ UNCHANGED manifest
       /\ \/ cm'[c] = manifest /\ manifest # NoManifest
          \/ cm'[c] = cm[c] /\ Target(c) \in Sweeping /\ pc[c] # "refresh"
  /\ pc'[c] = "gcsweep" =>
       /\ cm'[c] = cm[c]
       /\ \/ todo'[c] = deletableEpochs(cm[c])
          \/ pc[c] = "gcsweep" /\ todo'[c] \subseteq todo[c]
  /\ pc'[c] \in {"gclist", "gcsweep"} =>
       /\ UNCHANGED <<manifest, young>>
       /\ \/ pc[c] \in {"gclist", "gcsweep"}
          \/ pc[c] = "gc" /\ (Grace => epoch(cm[c]) \notin young)

\* So does every step of c.
LEMMA StepSweeps ==
  ASSUME Typed, NEW c \in Clients, Call(c) \/ Step(c) \/ Disrupt(c)
  PROVE  SweepMoves(c)
<1>0. Shape3 /\ FlowInv(c)
  BY Shape3Holds, ClientFacts
<1> USE DEF Shape3, Shapes
<1>1. ASSUME Target(c)' \notin Sweeping \/ pc'[c] = "refresh" PROVE SweepMoves(c)
  BY <1>1 DEF SweepMoves, Target, Sweeping, SyncLabels
<1>2. ASSUME Return(c) \/ Shut(c) PROVE SweepMoves(c)
  <2>1. pc'[c] \in {"idle", "closed"}
    BY <1>0, <1>2 DEF Return, Shut, Goto
  <2> QED
    BY <1>1, <2>1 DEF Target, Sweeping, SyncLabels
<1>3. CASE Call(c)
  <2>1. pc'[c] \in {"open", "refresh"}
    BY <1>0, <1>3 DEF Call, OpenStart, ViewStart, UpdateStart, CompactStart, GCStart, Start, Goto
  <2> QED
    BY <1>1, <2>1 DEF Target, Sweeping, SyncLabels
<1>4. CASE Disrupt(c)
  BY <1>2, <1>4 DEF Disrupt, StoreError, Crash, Close, Fail
<1>5. CASE ClientStep(c) /\ UNCHANGED <<updateVars, todo, lastVer>>
  <2>1. CASE Refresh(c)
    <3>1. /\ UNCHANGED manifest /\ cm'[c] = manifest /\ manifest # NoManifest
          /\ pc'[c] \in {"download", "fetch", "view", "capture", "compact", "gc"}
      BY <1>0, <2>1, SyncMoves DEF Refresh, At, FlowInv, storeVars
    <3> QED
      BY <3>1 DEF SweepMoves
  <2>2. CASE Download(c) \/ Fetch(c) \/ Apply(c)
    <3>1. /\ pc[c] \in {"download", "fetch", "apply"} /\ ret'[c] = ret[c] /\ cm'[c] = cm[c]
          /\ pc'[c] \in {"fetch", "apply", ret[c]} /\ ret[c] \in Rets /\ UNCHANGED manifest
      BY <1>0, <2>2 DEF Download, Fetch, Apply, At, Goto, storeVars, connVars
    <3> QED
      BY <3>1 DEF SweepMoves, Target, SyncLabels, Rets, OpenRets
  <2>3. CASE Open(c) \/ BootPut(c)
    <3>1. PICK m, next : /\ next \in {"idle", "migrate"}
                         /\ syncToManifest(c, m, NoConn, NoSnap, next)
      BY <2>3 DEF Open, BootPut, OpenWith
    <3>2. ret'[c] = next /\ pc'[c] \in {"download", "fetch", next}
      BY <3>1, SyncMoves
    <3> QED
      BY <1>1, <3>1, <3>2 DEF Target, SyncLabels, Sweeping
  <2>4. CASE OpenEmpty(c) \/ BootUpload(c) \/ BootLost(c) \/ (BootPhantom(c) /\ ~Fail(c))
    <3>1. pc'[c] \in {"open", "bootupload", "bootput"}
      BY <1>0, <2>4 DEF OpenEmpty, BootUpload, BootLost, BootPhantom, Goto
    <3> QED
      BY <1>1, <3>1 DEF Target, SyncLabels, Sweeping
  <2> QED
    BY <1>2, <1>5, <2>1, <2>2, <2>3, <2>4 DEF ClientStep, View, BootPhantom, Fail
<1>6. CASE CommitStep(c) /\ UNCHANGED <<todo, lastVer>>
  <2>1. ASSUME NEW m, UpdateDone(c, m) PROVE pc'[c] \in {"idle", "refresh"}
    BY <1>0, <2>1 DEF UpdateDone, Goto
  <2>2. ASSUME NEW m, rollbackAndResync(c, m)
        PROVE  /\ pc'[c] \in {"download", "fetch", "capture", "exhausted"}
               /\ ret'[c] \in {"capture", "exhausted"}
    BY <2>2, SyncMoves DEF rollbackAndResync, Again
  <2>3. CASE CaptureNothing(c) \/ Cas(c)
    BY <1>1, <1>2, <2>1, <2>3 DEF CaptureNothing, Cas, Target, Sweeping, SyncLabels
  <2>4. CASE Capture(c) \/ Unorphan(c) \/ Upload(c) \/ CasLost(c) \/ Rebased(c)
    <3>1. pc'[c] \in {"unorphan", "upload", "cas", "reload", "exhausted"}
      BY <1>0, <2>4 DEF Capture, Unorphan, Upload, CasLost, Rebased, Goto, Again
    <3> QED
      BY <1>1, <3>1 DEF Target, SyncLabels, Sweeping
  <2>5. CASE Reload(c) \/ RebaseEntry(c)
    <3>1. \/ pc'[c] = "rebase"
          \/ pc'[c] \in {"download", "fetch", "capture", "exhausted"} /\ ret'[c] \in {"capture", "exhausted"}
      BY <1>0, <2>2, <2>5 DEF Reload, RebaseEntry, At, Goto, flowVars
    <3> QED
      BY <1>1, <3>1 DEF Target, SyncLabels, Sweeping
  <2> QED
    BY <1>2, <1>6, <2>3, <2>4, <2>5 DEF CommitStep, CasPhantom, RebaseNotFound, Exhausted
<1>7. CASE CompactStep(c) /\ UNCHANGED <<todo, lastVer>>
  <2>1. CASE CompactUpload(c) \/ CompactCas(c) \/ (CompactLost(c) /\ ~Return(c))
    <3>1. pc'[c] \in {"compactcas", "idle", "refresh"}
      BY <1>0, <2>1 DEF CompactUpload, CompactCas, CompactLost, Goto
    <3> QED
      BY <1>1, <3>1 DEF Target, SyncLabels, Sweeping
  <2> QED
    BY <1>2, <1>7, <2>1 DEF CompactStep, CompactNothing, CompactPhantom
<1>8. CASE GCStep(c) /\ UNCHANGED lastVer
  <2>1. CASE ~GCDone(c)
    <3>1. /\ pc[c] \in Sweeping /\ pc'[c] \in Sweeping /\ UNCHANGED <<manifest, cm>>
          /\ pc'[c] \in {"gclist", "gcsweep"} => UNCHANGED young
      BY <1>0, <1>8, <2>1 DEF GCStep, GCStat, GCList, GCSweep, GCSwept, GCSnaps, GCDelete, At, Goto,
         gcFrame, Sweeping, storeVars, connVars, DeleteChangesets, DeleteSnapshot
    <3>2. pc'[c] = "gcsweep" =>
            todo'[c] = deletableEpochs(cm[c]) \/ (pc[c] = "gcsweep" /\ todo'[c] \subseteq todo[c])
      BY <1>0, <1>8, <2>1 DEF GCStep, GCStat, GCList, GCSweep, GCSwept, GCSnaps, GCDelete, At, Goto
    <3>3. pc'[c] \in {"gclist", "gcsweep"} =>
            \/ pc[c] \in {"gclist", "gcsweep"}
            \/ pc[c] = "gc" /\ (Grace => epoch(cm[c]) \notin young)
      BY <1>0, <1>8, <2>1 DEF GCStep, GCStat, GCList, GCSweep, GCSwept, GCSnaps, GCDelete, At, Goto, oldEnough
    <3>4. Target(c) \in Sweeping /\ pc[c] # "refresh"
      BY <3>1 DEF Target, Sweeping, SyncLabels
    <3> QED
      BY <3>1, <3>2, <3>3, <3>4 DEF SweepMoves
  <2> QED
    BY <1>2, <2>1 DEF GCDone
<1>9. CASE MigrateStep(c) /\ UNCHANGED todo
  <2>1. CASE MigrateDone(c) \/ MigrateNext(c)
    <3>1. PICK key, next : /\ next \in {"idle", "up"}
                           /\ syncToManifest(c, manifest, conn[c], key, next)
      BY <2>1 DEF MigrateDone, MigrateNext
    <3>2. ret'[c] = next /\ pc'[c] \in {"download", "fetch", next}
      BY <3>1, SyncMoves
    <3> QED
      BY <1>1, <3>1, <3>2 DEF Target, SyncLabels, Sweeping
  <2>2. CASE MigrateUp(c) \/ MigrateCas(c) \/ MigrateLost(c)
    <3>1. pc'[c] \in {"migcas", "migrate"}
      BY <1>0, <2>2 DEF MigrateUp, MigrateCas, MigrateLost, Goto
    <3> QED
      BY <1>1, <3>1 DEF Target, SyncLabels, Sweeping
  <2> QED
    BY <1>2, <1>9, <2>1, <2>2 DEF MigrateStep, MigrateTooNew, MigratePhantom
<1>10. CASE (RefreshRejected(c) \/ NotFound(c) \/ ApplyConflict(c)) /\ EndEarly(c)
  BY <1>2, <1>10 DEF RefreshRejected, NotFound, ApplyConflict, Fail
<1> QED
  BY <1>3, <1>4, <1>5, <1>6, <1>7, <1>8, <1>9, <1>10 DEF Step

\* An upload comes right before the steps that rely on it.
UploadMoves(c) ==
  /\ pc'[c] \in AfterUpload =>
       /\ UNCHANGED <<manifest, csKey>>
       /\ csKey[c] \in changesets' \/ (pc[c] \in AfterUpload /\ UNCHANGED changesets)
  /\ pc'[c] \in Pending =>
       UNCHANGED <<manifest, cm, m2>> /\ snapKey'[c] = NextSnap /\ Recent(snapKey[c])'
  /\ pc'[c] = "bootput" =>
       UNCHANGED manifest /\ pc[c] = "bootupload" /\ Recent(InitSnap)'
  /\ pc'[c] = "bootupload" => manifest' = NoManifest

\* A sync, and a rebase, begin with the manifest of the bucket.
LoadMoves(c) ==
  /\ pc'[c] \in {"download", "fetch"} =>
       /\ UNCHANGED blobVars
       /\ \/ cm'[c] = manifest' /\ manifest' # NoManifest
          \/ UNCHANGED manifest /\ pc[c] \in {"download", "fetch"} /\ cm'[c] = cm[c]
          \/ UNCHANGED manifest /\ pc[c] = "rebase" /\ cm'[c] = m2[c]
  /\ pc'[c] = "rebase" =>
       /\ UNCHANGED <<manifest, blobVars>>
       /\ (m2'[c] = manifest /\ manifest # NoManifest) \/ (pc[c] = "rebase" /\ m2'[c] = m2[c])

\* Every step of c keeps that order.
LEMMA StepUploads ==
  ASSUME Typed, "retry412" \notin Faults, NEW c \in Clients, Call(c) \/ Step(c) \/ Disrupt(c)
  PROVE  UploadMoves(c) /\ LoadMoves(c)
<1>0. Shape3 /\ FlowInv(c)
  BY Shape3Holds, ClientFacts
<1> USE DEF Shape3, Shapes
<1> DEFINE Goal == UploadMoves(c) /\ LoadMoves(c)
           Special == AfterUpload \cup Pending \cup {"bootput", "bootupload", "download", "fetch"}
<1>1. ASSUME pc'[c] \notin Special PROVE Goal
  BY <1>1 DEF UploadMoves, LoadMoves, AfterUpload
<1>2. ASSUME Return(c) \/ Shut(c) PROVE Goal
  <2>1. pc'[c] \in {"idle", "closed"}
    BY <1>0, <1>2 DEF Return, Shut, Goto
  <2> QED
    BY <1>1, <2>1 DEF AfterUpload, Pending
<1>3. CASE Call(c)
  <2>1. pc'[c] \in {"open", "refresh"}
    BY <1>0, <1>3 DEF Call, OpenStart, ViewStart, UpdateStart, CompactStart, GCStart, Start, Goto
  <2> QED
    BY <1>1, <2>1 DEF AfterUpload, Pending
<1>4. CASE Disrupt(c)
  BY <1>2, <1>4 DEF Disrupt, StoreError, Crash, Close, Fail
\* The end of a sync, and its beginning with the manifest of the bucket.
<1>s. ASSUME pc'[c] \in {"download", "fetch"} \/ pc'[c] \notin Special,
             UNCHANGED blobVars, cm'[c] = manifest', manifest' # NoManifest
      PROVE  Goal
  BY <1>s DEF UploadMoves, LoadMoves, AfterUpload, Pending
<1>5. CASE ClientStep(c) /\ UNCHANGED <<updateVars, todo, lastVer>>
  <2>1. CASE Refresh(c)
    <3>1. /\ UNCHANGED <<manifest, blobVars>> /\ cm'[c] = manifest /\ manifest # NoManifest
          /\ pc'[c] \in {"download", "fetch", "view", "capture", "compact", "gc"}
      BY <1>0, <2>1, SyncMoves DEF Refresh, At, FlowInv, storeVars, blobVars
    <3> QED
      BY <1>s, <3>1 DEF AfterUpload, Pending
  <2>2. CASE Download(c) \/ Fetch(c) \/ Apply(c)
    <3>1. /\ pc[c] \in {"download", "fetch", "apply"} /\ cm'[c] = cm[c]
          /\ pc'[c] = "fetch" => pc[c] \in {"download", "fetch"}
          /\ pc'[c] \in {"fetch", "apply", ret[c]} /\ ret[c] \in Rets /\ UNCHANGED <<manifest, blobVars>>
      BY <1>0, <2>2 DEF Download, Fetch, Apply, At, Goto, storeVars, blobVars, connVars, Rets, OpenRets
    <3> QED
      BY <3>1 DEF UploadMoves, LoadMoves, AfterUpload, Pending, Rets, OpenRets
  <2>3. CASE Open(c) \/ BootPut(c)
    <3>1. PICK next : /\ next \in {"idle", "migrate"} /\ UNCHANGED blobVars
                      /\ syncToManifest(c, manifest', NoConn, NoSnap, next)
                      /\ manifest' # NoManifest
      BY <2>3, StoreAssumption, InitManifestType DEF Open, BootPut, OpenWith, PutManifest, storeVars, blobVars
    <3>2. cm'[c] = manifest' /\ pc'[c] \in {"download", "fetch", next}
      BY <3>1, SyncMoves
    <3> QED
      BY <1>s, <3>1, <3>2 DEF AfterUpload, Pending
  <2>4. CASE OpenEmpty(c)
    <3>1. pc'[c] = "bootupload" /\ manifest' = NoManifest
      BY <1>0, <2>4 DEF OpenEmpty, Goto, storeVars
    <3> QED
      BY <3>1 DEF UploadMoves, LoadMoves, AfterUpload, Pending
  <2>5. CASE BootUpload(c)
    <3>1. pc'[c] = "bootput" /\ UNCHANGED manifest /\ pc[c] = "bootupload" /\ Recent(InitSnap)'
      BY <1>0, <2>5 DEF BootUpload, Goto, At, Recent
    <3> QED
      BY <3>1 DEF UploadMoves, LoadMoves, AfterUpload, Pending
  <2>6. CASE BootLost(c) \/ (BootPhantom(c) /\ ~Fail(c))
    <3>1. pc'[c] = "open"
      BY <1>0, <2>6 DEF BootLost, BootPhantom, Goto
    <3> QED
      BY <1>1, <3>1 DEF AfterUpload, Pending
  <2> QED
    BY <1>2, <1>5, <2>1, <2>2, <2>3, <2>4, <2>5, <2>6 DEF ClientStep, View, BootPhantom, Fail
<1>6. CASE CommitStep(c) /\ UNCHANGED <<todo, lastVer>>
  <2>1. ASSUME NEW m, UpdateDone(c, m) PROVE pc'[c] \in {"idle", "refresh"}
    BY <1>0, <2>1 DEF UpdateDone, Goto
  <2>2. CASE CaptureNothing(c) \/ Cas(c)
    BY <1>1, <1>2, <2>1, <2>2 DEF CaptureNothing, Cas, AfterUpload, Pending
  <2>3. CASE Capture(c) \/ Unorphan(c)
    <3>1. pc'[c] \in {"unorphan", "upload"}
      BY <1>0, <2>3 DEF Capture, Unorphan, Goto
    <3> QED
      BY <1>1, <3>1 DEF AfterUpload, Pending
  <2>4. CASE Upload(c)
    <3>1. pc'[c] = "cas" /\ UNCHANGED <<manifest, csKey>> /\ csKey[c] \in changesets'
      BY <1>0, <2>4 DEF Upload, Goto, updateVars
    <3> QED
      BY <3>1 DEF UploadMoves, LoadMoves, AfterUpload, Pending
  <2>5. CASE CasLost(c)
    <3>1. pc[c] = "cas" /\ pc'[c] = "reload" /\ UNCHANGED <<manifest, csKey, changesets>>
      BY <1>0, <2>5 DEF CasLost, Goto, At, updateVars, storeVars
    <3> QED
      BY <3>1 DEF UploadMoves, LoadMoves, AfterUpload, Pending
  <2>6. CASE Rebased(c)
    <3>1. pc[c] = "rebase" /\ pc'[c] \in {"cas", "exhausted"} /\ UNCHANGED <<manifest, csKey, changesets>>
      BY <1>0, <2>6 DEF Rebased, Goto, At, Again, storeVars
    <3> QED
      BY <3>1 DEF UploadMoves, LoadMoves, AfterUpload, Pending
  <2>7. ASSUME NEW m, rollbackAndResync(c, m)
        PROVE  /\ pc'[c] \in {"download", "fetch", "capture", "exhausted"} /\ cm'[c] = m
               /\ UNCHANGED <<manifest, blobVars>>
    BY <2>7, SyncMoves DEF rollbackAndResync, Again, storeVars, blobVars
  <2>8. CASE Reload(c)
    <3>1. CASE rollbackAndResync(c, manifest)
      BY <1>s, <2>7, <2>8, <3>1 DEF Reload, AfterUpload, Pending
    <3>2. CASE ~rollbackAndResync(c, manifest)
      <4>1. /\ pc[c] = "reload" /\ pc'[c] = "rebase" /\ UNCHANGED <<manifest, csKey, blobVars>>
            /\ m2'[c] = manifest /\ manifest # NoManifest
        BY <1>0, <2>8, <3>2 DEF Reload, At, Goto, storeVars, blobVars
      <4> QED
        BY <4>1 DEF UploadMoves, LoadMoves, AfterUpload, Pending, blobVars
    <3> QED
      BY <3>1, <3>2
  <2>9. CASE RebaseEntry(c)
    <3>1. CASE rollbackAndResync(c, m2[c])
      <4>1. pc[c] = "rebase"
        BY <2>9 DEF RebaseEntry, At
      <4> QED
        BY <2>7, <3>1, <4>1 DEF UploadMoves, LoadMoves, AfterUpload, Pending
    <3>2. CASE ~rollbackAndResync(c, m2[c])
      <4>1. /\ pc[c] = "rebase" /\ pc'[c] = "rebase" /\ UNCHANGED <<manifest, csKey, blobVars>>
            /\ m2'[c] = m2[c]
        BY <1>0, <2>9, <3>2 DEF RebaseEntry, At, flowVars, storeVars, blobVars
      <4> QED
        BY <4>1 DEF UploadMoves, LoadMoves, AfterUpload, Pending, blobVars
    <3> QED
      BY <3>1, <3>2
  <2> QED
    BY <1>2, <1>6, <2>2, <2>3, <2>4, <2>5, <2>6, <2>8, <2>9
       DEF CommitStep, CasPhantom, RebaseNotFound, Exhausted
<1>p. ASSUME pc'[c] \in Pending, UNCHANGED <<manifest, cm, m2>>, snapKey'[c] = NextSnap,
             NextSnap \in snapshots', Grace => NextSnap \in young'
      PROVE  Goal
  BY <1>p DEF UploadMoves, LoadMoves, AfterUpload, Pending, Recent
<1>7. CASE CompactStep(c) /\ UNCHANGED <<todo, lastVer>>
  <2>1. CASE CompactUpload(c)
    <3>1. /\ pc'[c] \in Pending /\ UNCHANGED <<manifest, cm, m2>> /\ snapKey'[c] = NextSnap
          /\ NextSnap \in snapshots' /\ (Grace => NextSnap \in young')
      BY <1>0, <2>1 DEF CompactUpload, PutSnapshot, Goto, Pending, connVars, updateVars
    <3> QED
      BY <1>p, <3>1
  <2>2. CASE CompactCas(c) \/ (CompactLost(c) /\ ~Return(c))
    <3>1. pc'[c] \in {"idle", "refresh"}
      BY <1>0, <2>2 DEF CompactCas, CompactLost, Goto
    <3> QED
      BY <1>1, <3>1 DEF AfterUpload, Pending
  <2> QED
    BY <1>2, <1>7, <2>1, <2>2 DEF CompactStep, CompactNothing, CompactPhantom
<1>8. CASE GCStep(c) /\ UNCHANGED lastVer
  <2>1. CASE ~GCDone(c)
    <3>1. pc'[c] \in Sweeping
      BY <1>0, <1>8, <2>1 DEF GCStep, GCStat, GCList, GCSweep, GCSwept, GCSnaps, GCDelete, At, Goto, Sweeping
    <3> QED
      BY <1>1, <3>1 DEF Sweeping, AfterUpload, Pending
  <2> QED
    BY <1>2, <2>1 DEF GCDone
<1>9. CASE MigrateStep(c) /\ UNCHANGED todo
  <2>1. CASE MigrateDone(c) \/ MigrateNext(c)
    <3>1. PICK key, next : /\ next \in {"idle", "up"} /\ UNCHANGED <<manifest, blobVars>>
                           /\ syncToManifest(c, manifest, conn[c], key, next) /\ manifest # NoManifest
      BY <2>1 DEF MigrateDone, MigrateNext, storeVars, blobVars
    <3>2. cm'[c] = manifest /\ pc'[c] \in {"download", "fetch", next}
      BY <3>1, SyncMoves
    <3> QED
      BY <1>s, <3>1, <3>2 DEF AfterUpload, Pending
  <2>2. CASE MigrateUp(c)
    <3>1. /\ pc'[c] \in Pending /\ UNCHANGED <<manifest, cm, m2>> /\ snapKey'[c] = NextSnap
          /\ NextSnap \in snapshots' /\ (Grace => NextSnap \in young')
      BY <1>0, <2>2 DEF MigrateUp, PutSnapshot, Goto, Pending, connVars, updateVars
    <3> QED
      BY <1>p, <3>1
  <2>3. CASE MigrateCas(c) \/ MigrateLost(c)
    <3>1. pc'[c] = "migrate"
      BY <1>0, <2>3 DEF MigrateCas, MigrateLost, Goto
    <3> QED
      BY <1>1, <3>1 DEF AfterUpload, Pending
  <2> QED
    BY <1>2, <1>9, <2>1, <2>2, <2>3 DEF MigrateStep, MigrateTooNew, MigratePhantom
<1>10. CASE (RefreshRejected(c) \/ NotFound(c) \/ ApplyConflict(c)) /\ EndEarly(c)
  BY <1>2, <1>10 DEF RefreshRejected, NotFound, ApplyConflict, Fail
<1> QED
  BY <1>3, <1>4, <1>5, <1>6, <1>7, <1>8, <1>9, <1>10 DEF Step
-----------------------------------------------------------------------------
(***************************************************************************)
(* What a step leaves in the bucket.                                       *)
(***************************************************************************)

\* The keys in a log that is known are changesets of its epoch.
LEMMA KnownKeys ==
  ASSUME Typed, NEW m \in Manifests, Known(m)
  PROVE  /\ epoch(m) \in DOMAIN hist
         /\ \A x \in liveChangesets(m) : x.epoch = epoch(m) /\ x.id \in DOMAIN csBody /\ x # NoKey
<1>1. epoch(m) \in DOMAIN hist
  BY DEF Known, epoch
<1>2. epoch(m) \in 1..Len(hist)
  BY <1>1, HistFacts
<1>3. ASSUME NEW i \in DOMAIN m.log
      PROVE  m.log[i].key.epoch = epoch(m) /\ m.log[i].key.id \in DOMAIN csBody /\ m.log[i].key # NoKey
  BY <1>2 DEF Known, epoch, NoKey
<1> QED
  BY <1>1, <1>3 DEF liveChangesets

\* The manifests that the clients hold are known.
LEMMA HeldFacts ==
  ASSUME Typed, NEW d \in Clients
  PROVE  /\ cm[d] \in Manifests /\ Known(cm[d]) /\ m2[d] \in Manifests /\ Known(m2[d])
         /\ epoch(cm[d]) \in DOMAIN hist /\ epoch(m2[d]) \in DOMAIN hist
BY ClientFacts, KnownKeys

\* A client at the labels of a collector knows the current epoch.
LEMMA CollectorFacts ==
  ASSUME NEW c \in Clients, RoleInv(c), SweepInv(c), pc[c] \in Sweeping
  PROVE  /\ MayCollect(c) /\ manifest # NoManifest
         /\ epoch(cm[c]) = epoch(manifest) /\ epoch(cm[c]) = CurrentEpoch
<1>1. Target(c) = pc[c] /\ pc[c] # "refresh"
  BY DEF Target, Sweeping, SyncLabels
<1> QED
  BY <1>1 DEF RoleInv, SweepInv, CurrentEpoch

\* A client that uploaded a snapshot may change the epoch.
LEMMA FolderFacts ==
  ASSUME Typed, NEW c \in Clients, RoleInv(c), pc[c] \in Pending
  PROVE  MayFold(c)
<1>1. CASE pc[c] = "compactcas"
  BY <1>1 DEF RoleInv, Target, SyncLabels
<1>2. CASE pc[c] = "migcas"
  <2>1. cm[c].schema < Version[c]
    BY <1>2, ClientFacts DEF FlowInv, Target, SyncLabels
  <2>2. cm[c].schema \in Nat /\ Version[c] \in Nat
    BY ClientFacts, ClientAssumption DEF Manifests
  <2> QED
    BY <2>1, <2>2 DEF MayFold
<1> QED
  BY <1>1, <1>2 DEF Pending

\* The invariants that the lemmas below start from.
Blobs ==
  /\ Typed /\ BlobInv /\ \A c \in Clients : OwnInv(c)
  /\ OneMaintainer /\ "retry412" \notin Faults

\* The current epoch changes only by the put of a snapshot that is waiting.
NewEpoch(c) ==
  /\ manifest # NoManifest /\ pc[c] \in Pending /\ MayFold(c)
  /\ epoch(manifest') = snapKey[c] /\ manifest'.log = <<>> /\ UNCHANGED blobVars
  /\ Recent(epoch(manifest'))

\* Every other step leaves it as it is.
LEMMA EpochStep ==
  ASSUME Blobs, NEW c \in Clients, Call(c) \/ Step(c) \/ Disrupt(c)
  PROVE  /\ manifest # NoManifest => manifest' # NoManifest
         /\ CurrentEpoch' = CurrentEpoch \/ NewEpoch(c)
<1>1. manifest # NoManifest => manifest' # NoManifest
  BY ManifestStays DEF Blobs
<1>2. manifest' = manifest \/ (Puts(c) /\ UNCHANGED blobVars)
  BY StepPuts DEF Blobs
<1>3. RoleInv(c) /\ PendingInv(c)
  BY DEF Blobs, BlobInv
<1>4. CASE manifest' = manifest
  BY <1>1, <1>4 DEF CurrentEpoch
<1>5. CASE manifest = NoManifest /\ manifest' = InitManifest
  <2>1. epoch(InitManifest) = InitSnap /\ InitManifest # NoManifest
    BY InitManifestType, StoreAssumption DEF epoch, InitManifest
  <2> QED
    BY <1>1, <1>5, <2>1 DEF CurrentEpoch
<1>6. CASE manifest # NoManifest /\ epoch(manifest') = epoch(manifest)
  BY <1>1, <1>6 DEF CurrentEpoch
<1>7. CASE manifest # NoManifest /\ pc[c] \in Pending /\ epoch(manifest') = snapKey[c] /\ manifest'.log = <<>>
           /\ UNCHANGED blobVars
  <2>1. MayFold(c) /\ Recent(snapKey[c])
    BY <1>3, <1>7, FolderFacts DEF Blobs, PendingInv
  <2> QED
    BY <1>1, <1>7, <2>1 DEF NewEpoch
<1> QED
  BY <1>1, <1>2, <1>4, <1>5, <1>6, <1>7 DEF Puts

\* A changeset of the current epoch is deleted by nobody but the client that owns it.
LEMMA ChangesetSpared ==
  ASSUME Blobs, NEW c \in Clients, Call(c) \/ Step(c) \/ Disrupt(c),
         NEW x \in changesets, x # NoKey, x \notin Own(c), x.epoch = CurrentEpoch
  PROVE  x \in changesets'
<1>1. Deletes(c) /\ RoleInv(c) /\ SweepInv(c)
  BY StepDeletes DEF Blobs, BlobInv
<1>2. pc[c] = "gcsweep" => epoch(cm[c]) \notin todo[c] /\ epoch(cm[c]) = CurrentEpoch
  BY <1>1, CollectorFacts DEF SweepInv, Sweeping
<1> QED
  BY <1>1, <1>2 DEF Deletes

\* The current snapshot stays, and so does one that is young, or that no collector
\* runs beside.
LEMMA SnapshotSpared ==
  ASSUME Blobs, NEW c \in Clients, Call(c) \/ Step(c) \/ Disrupt(c), NEW k \in snapshots
  PROVE  /\ k = CurrentEpoch \/ pc[c] # "gcdelete" => k \in snapshots'
         /\ Grace /\ k \in young => k \in snapshots' /\ k \in young'
<1>1. Deletes(c) /\ RoleInv(c) /\ SweepInv(c)
  BY StepDeletes DEF Blobs, BlobInv
<1>2. pc[c] = "gcdelete" => epoch(cm[c]) = CurrentEpoch
  BY <1>1, CollectorFacts DEF Sweeping
<1> QED
  BY <1>1, <1>2 DEF Deletes

\* The bucket holds what the manifest refers to after every step.
LEMMA BlobsStay ==
  ASSUME Blobs, NEW c \in Clients, Call(c) \/ Step(c) \/ Disrupt(c)
  PROVE  BlobsPresent'
<1> SUFFICES ASSUME manifest' # NoManifest
             PROVE  epoch(manifest') \in snapshots' /\ liveChangesets(manifest') \subseteq changesets'
  BY DEF BlobsPresent
<1>1. CASE manifest' = manifest
  <2>1. /\ epoch(manifest) \in snapshots /\ epoch(manifest) = CurrentEpoch
        /\ liveChangesets(manifest) \subseteq changesets
    BY <1>1 DEF Blobs, BlobInv, BlobsPresent, CurrentEpoch
  <2>2. epoch(manifest) \in snapshots'
    BY <2>1, SnapshotSpared
  <2>3. ASSUME NEW x \in liveChangesets(manifest) PROVE x \in changesets'
    <3>1. x.epoch = CurrentEpoch /\ x # NoKey
      BY <1>1, <2>1, KnownKeys, ManifestFacts DEF Blobs
    <3>2. x \notin Own(c)
      BY <1>1 DEF Blobs, OwnInv
    <3> QED
      BY <2>1, <3>1, <3>2, ChangesetSpared
  <2> QED
    BY <1>1, <2>2, <2>3
<1>2. CASE manifest = NoManifest /\ manifest' = InitManifest /\ pc[c] = "bootput" /\ UNCHANGED blobVars
  <2>1. InitSnap \in snapshots
    BY <1>2 DEF Blobs, BlobInv, PendingInv, Recent
  <2> QED
    BY <1>2, <2>1 DEF blobVars, epoch, liveChangesets, InitManifest
<1>3. CASE /\ manifest # NoManifest /\ manifest = cm[c] /\ epoch(manifest') = epoch(manifest)
           /\ pc[c] = "cas" /\ manifest' = newManifest(c) /\ UNCHANGED blobVars
  <2>1. Live' \subseteq Live \cup {csKey[c]}
    BY LiveSteps DEF Blobs
  <2>2. csKey[c] \in changesets
    <3>1. csKey[c].epoch = CurrentEpoch
      BY <1>3, ClientFacts DEF Blobs, PositionInv, InSavepoint, CurrentEpoch, epoch
    <3> QED
      BY <1>3, <3>1 DEF Blobs, BlobInv, PendingInv, AfterUpload
  <2>3. epoch(manifest) \in snapshots /\ Live \subseteq changesets
    BY <1>3 DEF Blobs, BlobInv, BlobsPresent, Live
  <2> QED
    BY <1>3, <2>1, <2>2, <2>3 DEF Live, blobVars
<1>4. CASE /\ manifest # NoManifest /\ epoch(manifest') = snapKey[c] /\ pc[c] \in Pending
           /\ manifest'.log = <<>> /\ UNCHANGED blobVars
  <2>1. snapKey[c] \in snapshots
    BY <1>4 DEF Blobs, BlobInv, PendingInv, Recent
  <2> QED
    BY <1>4, <2>1 DEF blobVars, liveChangesets
<1> QED
  BY <1>1, <1>2, <1>3, <1>4, StepPuts DEF Blobs, Puts
-----------------------------------------------------------------------------
(***************************************************************************)
(* Every step preserves every part of the invariant, for every client.     *)
(***************************************************************************)

\* The budget is only spent, and a label is reached from the operation it belongs to.
LEMMA RoleStays ==
  ASSUME Blobs, NEW c \in Clients, NEW d \in Clients, Call(c) \/ Step(c) \/ Disrupt(c)
  PROVE  RoleInv(d)'
<1>1. RoleInv(d)
  BY DEF Blobs, BlobInv
<1>2. CASE d = c
  <2>1. RoleMoves(c)
    BY StepRole DEF Blobs
  <2> QED
    BY <1>1, <1>2, <2>1 DEF RoleInv, RoleMoves, MayCollect, MayFold, OpKinds
<1>3. CASE d # c
  <2>1. Untouched(d) /\ left'[d] = left[d]
    BY <1>3, OthersUntouched, RestUntouched DEF Blobs
  <2>2. Target(d)' = Target(d)
    BY <2>1 DEF Target, Untouched
  <2> QED
    BY <1>1, <2>1, <2>2 DEF RoleInv
<1> QED
  BY <1>2, <1>3

\* The manifests of all clients after a step of c.
LEMMA ManifestsAfter ==
  ASSUME Typed, NEW c \in Clients, NEW e \in Clients, Call(c) \/ Step(c) \/ Disrupt(c)
  PROVE  /\ cm'[e] \in {cm[e], m2[e], manifest', InitManifest}
         /\ m2'[e] \in {m2[e], manifest', InitManifest}
<1>1. CASE e = c
  BY <1>1, StepManifests DEF ManifestMoves
<1>2. CASE e # c
  BY <1>2, OthersUntouched DEF Untouched
<1> QED
  BY <1>1, <1>2

\* A changeset that its owner may still delete as an orphan (commit.go:179-186) enters
\* no manifest, and a changeset that enters one is nobody's orphan.
LEMMA HeldStays ==
  ASSUME Blobs, NEW c \in Clients, NEW d \in Clients, Call(c) \/ Step(c) \/ Disrupt(c),
         Typed', OwnInv(d)'
  PROVE  HeldInv(d)'
<1> SUFFICES ASSUME NEW e \in Clients
             PROVE  Own(d)' \cap (liveChangesets(cm'[e]) \cup liveChangesets(m2'[e])) = {}
  BY DEF HeldInv
<1>1. /\ Own(d)' \subseteq Own(d)
         \/ (\E x : Own(d)' \subseteq Own(d) \cup {x} /\ x.id = Len(csBody) + 1)
  <2>1. CASE d = c
    BY <2>1, OwnKeys DEF Blobs
  <2>2. CASE d # c
    BY <2>2, OthersUntouched DEF Blobs, Untouched, Own
  <2> QED
    BY <2>1, <2>2
<1>2. ASSUME NEW m \in {cm[e], m2[e]} PROVE Own(d)' \cap liveChangesets(m) = {}
  <2>1. Own(d) \cap liveChangesets(m) = {}
    BY DEF Blobs, BlobInv, HeldInv
  <2>2. \A x \in liveChangesets(m) : x.id # Len(csBody) + 1
    <3>1. \A x \in liveChangesets(m) : x.id \in DOMAIN csBody
      BY HeldFacts, KnownKeys DEF Blobs
    <3>2. csBody \in Seq(Changeset)
      BY DEF Blobs, Typed, TypeOK, StoreTypeOK
    <3> QED
      BY <3>1, <3>2
  <2> QED
    BY <1>1, <2>1, <2>2
<1>3. Own(d)' \cap liveChangesets(InitManifest) = {}
  BY DEF liveChangesets, InitManifest
<1>4. manifest' # NoManifest => Own(d)' \cap liveChangesets(manifest') = {}
  BY DEF Blobs, OwnInv
<1>5. cm'[e] # NoManifest /\ m2'[e] # NoManifest
  BY StoreAssumption DEF Typed, TypeOK, ClientTypeOK, CommitTypeOK
<1> QED
  BY <1>2, <1>3, <1>4, <1>5, ManifestsAfter DEF Blobs

\* The epoch and its age, which the collector read (gc.go:22-62), stay as they are
\* while it sweeps: nobody else puts a manifest of another epoch.
LEMMA SweepStays ==
  ASSUME Blobs, NEW c \in Clients, NEW d \in Clients, Call(c) \/ Step(c) \/ Disrupt(c)
  PROVE  SweepInv(d)'
<1>0. SweepInv(d) /\ RoleInv(d) /\ RoleInv(c) /\ GraceInv(c)
  BY DEF Blobs, BlobInv
<1>1. CASE d = c
  <2>1. SweepMoves(c)
    BY StepSweeps DEF Blobs
  <2>2. \A m : epoch(m) \notin deletableEpochs(m)
    BY DEF deletableEpochs
  <2>3. pc[c] = "gc" => manifest # NoManifest /\ epoch(cm[c]) = epoch(manifest)
    BY <1>0, <1>1, CollectorFacts DEF Sweeping
  <2>4. Target(c)' \in Sweeping /\ pc'[c] # "refresh" =>
          manifest' # NoManifest /\ epoch(cm'[c]) = epoch(manifest')
    BY <1>0, <1>1, <2>1 DEF SweepInv, SweepMoves
  <2>5. pc'[c] = "gcsweep" => epoch(cm'[c]) \notin todo'[c]
    BY <1>0, <1>1, <2>1, <2>2 DEF SweepInv, SweepMoves
  <2>6. Grace /\ pc'[c] \in {"gclist", "gcsweep"} => epoch(manifest') \notin young'
    BY <1>0, <1>1, <2>1, <2>3 DEF SweepInv, SweepMoves
  <2> QED
    BY <1>1, <2>4, <2>5, <2>6 DEF SweepInv
<1>2. CASE d # c
  <2>1. Untouched(d) /\ todo'[d] = todo[d]
    BY <1>2, OthersUntouched, RestUntouched DEF Blobs
  <2>2. Target(d)' = Target(d)
    BY <2>1 DEF Target, Untouched
  <2>3. ASSUME Target(d) \in Sweeping, manifest # NoManifest
        PROVE  manifest' # NoManifest /\ epoch(manifest') = epoch(manifest)
    <3>1. MayCollect(d)
      BY <1>0, <2>3 DEF RoleInv
    <3>2. ~NewEpoch(c)
      BY <1>2, <3>1 DEF Blobs, OneMaintainer, NewEpoch
    <3> QED
      BY <2>3, <3>2, EpochStep DEF CurrentEpoch
  <2>4. ASSUME Grace, pc[d] \in {"gclist", "gcsweep"} PROVE epoch(manifest') \notin young'
    <3>1. Target(d) \in Sweeping /\ manifest # NoManifest
      BY <1>0, <2>4, CollectorFacts DEF Target, Sweeping, SyncLabels
    <3>2. epoch(manifest) \notin young
      BY <1>0, <2>4 DEF SweepInv
    <3>3. epoch(manifest) # NextSnap
      <4>1. epoch(manifest) \in 1..Len(hist)
        BY <3>1, ManifestFacts, KnownKeys, HistFacts DEF Blobs
      <4> QED
        BY <4>1 DEF NextSnap
    <3>4. pc[c] # "bootupload"
      BY <1>0, <2>4, <3>1, <3>2 DEF GraceInv
    <3>5. epoch(manifest) \notin young'
      BY <3>2, <3>3, <3>4, StepDeletes DEF Blobs, Deletes
    <3> QED
      BY <2>3, <3>1, <3>5
  <2> QED
    BY <1>0, <2>1, <2>2, <2>3, <2>4 DEF SweepInv, Untouched
<1> QED
  BY <1>1, <1>2

\* No collector deletes what was uploaded before the manifest that refers to it is put.
LEMMA PendingStays ==
  ASSUME Blobs, NEW c \in Clients, NEW d \in Clients, Call(c) \/ Step(c) \/ Disrupt(c), Typed'
  PROVE  PendingInv(d)'
<1>0. /\ PendingInv(d) /\ PendingInv(c) /\ RoleInv(d) /\ RoleInv(c) /\ SweepInv(c)
      /\ Typed /\ "retry412" \notin Faults
  BY DEF Blobs, BlobInv
<1>1. CASE d = c
  <2>1. UploadMoves(c)
    BY <1>0, StepUploads
  <2>2. ASSUME pc'[c] \in AfterUpload, csKey'[c].epoch = CurrentEpoch' PROVE csKey'[c] \in changesets'
    <3>1. UNCHANGED <<manifest, csKey>> /\ CurrentEpoch' = CurrentEpoch
      BY <2>1, <2>2 DEF UploadMoves, CurrentEpoch
    <3> QED
      BY <1>0, <1>1, <2>1, <2>2, <3>1 DEF UploadMoves, PendingInv
  <2>3. ASSUME pc'[c] \in Pending, NEW e \in Clients
        PROVE  Recent(snapKey[c])' /\ snapKey'[c] \notin {epoch(cm'[e]), epoch(m2'[e])}
    <3>1. /\ UNCHANGED <<cm, m2>> /\ snapKey'[c] = NextSnap /\ Recent(snapKey[c])'
      BY <2>1, <2>3 DEF UploadMoves
    <3>2. epoch(cm[e]) \in 1..Len(hist) /\ epoch(m2[e]) \in 1..Len(hist)
      BY <1>0, HeldFacts, HistFacts
    <3> QED
      BY <3>1, <3>2 DEF NextSnap
  <2>4. pc'[c] = "bootput" => Recent(InitSnap)'
    BY <2>1 DEF UploadMoves
  <2> QED
    BY <1>1, <2>2, <2>3, <2>4 DEF PendingInv
<1>2. CASE d # c
  <2>1. Untouched(d) /\ snapKey'[d] = snapKey[d]
    BY <1>0, <1>2, OthersUntouched, RestUntouched
  <2>2. ASSUME pc[d] \in AfterUpload, csKey[d].epoch = CurrentEpoch' PROVE csKey[d] \in changesets'
    <3>1. csKey[d].epoch = epoch(cm[d])
      BY <1>0, <2>2, ClientFacts DEF PositionInv, AfterUpload, InSavepoint, epoch
    <3>2. ~NewEpoch(c)
      <4> SUFFICES ASSUME NewEpoch(c) PROVE FALSE
        OBVIOUS
      <4>1. snapKey[c] = epoch(cm[d])
        BY <2>2, <3>1, EpochStep DEF NewEpoch, CurrentEpoch
      <4>2. snapKey[c] # epoch(cm[d])
        BY <1>0 DEF NewEpoch, PendingInv
      <4> QED
        BY <4>1, <4>2
    <3>3. csKey[d].epoch = CurrentEpoch
      BY <2>2, <3>2, EpochStep
    <3>4. csKey[d] \in changesets
      BY <1>0, <2>2, <3>3 DEF PendingInv
    <3>5. csKey[d] # NoKey
      <4>1. epoch(cm[d]) \in 1..Len(hist)
        BY <1>0, HeldFacts, HistFacts
      <4> QED
        BY <3>1, <4>1 DEF NoKey
    <3>6. csKey[d] \notin Own(c)
      BY <1>2, <3>5 DEF Blobs, OwnInv, Own
    <3> QED
      BY <3>3, <3>4, <3>5, <3>6, ChangesetSpared
  <2>3. ASSUME pc[d] \in Pending PROVE Recent(snapKey[d])'
    <3>1. Recent(snapKey[d])
      BY <1>0, <2>3 DEF PendingInv
    <3>2. pc[c] # "gcdelete"
      <4> SUFFICES ASSUME pc[c] = "gcdelete" PROVE FALSE
        OBVIOUS
      <4>1. MayCollect(c) /\ MayFold(d)
        BY <1>0, <2>3, CollectorFacts, FolderFacts DEF Sweeping
      <4> QED
        BY <1>2, <4>1 DEF Blobs, OneMaintainer
    <3> QED
      BY <2>1, <3>1, <3>2, SnapshotSpared DEF Recent
  <2>4. ASSUME pc[d] \in Pending, NEW e \in Clients
        PROVE  snapKey[d] \notin {epoch(cm'[e]), epoch(m2'[e])}
    <3>1. snapKey[d] \notin {epoch(cm[e]), epoch(m2[e])}
      BY <1>0, <2>4 DEF PendingInv
    <3>2. snapKey[d] # InitSnap /\ epoch(InitManifest) = InitSnap
      BY <1>0, <2>4, ClientFacts DEF SnapInv, Pending, epoch, InitManifest
    <3>3. manifest' # NoManifest => snapKey[d] # epoch(manifest')
      BY <2>1, <2>4 DEF Typed, StructInv, SnapInv, Pending, Untouched, epoch
    <3>4. cm'[e] # NoManifest /\ m2'[e] # NoManifest
      BY StoreAssumption DEF Typed, TypeOK, ClientTypeOK, CommitTypeOK
    <3> QED
      BY <1>0, <3>1, <3>2, <3>3, <3>4, ManifestsAfter
  <2>5. ASSUME pc[d] = "bootput", manifest' = NoManifest PROVE Recent(InitSnap)'
    <3>1. manifest = NoManifest
      BY <2>5, EpochStep
    <3>2. Recent(InitSnap) /\ CurrentEpoch = InitSnap
      BY <1>0, <2>5, <3>1 DEF PendingInv, CurrentEpoch
    <3> QED
      BY <3>2, SnapshotSpared DEF Recent
  <2>6. \A e \in Clients : snapKey'[d] = snapKey[d] /\ pc'[d] = pc[d] /\ csKey'[d] = csKey[d]
    BY <2>1 DEF Untouched
  <2> QED
    BY <2>2, <2>3, <2>4, <2>5, <2>1 DEF PendingInv, Untouched
<1> QED
  BY <1>1, <1>2

\* A manifest that is held stays usable.
LEMMA HoldsStays ==
  ASSUME Blobs, NEW c \in Clients, Call(c) \/ Step(c) \/ Disrupt(c), Grace
  PROVE  \A d \in Clients : \A m \in {cm[d], m2[d]} : Holds(m) =>
           /\ manifest' # NoManifest
           /\ epoch(m) = epoch(manifest') \/ epoch(manifest') \in young'
           /\ liveChangesets(m) \subseteq changesets'
<1> SUFFICES ASSUME NEW d \in Clients, NEW m \in {cm[d], m2[d]}, Holds(m)
             PROVE  /\ manifest' # NoManifest
                    /\ epoch(m) = epoch(manifest') \/ epoch(manifest') \in young'
                    /\ liveChangesets(m) \subseteq changesets'
  OBVIOUS
<1>0. /\ Typed /\ RoleInv(c) /\ SweepInv(c) /\ HeldInv(c) /\ Deletes(c)
      /\ manifest # NoManifest /\ manifest' # NoManifest
      /\ epoch(m) = epoch(manifest) \/ epoch(manifest) \in young
      /\ liveChangesets(m) \subseteq changesets /\ CurrentEpoch = epoch(manifest)
  BY StepDeletes, EpochStep DEF Blobs, BlobInv, Holds, CurrentEpoch
<1>1. epoch(m) = epoch(manifest') \/ epoch(manifest') \in young'
  <2>1. CASE CurrentEpoch' = CurrentEpoch
    <3>1. epoch(manifest') = epoch(manifest)
      BY <1>0, <2>1 DEF CurrentEpoch
    <3> QED
      BY <1>0, <3>1 DEF Deletes
  <2>2. CASE NewEpoch(c)
    BY <2>2 DEF NewEpoch, Recent, blobVars
  <2> QED
    BY <2>1, <2>2, EpochStep
<1>2. ASSUME NEW x \in liveChangesets(m) PROVE x \in changesets'
  <2>1. x.epoch = epoch(m) /\ x # NoKey /\ x \in changesets
    BY <1>0, HeldFacts, KnownKeys
  <2>2. x \notin Own(c)
    BY <1>0 DEF HeldInv
  <2>3. ~(pc[c] = "gcsweep" /\ x.epoch \in todo[c])
    <3> SUFFICES ASSUME pc[c] = "gcsweep" PROVE x.epoch \notin todo[c]
      OBVIOUS
    <3>1. epoch(manifest) \notin young /\ epoch(cm[c]) \notin todo[c]
      BY <1>0 DEF SweepInv
    <3>2. epoch(cm[c]) = epoch(manifest)
      BY <1>0, CollectorFacts DEF Sweeping
    <3> QED
      BY <1>0, <2>1, <3>1, <3>2
  <2> QED
    BY <1>0, <2>1, <2>2, <2>3 DEF Deletes
<1> QED
  BY <1>0, <1>1, <1>2

\* With a grace period, a manifest that was loaded stays usable, though another epoch
\* may replace it: the collector then sees a young snapshot and skips the sweep.
LEMMA GraceStays ==
  ASSUME Blobs, NEW c \in Clients, NEW d \in Clients, Call(c) \/ Step(c) \/ Disrupt(c)
  PROVE  GraceInv(d)'
<1> SUFFICES ASSUME Grace PROVE GraceInv(d)'
  BY DEF GraceInv
<1>0. /\ GraceInv(d) /\ PendingInv(c) /\ Deletes(c) /\ Typed /\ "retry412" \notin Faults
      /\ BlobsPresent'
  BY StepDeletes, BlobsStay DEF Blobs, BlobInv
<1>1. CASE d = c
  <2>1. UploadMoves(c) /\ LoadMoves(c)
    BY <1>0, StepUploads
  <2>2. manifest' # NoManifest =>
          liveChangesets(manifest') \subseteq changesets'
    BY <1>0 DEF BlobsPresent
  <2>3. ASSUME pc'[c] \in {"download", "fetch"} PROVE Holds(cm[c])'
    <3>1. CASE cm'[c] = manifest' /\ manifest' # NoManifest
      BY <2>2, <3>1 DEF Holds
    <3>2. CASE UNCHANGED manifest /\ pc[c] \in {"download", "fetch"} /\ cm'[c] = cm[c]
      <4>1. Holds(cm[c])
        BY <1>0, <1>1, <3>2 DEF GraceInv
      <4> QED
        BY <3>2, <4>1, HoldsStays DEF Holds
    <3>3. CASE UNCHANGED manifest /\ pc[c] = "rebase" /\ cm'[c] = m2[c]
      <4>1. Holds(m2[c])
        BY <1>0, <1>1, <3>3 DEF GraceInv
      <4> QED
        BY <3>3, <4>1, HoldsStays DEF Holds
    <3> QED
      BY <2>1, <2>3, <3>1, <3>2, <3>3 DEF LoadMoves
  <2>4. ASSUME pc'[c] = "rebase" PROVE Holds(m2[c])'
    <3>1. UNCHANGED manifest
      BY <2>1, <2>4 DEF LoadMoves
    <3>2. CASE m2'[c] = manifest /\ manifest # NoManifest
      BY <2>2, <3>1, <3>2 DEF Holds
    <3>3. CASE pc[c] = "rebase" /\ m2'[c] = m2[c]
      <4>1. Holds(m2[c])
        BY <1>0, <1>1, <3>3 DEF GraceInv
      <4> QED
        BY <3>3, <4>1, HoldsStays DEF Holds
    <3> QED
      BY <2>1, <2>4, <3>2, <3>3 DEF LoadMoves
  <2>5. ASSUME pc'[c] \in {"bootupload", "bootput"}, manifest' # NoManifest
        PROVE  epoch(manifest') \in young'
    <3>1. pc[c] = "bootupload" /\ UNCHANGED manifest
      BY <2>1, <2>5 DEF UploadMoves
    <3>2. epoch(manifest) \in young
      BY <1>0, <1>1, <2>5, <3>1 DEF GraceInv
    <3> QED
      BY <1>0, <3>1, <3>2 DEF Deletes
  <2> QED
    BY <1>1, <2>3, <2>4, <2>5 DEF GraceInv
<1>2. CASE d # c
  <2>1. Untouched(d)
    BY <1>0, <1>2, OthersUntouched
  <2>2. pc[d] \in {"download", "fetch"} => Holds(cm[d])'
    BY <1>0, <2>1, HoldsStays DEF GraceInv, Holds, Untouched
  <2>3. pc[d] = "rebase" => Holds(m2[d])'
    BY <1>0, <2>1, HoldsStays DEF GraceInv, Holds, Untouched
  <2>4. ASSUME pc[d] \in {"bootupload", "bootput"}, manifest' # NoManifest
        PROVE  epoch(manifest') \in young'
    <3>1. CASE manifest = NoManifest
      <4>1. manifest' = InitManifest /\ pc[c] = "bootput" /\ UNCHANGED blobVars
        BY <1>0, <2>4, <3>1, StepPuts DEF Puts
      <4>2. InitSnap \in young
        BY <1>0, <3>1, <4>1 DEF PendingInv, Recent
      <4> QED
        BY <4>1, <4>2 DEF blobVars, epoch, InitManifest
    <3>2. CASE manifest # NoManifest /\ CurrentEpoch' = CurrentEpoch
      <4>1. epoch(manifest) \in young /\ epoch(manifest') = epoch(manifest)
        BY <1>0, <2>4, <3>2 DEF GraceInv, CurrentEpoch
      <4> QED
        BY <1>0, <4>1 DEF Deletes
    <3>3. CASE NewEpoch(c)
      BY <3>3 DEF NewEpoch, Recent, blobVars
    <3> QED
      BY <3>1, <3>2, <3>3, EpochStep
  <2> QED
    BY <2>1, <2>2, <2>3, <2>4 DEF GraceInv, Untouched
<1> QED
  BY <1>1, <1>2
-----------------------------------------------------------------------------
(***************************************************************************)
(* The theorems.                                                           *)
(***************************************************************************)

\* It holds before any operation is called.
LEMMA InitBlobs == Init => BlobInv
<1> SUFFICES ASSUME Init PROVE BlobInv
  OBVIOUS
<1>1. /\ pc = [c \in Clients |-> IF c \in Warm THEN "idle" ELSE "closed"] /\ left = Budget
      /\ manifest = (IF Warm = {} THEN NoManifest ELSE InitManifest)
      /\ snapshots = (IF Warm = {} THEN {} ELSE {InitSnap})
      /\ csKey = [c \in Clients |-> NoKey] /\ orphan = [c \in Clients |-> NoKey]
  BY DEF Init, ClientInit, CommitInit
<1>2. epoch(InitManifest) = InitSnap /\ liveChangesets(InitManifest) = {}
  BY DEF epoch, InitManifest, liveChangesets
<1>3. BlobsPresent
  BY <1>1, <1>2 DEF BlobsPresent
<1>4. ASSUME NEW c \in Clients
      PROVE  RoleInv(c) /\ HeldInv(c) /\ SweepInv(c) /\ PendingInv(c) /\ GraceInv(c)
  <2>1. pc[c] \in {"idle", "closed"} /\ left[c] = Budget[c] /\ Own(c) = {}
    BY <1>1 DEF Own
  <2>2. Target(c) = pc[c]
    BY <2>1 DEF Target, SyncLabels
  <2>3. RoleInv(c)
    BY <2>1, <2>2 DEF RoleInv, UpdateLabels, Sweeping
  <2>4. HeldInv(c)
    BY <2>1 DEF HeldInv
  <2>5. SweepInv(c) /\ PendingInv(c) /\ GraceInv(c)
    BY <2>1, <2>2 DEF SweepInv, PendingInv, GraceInv, Sweeping, AfterUpload, Pending
  <2> QED
    BY <2>3, <2>4, <2>5
<1> QED
  BY <1>3, <1>4 DEF BlobInv

\* It does not depend on time that passes while no operation is under way.
LEMMA ElapseBlobs == ASSUME BlobInv, Elapse PROVE BlobInv'
<1>1. /\ UNCHANGED <<manifest, snapshots, changesets, pc, ret, left, csKey, orphan, cm, m2>>
      /\ \A c \in Clients : pc[c] \in {"idle", "closed"}
  BY DEF Elapse, gcFrame, connVars, updateVars
<1>2. BlobsPresent'
  BY <1>1 DEF BlobInv, BlobsPresent, liveChangesets, epoch
<1>3. ASSUME NEW c \in Clients
      PROVE  RoleInv(c)' /\ HeldInv(c)' /\ SweepInv(c)' /\ PendingInv(c)' /\ GraceInv(c)'
  <2>1. pc'[c] \in {"idle", "closed"} /\ Target(c)' = Target(c) /\ Target(c)' = pc'[c]
    BY <1>1 DEF Target, SyncLabels
  <2>2. RoleInv(c)'
    BY <1>1, <2>1 DEF BlobInv, RoleInv
  <2>3. HeldInv(c)'
    BY <1>1 DEF BlobInv, HeldInv, Own, liveChangesets
  <2>4. SweepInv(c)' /\ PendingInv(c)' /\ GraceInv(c)'
    BY <2>1 DEF SweepInv, PendingInv, GraceInv, Sweeping, AfterUpload, Pending
  <2> QED
    BY <2>2, <2>3, <2>4
<1> QED
  BY <1>2, <1>3 DEF BlobInv

\* Every step of the system preserves it.
LEMMA NextBlobs ==
  ASSUME OneMaintainer, "retry412" \notin Faults
  PROVE  Operations /\ BlobInv /\ [Next]_vars => BlobInv'
<1> SUFFICES ASSUME Operations, BlobInv, [Next]_vars PROVE BlobInv'
  OBVIOUS
<1>1. Blobs
  BY DEF Blobs, Operations
<1>2. Typed' /\ \A d \in Clients : OwnInv(d)'
  BY NextOperations DEF Operations
<1>3. CASE \E c \in Clients : Call(c) \/ Step(c) \/ Disrupt(c)
  <2>1. PICK c \in Clients : Call(c) \/ Step(c) \/ Disrupt(c)
    BY <1>3
  <2>2. BlobsPresent'
    BY <1>1, <2>1, BlobsStay
  <2>3. ASSUME NEW d \in Clients
        PROVE  RoleInv(d)' /\ HeldInv(d)' /\ SweepInv(d)' /\ PendingInv(d)' /\ GraceInv(d)'
    BY <1>1, <1>2, <2>1, RoleStays, HeldStays, SweepStays, PendingStays, GraceStays
  <2> QED
    BY <2>2, <2>3 DEF BlobInv
<1>4. CASE Elapse
  BY <1>4, ElapseBlobs
<1>5. CASE UNCHANGED vars
  BY <1>5 DEF vars, storeVars, connVars, flowVars, updateVars, BlobInv, BlobsPresent, RoleInv,
     HeldInv, SweepInv, PendingInv, GraceInv, Recent, CurrentEpoch, Holds, Target, Own,
     liveChangesets, epoch
<1> QED
  BY <1>3, <1>4, <1>5 DEF Next

\* What BlobInv says of collectors, uploads and syncs holds in every reachable state,
\* if nobody compacts or migrates beside the collector.
THEOREM BlobInvariant ==
  ASSUME OneMaintainer, "retry412" \notin Faults
  PROVE  Spec => []BlobInv
<1>1. Init => BlobInv
  BY InitBlobs
<1>2. Operations /\ BlobInv /\ [Next]_vars => BlobInv'
  BY NextBlobs
<1> QED
  BY <1>1, <1>2, OperationsInvariant, PTL DEF Spec

\* GC deletes no snapshot and no changeset that the manifest refers to
\* (gc.go:22-28), with or without a grace period, while others read and commit:
\* it loads the manifest once, and the epoch of that manifest stays current.
THEOREM GCKeepsBlobs ==
  ASSUME OneMaintainer, "retry412" \notin Faults
  PROVE  Spec => []BlobsPresent
<1>1. BlobInv => BlobsPresent
  BY DEF BlobInv
<1> QED
  BY <1>1, BlobInvariant, PTL

\* With a grace period, GC deletes no changeset that a client needs that loaded its
\* manifest before the epoch of it was replaced (gc.go:47-62).
THEOREM GraceProtectsFetches ==
  ASSUME OneMaintainer, "retry412" \notin Faults, Grace
  PROVE  Spec => []GraceKeepsChangesets
<1>1. BlobInv => GraceKeepsChangesets
  <2> SUFFICES ASSUME BlobInv, NEW c \in Clients, At(c, "fetch"),
                      NEW i \in Missing(cm[c], localSeq[c])
               PROVE  cm[c].log[i].key \in changesets
    BY DEF GraceKeepsChangesets
  <2>1. Holds(cm[c])
    BY DEF BlobInv, GraceInv, At
  <2>2. cm[c].log[i].key \in liveChangesets(cm[c])
    BY DEF Missing, liveChangesets
  <2> QED
    BY <2>1, <2>2 DEF Holds
<1> QED
  BY <1>1, BlobInvariant, PTL
=============================================================================
