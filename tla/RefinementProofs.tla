-------------------------- MODULE RefinementProofs --------------------------
(***************************************************************************)
(* Proofs about the whole: the inductive invariant, what snapshots and     *)
(* commits do to the contents of the database, and that the manifest, its  *)
(* snapshot and its log implement one versioned database.                  *)
(***************************************************************************)
EXTENDS FlowProofs, S3dbRefinement

-----------------------------------------------------------------------------
(***************************************************************************)
(* fn and the changeset of the operation.                                  *)
(***************************************************************************)

\* The steps of c keep fn for the Update that was called with it, and the
\* uploaded changeset stays what fn did, through rebases and lost attempts.
LEMMA OwnRecord ==
  ASSUME Typed, Grows, NEW c \in Clients, RecordInv(c), Call(c) \/ Step(c) \/ Disrupt(c)
  PROVE  RecordInv(c)'
<1> DEFINE Updating == {"capture", "exhausted"} \cup InSavepoint
<1> USE DEF Shapes
<1>0. Shapes /\ ret[c] \in Rets
  BY ClientFacts DEF Typed, TypeOK, ClientTypeOK, CommitTypeOK, MigrateTypeOK
<1>1. ASSUME fn'[c] = NoTxn, pc'[c] \notin InSavepoint PROVE RecordInv(c)'
  BY <1>1 DEF RecordInv
<1>2. ASSUME fn' = fn, Target(c) \notin Updating, pc'[c] \notin InSavepoint PROVE RecordInv(c)'
  BY <1>1, <1>2 DEF RecordInv
<1>3. ASSUME fn' = fn, csKey' = csKey, pc[c] \in InSavepoint, pc'[c] \in InSavepoint
      PROVE  RecordInv(c)'
  <2>1. csKey[c].id \in DOMAIN csBody
    BY <1>3, ClientFacts DEF PositionInv
  <2>2. Mine(c)' = Mine(c)
    BY <1>3, <2>1 DEF Mine, Grows
  <2>3. Target(c)' \in Updating
    BY <1>3 DEF Target, InSavepoint, SyncLabels
  <2> QED
    BY <1>3, <2>2, <2>3 DEF RecordInv
<1>4. ASSUME Return(c) \/ Shut(c) PROVE pc'[c] \in {"idle", "closed"}
  BY <1>0, <1>4 DEF Return, Shut, Goto
<1>5. ASSUME NEW m, NEW cn, NEW key, NEW next \in Rets, syncToManifest(c, m, cn, key, next)
      PROVE  Target(c)' = next /\ pc'[c] \notin InSavepoint
  <2>1. pc'[c] \in {"download", "fetch", next} /\ ret'[c] = next
    BY <1>5, SyncMoves
  <2> QED
    BY <2>1 DEF Target, SyncLabels, InSavepoint, Rets, OpenRets
<1>6. ASSUME fn' = fn, Target(c)' = Target(c), pc'[c] \notin InSavepoint PROVE RecordInv(c)'
  BY <1>6 DEF RecordInv
<1>7. CASE Call(c)
  <2>1. CASE UpdateStart(c)
    BY <1>0, <2>1 DEF UpdateStart, Start, At, Goto, RecordInv, Target, SyncLabels, InSavepoint
  <2>2. CASE UNCHANGED updateVars
    BY <1>0, <1>2, <1>7, <2>2 DEF Call, OpenStart, ViewStart, UpdateStart, CompactStart, GCStart, Start, At, Goto,
       updateVars, Target, SyncLabels, InSavepoint
  <2> QED
    BY <1>7, <2>1, <2>2 DEF Call, CompactStart, GCStart
<1>8. CASE Disrupt(c)
  BY <1>0, <1>1, <1>4, <1>8 DEF Disrupt, StoreError, Crash, Close, EndEarly, Fail, Forget, InSavepoint
<1>9. CASE ClientStep(c) /\ UNCHANGED <<updateVars, todo, lastVer>>
  <2> USE <1>9 DEF updateVars
  <2>1. CASE Refresh(c)
    BY <1>0, <1>5, <1>6, <2>1 DEF Refresh, At, Target, SyncLabels
  <2>2. CASE Download(c) \/ Fetch(c) \/ Apply(c)
    <3>1. /\ pc[c] \in SyncLabels /\ pc'[c] \in {ret[c], "fetch", "apply"} /\ ret'[c] = ret[c]
      BY <1>0, <2>2 DEF Download, Fetch, Apply, At, Goto, SyncLabels
    <3> QED
      BY <1>0, <1>6, <3>1 DEF Target, SyncLabels, InSavepoint, Rets, OpenRets
  <2>3. CASE Open(c) \/ BootPut(c)
    <3>1. /\ pc[c] \in {"open", "bootput"}
          /\ \E m : OpenWith(c, m)
      BY <2>3 DEF Open, BootPut, At
    <3>2. pc'[c] \notin InSavepoint
      BY <1>5, <3>1 DEF OpenWith, Rets, OpenRets
    <3> QED
      BY <1>2, <3>1, <3>2 DEF Target, SyncLabels, InSavepoint
  <2>4. CASE OpenEmpty(c) \/ BootUpload(c) \/ BootLost(c) \/ BootPhantom(c) \/ View(c)
    BY <1>0, <1>2, <1>4, <2>4 DEF OpenEmpty, BootUpload, BootLost, BootPhantom, View, Fail, At, Goto,
       Target, SyncLabels, InSavepoint
  <2> QED
    BY <2>1, <2>2, <2>3, <2>4 DEF ClientStep
<1>10. CASE CommitStep(c) /\ UNCHANGED <<todo, lastVer>>
  <2>1. ASSUME NEW m, rollbackAndResync(c, m) PROVE RecordInv(c)'
    <3>1. Again(c, "capture") \in {"capture", "exhausted"} /\ Again(c, "capture") \in Rets
      BY DEF Again, Rets
    <3> QED
      BY <1>5, <2>1, <3>1 DEF rollbackAndResync, RecordInv
  <2>2. ASSUME NEW m, UpdateDone(c, m) PROVE RecordInv(c)'
    BY <1>0, <1>1, <2>2 DEF UpdateDone, Forget, Goto, InSavepoint
  <2>3. CASE CaptureNothing(c) \/ Cas(c) \/ CasPhantom(c) \/ RebaseNotFound(c) \/ Exhausted(c)
    BY <1>0, <1>1, <1>4, <2>2, <2>3
       DEF CaptureNothing, Cas, CasPhantom, RebaseNotFound, Exhausted, Forget, InSavepoint
  <2>4. CASE Capture(c)
    <3> DEFINE cs == Diff(conn[c], Effect[fn[c]][conn[c]])
    <3>1. /\ pc[c] = "capture" /\ csBody' = Append(csBody, cs) /\ csKey'[c].id = Len(csBody) + 1
          /\ pc'[c] \in {"upload", "unorphan"} /\ fn' = fn /\ cs # NoChange
      BY <1>0, <2>4 DEF Capture, At, Goto
    <3>2. csBody \in Seq(Changeset) /\ conn[c] \in DB /\ fn[c] \in Txns
      BY <3>1, ClientFacts DEF Typed, TypeOK, StoreTypeOK, FlowInv, Synced, InSavepoint, Target, SyncLabels
    <3>3. Effect[fn[c]][conn[c]] \in DB
      BY <3>2, CommitAssumption
    <3>4. Mine(c)' = cs
      BY <3>1, <3>2, <3>3, DiffType DEF Mine
    <3>5. Mine(c)' # NoChange /\ \E d \in DB : Mine(c)' = Diff(d, Effect[fn'[c]][d])
      BY <3>1, <3>2, <3>4
    <3>6. Target(c)' \in Updating
      BY <3>1 DEF Target, SyncLabels, InSavepoint
    <3> QED
      BY <3>5, <3>6 DEF RecordInv
  <2>5. CASE Unorphan(c) \/ Upload(c) \/ CasLost(c)
    BY <1>0, <1>3, <2>5 DEF Unorphan, Upload, CasLost, updateVars, At, Goto, InSavepoint
  <2>6. CASE Reload(c)
    BY <1>0, <1>3, <2>1, <2>6 DEF Reload, At, Goto, InSavepoint
  <2>7. CASE RebaseEntry(c)
    BY <1>0, <1>3, <2>1, <2>7 DEF RebaseEntry, At, flowVars, InSavepoint
  <2>8. CASE Rebased(c)
    <3>1. pc[c] = "rebase" /\ pc'[c] \in {"cas", "exhausted"} /\ fn' = fn /\ csKey' = csKey
      BY <1>0, <2>8 DEF Rebased, At, Goto, Again
    <3> QED
      BY <1>3, <3>1 DEF RecordInv, Target, SyncLabels, InSavepoint
  <2> QED
    BY <1>10, <2>3, <2>4, <2>5, <2>6, <2>7, <2>8 DEF CommitStep
<1>11. CASE CompactStep(c) /\ UNCHANGED <<todo, lastVer>>
  BY <1>0, <1>2, <1>4, <1>11 DEF CompactStep, CompactNothing, CompactUpload, CompactCas, CompactPhantom,
     CompactLost, updateVars, At, Goto, Target, SyncLabels, InSavepoint
<1>12. CASE GCStep(c) /\ UNCHANGED lastVer
  BY <1>0, <1>2, <1>4, <1>12 DEF GCStep, GCStat, GCList, GCSweep, GCSwept, GCSnaps, GCDelete, GCDone, gcFrame,
     updateVars, At, Goto, Target, SyncLabels, InSavepoint
<1>13. CASE MigrateStep(c) /\ UNCHANGED todo
  <2>1. CASE MigrateDone(c) \/ MigrateNext(c)
    <3>1. pc[c] = "migrate" /\ fn' = fn
      BY <2>1 DEF MigrateDone, MigrateNext, At, updateVars
    <3>2. pc'[c] \notin InSavepoint
      BY <1>5, <2>1 DEF MigrateDone, MigrateNext, Rets, OpenRets
    <3> QED
      BY <1>2, <3>1, <3>2 DEF Target, SyncLabels, InSavepoint
  <2>2. CASE MigrateTooNew(c) \/ MigratePhantom(c)
    BY <1>2, <1>4, <2>2 DEF MigrateTooNew, MigratePhantom, updateVars, At, Target, SyncLabels, InSavepoint
  <2>3. CASE MigrateUp(c) \/ MigrateCas(c) \/ MigrateLost(c)
    BY <1>0, <1>2, <2>3 DEF MigrateUp, MigrateCas, MigrateLost, updateVars, At, Goto, Target,
       SyncLabels, InSavepoint
  <2> QED
    BY <1>13, <2>1, <2>2, <2>3 DEF MigrateStep
<1>14. CASE (RefreshRejected(c) \/ NotFound(c) \/ ApplyConflict(c)) /\ EndEarly(c)
  BY <1>0, <1>1, <1>4, <1>14
     DEF RefreshRejected, NotFound, ApplyConflict, EndEarly, Fail, Forget, InSavepoint
<1> QED
  BY <1>7, <1>8, <1>9, <1>10, <1>11, <1>12, <1>13, <1>14 DEF Step

\* The steps of others change neither.
LEMMA OtherRecord ==
  ASSUME Typed, Grows, NEW d \in Clients, RecordInv(d), Untouched(d)
  PROVE  RecordInv(d)'
<1>1. pc[d] \in InSavepoint => csKey[d].id \in DOMAIN csBody
  BY ClientFacts DEF PositionInv
<1>2. pc[d] \in InSavepoint => Mine(d)' = Mine(d)
  BY <1>1 DEF Mine, Grows, Untouched
<1> QED
  BY <1>2 DEF RecordInv, Untouched, Target
-----------------------------------------------------------------------------
(***************************************************************************)
(* The file of a migration.                                                *)
(***************************************************************************)

\* A snapshot waits for its manifest only after CompactUpload or MigrateUp.
LEMMA OnlyUploadsWait ==
  ASSUME Typed, NEW c \in Clients, Call(c) \/ Step(c) \/ Disrupt(c), pc'[c] \in Pending
  PROVE  CompactUpload(c) \/ MigrateUp(c)
<1>0. pc \in [Clients -> Labels] /\ ret[c] \in Rets /\ Pending \cap Rets = {}
  BY ClientFacts DEF Typed, TypeOK, ClientTypeOK, Rets, OpenRets, Pending
<1> USE DEF Pending
<1>1. Return(c) \/ Shut(c) => FALSE
  BY <1>0 DEF Return, Shut, Goto
<1>2. ASSUME NEW m, NEW cn, NEW key, NEW next \in Rets, syncToManifest(c, m, cn, key, next)
      PROVE  FALSE
  BY <1>0, <1>2, SyncMoves
<1>3. ASSUME NEW m, rollbackAndResync(c, m) PROVE FALSE
  BY <1>2, <1>3 DEF rollbackAndResync, Again, Rets
<1>4. ASSUME NEW m, UpdateDone(c, m) PROVE FALSE
  BY <1>0, <1>4 DEF UpdateDone, Goto
<1>5. ASSUME NEW m, OpenWith(c, m) PROVE FALSE
  BY <1>2, <1>5 DEF OpenWith, Rets, OpenRets
<1>6. ~Call(c)
  BY <1>0 DEF Call, OpenStart, ViewStart, UpdateStart, CompactStart, GCStart, Start, Goto
<1>7. ~Disrupt(c) /\ ~(RefreshRejected(c) \/ NotFound(c) \/ ApplyConflict(c))
  BY <1>1 DEF Disrupt, StoreError, Crash, Close, RefreshRejected, NotFound, ApplyConflict, Fail
<1>8. ~ClientStep(c)
  BY <1>0, <1>1, <1>2, <1>5 DEF ClientStep, Refresh, Download, Fetch, Apply, Open, OpenEmpty, BootUpload,
     BootPut, BootLost, BootPhantom, View, Fail, Goto
<1>9. ~CommitStep(c)
  BY <1>0, <1>1, <1>3, <1>4 DEF CommitStep, CaptureNothing, Capture, Unorphan, Upload, Cas, CasPhantom,
     CasLost, Reload, RebaseEntry, RebaseNotFound, Rebased, Exhausted, flowVars, Goto, Again, At
<1>10. CompactStep(c) => CompactUpload(c)
  BY <1>0, <1>1 DEF CompactStep, CompactNothing, CompactCas, CompactPhantom, CompactLost, Goto
<1>11. ~GCStep(c)
  BY <1>0, <1>1 DEF GCStep, GCStat, GCList, GCSweep, GCSwept, GCSnaps, GCDelete, GCDone, gcFrame, Goto,
     flowVars, At
<1>12. MigrateStep(c) => MigrateUp(c)
  BY <1>0, <1>1, <1>2 DEF MigrateStep, MigrateTooNew, MigrateDone, MigrateNext, MigrateCas, MigrateLost,
     MigratePhantom, Goto, Rets, OpenRets
<1> QED
  BY <1>6, <1>7, <1>8, <1>9, <1>10, <1>11, <1>12 DEF Step

\* Up ran on a file in sync with the manifest.
LEMMA OwnMigrated ==
  ASSUME Typed, Grows, MigratesTracked, NEW c \in Clients, sound => ContentInv(c),
         Call(c) \/ Step(c) \/ Disrupt(c)
  PROVE  MigratedInv(c)'
<1> SUFFICES ASSUME sound', c \notin stale', pc'[c] = "migcas"
             PROVE  Agree(conn[c], Up[cm[c].schema + 1][Content(snapshotKey[c], localSeq[c])])'
  BY DEF MigratedInv
<1> DEFINE v == cm[c].schema + 1
           k == snapshotKey[c]
           n == localSeq[c]
<1>0. MigrateUp(c)
  <2>1. CompactUpload(c) => pc'[c] = "compactcas"
    BY DEF CompactUpload, Goto, Typed, TypeOK, ClientTypeOK
  <2> QED
    BY <2>1, OnlyUploadsWait DEF Pending
<1>1. /\ pc[c] = "up" /\ conn'[c] = Up[v][conn[c]]
      /\ UNCHANGED <<localSeq, snapshotKey, cm, stale>>
  BY <1>0 DEF MigrateUp, At, Typed, TypeOK, ClientTypeOK
<1>2. /\ conn[c] \in DB /\ saved[c] = NoConn /\ conn[c] # NoConn /\ k = cm[c].snap.key /\ n = cm[c].seq
      /\ cm[c].snap.seq <= n /\ n <= cm[c].seq /\ n \in Nat /\ cm[c].schema < Version[c]
      /\ cm[c] \in Manifests /\ Known(cm[c])
  BY <1>1, ClientFacts DEF FlowInv, PositionInv, Synced, InSavepoint, Target, SyncLabels
<1>3. v \in DOMAIN Up
  BY <1>2, ClientAssumption, MigrateAssumption DEF Manifests
<1>4. Content(k, n) \in DB
  BY <1>2, KnownSpan
<1>5. Content(snapshotKey[c], localSeq[c])' = Content(k, n)
  <2>1. hist'[k][n - base'[k].seq + 1] = hist[k][n - base[k].seq + 1]
    BY <1>2, SpanStays
  <2> QED
    BY <1>1, <2>1 DEF Content, Pos
<1>6. Agree(conn[c], Content(k, n))
  BY <1>1, <1>2 DEF Grows, ContentInv, Dirty
<1>7. Agree(Up[v][conn[c]], Up[v][Content(k, n)])
  BY <1>2, <1>3, <1>4, <1>6 DEF MigratesTracked
<1> QED
  BY <1>1, <1>5, <1>7 DEF Agree

\* ... and others do not touch it.
LEMMA OtherMigrated ==
  ASSUME Typed, Grows, NEW d \in Clients, MigratedInv(d), Untouched(d)
  PROVE  MigratedInv(d)'
<1> SUFFICES ASSUME sound', d \notin stale, pc[d] = "migcas"
             PROVE  Agree(conn[d], Up[cm[d].schema + 1][Content(snapshotKey[d], localSeq[d])])'
  BY DEF MigratedInv, Untouched
<1> DEFINE k == snapshotKey[d]
           n == localSeq[d]
<1>1. /\ k = cm[d].snap.key /\ n = cm[d].seq /\ cm[d].snap.seq <= n /\ n <= cm[d].seq /\ n \in Nat
      /\ cm[d] \in Manifests /\ Known(cm[d])
  BY ClientFacts DEF FlowInv, PositionInv, Synced
<1>2. Content(snapshotKey[d], localSeq[d])' = Content(k, n)
  <2>1. hist'[k][n - base'[k].seq + 1] = hist[k][n - base[k].seq + 1]
    BY <1>1, SpanStays
  <2> QED
    BY <2>1 DEF Content, Pos, Untouched
<1> QED
  BY <1>2 DEF MigratedInv, Untouched, Agree, Grows
-----------------------------------------------------------------------------
(***************************************************************************)
(* The inductive invariant.                                                *)
(***************************************************************************)

\* What the operations do to the contents of the database can be told.
Explained ==
  /\ Contents
  /\ hist[InitSnap][1] = EmptyDB
  /\ \A c \in Clients : RecordInv(c)
  /\ MigratesTracked => \A c \in Clients : MigratedInv(c)

\* It holds initially.
LEMMA InitExplained == Init => Explained
<1> SUFFICES ASSUME Init PROVE Explained
  OBVIOUS
<1>1. /\ pc = [c \in Clients |-> IF c \in Warm THEN "idle" ELSE "closed"]
      /\ fn = [c \in Clients |-> NoTxn] /\ hist = << <<EmptyDB>> >>
  BY DEF Init, ClientInit, CommitInit
<1>2. \A c \in Clients : fn[c] = NoTxn /\ pc[c] \notin InSavepoint /\ pc[c] # "migcas"
  BY <1>1 DEF InSavepoint
<1>3. hist[InitSnap][1] = EmptyDB
  BY <1>1 DEF InitSnap
<1> QED
  BY <1>2, <1>3, InitContents DEF Explained, RecordInv, MigratedInv

\* It is inductive.
LEMMA NextExplained == Explained /\ [Next]_vars => Explained'
<1> SUFFICES ASSUME Explained, [Next]_vars PROVE Explained'
  OBVIOUS
<1>1. Contents' /\ Typed
  BY NextContents DEF Explained, Contents
<1>2. CASE \E c \in Clients : Call(c) \/ Step(c) \/ Disrupt(c)
  <2>1. PICK c \in Clients : Call(c) \/ Step(c) \/ Disrupt(c)
    BY <1>2
  <2>2. Grows
    BY <1>1, <2>1, StepGrows
  <2>3. \A d \in Clients : d # c => Untouched(d)
    BY <1>1, <2>1, OthersUntouched
  <2>4. \A d \in Clients : RecordInv(d)'
    BY <1>1, <2>1, <2>2, <2>3, OwnRecord, OtherRecord DEF Explained
  <2>5. hist'[InitSnap][1] = EmptyDB
    <3>1. InitSnap \in DOMAIN hist /\ 1 \in DOMAIN hist[InitSnap]
      <4>1. InitSnap \in DOMAIN hist
        BY <1>1 DEF Typed, TypeOK, StoreTypeOK, StructInv, StoreInv, InitSnap
      <4> QED
        BY <1>1, <4>1, HistFacts
    <3> QED
      BY <2>2, <3>1 DEF Grows, Explained
  <2>6. ASSUME MigratesTracked PROVE \A d \in Clients : MigratedInv(d)'
    <3>1. sound => ContentInv(c)
      BY DEF Explained, Contents, DataInv
    <3>2. MigratedInv(c)'
      BY <1>1, <2>1, <2>2, <2>6, <3>1, OwnMigrated
    <3> QED
      BY <1>1, <2>2, <2>3, <2>6, <3>2, OtherMigrated DEF Explained
  <2> QED
    BY <1>1, <2>4, <2>5, <2>6 DEF Explained, MigratesTracked, Agree
<1>3. CASE UNCHANGED <<hist, base, csBody, sound, connVars, pc, ret, updateVars>>
  BY <1>1, <1>3 DEF Explained, RecordInv, MigratedInv, MigratesTracked, Mine, Target, Content, Pos, Agree,
     connVars, updateVars
<1> QED
  BY <1>2, <1>3 DEF Next, Elapse, gcFrame, vars, storeVars, flowVars

\* Explained holds in every reachable state.
THEOREM ExplainedInvariant == Spec => []Explained
BY InitExplained, NextExplained, PTL DEF Spec

\* The whole inductive invariant of S3db, every part of it, holds in every
\* reachable state: what is known of the manifests, of where an operation may
\* be, of the local files, of the changeset of an Update and of whose it is.
THEOREM InductiveInvariant == Spec => []IInv
<1>1. Contents /\ Explained /\ Operations => IInv
  BY DEF Contents, Explained, Operations, IInv, Typed
<1> QED
  BY <1>1, ContentsInvariant, ExplainedInvariant, OperationsInvariant, PTL
-----------------------------------------------------------------------------
(***************************************************************************)
(* What the writes to manifest.json do to the contents of the database.    *)
(***************************************************************************)

\* The contents of the database are the last entry of the history of its snapshot.
LEMMA CurrentFacts ==
  ASSUME Typed, manifest # NoManifest
  PROVE  /\ manifest.snap.key \in DOMAIN hist
         /\ contents = hist[manifest.snap.key][Len(hist[manifest.snap.key])]
         /\ contents = Content(manifest.snap.key, manifest.seq)
         /\ contents \in DB /\ contents # NoManifest
<1> DEFINE k == manifest.snap.key
<1>1. /\ manifest \in Manifests /\ Known(manifest) /\ Len(hist[k]) = Len(manifest.log) + 1
  BY ManifestFacts
<1>2. /\ manifest.seq = manifest.snap.seq + Len(manifest.log) /\ k \in DOMAIN hist
      /\ manifest.snap.seq \in Nat /\ Len(manifest.log) \in Nat /\ manifest.seq \in Nat
  BY <1>1 DEF Known, Manifests, blobRef
<1>3. Content(k, manifest.seq) = hist[k][Len(hist[k])] /\ Content(k, manifest.seq) \in DB
  <2>1. manifest.seq - manifest.snap.seq + 1 = Len(hist[k])
    BY <1>1, <1>2
  <2>2. manifest.snap.seq <= manifest.seq
    BY <1>2
  <2>3. /\ Content(k, manifest.seq) = hist[k][manifest.seq - manifest.snap.seq + 1]
        /\ hist[k][manifest.seq - manifest.snap.seq + 1] \in DB
    BY <1>1, <1>2, <2>2, KnownSpan
  <2> QED
    BY <2>1, <2>3
<1> QED
  BY <1>2, <1>3, StoreAssumption DEF contents, epoch

\* A step that leaves the manifest alone leaves the contents alone.
LEMMA CurrentStays ==
  ASSUME Typed, Grows, UNCHANGED manifest
  PROVE  UNCHANGED <<contents, seq, schema>>
<1>1. CASE manifest = NoManifest
  BY <1>1 DEF contents, seq, schema
<1>2. CASE manifest # NoManifest
  <2> DEFINE k == manifest.snap.key
             n == manifest.seq
  <2>1. /\ manifest \in Manifests /\ Known(manifest) /\ n \in Nat /\ manifest.snap.seq <= n
    BY <1>2, ManifestFacts DEF Known, Manifests, blobRef
  <2>2. hist'[k][n - base'[k].seq + 1] = hist[k][n - base[k].seq + 1]
    BY <2>1, SpanStays
  <2>3. Content(epoch(manifest), manifest.seq)' = Content(epoch(manifest), manifest.seq)
    BY <2>2 DEF Content, Pos, epoch
  <2> QED
    BY <1>2, <2>3 DEF contents, seq, schema
<1> QED
  BY <1>1, <1>2

\* The bootstrap creates the empty database.
LEMMA CreateEffect ==
  ASSUME Explained, manifest = NoManifest, manifest' = InitManifest, UNCHANGED <<hist, base>>
  PROVE  /\ contents = NoManifest /\ contents' = EmptyDB /\ UNCHANGED <<seq, schema>>
<1>1. InitManifest # NoManifest
  BY InitManifestType, StoreAssumption
<1>2. base[InitSnap].seq = 0
  BY DEF Explained, Contents, Typed, StructInv, StoreInv
<1>3. Content(InitSnap, 0)' = EmptyDB
  BY <1>2 DEF Explained, Content, Pos
<1> QED
  BY <1>1, <1>3 DEF contents, seq, schema, epoch, InitManifest

\* A commit makes of the contents what fn would make of them there and then, though
\* it ran on an older state and was not run again after a rebase.
LEMMA CommitEffect ==
  ASSUME Typed, Grows, NEW c \in Clients, RecordInv(c), sound => ContentInv(c),
         pc[c] = "cas", PutCommit(c)
  PROVE  /\ UNCHANGED schema /\ seq' = seq + 1 /\ contents' = Patch(contents, Mine(c))
         /\ ReadsWhatItWrites /\ sound' => Agree(contents', Effect[fn[c]][contents])
<1> DEFINE k == cm[c].snap.key
           h == hist[k]
<1>1. /\ manifest' = newManifest(c) /\ manifest = cm[c] /\ manifest # NoManifest
      /\ newManifest(c) \in Manifests
  BY CommitStore
<1>2. manifest' # NoManifest /\ manifest'.schema = manifest.schema /\ manifest'.seq = manifest.seq + 1
      /\ manifest'.snap = manifest.snap
  BY <1>1, StoreAssumption DEF newManifest, appendLog
<1>3. /\ k \in DOMAIN hist /\ Len(hist'[k]) = Len(h) + 1
      /\ hist'[k][Len(h) + 1] = Patch(h[Len(h)], Mine(c)) /\ sound' = (sound /\ c \notin stale)
  BY CommitGrows
<1>4. contents = h[Len(h)] /\ contents = Content(k, manifest.seq) /\ contents \in DB
  BY <1>1, CurrentFacts
<1>5. contents' = Patch(contents, Mine(c))
  <2>1. /\ manifest.seq = manifest.snap.seq + Len(manifest.log) /\ Len(h) = Len(manifest.log) + 1
        /\ manifest.snap.seq = base[k].seq /\ manifest.snap.seq \in Nat /\ Len(manifest.log) \in Nat
    BY <1>1, ManifestFacts DEF Known, Manifests, blobRef
  <2>2. base' = base
    BY DEF PutCommit
  <2>3. manifest'.seq - base'[k].seq + 1 = Len(h) + 1
    BY <1>2, <2>1, <2>2
  <2>4. contents' = hist'[k][manifest'.seq - base'[k].seq + 1]
    BY <1>1, <1>2 DEF contents, Content, Pos, epoch
  <2> QED
    BY <1>3, <1>4, <2>3, <2>4
<1>6. ASSUME ReadsWhatItWrites, sound'
      PROVE  Agree(contents', Effect[fn[c]][contents])
  <2>1. ContentInv(c) /\ c \notin stale
    BY <1>3, <1>6 DEF Grows
  <2>2. localSeq[c] = cm[c].seq /\ snapshotKey[c] = k /\ fn[c] \in Txns
    BY SavepointFacts DEF InSavepoint
  <2>3. Applies(contents, Mine(c))
    BY <1>1, <1>4, <2>1, <2>2 DEF ContentInv, InSavepoint, Upto
  <2>4. PICK d \in DB : Mine(c) = Diff(d, Effect[fn[c]][d])
    BY DEF RecordInv, InSavepoint
  <2>5. Mine(c) # NoChange
    BY DEF RecordInv, InSavepoint
  <2>6. Agree(Effect[fn[c]][contents], Patch(contents, Mine(c)))
    BY <1>4, <1>6, <2>2, <2>3, <2>4, <2>5 DEF ReadsWhatItWrites
  <2> QED
    BY <1>5, <2>6 DEF Agree
<1> QED
  BY <1>1, <1>2, <1>5, <1>6 DEF schema, seq

\* A client at the CAS of a new snapshot has uploaded its local file.
LEMMA UploadedFacts ==
  ASSUME Typed, NEW c \in Clients, pc[c] \in Pending, IfMatch(cm[c])
  PROVE  /\ manifest # NoManifest /\ manifest = cm[c] /\ conn[c] \in DB /\ conn[c] # NoConn
         /\ localSeq[c] = manifest.seq /\ snapshotKey[c] = manifest.snap.key /\ saved[c] = NoConn
         /\ hist[snapKey[c]] = <<conn[c]>> /\ base[snapKey[c]].seq = manifest.seq
         /\ manifest.seq \in Nat /\ snapKey[c] # manifest.snap.key
         /\ contents = Content(snapshotKey[c], localSeq[c])
<1>1. manifest # NoManifest /\ manifest = cm[c]
  BY IfMatchFacts
<1>2. /\ conn[c] \in DB /\ conn[c] # NoConn /\ localSeq[c] = manifest.seq /\ snapshotKey[c] = manifest.snap.key
      /\ saved[c] = NoConn /\ manifest.seq \in Nat
  BY <1>1, ClientFacts DEF FlowInv, PositionInv, Synced, Pending, InSavepoint, Manifests
<1>3. hist[snapKey[c]] = <<conn[c]>> /\ base[snapKey[c]].seq = manifest.seq /\ snapKey[c] # manifest.snap.key
  <2>1. SnapInv(c)
    BY ClientFacts
  <2>2. base[snapKey[c]].seq = cm[c].seq
    BY <2>1 DEF SnapInv, Pending
  <2>3. hist[snapKey[c]] = <<conn[c]>>
    BY <2>1 DEF SnapInv, Pending
  <2>4. snapKey[c] # manifest.snap.key
    BY <1>1, <2>1 DEF SnapInv, Pending
  <2> QED
    BY <1>1, <2>2, <2>3, <2>4
<1> QED
  BY <1>1, <1>2, <1>3, CurrentFacts

\* The manifest of a new snapshot holds what was uploaded.
LEMMA NewSnapEffect ==
  ASSUME Typed, NEW c \in Clients, pc[c] \in Pending, IfMatch(cm[c]), UNCHANGED <<hist, base>>,
         manifest' # NoManifest, manifest'.snap.key = snapKey[c], manifest'.seq = cm[c].seq
  PROVE  contents' = conn[c] /\ SnapBody(epoch(manifest')) = conn[c]
<1>1. Pos(snapKey[c], cm[c].seq) = 1 /\ hist[snapKey[c]][1] = conn[c]
  BY UploadedFacts DEF Pos
<1> QED
  BY <1>1 DEF contents, Content, Pos, epoch, SnapBody

\* Compaction leaves the contents as they are.
LEMMA CompactEffect ==
  ASSUME Typed, Grows, NEW c \in Clients, sound => ContentInv(c), pc[c] = "compactcas", PutCompact(c)
  PROVE  /\ UNCHANGED <<seq, schema>>
         /\ contents' = SnapBody(epoch(manifest'))
         /\ sound' => sound /\ Agree(contents', contents)
<1>1. /\ manifest' = compactManifest(c) /\ compactManifest(c) \in Manifests
  BY CompactStore
<1>2. IfMatch(cm[c]) /\ pc[c] \in Pending /\ UNCHANGED <<hist, base>> /\ (sound' => c \notin stale)
  BY DEF PutCompact, PutManifest, Pending
<1>3. /\ manifest' # NoManifest /\ manifest'.snap.key = snapKey[c] /\ manifest'.seq = cm[c].seq
      /\ manifest'.schema = cm[c].schema
  BY <1>1, StoreAssumption DEF compactManifest, withSnapshot
<1>4. contents' = conn[c] /\ contents' = SnapBody(epoch(manifest'))
  BY <1>2, <1>3, NewSnapEffect
<1>5. sound' => Agree(conn[c], contents)
  BY <1>2, UploadedFacts DEF Grows, ContentInv, Dirty
<1> QED
  BY <1>2, <1>3, <1>4, <1>5, UploadedFacts DEF seq, schema, Grows

\* A migration makes of the contents what Up makes of them, once.
LEMMA MigrateEffect ==
  ASSUME Typed, Grows, NEW c \in Clients, pc[c] = "migcas", PutMigrate(c)
  PROVE  /\ UNCHANGED seq /\ schema' = schema + 1 /\ schema + 1 \in DOMAIN Up
         /\ schema \in Nat
         /\ contents' = SnapBody(epoch(manifest'))
         /\ sound' /\ MigratedInv(c) => sound /\ Agree(contents', Up[schema + 1][contents])
<1>1. /\ manifest' = migrateManifest(c) /\ migrateManifest(c) \in Manifests
  BY MigrateStore
<1>2. IfMatch(cm[c]) /\ pc[c] \in Pending /\ UNCHANGED <<hist, base>> /\ (sound' => c \notin stale)
  BY DEF PutMigrate, PutManifest, Pending
<1>3. /\ manifest' # NoManifest /\ manifest'.snap.key = snapKey[c] /\ manifest'.seq = cm[c].seq
      /\ manifest'.schema = cm[c].schema + 1
  BY <1>1, StoreAssumption DEF migrateManifest
<1>4. contents' = conn[c] /\ contents' = SnapBody(epoch(manifest'))
  BY <1>2, <1>3, NewSnapEffect
<1>5. cm[c].schema < Version[c] /\ cm[c].schema \in Nat
  BY ClientFacts DEF FlowInv, Target, SyncLabels, Manifests
<1>6. cm[c].schema + 1 \in DOMAIN Up
  BY <1>5, ClientAssumption, MigrateAssumption
<1>7. sound' /\ MigratedInv(c) => Agree(conn[c], Up[cm[c].schema + 1][contents])
  BY <1>2, UploadedFacts DEF Grows, MigratedInv
<1> QED
  BY <1>2, <1>3, <1>4, <1>5, <1>6, <1>7, UploadedFacts DEF seq, schema, Grows
-----------------------------------------------------------------------------
(***************************************************************************)
(* Every step, as the versioned database sees it.                          *)
(***************************************************************************)

\* fn of c goes on, is forgotten, or is new and c was idle.
FnMoves(c) ==
  \/ fn' = fn \/ fn' = [fn EXCEPT ![c] = NoTxn]
  \/ pc[c] = "idle" /\ \E f \in Txns : fn' = [fn EXCEPT ![c] = f]

\* A step changes fn of one client, or creates the database, or is a write to
\* manifest.json; the write of a commit ends its Update, unless the SDK sends the
\* Put again.
LEMMA Effects ==
  ASSUME Typed, NEW c \in Clients, Call(c) \/ Step(c) \/ Disrupt(c)
  PROVE  \/ UNCHANGED <<manifest, sound>> /\ FnMoves(c)
         \/ /\ manifest = NoManifest /\ manifest' = InitManifest
            /\ UNCHANGED <<hist, base, sound, fn>>
         \/ /\ pc[c] = "cas" /\ PutCommit(c)
            /\ fn' = [fn EXCEPT ![c] = NoTxn] \/ "retry412" \in Faults
         \/ pc[c] = "compactcas" /\ PutCompact(c) /\ fn' = fn
         \/ pc[c] = "migcas" /\ PutMigrate(c) /\ fn' = fn
<1>0. sound \in BOOLEAN
  BY DEF Typed, TypeOK, StoreTypeOK
<1>1. CASE Call(c)
  BY <1>1 DEF Call, OpenStart, ViewStart, UpdateStart, CompactStart, GCStart, Start, storeVars, updateVars,
     At, FnMoves
<1>2. CASE Disrupt(c)
  BY <1>2 DEF Disrupt, StoreError, Crash, Close, EndEarly, Forget, storeVars, FnMoves
<1>3. CASE ClientStep(c) /\ UNCHANGED <<updateVars, todo, lastVer>>
  <2>1. CASE BootPut(c) \/ BootPhantom(c)
    BY <1>0, <1>3, <2>1 DEF BootPut, BootPhantom, IfNoneMatch, PutManifest, updateVars
  <2>2. CASE ~(BootPut(c) \/ BootPhantom(c))
    BY <1>3, <2>2 DEF ClientStep, Refresh, Download, Fetch, Apply, Open, OpenEmpty, BootUpload, BootLost,
       View, storeVars, updateVars, FnMoves
  <2> QED
    BY <2>1, <2>2
<1>4. CASE CommitStep(c)
  <2>1. ASSUME NEW m, UpdateDone(c, m) PROVE fn' = [fn EXCEPT ![c] = NoTxn]
    BY <2>1 DEF UpdateDone, Forget
  <2>2. ASSUME NEW m, rollbackAndResync(c, m) PROVE UNCHANGED <<manifest, sound, fn>>
    BY <2>2 DEF rollbackAndResync, storeVars
  <2>3. CASE Cas(c) \/ CasPhantom(c) \/ CasLost(c)
    BY <2>1, <2>3 DEF Cas, CasPhantom, CasLost, Forget, At, storeVars, updateVars, FnMoves
  <2>4. CASE ~(Cas(c) \/ CasPhantom(c) \/ CasLost(c))
    BY <1>4, <2>1, <2>2, <2>4 DEF CommitStep, CaptureNothing, Capture, Unorphan, Upload, Reload, RebaseEntry,
       RebaseNotFound, Rebased, Exhausted, Forget, DeleteChangesets, storeVars, updateVars, FnMoves
  <2> QED
    BY <2>3, <2>4
<1>5. CASE CompactStep(c)
  BY <1>5 DEF CompactStep, CompactNothing, CompactUpload, CompactCas, CompactPhantom, CompactLost,
     PutSnapshot, At, storeVars, updateVars, FnMoves
<1>6. CASE GCStep(c)
  BY <1>6 DEF GCStep, GCStat, GCList, GCSweep, GCSwept, GCSnaps, GCDelete, GCDone, gcFrame,
     DeleteChangesets, DeleteSnapshot, storeVars, updateVars, FnMoves
<1>7. CASE MigrateStep(c)
  BY <1>7 DEF MigrateStep, MigrateTooNew, MigrateDone, MigrateNext, MigrateUp, MigrateCas, MigrateLost,
     MigratePhantom, PutSnapshot, At, storeVars, updateVars, FnMoves
<1>8. CASE (RefreshRejected(c) \/ NotFound(c) \/ ApplyConflict(c)) /\ EndEarly(c)
  BY <1>8 DEF RefreshRejected, NotFound, ApplyConflict, EndEarly, Forget, storeVars, FnMoves
<1> QED
  BY <1>1, <1>2, <1>3, <1>4, <1>5, <1>6, <1>7, <1>8 DEF Step

\* A snapshot that takes over the log holds exactly what snapshot and log held,
\* migrated if the schema version changes: compaction loses no committed row
\* (compact.go:21) and a migration runs once on the contents of the manifest it
\* replaces, provided that migrations copy nothing from PK-less tables.
THEOREM SnapshotsAreExact ==
  ASSUME MigratesTracked
  PROVE  Spec => SoundSnapshotExact
<1>1. ASSUME Explained, [Next]_vars, manifest' # manifest, sound', NewSnapshot
      PROVE  KeepsContents
  <2>1. PICK c \in Clients : Call(c) \/ Step(c) \/ Disrupt(c)
    <3>1. ~(Elapse /\ UNCHANGED lastVer) /\ ~UNCHANGED vars
      BY <1>1 DEF Elapse, vars, storeVars
    <3> QED
      BY <1>1, <3>1 DEF Next
  <2>2. Typed /\ Grows /\ manifest # NoManifest
    BY <1>1, <2>1, StepGrows DEF Explained, Contents, NewSnapshot
  <2>3. sound => ContentInv(c)
    BY <1>1 DEF Explained, Contents, DataInv
  <2>4. contents = Content(epoch(manifest), manifest.seq) /\ schema = manifest.schema
    BY <2>2, CurrentFacts DEF epoch, schema
  <2>5. CASE pc[c] = "cas" /\ PutCommit(c)
    <3>1. manifest' = newManifest(c) /\ manifest = cm[c]
      BY <2>2, <2>5, CommitStore
    <3> QED
      BY <1>1, <3>1 DEF NewSnapshot, epoch, newManifest, appendLog
  <2>6. CASE pc[c] = "compactcas" /\ PutCompact(c)
    <3>1. Agree(contents', contents) /\ contents' = SnapBody(epoch(manifest'))
      BY <1>1, <2>2, <2>3, <2>6, CompactEffect
    <3>2. manifest'.schema = manifest.schema
      BY <2>2, <2>6, CompactStore, IfMatchFacts DEF PutCompact, compactManifest, withSnapshot
    <3> QED
      BY <2>4, <3>1, <3>2 DEF KeepsContents
  <2>7. CASE pc[c] = "migcas" /\ PutMigrate(c)
    <3>1. /\ Agree(contents', Up[schema + 1][contents]) /\ contents' = SnapBody(epoch(manifest'))
          /\ schema \in Nat
      BY <1>1, <2>2, <2>7, MigrateEffect DEF Explained
    <3>2. manifest'.schema = manifest.schema + 1
      BY <2>2, <2>7, MigrateStore, IfMatchFacts DEF PutMigrate, migrateManifest
    <3>3. manifest'.schema = schema + 1 /\ manifest'.schema # manifest.schema
      BY <2>4, <3>1, <3>2
    <3> QED
      BY <2>4, <3>1, <3>3 DEF KeepsContents
  <2> QED
    BY <1>1, <2>1, <2>2, <2>5, <2>6, <2>7, Effects
<1>2. Explained /\ [Next]_vars => [sound' /\ NewSnapshot => KeepsContents]_manifest
  BY <1>1
<1> QED
  BY <1>2, ExplainedInvariant, PTL DEF Spec, SoundSnapshotExact

\* The log is a serial order of the transactions: each commit is what its fn makes
\* of the database at its place in the log, although fn ran on an older state and
\* was not run again after a clean rebase (DESIGN.md, "Conflict semantics"),
\* provided that fn depends on no row but those it changes (where it does, the
\* run writeskew shows what happens) and that the SDK does not send a Put again.
THEOREM CommitsAreSerializable ==
  ASSUME ReadsWhatItWrites, "retry412" \notin Faults
  PROVE  Spec => Serializable
<1>1. ASSUME Explained, Operations, [Next]_vars, NEW c \in Clients, sound', Commits, At(c, "cas"),
             csKey[c] = manifest'.log[Len(manifest'.log)].key,
             NEW k, k = epoch(manifest)
      PROVE  Agree(hist'[k][Len(hist'[k])], Effect[fn[c]][hist[k][Len(hist[k])]])
  <2>1. PICK d \in Clients : Call(d) \/ Step(d) \/ Disrupt(d)
    <3>1. ~(Elapse /\ UNCHANGED lastVer) /\ ~UNCHANGED vars
      BY <1>1 DEF Elapse, vars, storeVars, Commits
    <3> QED
      BY <1>1, <3>1 DEF Next
  <2>2. Typed /\ Grows /\ manifest # NoManifest
    BY <1>1, <2>1, StepGrows DEF Explained, Contents, Commits
  <2>3. pc[d] = "cas" /\ PutCommit(d)
    <3>1. (pc[d] = "cas" /\ PutCommit(d)) \/ PutCompact(d) \/ PutMigrate(d)
      BY <1>1, <2>1, <2>2, OnlyPutsReplace DEF Commits
    <3>2. PutCompact(d) => manifest'.seq = manifest.seq
      BY IfMatchFacts DEF PutCompact, PutManifest, compactManifest, withSnapshot
    <3>3. PutMigrate(d) => manifest'.seq = manifest.seq
      BY IfMatchFacts DEF PutMigrate, PutManifest, migrateManifest
    <3> QED
      BY <1>1, <3>1, <3>2, <3>3 DEF Commits
  <2>4. manifest' = newManifest(d) /\ manifest = cm[d] /\ manifest \in Manifests
    BY <2>2, <2>3, CommitStore, ManifestFacts
  <2>5. csKey[c] = csKey[d]
    <3>1. manifest'.log = Append(manifest.log, [key |-> csKey[d], seq |-> manifest.seq + 1])
      BY <2>4 DEF newManifest, appendLog
    <3>2. manifest.log \in Seq(logEntry)
      BY <2>4 DEF Manifests
    <3>3. manifest'.log[Len(manifest'.log)] = [key |-> csKey[d], seq |-> manifest.seq + 1]
      <4> HIDE DEF logEntry
      <4> DEFINE e == [key |-> csKey[d], seq |-> manifest.seq + 1]
      <4>1. Len(manifest'.log) = Len(manifest.log) + 1 /\ manifest'.log[Len(manifest.log) + 1] = e
        <5> HIDE DEF e
        <5> QED
          BY <3>1, <3>2 DEF e
      <4> QED
        BY <4>1
    <3> QED
      BY <1>1, <3>3
  <2>6. c = d
    <3>1. csKey[c] # NoKey
      <4>1. csKey[c].id \in DOMAIN csBody /\ csBody \in Seq(Changeset)
        BY <1>1, <2>2, SavepointFacts DEF At, InSavepoint, Typed, TypeOK, StoreTypeOK
      <4> QED
        BY <4>1 DEF NoKey
    <3>2. csKey[c] \in Own(c) /\ csKey[c] \in Own(d)
      BY <2>5, <3>1 DEF Own
    <3> QED
      BY <1>1, <3>2 DEF Operations, OwnInv
  <2>7. RecordInv(d) /\ (sound => ContentInv(d))
    BY <1>1 DEF Explained, Contents, DataInv
  <2>8. Agree(contents', Effect[fn[d]][contents]) /\ contents' = Patch(contents, Mine(d))
    BY <1>1, <2>2, <2>3, <2>7, CommitEffect
  <2>9. contents = hist[k][Len(hist[k])] /\ k = cm[d].snap.key
    BY <1>1, <2>2, <2>4, CurrentFacts DEF epoch
  <2>10. hist'[k][Len(hist'[k])] = Patch(contents, Mine(d))
    BY <2>2, <2>3, <2>9, CommitGrows
  <2> QED
    BY <2>6, <2>8, <2>9, <2>10
<1>2. Explained /\ Operations /\ [Next]_vars =>
        [ \A c \in Clients :
            sound' /\ Commits /\ At(c, "cas") /\ csKey[c] = manifest'.log[Len(manifest'.log)].key =>
              LET k == epoch(manifest)
              IN Agree(hist'[k][Len(hist'[k])], Effect[fn[c]][hist[k][Len(hist[k])]]) ]_vars
  BY <1>1
<1> QED
  BY <1>2, ExplainedInvariant, OperationsInvariant, PTL DEF Spec, Serializable

\* Every step of the system is a step of the versioned database or none.
LEMMA StepRefines ==
  ASSUME ReadsWhatItWrites, MigratesTracked, "retry412" \notin Faults,
         Explained, NEW c \in Clients, Call(c) \/ Step(c) \/ Disrupt(c)
  PROVE  [Abstract!Next]_(Abstract!vars)
<1>1. Typed /\ Grows /\ RecordInv(c) /\ (sound => ContentInv(c)) /\ MigratedInv(c)
  BY StepGrows DEF Explained, Contents, DataInv
<1>2. \A d, e : Abstract!Agree(d, e) <=> Agree(d, e)
  BY DEF Abstract!Agree, Agree, Abstract!Tracked, Tracked
<1>3. Abstract!EmptyDB = EmptyDB
  BY DEF Abstract!EmptyDB, EmptyDB
<1>4. fn \in [Clients -> Txns \cup {NoTxn}]
  BY <1>1 DEF Typed, TypeOK, CommitTypeOK
<1>5. CASE UNCHANGED <<manifest, sound>> /\ FnMoves(c)
  <2>1. UNCHANGED <<contents, seq, schema, sound>>
    BY <1>1, <1>5, CurrentStays
  <2>2. CASE fn' = fn
    BY <2>1, <2>2 DEF Abstract!vars
  <2>3. CASE fn' = [fn EXCEPT ![c] = NoTxn]
    <3>1. fn[c] = NoTxn => fn' = fn
      BY <1>4, <2>3
    <3>2. fn[c] # NoTxn => Abstract!Abandon(c)
      BY <2>1, <2>3 DEF Abstract!Abandon
    <3> QED
      BY <2>2, <3>1, <3>2 DEF Abstract!Next
  <2>4. CASE pc[c] = "idle" /\ \E f \in Txns : fn' = [fn EXCEPT ![c] = f]
    <3>1. fn[c] = NoTxn
      BY <1>1, <2>4 DEF RecordInv, Target, SyncLabels, InSavepoint
    <3>2. PICK f \in Txns : fn' = [fn EXCEPT ![c] = f]
      BY <2>4
    <3>3. Abstract!Ask(c, f)
      BY <2>1, <3>1, <3>2 DEF Abstract!Ask
    <3> QED
      BY <3>3 DEF Abstract!Next
  <2> QED
    BY <1>5, <2>2, <2>3, <2>4 DEF FnMoves
<1>6. CASE manifest = NoManifest /\ manifest' = InitManifest /\ UNCHANGED <<hist, base, sound, fn>>
  <2>1. Abstract!Create
    BY <1>3, <1>6, CreateEffect DEF Abstract!Create
  <2> QED
    BY <2>1 DEF Abstract!Next
<1>7. CASE pc[c] = "cas" /\ PutCommit(c) /\ fn' = [fn EXCEPT ![c] = NoTxn]
  <2>1. fn[c] # NoTxn
    BY <1>1, <1>7, SavepointFacts, CommitAssumption DEF InSavepoint
  <2>2. contents # NoManifest
    BY <1>1, <1>7, CommitStore, CurrentFacts
  <2>3. sound' => sound /\ Agree(contents', Effect[fn[c]][contents])
    BY <1>1, <1>7, CommitEffect DEF Grows
  <2>4. seq' = seq + 1 /\ UNCHANGED schema
    BY <1>1, <1>7, CommitEffect
  <2>5. Abstract!Commit(c)
    BY <1>2, <1>7, <2>1, <2>2, <2>3, <2>4 DEF Abstract!Commit, Abstract!Becomes
  <2> QED
    BY <2>5 DEF Abstract!Next
<1>8. CASE pc[c] = "compactcas" /\ PutCompact(c) /\ fn' = fn
  <2>1. contents # NoManifest
    BY <1>1, <1>8, IfMatchFacts, CurrentFacts DEF PutCompact
  <2>2. /\ UNCHANGED <<seq, schema>>
        /\ sound' => sound /\ Agree(contents', contents)
    BY <1>1, <1>8, CompactEffect
  <2>3. Abstract!Fold
    BY <1>2, <1>8, <2>1, <2>2 DEF Abstract!Fold, Abstract!Becomes
  <2> QED
    BY <2>3 DEF Abstract!Next
<1>9. CASE pc[c] = "migcas" /\ PutMigrate(c) /\ fn' = fn
  <2>1. contents # NoManifest
    BY <1>1, <1>9, IfMatchFacts, CurrentFacts DEF PutMigrate
  <2>2. /\ UNCHANGED seq /\ schema' = schema + 1 /\ schema + 1 \in DOMAIN Up
        /\ sound' => sound /\ Agree(contents', Up[schema + 1][contents])
    BY <1>1, <1>9, MigrateEffect
  <2>3. Abstract!Migrate
    BY <1>2, <1>9, <2>1, <2>2 DEF Abstract!Migrate, Abstract!Becomes
  <2> QED
    BY <2>3 DEF Abstract!Next
<1> QED
  BY <1>1, <1>5, <1>6, <1>7, <1>8, <1>9, Effects

\* s3db implements one versioned database: an Update takes effect at most once, as a
\* whole and at one instant between the call and its answer, on the contents the
\* commits before it left; compactions, rebases, rollbacks, lost attempts, failing
\* stores and dying processes do not show, for any number of clients.  Provided
\* that fn depends on no row but those it changes, that migrations copy nothing
\* from PK-less tables and that the SDK sends no Put again that took effect.
THEOREM VersionedDatabase ==
  ASSUME ReadsWhatItWrites, MigratesTracked, "retry412" \notin Faults
  PROVE  Spec => ImplementsVersionedDB
<1>1. Init => Abstract!Init
  <2> SUFFICES ASSUME Init PROVE Abstract!Init
    OBVIOUS
  <2>1. /\ manifest \in {NoManifest, InitManifest} /\ hist = << <<EmptyDB>> >>
        /\ base = << [seq |-> 0, schema |-> 0] >> /\ fn = [c \in Clients |-> NoTxn] /\ sound = TRUE
    BY DEF Init, ClientInit, CommitInit
  <2>2. Content(InitSnap, 0) = EmptyDB
    BY <2>1 DEF Content, Pos, InitSnap
  <2>3. contents \in {NoManifest, EmptyDB} /\ seq = 0 /\ schema = 0
    BY <2>1, <2>2 DEF contents, seq, schema, epoch, InitManifest
  <2> QED
    BY <2>1, <2>3 DEF Abstract!Init, Abstract!EmptyDB, EmptyDB
<1>2. Explained /\ [Next]_vars => [Abstract!Next]_(Abstract!vars)
  <2> SUFFICES ASSUME Explained, [Next]_vars PROVE [Abstract!Next]_(Abstract!vars)
    OBVIOUS
  <2>1. CASE \E c \in Clients : Call(c) \/ Step(c) \/ Disrupt(c)
    BY <2>1, StepRefines
  <2>2. CASE UNCHANGED <<manifest, hist, base, fn, sound>>
    BY <2>2 DEF Abstract!vars, contents, seq, schema, Content, Pos, epoch
  <2> QED
    BY <2>1, <2>2 DEF Next, Elapse, gcFrame, vars, storeVars, updateVars
<1> QED
  BY <1>1, <1>2, ExplainedInvariant, PTL DEF Spec, ImplementsVersionedDB, Abstract!Spec
=============================================================================
