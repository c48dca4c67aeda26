----------------------------- MODULE FlowProofs -----------------------------
(***************************************************************************)
(* Proofs about an operation and the writes of others since it was called: *)
(* lost CAS attempts, the freshness of a View, and the orphans of doUpdate. *)
(***************************************************************************)
EXTENDS DataProofs

\* The types that the lemmas below need of the handles and the clock.
Shape2 == Shapes /\ clock \in Nat /\ \A c \in Clients : began[c].clock \in Nat /\ began[c].seq \in Nat

\* They follow from the type invariant.
LEMMA Shape2Holds == ASSUME Typed PROVE Shape2
BY DEF Typed, TypeOK, StoreTypeOK, ClientTypeOK, CommitTypeOK, MigrateTypeOK, Shapes, Shape2

\* The clock ticks whenever the manifest is replaced.
LEMMA ClockTicks ==
  ASSUME NEW c \in Clients, Call(c) \/ Step(c) \/ Disrupt(c)
  PROVE  UNCHANGED <<manifest, clock>> \/ clock' = clock + 1
<1>1. CASE Call(c)
  BY <1>1 DEF Call, OpenStart, ViewStart, UpdateStart, CompactStart, GCStart, Start, storeVars
<1>2. CASE Disrupt(c)
  BY <1>2 DEF Disrupt, StoreError, Crash, Close, storeVars
<1>3. CASE ClientStep(c)
  BY <1>3 DEF ClientStep, Refresh, Download, Fetch, Apply, Open, OpenEmpty, BootUpload,
     BootPut, BootLost, BootPhantom, View, PutManifest, storeVars
<1>4. CASE CommitStep(c)
  BY <1>4 DEF CommitStep, CaptureNothing, Capture, Unorphan, Upload, Cas, CasPhantom, CasLost,
     Reload, RebaseEntry, RebaseNotFound, Rebased, Exhausted, rollbackAndResync,
     DeleteChangesets, PutCommit, PutManifest, storeVars
<1>5. CASE CompactStep(c)
  BY <1>5 DEF CompactStep, CompactNothing, CompactUpload, CompactCas, CompactPhantom,
     CompactLost, PutSnapshot, PutCompact, PutManifest, storeVars
<1>6. CASE GCStep(c)
  BY <1>6 DEF GCStep, GCStat, GCList, GCSweep, GCSwept, GCSnaps, GCDelete, GCDone,
     DeleteChangesets, DeleteSnapshot, storeVars
<1>7. CASE MigrateStep(c)
  BY <1>7 DEF MigrateStep, MigrateTooNew, MigrateDone, MigrateNext, MigrateUp, MigrateCas,
     MigrateLost, MigratePhantom, PutSnapshot, PutMigrate, PutManifest, storeVars
<1>8. CASE RefreshRejected(c) \/ NotFound(c) \/ ApplyConflict(c)
  BY <1>8 DEF RefreshRejected, NotFound, ApplyConflict, storeVars
<1> QED
  BY <1>1, <1>2, <1>3, <1>4, <1>5, <1>6, <1>7, <1>8 DEF Step
-----------------------------------------------------------------------------
(***************************************************************************)
(* Contention.                                                             *)
(***************************************************************************)

LEMMA LossesType == ASSUME NEW c \in Clients PROVE Losses(c) \in {0, 1, 2}
BY DEF Losses, Loaded

\* While the others write, a client loses at most one attempt per write.
LEMMA OtherContention ==
  ASSUME Typed, NEW c \in Clients, NEW d \in Clients \ {c}, ContentionInv(d),
         Call(c) \/ Step(c) \/ Disrupt(c)
  PROVE  ContentionInv(d)'
<1>1. /\ Untouched(d) /\ (UNCHANGED <<manifest, clock>> \/ clock' = clock + 1)
      /\ attempt[d] \in Nat /\ clock \in Nat /\ began[d].clock \in Nat
  BY OthersUntouched, ClockTicks, Shape2Holds DEF Shape2, Shapes
<1> SUFFICES ASSUME pc[d] \notin {"idle", "closed"}
             PROVE  attempt[d] + Losses(d)' <= clock' - began[d].clock
  BY <1>1 DEF ContentionInv, Untouched
<1>2. attempt[d] + Losses(d) <= clock - began[d].clock /\ Losses(d) \in {0, 1, 2}
  BY LossesType DEF ContentionInv
<1>3. CASE UNCHANGED <<manifest, clock>>
  BY <1>1, <1>2, <1>3 DEF Losses, Untouched
<1>4. CASE clock' = clock + 1
  <2>1. Losses(d)' \in {Losses(d), 0, 1} \/ (Losses(d)' = 2 /\ Losses(d) >= 1)
    BY <1>1 DEF Losses, Untouched
  <2> QED
    BY <1>1, <1>2, <1>4, <2>1
<1> QED
  BY <1>1, <1>3, <1>4

\* An operation that goes on counts what it lost.
LEMMA OwnContention ==
  ASSUME Typed, NEW c \in Clients, ContentionInv(c), Call(c) \/ Step(c) \/ Disrupt(c)
  PROVE  ContentionInv(c)'
<1>0. Shape2
  BY Shape2Holds
<1> USE DEF Shape2, Shapes
<1> DEFINE Sum == attempt[c] + Losses(c)
<1>1. attempt[c] \in Nat /\ Losses(c) \in {0, 1, 2} /\ clock \in Nat /\ began[c].clock \in Nat
  BY <1>0, LossesType
<1>2. ASSUME Return(c) \/ Shut(c) PROVE ContentionInv(c)'
  <2>1. pc'[c] \in {"idle", "closed"}
    BY <1>0, <1>2 DEF Return, Shut, Goto
  <2> QED
    BY <2>1 DEF ContentionInv
<1>3. ASSUME pc[c] \notin {"idle", "closed"}, began'[c] = began[c],
             \/ clock' = clock /\ attempt'[c] + Losses(c)' <= attempt[c] + Losses(c)
             \/ clock' = clock + 1 /\ attempt'[c] + Losses(c)' <= attempt[c] + Losses(c) + 1,
             attempt'[c] \in Nat, Losses(c)' \in {0, 1, 2}
      PROVE  ContentionInv(c)'
  BY <1>1, <1>3 DEF ContentionInv
<1>4. CASE Call(c)
  <2>1. attempt'[c] = 0 /\ pc'[c] \in {"open", "refresh"} /\ began'[c].clock = clock /\ clock' = clock
    BY <1>0, <1>4 DEF Call, OpenStart, ViewStart, UpdateStart, CompactStart, GCStart, Start, Goto, storeVars
  <2>2. Losses(c)' = 0
    BY <2>1 DEF Losses, Loaded
  <2> QED
    BY <1>1, <2>1, <2>2 DEF ContentionInv
<1>5. CASE Disrupt(c)
  BY <1>2, <1>5 DEF Disrupt, StoreError, Crash, Close, Fail
<1>6. ASSUME pc[c] \notin {"idle", "closed"}, began'[c] = began[c], attempt'[c] = attempt[c],
             Losses(c)' = 0, clock' \in {clock, clock + 1}
      PROVE  ContentionInv(c)'
  <2>1. attempt[c] + 0 <= attempt[c] + Losses(c)
    BY <1>1
  <2> QED
    BY <1>1, <1>3, <1>6, <2>1
<1>7. CASE ClientStep(c) /\ UNCHANGED <<updateVars, todo, lastVer>>
  <2>1. CASE Refresh(c)
    <3>1. /\ pc[c] = "refresh" /\ UNCHANGED <<began, attempt, clock, manifest>> /\ cm'[c] = manifest
          /\ pc'[c] \in {"download", "fetch", ret[c]} /\ ret[c] \in {"view", "capture", "compact", "gc"}
      BY <2>1, SyncMoves, ClientFacts DEF Refresh, At, FlowInv, storeVars
    <3>2. Losses(c)' = 0
      BY <3>1 DEF Losses, Loaded
    <3> QED
      BY <1>6, <3>1, <3>2
  <2>2. CASE Download(c) \/ Fetch(c) \/ Apply(c)
    <3>1. /\ pc[c] \in {"download", "fetch", "apply"} /\ UNCHANGED <<began, attempt, clock, manifest>>
          /\ cm'[c] = cm[c] /\ pc'[c] \in {"fetch", "apply", ret[c]} /\ ret[c] \in Rets
      BY <1>0, <2>2 DEF Download, Fetch, Apply, At, Goto, storeVars, connVars
    <3>2. Losses(c)' \in {0, Losses(c)}
      BY <3>1 DEF Losses, Loaded, Rets, OpenRets
    <3> QED
      BY <1>1, <1>3, <3>1, <3>2
  <2>3. CASE Open(c) \/ BootPut(c)
    <3>1. PICK m, next : /\ pc[c] \in {"open", "bootput"} /\ UNCHANGED <<began, attempt>>
                         /\ clock' \in {clock, clock + 1} /\ manifest' = m /\ next \in {"idle", "migrate"}
                         /\ syncToManifest(c, m, NoConn, NoSnap, next)
      BY <2>3 DEF Open, BootPut, OpenWith, At, storeVars, PutManifest
    <3>2. cm'[c] = manifest' /\ pc'[c] \in {"download", "fetch", "idle", "migrate"}
      BY <3>1, SyncMoves
    <3>3. Losses(c)' = 0
      BY <3>2 DEF Losses, Loaded
    <3> QED
      BY <1>6, <3>1, <3>3
  <2>4. CASE OpenEmpty(c) \/ BootUpload(c) \/ BootLost(c) \/ (BootPhantom(c) /\ ~Fail(c))
    <3>1. /\ pc[c] \in {"open", "bootupload", "bootput"} /\ UNCHANGED <<began, attempt>>
          /\ clock' \in {clock, clock + 1} /\ pc'[c] \in {"open", "bootupload", "bootput"}
      BY <1>0, <2>4 DEF OpenEmpty, BootUpload, BootLost, BootPhantom, At, Goto, storeVars, PutManifest
    <3>2. Losses(c)' = 0
      BY <3>1 DEF Losses, Loaded
    <3> QED
      BY <1>6, <3>1, <3>2
  <2> QED
    BY <1>2, <1>7, <2>1, <2>2, <2>3, <2>4 DEF ClientStep, View, BootPhantom, Fail
<1>8. CASE CommitStep(c) /\ UNCHANGED <<todo, lastVer>>
  <2>1. ASSUME NEW m, UpdateDone(c, m), pc[c] \in {"capture", "cas"}, clock' \in {clock, clock + 1}
        PROVE  ContentionInv(c)'
    <3>1. pc'[c] = "idle" \/ (pc'[c] = "refresh" /\ began'[c] = began[c])
      BY <1>0, <2>1 DEF UpdateDone, Goto
    <3>2. attempt'[c] = 0
      BY <1>0, <2>1 DEF UpdateDone
    <3>3. CASE pc'[c] = "refresh" /\ began'[c] = began[c]
      <4>1. Losses(c)' = 0
        BY <3>3 DEF Losses, Loaded
      <4>2. 0 <= clock - began[c].clock
        BY <1>1, <2>1 DEF ContentionInv
      <4> QED
        BY <1>1, <2>1, <3>2, <3>3, <4>1, <4>2 DEF ContentionInv
    <3> QED
      BY <3>1, <3>3 DEF ContentionInv
  <2>2. CASE CaptureNothing(c)
    BY <1>2, <2>1, <2>2 DEF CaptureNothing, At, storeVars
  <2>3. CASE Cas(c)
    BY <2>1, <2>3 DEF Cas, At, PutCommit, PutManifest
  <2>4. CASE Capture(c) \/ Unorphan(c) \/ Upload(c)
    <3>1. /\ pc[c] \in {"capture", "unorphan", "upload"} /\ UNCHANGED <<began, attempt, clock, manifest, cm>>
          /\ pc'[c] \in {"unorphan", "upload", "cas"}
      BY <1>0, <2>4 DEF Capture, Unorphan, Upload, At, Goto, storeVars, connVars, DeleteChangesets
    <3>2. Losses(c)' = Losses(c)
      BY <3>1 DEF Losses, Loaded
    <3> QED
      BY <1>1, <1>3, <3>1, <3>2
  <2>5. CASE CasLost(c)
    <3>1. /\ pc[c] = "cas" /\ UNCHANGED <<began, attempt>> /\ pc'[c] = "reload"
          /\ (clock' = clock /\ ~IfMatch(cm[c])) \/ clock' = clock + 1
      BY <1>0, <2>5 DEF CasLost, At, Goto, storeVars, PutCommit, PutManifest
    <3>2. Losses(c)' = 1
      BY <3>1 DEF Losses, Loaded
    <3>3. ~IfMatch(cm[c]) => Losses(c) = 1
      BY <3>1, ClientFacts, StoreAssumption DEF IfMatch, Losses, Loaded
    <3> QED
      BY <1>1, <1>3, <3>1, <3>2, <3>3
  <2>6. ASSUME NEW m, rollbackAndResync(c, m), pc[c] \in {"reload", "rebase"}, 
               pc[c] = "reload" => m = manifest, pc[c] = "rebase" => m = m2[c]
        PROVE  ContentionInv(c)'
    <3>1. /\ UNCHANGED <<began, clock, manifest>> /\ attempt'[c] = attempt[c] + 1 /\ cm'[c] = m
          /\ pc'[c] \in {"download", "fetch", "capture", "exhausted"}
      BY <1>0, <2>6, SyncMoves DEF rollbackAndResync, Again, storeVars
    <3>2. Losses(c)' + 1 <= Losses(c) /\ Losses(c)' \in {0, 1, 2}
      BY <2>6, <3>1 DEF Losses, Loaded
    <3> QED
      BY <1>1, <1>3, <2>6, <3>1, <3>2
  <2>7. CASE Reload(c)
    <3>1. CASE rollbackAndResync(c, manifest)
      BY <2>6, <2>7, <3>1 DEF Reload, At
    <3>2. CASE ~rollbackAndResync(c, manifest)
      <4>1. /\ pc[c] = "reload" /\ UNCHANGED <<began, attempt, clock, manifest>> /\ m2'[c] = manifest
            /\ pc'[c] = "rebase"
        BY <1>0, <2>7, <3>2 DEF Reload, At, Goto, storeVars
      <4>2. Losses(c)' = Losses(c)
        BY <4>1 DEF Losses, Loaded
      <4> QED
        BY <1>1, <1>3, <4>1, <4>2
    <3> QED
      BY <3>1, <3>2
  <2>8. CASE RebaseEntry(c)
    <3>1. CASE rollbackAndResync(c, m2[c])
      BY <2>6, <2>8, <3>1 DEF RebaseEntry, At
    <3>2. CASE ~rollbackAndResync(c, m2[c])
      <4>1. pc[c] = "rebase" /\ UNCHANGED <<pc, began, attempt, clock, manifest, m2>>
        BY <2>8, <3>2 DEF RebaseEntry, At, storeVars, flowVars
      <4>2. Losses(c)' = Losses(c)
        BY <4>1 DEF Losses, Loaded
      <4> QED
        BY <1>1, <1>3, <4>1, <4>2
    <3> QED
      BY <3>1, <3>2
  <2>9. CASE Rebased(c)
    <3>1. /\ pc[c] = "rebase" /\ UNCHANGED <<began, clock, manifest>> /\ attempt'[c] = attempt[c] + 1
          /\ cm'[c] = m2[c] /\ pc'[c] \in {"cas", "exhausted"}
      BY <1>0, <2>9 DEF Rebased, At, Goto, Again, storeVars
    <3>2. Losses(c)' + 1 <= Losses(c) /\ Losses(c)' \in {0, 1, 2}
      BY <3>1 DEF Losses, Loaded
    <3> QED
      BY <1>1, <1>3, <3>1, <3>2
  <2> QED
    BY <1>2, <1>8, <2>2, <2>3, <2>4, <2>5, <2>7, <2>8, <2>9
       DEF CommitStep, CasPhantom, RebaseNotFound, Exhausted
<1>9. CASE CompactStep(c) /\ UNCHANGED <<todo, lastVer>>
  <2>1. CASE CompactUpload(c)
    <3>1. /\ pc[c] = "compact" /\ UNCHANGED <<began, attempt, clock, manifest, cm>> /\ pc'[c] = "compactcas"
      BY <1>0, <2>1 DEF CompactUpload, At, Goto, connVars, PutSnapshot
    <3>2. Losses(c)' = Losses(c)
      BY <3>1 DEF Losses, Loaded
    <3> QED
      BY <1>1, <1>3, <3>1, <3>2
  <2>2. CASE CompactLost(c) /\ ~Return(c)
    <3>1. /\ pc[c] = "compactcas" /\ began' = began /\ attempt'[c] = attempt[c] + 1 /\ pc'[c] = "refresh"
          /\ (clock' = clock /\ ~IfMatch(cm[c])) \/ clock' = clock + 1
      BY <1>0, <2>2 DEF CompactLost, At, Goto, storeVars, PutCompact, PutManifest
    <3>2. Losses(c)' = 0
      BY <3>1 DEF Losses, Loaded
    <3>3. ~IfMatch(cm[c]) => Losses(c) = 1
      BY <3>1, ClientFacts, StoreAssumption DEF IfMatch, Losses, Loaded
    <3> QED
      BY <1>1, <1>3, <3>1, <3>2, <3>3
  <2>3. CASE CompactCas(c)
    <3>1. pc'[c] = "idle"
      BY <1>0, <2>3 DEF CompactCas, Goto
    <3> QED
      BY <3>1 DEF ContentionInv
  <2> QED
    BY <1>2, <1>9, <2>1, <2>2, <2>3 DEF CompactStep, CompactNothing, CompactPhantom
<1>10. CASE GCStep(c) /\ UNCHANGED lastVer
  <2>1. CASE ~GCDone(c)
    <3>1. UNCHANGED <<began, attempt, clock>> /\ pc[c] \in {"gc", "gclist", "gcsweep", "gcsnaps", "gcdelete"}
          /\ pc'[c] \in {"gclist", "gcsweep", "gcsnaps", "gcdelete"}
      BY <1>0, <1>10, <2>1 DEF GCStep, GCStat, GCList, GCSweep, GCSwept, GCSnaps, GCDelete, At, Goto,
         gcFrame, storeVars, DeleteChangesets, DeleteSnapshot
    <3>2. Losses(c)' = 0
      BY <3>1 DEF Losses, Loaded
    <3> QED
      BY <1>6, <3>1, <3>2
  <2> QED
    BY <1>2, <2>1 DEF GCDone
<1>11. CASE MigrateStep(c) /\ UNCHANGED todo
  <2>1. CASE MigrateDone(c) \/ MigrateNext(c)
    <3>1. PICK key, next : /\ pc[c] = "migrate" /\ UNCHANGED <<began, attempt, clock, manifest>>
                           /\ next \in {"idle", "up"}
                           /\ syncToManifest(c, manifest, conn[c], key, next)
      BY <2>1 DEF MigrateDone, MigrateNext, At, storeVars
    <3>2. cm'[c] = manifest /\ pc'[c] \in {"download", "fetch", "idle", "up"}
      BY <3>1, SyncMoves
    <3>3. Losses(c)' = 0
      BY <3>1, <3>2 DEF Losses, Loaded
    <3> QED
      BY <1>6, <3>1, <3>3
  <2>2. CASE MigrateUp(c) \/ MigrateCas(c) \/ MigrateLost(c)
    <3>1. /\ pc[c] \in {"up", "migcas"} /\ UNCHANGED <<began, attempt>>
          /\ clock' \in {clock, clock + 1} /\ pc'[c] \in {"migcas", "migrate"}
      BY <1>0, <2>2 DEF MigrateUp, MigrateCas, MigrateLost, At, Goto, storeVars, PutSnapshot, PutMigrate,
         PutManifest
    <3>2. Losses(c)' = 0
      BY <3>1 DEF Losses, Loaded
    <3> QED
      BY <1>6, <3>1, <3>2
  <2> QED
    BY <1>2, <1>11, <2>1, <2>2 DEF MigrateStep, MigrateTooNew, MigratePhantom
<1>12. CASE (RefreshRejected(c) \/ NotFound(c) \/ ApplyConflict(c)) /\ EndEarly(c)
  BY <1>2, <1>12 DEF RefreshRejected, NotFound, ApplyConflict, Fail
<1> QED
  BY <1>4, <1>5, <1>7, <1>8, <1>9, <1>10, <1>11, <1>12 DEF Step
-----------------------------------------------------------------------------
(***************************************************************************)
(* Freshness.                                                              *)
(***************************************************************************)

\* There is a manifest from the first one on.
LEMMA ManifestStays ==
  ASSUME Typed, NEW c \in Clients, Call(c) \/ Step(c) \/ Disrupt(c), manifest # NoManifest
  PROVE  manifest' # NoManifest
<1>1. CASE manifest' = manifest
  BY <1>1
<1>2. CASE manifest' # manifest
  <2>1. cm[c] \in Manifests /\ snapKey[c] \in Nat
    BY ClientFacts
  <2>2. compactManifest(c) \in Manifests /\ migrateManifest(c) \in Manifests
    BY <2>1 DEF compactManifest, migrateManifest, withSnapshot, Manifests, blobRef
  <2>3. pc[c] = "cas" /\ PutCommit(c) => manifest' \in Manifests
    BY CommitStore
  <2>4. PutCompact(c) \/ PutMigrate(c) => manifest' \in Manifests
    BY <2>2 DEF PutCompact, PutMigrate, PutManifest
  <2> QED
    BY <1>2, <2>3, <2>4, OnlyPutsReplace, StoreAssumption
<1> QED
  BY <1>1, <1>2

\* The sequence number of the bucket never goes back.
LEMMA SeqGrows ==
  ASSUME Typed, NEW c \in Clients, Call(c) \/ Step(c) \/ Disrupt(c), Typed'
  PROVE  SeqNow \in Nat /\ SeqNow' \in Nat /\ SeqNow <= SeqNow'
<1>1. /\ manifest # NoManifest => manifest.seq \in Nat
      /\ manifest' # NoManifest => manifest'.seq \in Nat
  BY DEF Typed, TypeOK, StoreTypeOK, Manifests
<1>2. manifest # NoManifest /\ manifest' # manifest => Successor(manifest')
  BY OnlyPutsReplace, CommitSucceeds, CompactSucceeds, MigrateSucceeds
<1>3. manifest # NoManifest => manifest' # NoManifest
  BY ManifestStays
<1> QED
  BY <1>1, <1>2, <1>3 DEF SeqNow, Successor

\* The steps that lead to a View load the manifest of the moment.
LEMMA OwnFresh ==
  ASSUME Typed, NEW c \in Clients, FreshInv(c), Call(c) \/ Step(c) \/ Disrupt(c), Typed'
  PROVE  FreshInv(c)'
<1>0. Shape2 /\ SeqNow \in Nat /\ SeqNow' \in Nat /\ SeqNow <= SeqNow' /\ began[c].seq \in Nat
  BY Shape2Holds, SeqGrows DEF Shape2
<1> USE DEF Shape2, Shapes
<1> DEFINE Away == Target(c)' # "view" \/ pc'[c] = "refresh"
<1>1. ASSUME began'[c] = began[c], Away PROVE FreshInv(c)'
  BY <1>0, <1>1 DEF FreshInv
<1>2. ASSUME Return(c) \/ Shut(c) PROVE FreshInv(c)'
  <2>1. pc'[c] \in {"idle", "closed"} /\ began'[c].seq = 0
    BY <1>0, <1>2 DEF Return, Shut, Goto, NotBegun
  <2> QED
    BY <1>0, <2>1 DEF FreshInv, Target, SyncLabels
<1>3. CASE Call(c)
  <2>1. pc'[c] \in {"open", "refresh"} /\ began'[c].seq = SeqNow
    BY <1>0, <1>3 DEF Call, OpenStart, ViewStart, UpdateStart, CompactStart, GCStart, Start, Goto, SeqNow
  <2> QED
    BY <1>0, <2>1 DEF FreshInv, Target, SyncLabels
<1>4. CASE Disrupt(c)
  BY <1>2, <1>4 DEF Disrupt, StoreError, Crash, Close, Fail
<1>5. CASE ClientStep(c) /\ UNCHANGED <<updateVars, todo, lastVer>>
  <2>1. CASE Refresh(c)
    <3>1. /\ began' = began /\ manifest' = manifest /\ cm'[c] = manifest /\ manifest # NoManifest
      BY <2>1, SyncMoves DEF Refresh, storeVars
    <3> QED
      BY <1>0, <3>1 DEF FreshInv, SeqNow
  <2>2. CASE Download(c) \/ Fetch(c) \/ Apply(c)
    <3>1. /\ pc[c] \in {"download", "fetch", "apply"} /\ UNCHANGED <<began, ret>>
          /\ cm'[c] = cm[c] /\ pc'[c] \in {"fetch", "apply", ret[c]} /\ ret[c] \in Rets
      BY <1>0, <2>2 DEF Download, Fetch, Apply, At, Goto, connVars
    <3>2. Target(c)' = ret[c] /\ Target(c) = ret[c] /\ pc[c] # "refresh"
      BY <3>1 DEF Target, SyncLabels, Rets, OpenRets
    <3> QED
      BY <1>0, <3>1, <3>2 DEF FreshInv
  <2>3. CASE Open(c) \/ BootPut(c)
    <3>1. PICK m, next : /\ began' = began /\ next \in {"idle", "migrate"}
                         /\ syncToManifest(c, m, NoConn, NoSnap, next)
      BY <2>3 DEF Open, BootPut, OpenWith
    <3>2. ret'[c] = next /\ pc'[c] \in {"download", "fetch", next}
      BY <3>1, SyncMoves
    <3> QED
      BY <1>1, <3>1, <3>2 DEF Target, SyncLabels
  <2>4. CASE OpenEmpty(c) \/ BootUpload(c) \/ BootLost(c) \/ (BootPhantom(c) /\ ~Fail(c))
    <3>1. began' = began /\ pc'[c] \in {"open", "bootupload", "bootput"}
      BY <1>0, <2>4 DEF OpenEmpty, BootUpload, BootLost, BootPhantom, Goto
    <3> QED
      BY <1>1, <3>1 DEF Target, SyncLabels
  <2> QED
    BY <1>2, <1>5, <2>1, <2>2, <2>3, <2>4 DEF ClientStep, View, BootPhantom, Fail
<1>6. CASE CommitStep(c) /\ UNCHANGED <<todo, lastVer>>
  <2>1. ASSUME NEW m, UpdateDone(c, m) PROVE FreshInv(c)'
    <3>1. /\ (pc'[c] = "idle" /\ began'[c].seq = 0) \/ (pc'[c] = "refresh" /\ began'[c] = began[c])
      BY <1>0, <2>1 DEF UpdateDone, Goto, NotBegun
    <3> QED
      BY <1>0, <3>1 DEF FreshInv, Target, SyncLabels
  <2>2. CASE Capture(c) \/ Unorphan(c) \/ Upload(c) \/ CasLost(c) \/ Rebased(c)
    <3>1. began' = began /\ pc'[c] \in {"unorphan", "upload", "cas", "reload", "exhausted"}
      BY <1>0, <2>2 DEF Capture, Unorphan, Upload, CasLost, Rebased, Goto, Again
    <3> QED
      BY <1>1, <3>1 DEF Target, SyncLabels
  <2>3. ASSUME NEW m, rollbackAndResync(c, m) PROVE FreshInv(c)'
    <3>1. /\ began' = began /\ pc'[c] \in {"download", "fetch", "capture", "exhausted"}
          /\ ret'[c] \in {"capture", "exhausted"}
      BY <2>3, SyncMoves DEF rollbackAndResync, Again
    <3> QED
      BY <1>1, <3>1 DEF Target, SyncLabels
  <2>4. CASE (Reload(c) /\ ~rollbackAndResync(c, manifest))
             \/ (RebaseEntry(c) /\ ~rollbackAndResync(c, m2[c]))
    <3>1. began' = began /\ pc'[c] = "rebase"
      BY <1>0, <2>4 DEF Reload, RebaseEntry, At, Goto, flowVars
    <3> QED
      BY <1>1, <3>1 DEF Target, SyncLabels
  <2> QED
    BY <1>2, <1>6, <2>1, <2>2, <2>3, <2>4 DEF CommitStep, CaptureNothing, Cas, CasPhantom,
       RebaseNotFound, Exhausted
<1>7. CASE CompactStep(c) /\ UNCHANGED <<todo, lastVer>>
  <2>1. CASE CompactUpload(c) \/ (CompactLost(c) /\ ~Return(c))
    <3>1. began' = began /\ pc'[c] \in {"compactcas", "refresh"}
      BY <1>0, <2>1 DEF CompactUpload, CompactLost, Goto
    <3> QED
      BY <1>1, <3>1 DEF Target, SyncLabels
  <2>2. CASE CompactCas(c)
    <3>1. pc'[c] = "idle" /\ began'[c].seq = 0
      BY <1>0, <2>2 DEF CompactCas, Goto, NotBegun
    <3> QED
      BY <1>0, <3>1 DEF FreshInv, Target, SyncLabels
  <2> QED
    BY <1>2, <1>7, <2>1, <2>2 DEF CompactStep, CompactNothing, CompactPhantom
<1>8. CASE GCStep(c) /\ UNCHANGED lastVer
  <2>1. CASE ~GCDone(c)
    <3>1. began' = began /\ pc'[c] \in {"gclist", "gcsweep", "gcsnaps", "gcdelete"}
      BY <1>0, <1>8, <2>1 DEF GCStep, GCStat, GCList, GCSweep, GCSwept, GCSnaps, GCDelete, At, Goto, gcFrame
    <3> QED
      BY <1>1, <3>1 DEF Target, SyncLabels
  <2> QED
    BY <1>2, <2>1 DEF GCDone
<1>9. CASE MigrateStep(c) /\ UNCHANGED todo
  <2>1. CASE MigrateDone(c) \/ MigrateNext(c)
    <3>1. PICK key, next : /\ began' = began /\ next \in {"idle", "up"}
                           /\ syncToManifest(c, manifest, conn[c], key, next)
      BY <2>1 DEF MigrateDone, MigrateNext
    <3>2. ret'[c] = next /\ pc'[c] \in {"download", "fetch", next}
      BY <3>1, SyncMoves
    <3> QED
      BY <1>1, <3>1, <3>2 DEF Target, SyncLabels
  <2>2. CASE MigrateUp(c) \/ MigrateCas(c) \/ MigrateLost(c)
    <3>1. began' = began /\ pc'[c] \in {"migcas", "migrate"}
      BY <1>0, <2>2 DEF MigrateUp, MigrateCas, MigrateLost, Goto
    <3> QED
      BY <1>1, <3>1 DEF Target, SyncLabels
  <2> QED
    BY <1>2, <1>9, <2>1, <2>2 DEF MigrateStep, MigrateTooNew, MigratePhantom
<1>10. CASE (RefreshRejected(c) \/ NotFound(c) \/ ApplyConflict(c)) /\ EndEarly(c)
  BY <1>2, <1>10 DEF RefreshRejected, NotFound, ApplyConflict, Fail
<1> QED
  BY <1>3, <1>4, <1>5, <1>6, <1>7, <1>8, <1>9, <1>10 DEF Step

\* The others are as fresh as they were.
LEMMA OtherFresh ==
  ASSUME Typed, NEW c \in Clients, NEW d \in Clients \ {c}, FreshInv(d),
         Call(c) \/ Step(c) \/ Disrupt(c), Typed'
  PROVE  FreshInv(d)'
<1>1. Untouched(d) /\ SeqNow \in Nat /\ SeqNow' \in Nat /\ SeqNow <= SeqNow' /\ began[d].seq \in Nat
  BY OthersUntouched, SeqGrows, Shape2Holds DEF Shape2
<1> QED
  BY <1>1 DEF FreshInv, Untouched, Target
-----------------------------------------------------------------------------
(***************************************************************************)
(* Orphans.                                                                *)
(***************************************************************************)

\* The first manifest is the one of bootstrap.
LEMMA OnlyBootCreates ==
  ASSUME NEW c \in Clients, Call(c) \/ Step(c) \/ Disrupt(c), manifest = NoManifest
  PROVE  manifest' \in {NoManifest, InitManifest}
<1>1. CASE Call(c)
  BY <1>1 DEF Call, OpenStart, ViewStart, UpdateStart, CompactStart, GCStart, Start, storeVars
<1>2. CASE Disrupt(c)
  BY <1>2 DEF Disrupt, StoreError, Crash, Close, storeVars
<1>3. CASE ClientStep(c)
  BY <1>3 DEF ClientStep, Refresh, Download, Fetch, Apply, Open, OpenEmpty, BootUpload,
     BootPut, BootLost, BootPhantom, View, PutManifest, storeVars
<1>4. CASE CommitStep(c)
  BY <1>4 DEF CommitStep, CaptureNothing, Capture, Unorphan, Upload, Cas, CasPhantom, CasLost,
     Reload, RebaseEntry, RebaseNotFound, Rebased, Exhausted, rollbackAndResync,
     DeleteChangesets, PutCommit, IfMatch, storeVars
<1>5. CASE CompactStep(c)
  BY <1>5 DEF CompactStep, CompactNothing, CompactUpload, CompactCas, CompactPhantom,
     CompactLost, PutSnapshot, PutCompact, IfMatch, storeVars
<1>6. CASE GCStep(c)
  BY <1>6 DEF GCStep, GCStat, GCList, GCSweep, GCSwept, GCSnaps, GCDelete, GCDone,
     DeleteChangesets, DeleteSnapshot, storeVars
<1>7. CASE MigrateStep(c)
  BY <1>7 DEF MigrateStep, MigrateTooNew, MigrateDone, MigrateNext, MigrateUp, MigrateCas,
     MigrateLost, MigratePhantom, PutSnapshot, PutMigrate, IfMatch, storeVars
<1>8. CASE RefreshRejected(c) \/ NotFound(c) \/ ApplyConflict(c)
  BY <1>8 DEF RefreshRejected, NotFound, ApplyConflict, storeVars
<1> QED
  BY <1>1, <1>2, <1>3, <1>4, <1>5, <1>6, <1>7, <1>8 DEF Step

\* The changesets that the manifest refers to, if there is one.
Live == IF manifest = NoManifest THEN {} ELSE liveChangesets(manifest)

\* They were all uploaded.
LEMMA LiveFacts ==
  ASSUME Typed
  PROVE  NoKey \notin Live /\ \A x \in Live : x.id \in DOMAIN csBody
<1> SUFFICES ASSUME manifest # NoManifest, NEW i \in DOMAIN manifest.log
             PROVE  manifest.log[i].key # NoKey /\ manifest.log[i].key.id \in DOMAIN csBody
  BY DEF Live, liveChangesets
<1>1. Known(manifest)
  BY ManifestFacts
<1>2. manifest.snap.key \in 1..Len(hist)
  BY <1>1, HistFacts DEF Known
<1>3. manifest.log[i].key.epoch # 0
  BY <1>1, <1>2 DEF Known
<1> QED
  BY <1>1, <1>3 DEF Known, NoKey

\* A step adds to them at most the changeset that it commits.
LEMMA LiveSteps ==
  ASSUME Typed, NEW c \in Clients, Call(c) \/ Step(c) \/ Disrupt(c)
  PROVE  \/ Live' \subseteq Live
         \/ pc[c] = "cas" /\ PutCommit(c) /\ Live' \subseteq Live \cup {csKey[c]}
<1>1. CASE manifest' = manifest
  BY <1>1 DEF Live, liveChangesets
<1>2. CASE manifest = NoManifest /\ manifest' # manifest
  <2>1. manifest' = InitManifest
    BY <1>2, OnlyBootCreates
  <2> QED
    BY <2>1 DEF Live, liveChangesets, InitManifest
<1>3. CASE PutCompact(c) \/ PutMigrate(c)
  <2>1. manifest'.log = <<>>
    BY <1>3 DEF PutCompact, PutMigrate, PutManifest, compactManifest, migrateManifest, withSnapshot
  <2> QED
    BY <2>1 DEF Live, liveChangesets
<1>4. CASE manifest # NoManifest /\ pc[c] = "cas" /\ PutCommit(c)
  <2> DEFINE e == [key |-> csKey[c], seq |-> cm[c].seq + 1]
             n == Len(manifest.log)
  <2>1. /\ manifest = cm[c] /\ manifest'.log = Append(manifest.log, e)
        /\ manifest.log \in Seq(logEntry) /\ manifest.seq \in Nat
    BY <1>4, IfMatchFacts, ManifestFacts DEF PutCommit, PutManifest, newManifest, appendLog, Manifests
  <2>2. e \in logEntry
    BY <2>1 DEF logEntry, Typed, TypeOK, CommitTypeOK
  <2> HIDE DEF e
  <2>3. /\ DOMAIN manifest'.log = 1..(n + 1) /\ manifest'.log[n + 1] = e /\ n \in Nat
        /\ \A i \in 1..n : manifest'.log[i] = manifest.log[i]
    BY <2>1, <2>2, AppendProperties
  <2>4. \A i \in DOMAIN manifest'.log : manifest'.log[i].key \in liveChangesets(manifest) \cup {csKey[c]}
    <3> SUFFICES ASSUME NEW i \in 1..(n + 1)
                 PROVE  manifest'.log[i].key \in liveChangesets(manifest) \cup {csKey[c]}
      BY <2>3
    <3>1. CASE i \in 1..n
      BY <2>1, <2>3, <3>1 DEF liveChangesets
    <3>2. CASE i = n + 1
      BY <2>3, <3>2 DEF e
    <3> QED
      BY <2>3, <3>1, <3>2
  <2> QED
    BY <1>4, <2>4 DEF Live, liveChangesets
<1> QED
  BY <1>1, <1>2, <1>3, <1>4, OnlyPutsReplace

\* A step of c draws a new key, or keeps or forgets the old ones; it forgets them
\* when it commits, unless it does not learn of it.
LEMMA OwnKeys ==
  ASSUME Typed, NEW c \in Clients, Call(c) \/ Step(c) \/ Disrupt(c)
  PROVE  \/ /\ Own(c)' \subseteq Own(c) /\ DOMAIN csBody' = DOMAIN csBody
            /\ pc[c] = "cas" /\ PutCommit(c) /\ "retry412" \notin Faults
                 => Own(c)' = {} \/ UNCHANGED manifest
         \/ /\ UNCHANGED manifest /\ DOMAIN csBody' = DOMAIN csBody \cup {Len(csBody) + 1}
            /\ Own(c)' \subseteq Own(c) \cup {csKey'[c]} /\ csKey'[c].id = Len(csBody) + 1
<1>0. /\ csKey \in [Clients -> CsKey] /\ orphan \in [Clients -> CsKey] /\ csBody \in Seq(Changeset)
  BY DEF Typed, TypeOK, StoreTypeOK, CommitTypeOK
<1> USE <1>0 DEF Own
<1>1. Forget(c) => Own(c)' = {}
  BY DEF Forget
<1>2. ASSUME Forget(c), UNCHANGED csBody PROVE Own(c)' = {} /\ DOMAIN csBody' = DOMAIN csBody
  BY <1>1, <1>2
<1>3. ASSUME UNCHANGED <<csKey, orphan, csBody>>, UNCHANGED manifest \/ pc[c] # "cas"
      PROVE  /\ Own(c)' \subseteq Own(c) /\ DOMAIN csBody' = DOMAIN csBody
             /\ UNCHANGED manifest \/ pc[c] # "cas"
  BY <1>3
<1>4. CASE Call(c)
  BY <1>3, <1>4 DEF Call, OpenStart, ViewStart, UpdateStart, CompactStart, GCStart, Start, storeVars,
     updateVars
<1>5. CASE Disrupt(c)
  BY <1>2, <1>5 DEF Disrupt, StoreError, Crash, Close, EndEarly, storeVars
<1>6. CASE ClientStep(c) /\ UNCHANGED <<updateVars, todo, lastVer>>
  BY <1>3, <1>6 DEF ClientStep, Refresh, Download, Fetch, Apply, Open, OpenEmpty, BootUpload, At,
     BootPut, BootLost, BootPhantom, View, storeVars, blobVars, updateVars
<1>7. CASE CommitStep(c) /\ UNCHANGED <<todo, lastVer>>
  <2>1. CASE Capture(c)
    <3>1. csBody' = Append(csBody, Diff(conn[c], Effect[fn[c]][conn[c]])) /\ UNCHANGED <<manifest, orphan>>
          /\ csKey'[c].id = Len(csBody) + 1
      BY <2>1 DEF Capture
    <3>2. DOMAIN csBody' = DOMAIN csBody \cup {Len(csBody) + 1}
      BY <3>1
    <3> QED
      BY <3>1, <3>2
  <2>2. ASSUME NEW m, UpdateDone(c, m) PROVE Forget(c)
    BY <2>2 DEF UpdateDone
  <2>3. CASE CaptureNothing(c) \/ Cas(c) \/ CasPhantom(c) \/ RebaseNotFound(c) \/ Exhausted(c)
    BY <1>2, <2>2, <2>3 DEF CaptureNothing, Cas, CasPhantom, RebaseNotFound, Exhausted, storeVars,
       PutCommit, blobVars, DeleteChangesets
  <2>4. CASE Unorphan(c) \/ Upload(c) \/ Rebased(c)
    BY <2>4 DEF Unorphan, Upload, Rebased, storeVars, updateVars, DeleteChangesets
  <2>5. CASE CasLost(c)
    BY <1>3, <2>5 DEF CasLost, storeVars, updateVars, PutCommit, blobVars
  <2>6. ASSUME NEW m, rollbackAndResync(c, m)
        PROVE  Own(c)' \subseteq Own(c) /\ DOMAIN csBody' = DOMAIN csBody /\ UNCHANGED manifest
    BY <2>6 DEF rollbackAndResync, storeVars
  <2>7. CASE Reload(c) \/ RebaseEntry(c)
    BY <2>6, <2>7 DEF Reload, RebaseEntry, storeVars
  <2> QED
    BY <1>7, <2>1, <2>3, <2>4, <2>5, <2>7 DEF CommitStep
<1>8. CASE CompactStep(c) /\ UNCHANGED <<todo, lastVer>>
  BY <1>3, <1>8 DEF CompactStep, CompactNothing, CompactUpload, CompactCas, CompactPhantom,
     CompactLost, PutSnapshot, PutCompact, storeVars, blobVars, updateVars, At
<1>9. CASE GCStep(c) /\ UNCHANGED lastVer
  BY <1>3, <1>9 DEF GCStep, GCStat, GCList, GCSweep, GCSwept, GCSnaps, GCDelete, GCDone, gcFrame,
     DeleteChangesets, DeleteSnapshot, storeVars, updateVars
<1>10. CASE MigrateStep(c) /\ UNCHANGED todo
  BY <1>3, <1>10 DEF MigrateStep, MigrateTooNew, MigrateDone, MigrateNext, MigrateUp, MigrateCas,
     MigrateLost, MigratePhantom, PutSnapshot, PutMigrate, storeVars, blobVars, updateVars, At
<1>11. CASE (RefreshRejected(c) \/ NotFound(c) \/ ApplyConflict(c)) /\ EndEarly(c)
  BY <1>2, <1>11 DEF RefreshRejected, NotFound, ApplyConflict, EndEarly, storeVars
<1> QED
  BY <1>4, <1>5, <1>6, <1>7, <1>8, <1>9, <1>10, <1>11 DEF Step

\* No two clients take the same key for theirs, and none takes a committed one.
LEMMA OwnStep ==
  ASSUME Typed, \A d \in Clients : OwnInv(d), NEW c \in Clients, Call(c) \/ Step(c) \/ Disrupt(c)
  PROVE  \A d \in Clients : OwnInv(d)'
<1> SUFFICES ASSUME "retry412" \notin Faults PROVE \A d \in Clients : OwnInv(d)'
  BY DEF OwnInv
<1>1. ASSUME NEW d \in Clients
      PROVE  /\ \A x \in Own(d) : x.id \in DOMAIN csBody
             /\ Own(d) \cap Live = {}
             /\ \A e \in Clients \ {d} : Own(d) \cap Own(e) = {}
             /\ NoKey \notin Own(d)
  BY DEF OwnInv, Live, Own
<1>2. ASSUME NEW d \in Clients \ {c} PROVE Own(d)' = Own(d)
  BY OthersUntouched DEF Untouched, Own
<1>3. ASSUME NEW d \in Clients,
             \A x \in Own(d)' : x.id \in DOMAIN csBody',
             Own(d)' \cap Live' = {}, \A e \in Clients \ {d} : Own(d)' \cap Own(e)' = {}
      PROVE  OwnInv(d)'
  BY <1>3 DEF OwnInv, Live
<1>4. NoKey \notin Live /\ \A x \in Live : x.id \in DOMAIN csBody
  BY LiveFacts
<1>5. Live' \subseteq Live \/ (pc[c] = "cas" /\ PutCommit(c) /\ Live' \subseteq Live \cup {csKey[c]})
  BY LiveSteps
<1>6. csKey[c] \in Own(c) \/ csKey[c] = NoKey
  BY DEF Own
<1>7. CASE /\ Own(c)' \subseteq Own(c) /\ DOMAIN csBody' = DOMAIN csBody
           /\ pc[c] = "cas" /\ PutCommit(c) => Own(c)' = {} \/ UNCHANGED manifest
  <2>1. UNCHANGED manifest => Live' = Live
    BY DEF Live, liveChangesets
  <2>2. Own(c)' \cap Live' = {}
    BY <1>1, <1>5, <1>7, <2>1
  <2>3. \A d \in Clients \ {c} : Own(d)' \cap Live' = {}
    BY <1>1, <1>2, <1>5, <1>6
  <2>4. ASSUME NEW d \in Clients PROVE OwnInv(d)'
    <3>1. \A e \in Clients : Own(e)' \subseteq Own(e)
      BY <1>2, <1>7
    <3>2. Own(d)' \cap Live' = {}
      BY <2>2, <2>3
    <3>3. \A x \in Own(d)' : x.id \in DOMAIN csBody'
      BY <1>1, <1>7, <3>1
    <3>4. \A e \in Clients \ {d} : Own(d)' \cap Own(e)' = {}
      BY <1>1, <3>1
    <3> QED
      BY <1>3, <3>2, <3>3, <3>4
  <2> QED
    BY <2>4
<1>8. CASE /\ UNCHANGED manifest /\ DOMAIN csBody' = DOMAIN csBody \cup {Len(csBody) + 1}
           /\ Own(c)' \subseteq Own(c) \cup {csKey'[c]} /\ csKey'[c].id = Len(csBody) + 1
  <2>1. Live' = Live
    BY <1>8 DEF Live, liveChangesets
  <2>2. Len(csBody) + 1 \notin DOMAIN csBody
    BY DEF Typed, TypeOK, StoreTypeOK
  <2>3. csKey'[c] \notin Live /\ \A e \in Clients : csKey'[c] \notin Own(e)
    BY <1>1, <1>4, <1>8, <2>2
  <2>4. ASSUME NEW d \in Clients PROVE OwnInv(d)'
    <3>1. \A e \in Clients : Own(e)' \subseteq Own(e) \/ (e = c /\ Own(e)' \subseteq Own(e) \cup {csKey'[c]})
      BY <1>2, <1>8
    <3>2. Own(d)' \cap Live' = {}
      BY <1>1, <2>1, <2>3, <3>1
    <3>3. \A x \in Own(d)' : x.id \in DOMAIN csBody'
      BY <1>1, <1>8, <3>1
    <3>4. \A e \in Clients \ {d} : Own(d)' \cap Own(e)' = {}
      BY <1>1, <2>3, <3>1
    <3> QED
      BY <1>3, <3>2, <3>3, <3>4
  <2> QED
    BY <2>4
<1> QED
  BY <1>7, <1>8, OwnKeys
-----------------------------------------------------------------------------
(***************************************************************************)
(* The inductive invariant about operations.                               *)
(***************************************************************************)

\* Types, lost CAS attempts, freshness and ownership of changesets, for all clients.
Operations == Typed /\ \A c \in Clients : ContentionInv(c) /\ FreshInv(c) /\ OwnInv(c)

\* It holds before any operation is called.
LEMMA InitOperations == Init => Operations
<1> SUFFICES ASSUME Init PROVE Operations
  OBVIOUS
<1>1. Typed
  BY InitTyped
<1>2. /\ pc = [c \in Clients |-> IF c \in Warm THEN "idle" ELSE "closed"]
      /\ began = [c \in Clients |-> NotBegun]
      /\ csKey = [c \in Clients |-> NoKey] /\ orphan = [c \in Clients |-> NoKey]
  BY DEF Init, ClientInit, CommitInit
<1>3. SeqNow \in Nat
  BY <1>1, ManifestFacts DEF SeqNow, Manifests
<1>4. ASSUME NEW c \in Clients PROVE ContentionInv(c) /\ FreshInv(c) /\ OwnInv(c)
  <2>1. pc[c] \in {"idle", "closed"} /\ began[c].seq = 0 /\ Own(c) = {}
    BY <1>2 DEF NotBegun, Own
  <2> QED
    BY <1>3, <2>1 DEF ContentionInv, FreshInv, OwnInv, Target, SyncLabels
<1> QED
  BY <1>1, <1>4 DEF Operations

\* Every step of every client preserves it.
LEMMA NextOperations == Operations /\ [Next]_vars => Operations'
<1> SUFFICES ASSUME Operations, [Next]_vars PROVE Operations'
  OBVIOUS
<1>1. Typed /\ Typed'
  BY NextTyped DEF Operations
<1>2. CASE \E c \in Clients : Call(c) \/ Step(c) \/ Disrupt(c)
  <2>1. PICK c \in Clients : Call(c) \/ Step(c) \/ Disrupt(c)
    BY <1>2
  <2>2. \A d \in Clients : OwnInv(d)'
    BY <1>1, <2>1, OwnStep DEF Operations
  <2>3. \A d \in Clients : ContentionInv(d)' /\ FreshInv(d)'
    BY <1>1, <2>1, OwnContention, OtherContention, OwnFresh, OtherFresh DEF Operations
  <2> QED
    BY <1>1, <2>2, <2>3 DEF Operations
<1>3. CASE UNCHANGED <<manifest, clock, csBody, connVars, pc, ret, attempt, began, updateVars>>
  BY <1>1, <1>3 DEF Operations, ContentionInv, Losses, FreshInv, SeqNow, Target, OwnInv, Own,
     liveChangesets, connVars, updateVars
<1> QED
  BY <1>2, <1>3 DEF Next, Elapse, gcFrame, vars, storeVars, flowVars

\* Operations holds in every reachable state.
THEOREM OperationsInvariant == Spec => []Operations
BY InitOperations, NextOperations, PTL DEF Spec

\* An operation has lost no more CAS attempts than the manifest was replaced
\* since it was called: ErrConflict after MaxRetries attempts always means that
\* MaxRetries writes took effect meanwhile (commit.go:290, compact.go:98).
THEOREM ConflictsAreContention == Spec => []ConflictNeedsContention
<1>1. Operations => ConflictNeedsContention
  <2> SUFFICES ASSUME Operations, NEW c \in Clients, pc[c] \notin {"idle", "closed"}
               PROVE  attempt[c] <= clock - began[c].clock
    BY DEF ConflictNeedsContention
  <2>1. attempt[c] + Losses(c) <= clock - began[c].clock /\ Losses(c) \in {0, 1, 2}
    BY LossesType DEF Operations, ContentionInv
  <2>2. attempt[c] \in Nat /\ clock \in Nat /\ began[c].clock \in Nat
    BY Shape2Holds DEF Operations, Shape2, Shapes
  <2> QED
    BY <2>1, <2>2
<1> QED
  BY <1>1, OperationsInvariant, PTL

\* The fn of a View runs on a file that is in sync with a manifest loaded after
\* the call: it sees every commit that had finished by then (s3db.go:229-245).
THEOREM ViewsAreFresh == Spec => []ViewFresh
<1>1. Operations => ViewFresh
  <2> SUFFICES ASSUME Operations, NEW c \in Clients, pc[c] = "view"
               PROVE  localSeq[c] = cm[c].seq /\ localSeq[c] >= began[c].seq
    BY DEF ViewFresh, At
  <2>1. localSeq[c] = cm[c].seq
    BY ClientFacts DEF Operations, PositionInv, Synced
  <2>2. began[c].seq <= cm[c].seq
    BY DEF Operations, FreshInv, Target, SyncLabels
  <2>3. began[c].seq \in Nat /\ localSeq[c] \in Nat
    BY ClientFacts, Shape2Holds DEF Operations, Shape2
  <2> QED
    BY <2>1, <2>2, <2>3
<1> QED
  BY <1>1, OperationsInvariant, PTL

\* doUpdate never deletes a committed changeset as an orphan (commit.go:179-186),
\* in every history without a Put that takes effect and that the SDK sends again
\* (with one, it does: the run phantom412).
THEOREM OrphansAreDead ==
  ASSUME "retry412" \notin Faults
  PROVE  Spec => []OrphanNotLive
<1>1. Operations => OrphanNotLive
  <2> SUFFICES ASSUME Operations, NEW c \in Clients, manifest # NoManifest
               PROVE  orphan[c] \notin liveChangesets(manifest)
    BY DEF OrphanNotLive
  <2>1. NoKey \notin liveChangesets(manifest)
    BY LiveFacts DEF Operations, Live
  <2>2. Own(c) \cap liveChangesets(manifest) = {}
    BY DEF Operations, OwnInv
  <2> QED
    BY <2>1, <2>2 DEF Own
<1> QED
  BY <1>1, OperationsInvariant, PTL
=============================================================================
