----------------------------- MODULE DataProofs -----------------------------
(***************************************************************************)
(* What a step may do to the manifest; and proofs about contents: the log  *)
(* of every manifest replays, and a local file holds what replaying the    *)
(* log up to localSeq yields.                                              *)
(***************************************************************************)
EXTENDS StructProofs

-----------------------------------------------------------------------------
(***************************************************************************)
(* What a step of the system may do to the manifest.  All of it follows    *)
(* from the precondition of the Put and from the manifests that doUpdate,  *)
(* compactLocked and applyMigration build; TypedInvariant gives their      *)
(* shape.                                                                  *)
(***************************************************************************)

\* A manifest m may take the place of the current one: it has one more log
\* entry, or a new snapshot takes over the whole log.
Successor(m) ==
  \/ /\ m.seq = manifest.seq + 1
     /\ m.snap = manifest.snap
     /\ Len(m.log) = Len(manifest.log) + 1
     /\ \A i \in DOMAIN manifest.log : m.log[i] = manifest.log[i]
  \/ /\ m.seq = manifest.seq
     /\ m.snap.seq = manifest.seq
     /\ m.log = <<>>

\* What doUpdate puts is a successor of the manifest it matched.
LEMMA CommitSucceeds ==
  ASSUME Typed, NEW c \in Clients, pc[c] = "cas", PutCommit(c)
  PROVE  Successor(manifest')
<1>1. /\ manifest = cm[c] /\ manifest' = newManifest(c)
      /\ cm[c].log \in Seq(logEntry) /\ cm[c].seq \in Nat
  BY IfMatchFacts, ClientFacts DEF PutCommit, PutManifest, Manifests
<1> DEFINE e == [key |-> csKey[c], seq |-> cm[c].seq + 1]
<1>2. /\ newManifest(c).log = Append(cm[c].log, e) /\ newManifest(c).snap = cm[c].snap
      /\ newManifest(c).seq = cm[c].seq + 1
  BY DEF newManifest, appendLog
<1>3. e \in logEntry
  BY <1>1 DEF logEntry, Typed, TypeOK, CommitTypeOK
<1> HIDE DEF e
<1>4. /\ Len(Append(cm[c].log, e)) = Len(cm[c].log) + 1
      /\ \A i \in 1..Len(cm[c].log) : Append(cm[c].log, e)[i] = cm[c].log[i]
  BY <1>1, <1>3, AppendProperties
<1> QED
  BY <1>1, <1>2, <1>4 DEF Successor

\* So is what compactLocked puts,
LEMMA CompactSucceeds ==
  ASSUME NEW c \in Clients, PutCompact(c)
  PROVE  Successor(manifest')
<1>1. manifest = cm[c] /\ manifest' = compactManifest(c)
  BY IfMatchFacts DEF PutCompact, PutManifest
<1> QED
  BY <1>1 DEF compactManifest, withSnapshot, Successor

\* and what applyMigration puts.
LEMMA MigrateSucceeds ==
  ASSUME NEW c \in Clients, PutMigrate(c)
  PROVE  Successor(manifest')
<1>1. manifest = cm[c] /\ manifest' = migrateManifest(c)
  BY IfMatchFacts DEF PutMigrate, PutManifest
<1> QED
  BY <1>1 DEF migrateManifest, Successor

\* Every other step of a client leaves the manifest alone, unless it creates
\* the first one (Open's bootstrap).
LEMMA OnlyPutsReplace ==
  ASSUME NEW c \in Clients, Call(c) \/ Step(c) \/ Disrupt(c),
         manifest # NoManifest, manifest' # manifest
  PROVE  \/ pc[c] = "cas" /\ PutCommit(c)
         \/ PutCompact(c)
         \/ PutMigrate(c)
<1>1. CASE Call(c)
  BY <1>1 DEF Call, OpenStart, ViewStart, UpdateStart, CompactStart, GCStart, Start, storeVars
<1>2. CASE Disrupt(c)
  BY <1>2 DEF Disrupt, StoreError, Crash, Close, storeVars
<1>3. CASE ClientStep(c)
  BY <1>3 DEF ClientStep, Refresh, Download, Fetch, Apply, Open, OpenEmpty, BootUpload,
     BootPut, BootLost, BootPhantom, View, IfNoneMatch, storeVars
<1>4. CASE CommitStep(c)
  BY <1>4 DEF CommitStep, CaptureNothing, Capture, Unorphan, Upload, Cas, CasPhantom, CasLost,
     Reload, RebaseEntry, RebaseNotFound, Rebased, Exhausted, rollbackAndResync,
     DeleteChangesets, At, storeVars
<1>5. CASE CompactStep(c)
  BY <1>5 DEF CompactStep, CompactNothing, CompactUpload, CompactCas, CompactPhantom,
     CompactLost, PutSnapshot, storeVars
<1>6. CASE GCStep(c)
  BY <1>6 DEF GCStep, GCStat, GCList, GCSweep, GCSwept, GCSnaps, GCDelete, GCDone,
     DeleteChangesets, DeleteSnapshot, storeVars
<1>7. CASE MigrateStep(c)
  BY <1>7 DEF MigrateStep, MigrateTooNew, MigrateDone, MigrateNext, MigrateUp, MigrateCas,
     MigrateLost, MigratePhantom, PutSnapshot, storeVars
<1>8. CASE RefreshRejected(c) \/ NotFound(c) \/ ApplyConflict(c)
  BY <1>8 DEF RefreshRejected, NotFound, ApplyConflict, storeVars
<1> QED
  BY <1>1, <1>2, <1>3, <1>4, <1>5, <1>6, <1>7, <1>8 DEF Step

\* Every step that replaces the manifest puts a successor.
LEMMA NextSucceeds ==
  ASSUME Typed, [Next]_vars, manifest # NoManifest, manifest' # manifest
  PROVE  Successor(manifest')
<1>1. PICK c \in Clients : Call(c) \/ Step(c) \/ Disrupt(c)
  <2>1. ~(Elapse /\ UNCHANGED lastVer) /\ ~UNCHANGED vars
    BY DEF Elapse, vars, storeVars
  <2> QED
    BY <2>1 DEF Next
<1> QED
  BY <1>1, OnlyPutsReplace, CommitSucceeds, CompactSucceeds, MigrateSucceeds

\* Once there is a manifest, every write to manifest.json, whoever makes it and
\* whatever fails, appends one entry under the next sequence number or folds
\* the whole log into a snapshot at the same sequence number (manifest.go:35-37):
\* no commit is overwritten, reordered or dropped from the log.
THEOREM ManifestSteps == Spec => SeqSteps
<1>1. Typed /\ [Next]_vars =>
        [manifest # NoManifest =>
           \/ /\ manifest'.seq = manifest.seq + 1
              /\ manifest'.snap = manifest.snap
              /\ Len(manifest'.log) = Len(manifest.log) + 1
              /\ \A i \in DOMAIN manifest.log : manifest'.log[i] = manifest.log[i]
           \/ /\ manifest'.seq = manifest.seq
              /\ manifest'.snap.seq = manifest.seq
              /\ manifest'.log = <<>>]_manifest
  BY NextSucceeds DEF Successor
<1> QED
  BY <1>1, TypedInvariant, PTL DEF Spec, SeqSteps
-----------------------------------------------------------------------------
\* The history of the store grows at its end only; what is sound was sound.
Grows ==
  /\ DOMAIN hist \subseteq DOMAIN hist' /\ DOMAIN csBody \subseteq DOMAIN csBody'
  /\ \A k \in DOMAIN hist :
       /\ base'[k] = base[k] /\ DOMAIN hist[k] \subseteq DOMAIN hist'[k]
       /\ \A i \in DOMAIN hist[k] : hist'[k][i] = hist[k][i]
  /\ \A i \in DOMAIN csBody : csBody'[i] = csBody[i]
  /\ sound' => sound

\* A step of c leaves the handle and the operation of client d alone.
Untouched(d) ==
  /\ pc'[d] = pc[d] /\ ret'[d] = ret[d] /\ conn'[d] = conn[d] /\ saved'[d] = saved[d]
  /\ localSeq'[d] = localSeq[d] /\ snapshotKey'[d] = snapshotKey[d] /\ cm'[d] = cm[d]
  /\ savedSeq'[d] = savedSeq[d] /\ (d \in stale' <=> d \in stale)
  /\ attempt'[d] = attempt[d] /\ began'[d] = began[d] /\ lastVer'[d] = lastVer[d]
  /\ fn'[d] = fn[d] /\ csKey'[d] = csKey[d] /\ orphan'[d] = orphan[d]
  /\ m2'[d] = m2[d] /\ reb'[d] = reb[d]
-----------------------------------------------------------------------------
(***************************************************************************)
(* What a step leaves alone.                                               *)
(***************************************************************************)

\* The variables of Untouched are functions on Clients.
Shapes ==
  /\ pc \in [Clients -> Labels] /\ ret \in [Clients -> Rets]
  /\ conn \in [Clients -> DB \cup {NoConn}] /\ saved \in [Clients -> DB \cup {NoConn}]
  /\ localSeq \in [Clients -> Nat] /\ snapshotKey \in [Clients -> Nat]
  /\ cm \in [Clients -> Manifests] /\ savedSeq \in [Clients -> Nat]
  /\ attempt \in [Clients -> Nat] /\ began \in [Clients -> [seq : Nat, clock : Nat]]
  /\ lastVer \in [Clients -> Nat] /\ fn \in [Clients -> Txns \cup {NoTxn}]
  /\ csKey \in [Clients -> CsKey] /\ orphan \in [Clients -> CsKey]
  /\ m2 \in [Clients -> Manifests] /\ reb \in [Clients -> Nat]

\* A step of c changes the variables of c only.
LEMMA OthersUntouched ==
  ASSUME Typed, NEW c \in Clients, NEW d \in Clients \ {c}, Call(c) \/ Step(c) \/ Disrupt(c)
  PROVE  Untouched(d)
<1> USE DEF Untouched
<1>0. Shapes
  BY DEF Typed, TypeOK, ClientTypeOK, CommitTypeOK, MigrateTypeOK, Shapes
<1> USE <1>0 DEF Shapes, Goto, connVars, flowVars, updateVars
<1>e. /\ Return(c) => /\ pc'[d] = pc[d] /\ ret'[d] = ret[d] /\ conn'[d] = conn[d] /\ saved'[d] = saved[d]
                     /\ localSeq'[d] = localSeq[d] /\ snapshotKey'[d] = snapshotKey[d] /\ cm'[d] = cm[d]
                     /\ savedSeq'[d] = savedSeq[d] /\ (d \in stale' <=> d \in stale)
                     /\ attempt'[d] = attempt[d] /\ began'[d] = began[d]
      /\ Shut(c) => /\ pc'[d] = pc[d] /\ ret'[d] = ret[d] /\ conn'[d] = conn[d] /\ saved'[d] = saved[d]
                     /\ localSeq'[d] = localSeq[d] /\ snapshotKey'[d] = snapshotKey[d] /\ cm'[d] = cm[d]
                     /\ savedSeq'[d] = savedSeq[d] /\ (d \in stale' <=> d \in stale)
                     /\ attempt'[d] = attempt[d] /\ began'[d] = began[d]
  BY DEF Return, Shut, StaleAfterRollback
<1>f. Forget(c) => /\ fn'[d] = fn[d] /\ csKey'[d] = csKey[d] /\ orphan'[d] = orphan[d]
                   /\ m2'[d] = m2[d] /\ reb'[d] = reb[d]
  BY DEF Forget
<1>1. CASE Call(c)
  BY <1>1 DEF Call, OpenStart, ViewStart, UpdateStart, CompactStart, GCStart, Start
<1>2. CASE Disrupt(c)
  BY <1>2, <1>e, <1>f DEF Disrupt, StoreError, Crash, Close, EndEarly, Fail
<1>3. CASE ClientStep(c) /\ UNCHANGED <<updateVars, todo, lastVer>>
  BY <1>3, <1>e DEF ClientStep, Refresh, Download, Fetch, Apply, Open, OpenEmpty, BootUpload,
     BootPut, BootLost, BootPhantom, View, OpenWith, syncToManifest, Fail
<1>4. CASE CommitStep(c) /\ UNCHANGED <<todo, lastVer>>
  <2>1. CASE \/ CaptureNothing(c) \/ Capture(c) \/ Unorphan(c) \/ Upload(c) \/ CasPhantom(c)
             \/ CasLost(c) \/ RebaseNotFound(c) \/ Rebased(c) \/ Exhausted(c)
    BY <1>4, <2>1, <1>e, <1>f DEF CaptureNothing, Capture, Unorphan, Upload, CasPhantom, CasLost,
       RebaseNotFound, Rebased, Exhausted, UpdateDone
  <2>2. CASE Cas(c)
    BY <1>4, <2>2, <1>f DEF Cas, UpdateDone
  <2>3. ASSUME NEW m, rollbackAndResync(c, m) PROVE Untouched(d)
    BY <1>4, <2>3 DEF rollbackAndResync, StaleAfterRollback, syncToManifest
  <2>4. CASE Reload(c)
    BY <1>4, <2>3, <2>4 DEF Reload
  <2>5. CASE RebaseEntry(c)
    BY <1>4, <2>3, <2>5 DEF RebaseEntry
  <2> QED
    BY <1>4, <2>1, <2>2, <2>4, <2>5 DEF CommitStep
<1>5. CASE CompactStep(c) /\ UNCHANGED <<todo, lastVer>>
  BY <1>5, <1>e DEF CompactStep, CompactNothing, CompactUpload, CompactCas, CompactPhantom,
     CompactLost
<1>6. CASE GCStep(c) /\ UNCHANGED lastVer
  BY <1>6, <1>e DEF GCStep, GCStat, GCList, GCSweep, GCSwept, GCSnaps, GCDelete, GCDone, gcFrame
<1>7. CASE MigrateStep(c) /\ UNCHANGED todo
  BY <1>7, <1>e DEF MigrateStep, MigrateTooNew, MigrateDone, MigrateNext, MigrateUp, MigrateCas,
     MigrateLost, MigratePhantom, syncToManifest
<1>8. CASE (RefreshRejected(c) \/ NotFound(c) \/ ApplyConflict(c)) /\ EndEarly(c)
  BY <1>8, <1>e, <1>f DEF RefreshRejected, NotFound, ApplyConflict, EndEarly, Fail
<1> QED
  BY <1>1, <1>2, <1>3, <1>4, <1>5, <1>6, <1>7, <1>8 DEF Step

\* What a put of doUpdate appends to the history of its epoch.
LEMMA CommitGrows ==
  ASSUME Typed, NEW c \in Clients, pc[c] = "cas", PutCommit(c)
  PROVE  LET k == cm[c].snap.key
             h == hist[k]
         IN /\ k \in DOMAIN hist /\ DOMAIN hist' = DOMAIN hist
            /\ \A j \in DOMAIN hist : j # k => hist'[j] = hist[j]
            /\ Len(h) \in Nat /\ Len(hist'[k]) = Len(h) + 1
            /\ Len(h) = Len(cm[c].log) + 1
            /\ \A i \in 1..Len(h) : hist'[k][i] = h[i]
            /\ hist'[k][Len(h) + 1] = Patch(h[Len(h)], Mine(c))
            /\ DOMAIN h = 1..Len(h) /\ DOMAIN hist'[k] = 1..(Len(h) + 1)
            /\ Mine(c) \in Changeset /\ h[Len(h)] \in DB
            /\ sound' = (sound /\ c \notin stale)
<1> DEFINE k == cm[c].snap.key
           h == hist[k]
           p == Patch(h[Len(h)], Mine(c))
<1>1. /\ manifest = cm[c] /\ manifest # NoManifest /\ hist' = [hist EXCEPT ![k] = Append(h, p)]
      /\ sound' = (sound /\ c \notin stale)
  BY IfMatchFacts DEF PutCommit, PutManifest, epoch, Mine
<1>2. k \in DOMAIN hist /\ csKey[c].id \in DOMAIN csBody /\ csBody \in Seq(Changeset)
  BY ClientFacts DEF Known, PositionInv, InSavepoint, Typed, TypeOK, StoreTypeOK
<1>3. h \in Seq(DB) /\ Len(h) \in Nat /\ Len(h) >= 1 /\ hist \in Seq(Seq(DB)) /\ k \in 1..Len(hist)
  BY <1>2, HistFacts
<1>4. Mine(c) \in Changeset
  BY <1>2 DEF Mine
<1>5. h[Len(h)] \in DB /\ DOMAIN h = 1..Len(h)
  BY <1>3
<1>6. p \in DB
  BY <1>4, <1>5, PatchType
<1>10. Len(h) = Len(cm[c].log) + 1
  BY <1>1, ManifestFacts
<1> HIDE DEF p
<1> DEFINE g == Append(h, p)
<1>7. /\ g \in Seq(DB) /\ Len(g) = Len(h) + 1 /\ g[Len(h) + 1] = p
      /\ \A i \in 1..Len(h) : g[i] = h[i]
  BY <1>3, <1>6, AppendProperties
<1>8. DOMAIN g = 1..(Len(h) + 1)
  BY <1>7
<1> HIDE DEF g
<1>9. hist' = [hist EXCEPT ![k] = g]
  BY <1>1 DEF g
<1>11. /\ DOMAIN hist' = DOMAIN hist /\ hist'[k] = g
       /\ \A j \in DOMAIN hist : j # k => hist'[j] = hist[j]
  BY <1>2, <1>9
<1> QED
  BY <1>1, <1>2, <1>3, <1>4, <1>5, <1>7, <1>8, <1>10, <1>11 DEF p

\* No step takes back or changes what was stored; sound stays FALSE.
LEMMA StepGrows ==
  ASSUME Typed, NEW c \in Clients, Call(c) \/ Step(c) \/ Disrupt(c)
  PROVE  Grows
<1>1. ASSUME UNCHANGED <<csBody, hist, base, sound>> PROVE Grows
  BY <1>1 DEF Grows
<1>2. ASSUME NEW m, NEW b \in BOOLEAN, PutManifest(m, b), UNCHANGED <<csBody, hist, base>> PROVE Grows
  BY <1>2 DEF Grows, PutManifest
<1>3. ASSUME pc[c] = "cas", PutCommit(c) PROVE Grows
  <2>1. UNCHANGED <<csBody, base>>
    BY <1>3 DEF PutCommit, blobVars
  <2>2. ASSUME NEW j \in DOMAIN hist
        PROVE  /\ DOMAIN hist[j] \subseteq DOMAIN hist'[j]
               /\ \A i \in DOMAIN hist[j] : hist'[j][i] = hist[j][i]
    <3> DEFINE h == hist[j]
    <3>1. CASE j # cm[c].snap.key
      BY <1>3, <3>1, CommitGrows
    <3>2. CASE j = cm[c].snap.key
      <4>1. /\ DOMAIN h = 1..Len(h) /\ DOMAIN hist'[j] = 1..(Len(h) + 1) /\ Len(h) \in Nat
            /\ \A i \in 1..Len(h) : hist'[j][i] = h[i]
        BY <1>3, <3>2, CommitGrows
      <4> QED
        BY <4>1
    <3> QED
      BY <3>1, <3>2
  <2> QED
    BY <1>3, <2>1, <2>2, CommitGrows DEF Grows
<1>4. ASSUME NEW body \in DB, NEW n \in Nat, NEW v \in Nat, PutSnapshot(body, n, v) PROVE Grows
  <2>1. UNCHANGED sound
    BY <1>4 DEF PutSnapshot
  <2> QED
    BY <1>4, <2>1, UploadStore DEF Grows
<1>5. CASE Call(c)
  BY <1>1, <1>5 DEF Call, OpenStart, ViewStart, UpdateStart, CompactStart, GCStart, Start, storeVars
<1>6. CASE Disrupt(c)
  BY <1>1, <1>6 DEF Disrupt, StoreError, Crash, Close, storeVars
<1>7. CASE ClientStep(c)
  BY <1>1, <1>2, <1>7 DEF ClientStep, Refresh, Download, Fetch, Apply, Open, OpenEmpty, BootUpload,
     BootPut, BootLost, BootPhantom, View, storeVars, blobVars
<1>8. CASE CommitStep(c)
  <2>1. CASE Capture(c)
    <3>1. csBody \in Seq(Changeset) /\ UNCHANGED <<hist, base, sound>>
      BY <2>1 DEF Capture, Typed, TypeOK, StoreTypeOK
    <3>2. PICK cs : csBody' = Append(csBody, cs)
      BY <2>1 DEF Capture
    <3>3. \A i \in DOMAIN csBody : i \in DOMAIN csBody' /\ csBody'[i] = csBody[i]
      BY <3>1, <3>2
    <3> QED
      BY <3>1, <3>3 DEF Grows
  <2>2. CASE ~Capture(c)
    BY <1>1, <1>3, <1>8, <2>2 DEF CommitStep, CaptureNothing, Unorphan, Upload, Cas, CasPhantom, CasLost,
     Reload, RebaseEntry, RebaseNotFound, Rebased, Exhausted, rollbackAndResync,
     DeleteChangesets, At, storeVars
  <2> QED
    BY <2>1, <2>2
<1>9. CASE CompactStep(c)
  <2>1. ASSUME CompactUpload(c) PROVE Grows
    <3>1. conn[c] \in DB /\ cm[c].seq \in Nat /\ cm[c].schema \in Nat
      BY <2>1, ClientFacts DEF CompactUpload, At, FlowInv, Synced, Manifests
    <3> QED
      BY <1>4, <2>1, <3>1 DEF CompactUpload
  <2>2. ASSUME PutCompact(c) PROVE Grows
    BY <2>2 DEF PutCompact, PutManifest, blobVars, Grows
  <2> QED
    BY <1>1, <1>9, <2>1, <2>2 DEF CompactStep, CompactNothing, CompactCas, CompactPhantom,
     CompactLost, storeVars
<1>10. CASE GCStep(c)
  BY <1>1, <1>10 DEF GCStep, GCStat, GCList, GCSweep, GCSwept, GCSnaps, GCDelete, GCDone,
     DeleteChangesets, DeleteSnapshot, storeVars
<1>11. CASE MigrateStep(c)
  <2>1. ASSUME MigrateUp(c) PROVE Grows
    <3>1. conn[c] \in DB /\ cm[c].seq \in Nat /\ cm[c].schema \in Nat /\ cm[c].schema < Version[c]
      BY <2>1, ClientFacts DEF MigrateUp, At, FlowInv, Synced, Manifests, Target, SyncLabels
    <3>2. Up[cm[c].schema + 1][conn[c]] \in DB
      BY <3>1, MigrateAssumption, ClientAssumption
    <3> QED
      BY <1>4, <2>1, <3>1, <3>2 DEF MigrateUp
  <2>2. ASSUME PutMigrate(c) PROVE Grows
    BY <2>2 DEF PutMigrate, PutManifest, blobVars, Grows
  <2> QED
    BY <1>1, <1>11, <2>1, <2>2 DEF MigrateStep, MigrateTooNew, MigrateDone, MigrateNext, MigrateCas,
     MigrateLost, MigratePhantom, storeVars
<1>12. CASE RefreshRejected(c) \/ NotFound(c) \/ ApplyConflict(c)
  BY <1>1, <1>12 DEF RefreshRejected, NotFound, ApplyConflict, storeVars
<1> QED
  BY <1>5, <1>6, <1>7, <1>8, <1>9, <1>10, <1>11, <1>12 DEF Step
-----------------------------------------------------------------------------
(***************************************************************************)
(* What was true of contents stays true.                                   *)
(***************************************************************************)

\* A position between a snapshot and the end of its log is an index of the history.
LEMMA SpanIndex ==
  ASSUME NEW s \in Nat, NEW n \in Nat, NEW l \in Nat, NEW h \in Nat, s <= n, n <= s + l, l < h
  PROVE  n - s + 1 \in 1..h
OBVIOUS

\* The history of an epoch reaches as far as any manifest of it.
LEMMA KnownSpan ==
  ASSUME Typed, NEW m \in Manifests, Known(m), NEW n \in Nat, m.snap.seq <= n, n <= m.seq
  PROVE  LET k == m.snap.key
             i == n - m.snap.seq + 1
         IN /\ k \in DOMAIN hist /\ Pos(k, n) = i /\ i \in DOMAIN hist[k]
            /\ Content(k, n) = hist[k][i] /\ hist[k][i] \in DB
<1> DEFINE k == m.snap.key
           i == n - m.snap.seq + 1
<1>1. /\ k \in DOMAIN hist /\ m.snap.seq = base[k].seq /\ m.seq = m.snap.seq + Len(m.log)
      /\ Len(m.log) < Len(hist[k]) /\ Len(m.log) \in Nat /\ m.snap.seq \in Nat
  BY DEF Known, Manifests, blobRef
<1>2. hist[k] \in Seq(DB) /\ Len(hist[k]) \in Nat
  BY <1>1, HistFacts
<1>3. i \in 1..Len(hist[k])
  BY <1>1, <1>2, SpanIndex
<1>4. Pos(k, n) = i
  BY <1>1 DEF Pos
<1> QED
  BY <1>1, <1>2, <1>3, <1>4 DEF Content

\* ... and what it holds there does not change.
LEMMA SpanStays ==
  ASSUME Typed, Grows, NEW m \in Manifests, Known(m), NEW n \in Nat, m.snap.seq <= n, n <= m.seq,
         NEW k, k = m.snap.key
  PROVE  /\ base'[k] = base[k] /\ k \in DOMAIN hist'
         /\ hist'[k][n - base'[k].seq + 1] = hist[k][n - base[k].seq + 1]
         /\ n - base[k].seq + 1 \in DOMAIN hist'[k]
<1>1. k \in DOMAIN hist /\ n - m.snap.seq + 1 \in DOMAIN hist[k]
  BY KnownSpan
<1>2. m.snap.seq = base[k].seq
  BY DEF Known
<1> QED
  BY <1>1, <1>2 DEF Grows

\* The log of a known manifest goes on replaying.
LEMMA LogStays ==
  ASSUME Typed, Grows, NEW m \in Manifests, Known(m), LogOK(m)
  PROVE  LogOK(m)'
<1> DEFINE k == m.snap.key
<1>1. /\ k \in DOMAIN hist /\ Len(m.log) < Len(hist[k]) /\ Len(m.log) \in Nat
      /\ DOMAIN m.log = 1..Len(m.log) /\ \A i \in DOMAIN m.log : m.log[i].key.id \in DOMAIN csBody
  BY DEF Known, Manifests
<1>2. hist[k] \in Seq(DB) /\ Len(hist[k]) \in Nat /\ DOMAIN hist[k] = 1..Len(hist[k])
  BY <1>1, HistFacts
<1>3. \A i \in DOMAIN m.log : i \in DOMAIN hist[k] /\ i + 1 \in DOMAIN hist[k]
  BY <1>1, <1>2
<1> QED
  BY <1>1, <1>3 DEF LogOK, Grows

\* The manifest of bootstrap has no log.
LEMMA NoLog == LogOK(InitManifest) /\ LogOK(InitManifest)'
BY DEF LogOK, InitManifest

\* A client whose file, SAVEPOINT and changeset stay as they are.
LEMMA ContentStays ==
  ASSUME Typed, Grows, NEW d \in Clients, ContentInv(d),
         conn'[d] = conn[d], saved'[d] = saved[d], localSeq'[d] = localSeq[d],
         snapshotKey'[d] = snapshotKey[d], savedSeq'[d] = savedSeq[d], d \in stale' <=> d \in stale,
         Dirty(d) /\ saved[d] = NoConn /\ conn[d] # NoConn => Dirty(d)',
         pc'[d] \in InSavepoint =>
           pc[d] \in InSavepoint /\ csKey'[d] = csKey[d] /\ Upto(d)' = Upto(d)
  PROVE  ContentInv(d)'
<1> SUFFICES ASSUME d \notin stale PROVE ContentInv(d)'
  BY DEF ContentInv
<1>1. ASSUME conn[d] # NoConn, saved[d] = NoConn, ~Dirty(d)
      PROVE  Agree(conn[d], Content(snapshotKey[d], localSeq[d]))'
  <2>1. snapshotKey[d] = cm[d].snap.key /\ cm[d].snap.seq <= localSeq[d] /\ localSeq[d] <= cm[d].seq
    BY <1>1, ClientFacts DEF PositionInv
  <2>2. cm[d] \in Manifests /\ Known(cm[d]) /\ localSeq[d] \in Nat
    BY ClientFacts
  <2>3. Content(snapshotKey[d], localSeq[d])' = Content(snapshotKey[d], localSeq[d])
    BY <2>1, <2>2, SpanStays DEF Content, Pos
  <2> QED
    BY <1>1, <2>3 DEF ContentInv, Agree
<1>2. ASSUME saved[d] # NoConn
      PROVE  Agree(saved[d], Content(snapshotKey[d], savedSeq[d]))'
  <2>1. conn[d] # NoConn
    BY <1>2, ClientFacts DEF FlowInv, InSavepoint, Synced
  <2>2. /\ snapshotKey[d] = cm[d].snap.key /\ cm[d].snap.seq <= savedSeq[d]
        /\ savedSeq[d] <= cm[d].seq
    BY <1>2, <2>1, ClientFacts DEF PositionInv, Manifests
  <2>3. cm[d] \in Manifests /\ Known(cm[d]) /\ savedSeq[d] \in Nat
    BY ClientFacts
  <2>4. Content(snapshotKey[d], savedSeq[d])' = Content(snapshotKey[d], savedSeq[d])
    BY <2>2, <2>3, SpanStays DEF Content, Pos
  <2> QED
    BY <1>2, <2>4 DEF ContentInv, Agree
<1>3. ASSUME pc[d] \in InSavepoint, csKey'[d] = csKey[d], Upto(d)' = Upto(d)
      PROVE  /\ \A r \in DOMAIN Mine(d)' : Mine(d)'[r].old # Mine(d)'[r].new
             /\ Applies(Content(snapshotKey[d], Upto(d)), Mine(d))'
             /\ Agree(conn[d], Patch(Content(snapshotKey[d], Upto(d)), Mine(d)))'
  <2>1. Mine(d)' = Mine(d)
    BY <1>3, SavepointFacts DEF Mine, Grows
  <2>2. PICK n \in Nat : n = Upto(d)
    BY ClientFacts DEF Upto
  <2>3. Content(snapshotKey[d], n)' = Content(snapshotKey[d], n)
    <3>1. CASE pc[d] = "rebase"
      <4>1. /\ snapshotKey[d] = m2[d].snap.key /\ m2[d].snap.seq <= n /\ n <= m2[d].seq
        <5>1. m2[d].snap.key = cm[d].snap.key /\ localSeq[d] <= n /\ n <= m2[d].seq
          BY <2>2, <3>1, ClientFacts DEF PositionInv, Upto
        <5>3. snapshotKey[d] = cm[d].snap.key /\ cm[d].snap.seq <= localSeq[d]
          BY <1>3, SavepointFacts
        <5>4. localSeq[d] \in Nat
          BY ClientFacts
        <5>2. m2[d].snap.seq = cm[d].snap.seq /\ cm[d].snap.seq \in Nat
          <6>1. cm[d] \in Manifests /\ Known(cm[d]) /\ Known(m2[d])
            BY ClientFacts
          <6> QED
            BY <5>1, <6>1 DEF Known, Manifests, blobRef
        <5> QED
          BY <2>2, <5>1, <5>2, <5>3, <5>4
      <4>2. m2[d] \in Manifests /\ Known(m2[d])
        BY ClientFacts
      <4> QED
        BY <4>1, <4>2, SpanStays DEF Content, Pos
    <3>2. CASE pc[d] # "rebase"
      <4>1. n = localSeq[d]
        BY <2>2, <3>2 DEF Upto
      <4>2. /\ snapshotKey[d] = cm[d].snap.key /\ cm[d].snap.seq <= n /\ n <= cm[d].seq
        BY <1>3, <4>1, SavepointFacts
      <4>3. cm[d] \in Manifests /\ Known(cm[d])
        BY ClientFacts
      <4> QED
        BY <4>2, <4>3, SpanStays DEF Content, Pos
    <3> QED
      BY <3>1, <3>2
  <2>4. Content(snapshotKey[d], Upto(d))' = Content(snapshotKey[d], Upto(d))
    BY <1>3, <2>2, <2>3 DEF Content, Pos
  <2> QED
    BY <1>3, <2>1, <2>4 DEF ContentInv, Applies, Agree, Patch
<1>4. saved[d] = NoConn /\ conn[d] # NoConn /\ ~Dirty(d)' => ~Dirty(d)
  OBVIOUS
<1> QED
  BY <1>1, <1>2, <1>3, <1>4 DEF ContentInv
-----------------------------------------------------------------------------
(***************************************************************************)
(* Open, while it migrates.                                                *)
(***************************************************************************)

\* A sync goes on with ret.
LEMMA SyncMoves ==
  ASSUME Typed, NEW c \in Clients, NEW m, NEW cn, NEW key, NEW next, syncToManifest(c, m, cn, key, next)
  PROVE  /\ pc'[c] \in {"download", "fetch", next} /\ ret'[c] = next /\ cm'[c] = m
         /\ conn'[c] \in {NoConn, cn} /\ snapshotKey'[c] = key /\ localSeq' = localSeq
BY DEF Typed, TypeOK, ClientTypeOK, syncToManifest, Goto

\* The variables of Open are where OpenInv wants them after every step of c.
LEMMA OpenStep ==
  ASSUME Typed, NEW c \in Clients, OpenInv(c), Call(c) \/ Step(c) \/ Disrupt(c)
  PROVE  OpenInv(c)'
<1> DEFINE Elsewhere == pc'[c] \notin OpenLabels /\ lastVer'[c] <= Version[c]
                        /\ (pc'[c] \in SyncLabels => ret'[c] \notin {"up", "migcas"})
<1> USE DEF Shapes
<1>0. /\ Shapes /\ Version[c] \in Nat /\ ret[c] \in Rets /\ lastVer[c] \in Nat
      /\ pc[c] = "refresh" => ret[c] \in {"view", "capture", "compact", "gc"}
  BY ClientFacts, ClientAssumption
     DEF Typed, TypeOK, ClientTypeOK, CommitTypeOK, MigrateTypeOK, FlowInv
<1>1. ASSUME Elsewhere PROVE OpenInv(c)'
  BY <1>1 DEF OpenInv, Target, OpenLabels
<1>2. ASSUME \/ pc'[c] \in {"idle", "closed"} PROVE /\ pc'[c] \notin OpenLabels \cup SyncLabels
  BY <1>2 DEF OpenLabels, SyncLabels
<1>3. ASSUME Return(c) \/ Shut(c), lastVer'[c] \in {0, lastVer[c]} PROVE OpenInv(c)'
  <2>1. pc'[c] \in {"idle", "closed"}
    BY <1>0, <1>3 DEF Return, Shut, Goto
  <2> QED
    BY <1>0, <1>1, <1>2, <1>3, <2>1 DEF OpenInv
<1>4. CASE Call(c)
  BY <1>0, <1>4 DEF Call, OpenStart, ViewStart, UpdateStart, CompactStart, GCStart, Start, Goto,
     OpenInv, OpenLabels, OpenRets, Target, SyncLabels
<1>5. CASE Disrupt(c)
  BY <1>0, <1>3, <1>5 DEF Disrupt, StoreError, Crash, Close, EndEarly, Fail
<1>6. CASE ClientStep(c) /\ UNCHANGED <<updateVars, todo, lastVer>>
  <2>1. CASE Refresh(c)
    BY <1>0, <1>6, <2>1, SyncMoves DEF Refresh, At, OpenInv, OpenLabels, OpenRets, Target, SyncLabels
  <2>2. CASE Download(c) \/ Fetch(c) \/ Apply(c)
    <3>1. /\ pc[c] \in SyncLabels \ {"refresh"} /\ pc'[c] \in {ret[c], "fetch", "apply"} /\ cm'[c] = cm[c]
          /\ ret'[c] = ret[c] /\ lastVer'[c] = lastVer[c]
      BY <1>0, <1>6, <2>2 DEF Download, Fetch, Apply, At, Goto, connVars, SyncLabels
    <3>2. ret[c] \in OpenLabels => ret[c] \in OpenRets
      BY <1>0 DEF Rets, OpenRets, OpenLabels
    <3>3. Target(c)' = ret[c] /\ Target(c) = ret[c]
      BY <1>0, <3>1 DEF Target, SyncLabels, Rets, OpenRets
    <3> QED
      BY <1>0, <3>1, <3>2, <3>3 DEF OpenInv, OpenLabels
  <2>3. ASSUME NEW m, OpenWith(c, m) PROVE OpenInv(c)'
    <3>1. ret'[c] \in {"idle", "migrate"} /\ pc'[c] \in {"download", "fetch", "idle", "migrate"}
      BY <2>3, SyncMoves DEF OpenWith
    <3> QED
      BY <1>6, <3>1 DEF OpenInv, OpenLabels, OpenRets, Target, SyncLabels
  <2>4. CASE OpenEmpty(c) \/ BootUpload(c) \/ BootLost(c)
    BY <1>0, <1>6, <2>4 DEF OpenEmpty, BootUpload, BootLost, At, Goto, OpenInv, OpenLabels, OpenRets,
       Target, SyncLabels
  <2>5. CASE BootPhantom(c)
    BY <1>0, <1>3, <1>6, <2>5 DEF BootPhantom, At, Goto, OpenInv, OpenLabels, OpenRets, Target, SyncLabels,
       Fail
  <2>6. CASE View(c)
    BY <1>3, <1>6, <2>6 DEF View
  <2> QED
    BY <1>6, <2>1, <2>2, <2>3, <2>4, <2>5, <2>6 DEF ClientStep, Open, BootPut
<1>7. CASE CommitStep(c) /\ UNCHANGED <<todo, lastVer>>
  <2>1. ASSUME NEW m, rollbackAndResync(c, m) PROVE OpenInv(c)'
    <3>1. ret'[c] \in {"capture", "exhausted"} /\ pc'[c] \in {"download", "fetch", "capture", "exhausted"}
      BY <2>1, SyncMoves DEF rollbackAndResync, Again
    <3> QED
      BY <1>7, <3>1 DEF OpenInv, OpenLabels, OpenRets, Target, SyncLabels
  <2>2. ASSUME NEW m, UpdateDone(c, m) PROVE OpenInv(c)'
    BY <1>0, <1>1, <1>7, <2>2 DEF UpdateDone, Goto, OpenInv, OpenLabels, SyncLabels
  <2>3. CASE RebaseEntry(c)
    BY <1>7, <2>1, <2>3 DEF RebaseEntry, flowVars, At, OpenInv, OpenLabels, Target, SyncLabels
  <2>4. CASE Capture(c) \/ Unorphan(c) \/ Upload(c) \/ CasLost(c) \/ Reload(c) \/ Rebased(c)
    BY <1>0, <1>7, <2>1, <2>4 DEF Capture, Unorphan, Upload, CasLost, Reload, Rebased, At, Goto, Again,
       OpenInv, OpenLabels, Target, SyncLabels
  <2>5. CASE \/ CaptureNothing(c) \/ Cas(c) \/ CasPhantom(c) \/ RebaseNotFound(c) \/ Exhausted(c)
    BY <1>3, <1>7, <2>2, <2>5 DEF CaptureNothing, Cas, CasPhantom, RebaseNotFound, Exhausted
  <2> QED
    BY <1>7, <2>3, <2>4, <2>5 DEF CommitStep
<1>8. CASE CompactStep(c) /\ UNCHANGED <<todo, lastVer>>
  <2>1. CASE CompactUpload(c) \/ CompactCas(c)
    BY <1>0, <1>8, <2>1 DEF CompactUpload, CompactCas, Goto, OpenInv, OpenLabels, Target, SyncLabels
  <2>2. CASE CompactNothing(c) \/ CompactPhantom(c)
    BY <1>3, <1>8, <2>2 DEF CompactNothing, CompactPhantom
  <2>3. CASE CompactLost(c)
    <3>1. pc[c] = "compactcas" /\ ret[c] = "compact"
      BY <2>3, ClientFacts DEF CompactLost, At, FlowInv
    <3> QED
      BY <1>0, <1>3, <1>8, <2>3, <3>1
         DEF CompactLost, Goto, OpenInv, OpenLabels, Target, SyncLabels
  <2> QED
    BY <1>8, <2>1, <2>2, <2>3 DEF CompactStep
<1>9. CASE GCStep(c) /\ UNCHANGED lastVer
  BY <1>0, <1>3, <1>9 DEF GCStep, GCStat, GCList, GCSweep, GCSwept, GCSnaps, GCDelete, GCDone, gcFrame, At,
     Goto, OpenInv, OpenLabels, Target, SyncLabels
<1>10. CASE MigrateStep(c) /\ UNCHANGED todo
  <2>1. CASE MigrateTooNew(c) \/ MigratePhantom(c)
    BY <1>0, <1>3, <1>10, <2>1 DEF MigrateTooNew, MigratePhantom
  <2>2. CASE MigrateDone(c)
    BY <1>0, <2>2, SyncMoves DEF MigrateDone, OpenInv, OpenLabels, OpenRets, Target, SyncLabels
  <2>3. CASE MigrateNext(c)
    <3>1. /\ pc'[c] \in {"download", "fetch", "up"} /\ ret'[c] = "up" /\ cm'[c] = manifest
          /\ lastVer'[c] = manifest.schema + 1 /\ manifest.schema < Version[c]
          /\ manifest # NoManifest
      BY <1>0, <2>3, SyncMoves DEF MigrateNext
    <3>2. manifest.schema \in Nat
      BY <3>1, ManifestFacts DEF Manifests
    <3> QED
      BY <1>0, <3>1, <3>2 DEF OpenInv, OpenLabels, OpenRets, Target, SyncLabels
  <2>4. CASE MigrateUp(c) \/ MigrateCas(c) \/ MigrateLost(c)
    BY <1>0, <1>10, <2>4 DEF MigrateUp, MigrateCas, MigrateLost, At, Goto, connVars, updateVars,
       OpenInv, OpenLabels, Target, SyncLabels
  <2> QED
    BY <1>10, <2>1, <2>2, <2>3, <2>4 DEF MigrateStep
<1>11. CASE (RefreshRejected(c) \/ NotFound(c) \/ ApplyConflict(c)) /\ EndEarly(c)
  BY <1>0, <1>3, <1>11 DEF RefreshRejected, NotFound, ApplyConflict, EndEarly, Fail
<1> QED
  BY <1>4, <1>5, <1>6, <1>7, <1>8, <1>9, <1>10, <1>11 DEF Step
-----------------------------------------------------------------------------
(***************************************************************************)
(* Where manifests come from.                                              *)
(***************************************************************************)

\* A manifest that c or the bucket already has, or one without a log.
Src(c, m) ==
  \/ m.log = <<>> \/ m = cm[c] \/ m = m2[c]
  \/ manifest # NoManifest /\ m = manifest

\* Every manifest that a step of c puts or keeps is such a one, but for the one
\* that doUpdate puts.
LEMMA Sources ==
  ASSUME Typed, NEW c \in Clients, Call(c) \/ Step(c) \/ Disrupt(c)
  PROVE  /\ Src(c, m2'[c])
         /\ manifest' # NoManifest => Src(c, manifest') \/ (pc[c] = "cas" /\ PutCommit(c))
         /\ Src(c, cm'[c]) \/ (pc[c] = "cas" /\ PutCommit(c) /\ cm'[c] = manifest')
<1>0. cm \in [Clients -> Manifests] /\ m2 \in [Clients -> Manifests] /\ InitManifest.log = <<>>
  BY DEF Typed, TypeOK, ClientTypeOK, CommitTypeOK, InitManifest
<1> USE <1>0 DEF Src, storeVars, connVars, updateVars
<1>1. /\ Return(c) => cm'[c] = cm[c]
      /\ Shut(c) => cm'[c] = InitManifest
      /\ Forget(c) => m2'[c] = InitManifest
      /\ \A m, cn, key, next : syncToManifest(c, m, cn, key, next) => cm'[c] = m
      /\ \A m : UpdateDone(c, m) => m2'[c] = InitManifest
      /\ \A m : rollbackAndResync(c, m) => cm'[c] = m /\ m2'[c] = InitManifest /\ manifest' = manifest
  BY DEF Return, Shut, Forget, syncToManifest, UpdateDone, rollbackAndResync
<1>2. CASE Call(c)
  BY <1>2 DEF Call, OpenStart, ViewStart, UpdateStart, CompactStart, GCStart, Start
<1>3. CASE Disrupt(c)
  BY <1>1, <1>3 DEF Disrupt, StoreError, Crash, Close, EndEarly, Fail
<1>4. CASE ClientStep(c) /\ UNCHANGED <<updateVars, todo, lastVer>>
  <2>1. CASE Refresh(c) \/ Download(c) \/ Fetch(c) \/ Apply(c) \/ View(c)
    BY <1>1, <1>4, <2>1 DEF Refresh, Download, Fetch, Apply, View
  <2>2. CASE Open(c) \/ OpenEmpty(c) \/ BootUpload(c) \/ BootPut(c) \/ BootLost(c) \/ BootPhantom(c)
    BY <1>1, <1>4, <2>2 DEF Open, OpenEmpty, BootUpload, BootPut, BootLost, BootPhantom, OpenWith, Fail,
       PutManifest
  <2> QED
    BY <1>4, <2>1, <2>2 DEF ClientStep
<1>5. CASE CommitStep(c) /\ UNCHANGED <<todo, lastVer>>
  <2>1. CASE \/ CaptureNothing(c) \/ Capture(c) \/ Unorphan(c) \/ Upload(c) \/ RebaseNotFound(c)
             \/ Rebased(c) \/ Exhausted(c)
    BY <1>1, <1>5, <2>1 DEF CaptureNothing, Capture, Unorphan, Upload, RebaseNotFound, Rebased,
       Exhausted, DeleteChangesets
  <2>2. CASE Cas(c)
    BY <1>1, <2>2 DEF Cas, At, PutCommit, PutManifest
  <2>3. CASE CasPhantom(c) \/ CasLost(c)
    BY <1>1, <2>3 DEF CasPhantom, CasLost, At
  <2>4. CASE Reload(c) \/ RebaseEntry(c)
    BY <1>1, <2>4 DEF Reload, RebaseEntry
  <2> QED
    BY <1>5, <2>1, <2>2, <2>3, <2>4 DEF CommitStep
<1>6. CASE CompactStep(c) /\ UNCHANGED <<todo, lastVer>>
  <2>1. compactManifest(c).log = <<>>
    BY DEF compactManifest, withSnapshot
  <2> QED
    BY <1>1, <1>6, <2>1 DEF CompactStep, CompactNothing, CompactUpload, CompactCas, CompactPhantom,
       CompactLost, PutCompact, PutManifest, PutSnapshot
<1>7. CASE GCStep(c) /\ UNCHANGED lastVer
  BY <1>1, <1>7 DEF GCStep, GCStat, GCList, GCSweep, GCSwept, GCSnaps, GCDelete, GCDone, gcFrame,
     DeleteChangesets, DeleteSnapshot
<1>8. CASE MigrateStep(c) /\ UNCHANGED todo
  <2>1. migrateManifest(c).log = <<>>
    BY DEF migrateManifest
  <2> QED
    BY <1>1, <1>8, <2>1 DEF MigrateStep, MigrateTooNew, MigrateDone, MigrateNext, MigrateUp, MigrateCas,
       MigrateLost, MigratePhantom, PutMigrate, PutManifest, PutSnapshot
<1>9. CASE (RefreshRejected(c) \/ NotFound(c) \/ ApplyConflict(c)) /\ EndEarly(c)
  BY <1>1, <1>9 DEF RefreshRejected, NotFound, ApplyConflict, EndEarly, Fail
<1> QED
  BY <1>2, <1>3, <1>4, <1>5, <1>6, <1>7, <1>8, <1>9 DEF Step

\* Their logs go on replaying.
LEMMA SourceReplays ==
  ASSUME Typed, Grows, DataInv, sound, NEW c \in Clients, NEW m, Src(c, m)
  PROVE  LogOK(m)'
<1>1. CASE m.log = <<>>
  BY <1>1 DEF LogOK
<1>2. CASE m = cm[c] \/ m = m2[c] \/ (manifest # NoManifest /\ m = manifest)
  <2>1. m \in Manifests /\ Known(m)
    BY <1>2, ClientFacts, ManifestFacts
  <2>2. LogOK(m)
    BY <1>2 DEF DataInv
  <2> QED
    BY <2>1, <2>2, LogStays
<1> QED
  BY <1>1, <1>2 DEF Src

\* So does the log that doUpdate makes.
LEMMA CommitReplays ==
  ASSUME Typed, Grows, DataInv, sound', NEW c \in Clients, pc[c] = "cas", PutCommit(c)
  PROVE  LogOK(manifest)'
<1> DEFINE k == cm[c].snap.key
           h == hist[k]
           n == Len(cm[c].log)
           cs == Mine(c)
           e == [key |-> csKey[c], seq |-> cm[c].seq + 1]
<1>1. sound /\ c \notin stale
  BY CommitGrows DEF Grows
<1>2. /\ manifest' = newManifest(c) /\ manifest'.snap.key = k /\ manifest'.log = Append(cm[c].log, e)
  BY DEF PutCommit, PutManifest, newManifest, appendLog
<1>3. cm[c] \in Manifests /\ Known(cm[c]) /\ LogOK(cm[c])
  BY <1>1, ClientFacts DEF DataInv
<1>4. cm[c].log \in Seq(logEntry) /\ n \in Nat /\ cm[c].seq = cm[c].snap.seq + n /\ k \in DOMAIN hist
      /\ cm[c].snap.seq \in Nat /\ cm[c].seq \in Nat
  BY <1>3 DEF Manifests, Known, blobRef
<1>5. e \in logEntry
  BY <1>4 DEF logEntry, Typed, TypeOK, CommitTypeOK
<1> HIDE DEF e
<1>6. /\ DOMAIN Append(cm[c].log, e) = 1..(n + 1) /\ Append(cm[c].log, e)[n + 1] = e
      /\ \A i \in 1..n : Append(cm[c].log, e)[i] = cm[c].log[i]
  BY <1>4, <1>5, AppendProperties
<1>7. LogOK(cm[c]) /\ \A i \in 1..n : /\ Applies(hist[k][i], csBody[cm[c].log[i].key.id])
                       /\ hist[k][i + 1] = Patch(hist[k][i], csBody[cm[c].log[i].key.id])
  BY <1>3, <1>4 DEF LogOK
<1>8. /\ Len(h) = n + 1 /\ \A i \in 1..(n + 1) : hist'[k][i] = h[i]
      /\ hist'[k][n + 2] = Patch(h[n + 1], cs)
  <2>1. /\ Len(h) = n + 1 /\ \A i \in 1..Len(h) : hist'[k][i] = h[i]
        /\ hist'[k][Len(h) + 1] = Patch(h[Len(h)], cs)
    BY CommitGrows
  <2> QED
    BY <1>4, <2>1
<1>9. Applies(h[n + 1], cs)
  <2>1. pc[c] \in InSavepoint /\ Upto(c) = cm[c].seq /\ snapshotKey[c] = k
    BY SavepointFacts DEF InSavepoint, Upto
  <2>4. /\ cm[c].snap.seq <= cm[c].seq /\ cm[c].seq <= cm[c].seq
        /\ cm[c].seq - cm[c].snap.seq + 1 = n + 1
    BY <1>4
  <2>2. Content(k, cm[c].seq) = h[n + 1]
    BY <1>3, <1>4, <2>4, KnownSpan
  <2>3. ContentInv(c)
    BY <1>1 DEF DataInv
  <2> QED
    BY <1>1, <2>1, <2>2, <2>3 DEF ContentInv
<1>10. UNCHANGED csBody /\ e.key.id = csKey[c].id
  BY DEF PutCommit, blobVars, e
<1>11. ASSUME NEW i \in 1..(n + 1)
       PROVE  /\ Applies(hist'[k][i], csBody'[manifest'.log[i].key.id])
              /\ hist'[k][i + 1] = Patch(hist'[k][i], csBody'[manifest'.log[i].key.id])
  <2>1. CASE i \in 1..n
    <3>1. i + 1 \in 1..(n + 1) /\ i \in 1..(n + 1)
      BY <1>4, <2>1
    <3>2. csBody'[manifest'.log[i].key.id] = csBody[cm[c].log[i].key.id]
      BY <1>2, <1>6, <1>10, <2>1
    <3>3. hist'[k][i] = hist[k][i] /\ hist'[k][i + 1] = hist[k][i + 1]
      BY <1>8, <3>1
    <3> QED
      BY <1>7, <2>1, <3>2, <3>3
  <2>2. CASE i = n + 1
    <3>1. i + 1 = n + 2 /\ csBody'[manifest'.log[i].key.id] = cs
      BY <1>2, <1>4, <1>6, <1>10, <2>2 DEF Mine
    <3> QED
      BY <1>8, <1>9, <2>2, <3>1
  <2> QED
    BY <1>4, <2>1, <2>2
<1> QED
  BY <1>2, <1>6, <1>11 DEF LogOK
-----------------------------------------------------------------------------
(***************************************************************************)
(* The local file of the client that takes the step.                       *)
(***************************************************************************)

\* An operation that returns: a SAVEPOINT is rolled back, to what the file
\* held at savedSeq; if localSeq went on since, the client is stale.
LEMMA ReturnContent ==
  ASSUME Typed, Grows, NEW c \in Clients, ContentInv(c), ~Dirty(c), Return(c)
  PROVE  ContentInv(c)'
<1>1. /\ pc'[c] = "idle" /\ conn'[c] = RolledBack(c) /\ saved'[c] = NoConn
      /\ localSeq'[c] = localSeq[c] /\ snapshotKey'[c] = snapshotKey[c]
      /\ c \notin stale' => c \notin stale /\ (saved[c] = NoConn \/ localSeq[c] = savedSeq[c])
  BY DEF Return, Goto, StaleAfterRollback, Typed, TypeOK, ClientTypeOK
<1> SUFFICES ASSUME c \notin stale', conn'[c] # NoConn
             PROVE  Agree(conn'[c], Content(snapshotKey[c], localSeq[c])')
  BY <1>1 DEF ContentInv, InSavepoint, Content, Pos
<1>2. conn[c] # NoConn
  BY <1>1, ClientFacts DEF RolledBack, FlowInv, InSavepoint, Synced
<1>3. Agree(conn'[c], Content(snapshotKey[c], localSeq[c]))
  BY <1>1, <1>2 DEF RolledBack, ContentInv
<1>4. /\ snapshotKey[c] = cm[c].snap.key /\ cm[c].snap.seq <= localSeq[c] /\ localSeq[c] <= cm[c].seq
      /\ cm[c] \in Manifests /\ Known(cm[c]) /\ localSeq[c] \in Nat
  BY <1>2, ClientFacts DEF PositionInv
<1>5. hist'[snapshotKey[c]][localSeq[c] - base'[snapshotKey[c]].seq + 1]
        = hist[snapshotKey[c]][localSeq[c] - base[snapshotKey[c]].seq + 1]
  BY <1>4, SpanStays
<1> QED
  BY <1>1, <1>3, <1>5 DEF Content, Pos

\* A handle that is closed holds nothing.
LEMMA ShutContent ==
  ASSUME Typed, NEW c \in Clients, Shut(c)
  PROVE  ContentInv(c)'
BY DEF Shut, Goto, Typed, TypeOK, ClientTypeOK, ContentInv, InSavepoint

\* A sync keeps the connection only where it may be patched up to m.
LEMMA SyncContent ==
  ASSUME Typed, Grows, NEW c \in Clients, NEW m \in Manifests, Known(m),
         NEW cn \in DB \cup {NoConn}, NEW key \in Nat, NEW next \in Rets,
         cn # NoConn /\ key = m.snap.key => localSeq[c] <= m.seq,
         syncToManifest(c, m, cn, key, next), saved'[c] = NoConn,
         c \notin stale' /\ cn # NoConn /\ key = m.snap.key
           => Agree(cn, Content(key, localSeq[c]))
  PROVE  ContentInv(c)'
<1>1. /\ localSeq'[c] = localSeq[c]
      /\ conn'[c] # NoConn =>
           /\ conn'[c] = cn /\ snapshotKey'[c] = key /\ key = m.snap.key
           /\ m.snap.seq <= localSeq[c] /\ localSeq[c] <= m.seq
      /\ pc'[c] \in {"download", "fetch", next}
  BY SyncFacts DEF Typed
<1>2. pc'[c] \notin InSavepoint
  BY <1>1 DEF InSavepoint, Rets, OpenRets
<1> SUFFICES ASSUME c \notin stale', conn'[c] # NoConn
             PROVE  Agree(conn'[c], hist'[key][localSeq[c] - base'[key].seq + 1])
  BY <1>1, <1>2 DEF ContentInv, Content, Pos
<1>3. localSeq[c] \in Nat
  BY ClientFacts
<1>4. hist'[key][localSeq[c] - base'[key].seq + 1] = hist[key][localSeq[c] - base[key].seq + 1]
  BY <1>1, <1>3, SpanStays
<1> QED
  BY <1>1, <1>4 DEF Content, Pos

\* Steps of a sync, of Open and of View.
LEMMA ClientContent ==
  ASSUME Typed, Grows, NEW c \in Clients, ContentInv(c), LogOK(cm[c]),
         ClientStep(c), UNCHANGED <<updateVars, todo, lastVer>>
  PROVE  ContentInv(c)'
<1>0. Shapes
  BY DEF Typed, TypeOK, ClientTypeOK, CommitTypeOK, MigrateTypeOK, Shapes
<1> USE DEF Shapes
<1>1. CASE Refresh(c)
  <2>1. /\ manifest # NoManifest /\ saved'[c] = saved[c] /\ stale' = stale /\ pc[c] = "refresh"
        /\ syncToManifest(c, manifest, conn[c], snapshotKey[c], ret[c])
    BY <1>1 DEF Refresh, At
  <2>2. saved[c] = NoConn /\ ~Dirty(c)
    BY <2>1, ClientFacts DEF FlowInv, InSavepoint, Dirty
  <2>3. conn[c] # NoConn /\ snapshotKey[c] = manifest.snap.key => localSeq[c] <= manifest.seq
    BY <2>1, SyncBound
  <2>4. manifest \in Manifests /\ Known(manifest)
    BY <2>1, ManifestFacts
  <2>5. c \notin stale /\ conn[c] # NoConn => Agree(conn[c], Content(snapshotKey[c], localSeq[c]))
    BY <2>2 DEF ContentInv
  <2> QED
    BY <2>1, <2>2, <2>3, <2>4, <2>5, ClientFacts, SyncContent
<1>2. CASE Download(c)
  <2> DEFINE k == cm[c].snap.key
  <2>1. /\ pc[c] = "download" /\ conn'[c] = hist[k][1] /\ localSeq'[c] = cm[c].snap.seq
        /\ snapshotKey'[c] = k /\ saved' = saved /\ UNCHANGED <<hist, base>>
        /\ pc'[c] \in {ret[c], "fetch"}
    BY <1>0, <1>2 DEF Download, At, Goto, SnapBody, epoch, storeVars
  <2>2. saved[c] = NoConn /\ pc'[c] \notin InSavepoint
    BY <1>0, <2>1, ClientFacts DEF FlowInv, InSavepoint, Rets, OpenRets
  <2>3. cm[c].snap.seq - base[k].seq + 1 = 1
    BY ClientFacts DEF Known, Manifests, blobRef
  <2> QED
    BY <2>1, <2>2, <2>3 DEF ContentInv, Content, Pos, Agree
<1>3. CASE Apply(c)
  <2> DEFINE k == cm[c].snap.key
             n == localSeq[c]
  <2>1. PICK i \in DOMAIN cm[c].log :
          /\ pc[c] = "apply" /\ FirstMissing(cm[c], n, i)
          /\ conn'[c] = Patch(conn[c], csBody[cm[c].log[i].key.id])
          /\ localSeq'[c] = cm[c].log[i].seq
          /\ pc'[c] \in {ret[c], "apply"}
          /\ UNCHANGED <<hist, base, csBody, saved, snapshotKey, stale>>
    BY <1>0, <1>3 DEF Apply, At, Goto, storeVars
  <2> DEFINE cs == csBody[cm[c].log[i].key.id]
  <2>2. /\ saved[c] = NoConn /\ pc'[c] \notin InSavepoint /\ ~Dirty(c)
        /\ conn[c] \in DB /\ conn[c] # NoConn
        /\ snapshotKey[c] = k /\ cm[c].snap.seq <= n /\ n <= cm[c].seq /\ n \in Nat
    BY <1>0, <2>1, ClientFacts DEF FlowInv, InSavepoint, Synced, PositionInv, Rets, OpenRets, Dirty
  <2>3. cm[c] \in Manifests /\ Known(cm[c]) /\ cs \in Changeset
    <3>1. cm[c] \in Manifests /\ Known(cm[c])
      BY ClientFacts
    <3>2. cm[c].log[i].key.id \in DOMAIN csBody
      BY <3>1 DEF Known
    <3> QED
      BY <3>1, <3>2 DEF Typed, TypeOK, StoreTypeOK
  <2>4. /\ i = n - cm[c].snap.seq + 1 /\ cm[c].log[i].seq = n + 1 /\ n + 1 <= cm[c].seq
    BY <2>1, <2>2, <2>3, MissingFacts
  <2>5. Content(k, n) = hist[k][i] /\ hist[k][i] \in DB
    BY <2>2, <2>3, <2>4, KnownSpan
  <2>6. cm[c].snap.seq = base[k].seq /\ cm[c].snap.seq \in Nat
    BY <2>3 DEF Known, Manifests, blobRef
  <2>7. n + 1 - base[k].seq + 1 = i + 1
    <3> DEFINE b == base[k].seq
    <3>1. b \in Nat /\ n \in Nat /\ i = n - b + 1
      BY <2>2, <2>4, <2>6
    <3> HIDE DEF b
    <3>2. n + 1 - b + 1 = i + 1
      BY <3>1
    <3> QED
      BY <3>2 DEF b
  <2>9. localSeq'[c] = n + 1 /\ conn'[c] = Patch(conn[c], cs)
    BY <2>1, <2>4
  <2>8. ASSUME c \notin stale PROVE Agree(Patch(conn[c], cs), hist[k][i + 1])
    <3>1. Agree(conn[c], hist[k][i])
      BY <2>2, <2>5, <2>8, ClientFacts DEF ContentInv
    <3>2. hist[k][i + 1] = Patch(hist[k][i], cs)
      BY DEF LogOK
    <3> QED
      BY <2>2, <2>3, <2>5, <3>1, <3>2, AgreeApplies
  <2>10. hist'[snapshotKey'[c]][localSeq'[c] - base'[snapshotKey'[c]].seq + 1] = hist[k][i + 1]
    <3>1. hist' = hist /\ base' = base /\ snapshotKey'[c] = k
      BY <2>1, <2>2
    <3> QED
      BY <2>2, <2>6, <2>7, <2>9, <3>1
  <2> QED
    BY <2>1, <2>2, <2>8, <2>9, <2>10 DEF ContentInv, Content, Pos
<1>4. ASSUME NEW m \in Manifests, Known(m), OpenWith(c, m), pc[c] \in {"open", "bootput"}
      PROVE  ContentInv(c)'
  <2>1. saved'[c] = NoConn
    BY <1>4, ClientFacts DEF OpenWith, FlowInv, InSavepoint
  <2>2. PICK next \in Rets : syncToManifest(c, m, NoConn, NoSnap, next)
    BY <1>4 DEF OpenWith, Rets, OpenRets
  <2> QED
    BY <1>4, <2>1, <2>2, SyncContent DEF NoSnap
<1>5. CASE Open(c)
  BY <1>4, <1>5, ManifestFacts DEF Open, At
<1>6. CASE BootPut(c)
  <2>1. InitManifest \in Manifests /\ Known(InitManifest)
    BY InitManifestType, InitManifestKnown DEF Typed, TypeOK, StoreTypeOK, StructInv
  <2> QED
    BY <1>4, <1>6, <2>1 DEF BootPut, At
<1>7. CASE \/ Fetch(c) \/ OpenEmpty(c) \/ BootUpload(c) \/ BootLost(c)
           \/ (BootPhantom(c) /\ Goto(c, "open") /\ UNCHANGED connVars)
  <2>1. UNCHANGED connVars /\ pc'[c] \notin InSavepoint /\ ~Dirty(c)
    BY <1>0, <1>7 DEF Fetch, OpenEmpty, BootUpload, BootLost, BootPhantom, At, Goto, InSavepoint, Dirty
  <2> QED
    BY <2>1, ContentStays DEF connVars
<1>8. CASE View(c) \/ (BootPhantom(c) /\ Fail(c))
  <2>1. Return(c) \/ Shut(c)
    BY <1>8 DEF View, Fail
  <2>2. ~Dirty(c)
    BY <1>8 DEF View, BootPhantom, At, Dirty
  <2> QED
    BY <2>1, <2>2, ReturnContent, ShutContent
<1>9. CASE BootPhantom(c)
  <2>1. Fail(c) \/ (Goto(c, "open") /\ UNCHANGED connVars)
    BY <1>9 DEF BootPhantom
  <2> QED
    BY <1>7, <1>8, <1>9, <2>1
<1> QED
  BY <1>1, <1>2, <1>3, <1>5, <1>6, <1>7, <1>8, <1>9 DEF ClientStep
\* A ROLLBACK gives back what the file held at savedSeq, and the sync goes on
\* from there as if it were localSeq: the client is stale if they differ.
LEMMA ResyncContent ==
  ASSUME Typed, Grows, NEW c \in Clients, ContentInv(c), pc[c] \in InSavepoint,
         NEW m \in Manifests, Known(m), rollbackAndResync(c, m),
         snapshotKey[c] = m.snap.key => localSeq[c] <= m.seq
  PROVE  ContentInv(c)'
<1>1. PICK next \in Rets : syncToManifest(c, m, saved[c], snapshotKey[c], next)
  BY DEF rollbackAndResync, Again, Rets, OpenRets
<1>2. /\ saved'[c] = NoConn
      /\ c \notin stale' => c \notin stale /\ (saved[c] = NoConn \/ localSeq[c] = savedSeq[c])
  BY DEF rollbackAndResync, StaleAfterRollback, Typed, TypeOK, ClientTypeOK
<1>3. c \notin stale' /\ saved[c] # NoConn => Agree(saved[c], Content(snapshotKey[c], localSeq[c]))
  BY <1>2 DEF ContentInv
<1> QED
  BY <1>1, <1>2, <1>3, ClientFacts, SyncContent

\* The step that captures: fn ran on conn, which the SAVEPOINT keeps.
LEMMA CaptureContent ==
  ASSUME Typed, Grows, NEW c \in Clients, ContentInv(c), Capture(c)
  PROVE  ContentInv(c)'
<1> DEFINE after == Effect[fn[c]][conn[c]]
           cs == Diff(conn[c], after)
           k == snapshotKey[c]
           n == localSeq[c]
           b == Content(k, n)
<1>1. /\ pc[c] = "capture" /\ saved'[c] = conn[c] /\ savedSeq'[c] = n /\ conn'[c] = after
      /\ csBody' = Append(csBody, cs) /\ csKey'[c].id = Len(csBody) + 1
      /\ pc'[c] \in {"upload", "unorphan"}
      /\ UNCHANGED <<hist, base, localSeq, snapshotKey, stale>>
  BY DEF Capture, At, Goto, Typed, TypeOK, ClientTypeOK, CommitTypeOK
<1>2. conn[c] \in DB /\ conn[c] # NoConn /\ saved[c] = NoConn /\ ~Dirty(c) /\ fn[c] \in Txns
  BY <1>1, ClientFacts DEF FlowInv, InSavepoint, Synced, Dirty, Target, SyncLabels
<1>3. after \in DB
  BY <1>2, CommitAssumption
<1>4. cs \in Changeset
  BY <1>2, <1>3, DiffType
<1>5. csBody \in Seq(Changeset)
  BY DEF Typed, TypeOK, StoreTypeOK
<1>6. Mine(c)' = cs
  BY <1>1, <1>4, <1>5 DEF Mine
<1>7. b \in DB
  <2>1. /\ k = cm[c].snap.key /\ cm[c].snap.seq <= n /\ n <= cm[c].seq /\ n \in Nat
    BY <1>2, ClientFacts DEF PositionInv
  <2> QED
    BY <2>1, ClientFacts, KnownSpan
<1>8. ASSUME c \notin stale
      PROVE  /\ Agree(conn[c], b)
             /\ \A r \in DOMAIN cs : cs[r].old # cs[r].new
             /\ Applies(b, cs) /\ Agree(after, Patch(b, cs))
  <2>1. Agree(conn[c], b)
    BY <1>2, <1>8 DEF ContentInv
  <2>2. /\ \A r \in DOMAIN cs : cs[r].old # cs[r].new
        /\ Applies(conn[c], cs) /\ Agree(after, Patch(conn[c], cs))
    BY <1>2, <1>3, DiffReplays
  <2>3. Applies(b, cs) /\ Agree(Patch(conn[c], cs), Patch(b, cs))
    BY <1>2, <1>4, <1>7, <2>1, <2>2, AgreeApplies
  <2> QED
    BY <2>1, <2>2, <2>3 DEF Agree
<1>9. hist' = hist /\ base' = base /\ snapshotKey'[c] = k /\ localSeq'[c] = n /\ savedSeq'[c] = n
      /\ pc'[c] # "rebase" /\ saved'[c] # NoConn
  BY <1>1, <1>2
<1>10. Content(snapshotKey[c], Upto(c))' = b /\ Content(snapshotKey[c], savedSeq[c])' = b
  BY <1>9 DEF Content, Pos, Upto
<1> QED
  BY <1>1, <1>6, <1>8, <1>9, <1>10 DEF ContentInv

\* A changeset of another client is applied on top of the uncommitted one.
LEMMA RebaseContent ==
  ASSUME Typed, Grows, NEW c \in Clients, ContentInv(c), LogOK(m2[c]), RebaseEntry(c)
  PROVE  ContentInv(c)'
<1> DEFINE k == m2[c].snap.key
           n == reb[c]
<1>1. PICK i \in DOMAIN m2[c].log :
        /\ pc[c] = "rebase" /\ FirstMissing(m2[c], n, i)
        /\ \/ /\ Applies(conn[c], csBody[m2[c].log[i].key.id])
              /\ conn'[c] = Patch(conn[c], csBody[m2[c].log[i].key.id])
              /\ reb'[c] = m2[c].log[i].seq
              /\ UNCHANGED <<storeVars, pc, saved, localSeq, snapshotKey, savedSeq, stale, csKey>>
           \/ rollbackAndResync(c, m2[c])
  BY DEF RebaseEntry, At, Typed, TypeOK, ClientTypeOK, CommitTypeOK, flowVars
<1> DEFINE cs == csBody[m2[c].log[i].key.id]
<1>2. m2[c] \in Manifests /\ Known(m2[c]) /\ cs \in Changeset
  <2>1. m2[c] \in Manifests /\ Known(m2[c]) /\ i \in DOMAIN m2[c].log
    BY <1>1, ClientFacts
  <2>2. m2[c].log[i].key.id \in DOMAIN csBody
    BY <2>1 DEF Known
  <2>3. csBody \in Seq(Changeset)
    BY DEF Typed, TypeOK, StoreTypeOK
  <2> QED
    BY <2>1, <2>2, <2>3
<1>3. /\ snapshotKey[c] = k /\ m2[c].snap.seq <= n /\ n <= m2[c].seq /\ n \in Nat /\ localSeq[c] <= m2[c].seq
  <2>1. k = cm[c].snap.key /\ localSeq[c] <= n /\ n <= m2[c].seq /\ n \in Nat /\ localSeq[c] \in Nat
        /\ Known(cm[c]) /\ cm[c] \in Manifests
    BY <1>1, ClientFacts DEF PositionInv
  <2>2. snapshotKey[c] = cm[c].snap.key /\ cm[c].snap.seq <= localSeq[c]
    BY <1>1, SavepointFacts DEF InSavepoint
  <2>3. m2[c].snap.seq = cm[c].snap.seq /\ m2[c].snap.seq \in Nat /\ m2[c].seq \in Nat
    BY <1>2, <2>1 DEF Known, Manifests, blobRef
  <2> QED
    BY <2>1, <2>2, <2>3
<1>4. CASE rollbackAndResync(c, m2[c])
  BY <1>1, <1>2, <1>3, <1>4, ResyncContent DEF InSavepoint
<1>5. CASE ~rollbackAndResync(c, m2[c])
  <2>1. /\ i = n - m2[c].snap.seq + 1 /\ m2[c].log[i].seq = n + 1 /\ n + 1 <= m2[c].seq
    BY <1>1, <1>2, <1>3, MissingFacts
  <2>2. Content(k, n) = hist[k][i] /\ hist[k][i] \in DB
    BY <1>2, <1>3, <2>1, KnownSpan
  <2>3. m2[c].snap.seq = base[k].seq /\ m2[c].snap.seq \in Nat
    BY <1>2 DEF Known, Manifests, blobRef
  <2>4. n + 1 - base[k].seq + 1 = i + 1
    BY <1>3, <2>1, <2>3
  <2>5. /\ hist' = hist /\ base' = base /\ csBody' = csBody /\ snapshotKey'[c] = k /\ reb'[c] = n + 1
        /\ pc'[c] = "rebase" /\ saved'[c] = saved[c] /\ localSeq'[c] = localSeq[c]
        /\ savedSeq'[c] = savedSeq[c] /\ stale' = stale /\ csKey'[c] = csKey[c]
        /\ conn'[c] = Patch(conn[c], cs) /\ Applies(conn[c], cs)
    BY <1>1, <1>3, <1>5, <2>1 DEF storeVars
  <2>6. Content(snapshotKey[c], Upto(c)) = hist[k][i]
    BY <1>1, <1>3, <2>2 DEF Upto
  <2>7. hist'[snapshotKey'[c]][reb'[c] - base'[snapshotKey'[c]].seq + 1] = hist[k][i + 1]
    <3>1. snapshotKey'[c] = k /\ reb'[c] = n + 1 /\ base' = base /\ hist' = hist
      BY <2>5
    <3>2. reb'[c] - base'[snapshotKey'[c]].seq + 1 = i + 1
      <4>1. base'[snapshotKey'[c]].seq = base[k].seq
        BY <3>1
      <4> QED
        BY <1>3, <2>3, <2>4, <3>1, <4>1
    <3>3. hist'[snapshotKey'[c]] = hist[k]
      BY <3>1
    <3> QED
      BY <3>2, <3>3
  <2>8. Content(snapshotKey[c], Upto(c))' = hist[k][i + 1]
    BY <2>5, <2>7 DEF Content, Pos, Upto
  <2>9. Mine(c)' = Mine(c) /\ Content(snapshotKey[c], savedSeq[c])' = Content(snapshotKey[c], savedSeq[c])
    BY <1>3, <2>5 DEF Mine, Content, Pos
  <2>10. conn[c] \in DB /\ saved[c] \in DB /\ Mine(c) \in Changeset /\ pc[c] \in InSavepoint
    BY <1>1, SavepointFacts DEF InSavepoint, Mine, Typed, TypeOK, StoreTypeOK
  <2>11. ASSUME c \notin stale
         PROVE  /\ \A r \in DOMAIN Mine(c) : Mine(c)[r].old # Mine(c)[r].new
                /\ Applies(hist[k][i + 1], Mine(c))
                /\ Agree(Patch(conn[c], cs), Patch(hist[k][i + 1], Mine(c)))
                /\ Agree(saved[c], Content(snapshotKey[c], savedSeq[c]))
    <3>1. /\ \A r \in DOMAIN Mine(c) : Mine(c)[r].old # Mine(c)[r].new
          /\ Applies(hist[k][i], Mine(c)) /\ Agree(conn[c], Patch(hist[k][i], Mine(c)))
          /\ Agree(saved[c], Content(snapshotKey[c], savedSeq[c]))
      BY <2>6, <2>10, <2>11, ClientFacts, ClientAssumption DEF ContentInv
    <3>2. hist[k][i + 1] = Patch(hist[k][i], cs) /\ Applies(hist[k][i], cs)
      BY <1>1 DEF LogOK
    <3>3. /\ Applies(Patch(hist[k][i], cs), Mine(c))
          /\ Agree(Patch(conn[c], cs), Patch(Patch(hist[k][i], cs), Mine(c)))
      <4> HIDE DEF cs
      <4> QED
        BY <1>2, <2>2, <2>5, <2>10, <3>1, <3>2, RebaseSound
    <3> QED
      BY <3>1, <3>2, <3>3
  <2>12. saved[c] # NoConn
    BY <2>10, ClientAssumption
  <2> QED
    BY <2>5, <2>8, <2>9, <2>11, <2>12 DEF ContentInv
<1> QED
  BY <1>4, <1>5
\* The commit of a client that is not stale is what its file holds.
LEMMA CasContent ==
  ASSUME Typed, Grows, NEW c \in Clients, ContentInv(c), Cas(c)
  PROVE  ContentInv(c)'
<1> DEFINE k == cm[c].snap.key
           h == hist[k]
           n == Len(h)
<1>1. /\ pc[c] = "cas" /\ PutCommit(c) /\ conn'[c] = conn[c] /\ saved'[c] = NoConn
      /\ localSeq'[c] = cm[c].seq + 1 /\ snapshotKey'[c] = snapshotKey[c] /\ stale' = stale
      /\ pc'[c] \in {"idle", "refresh"} /\ base' = base
  BY DEF Cas, At, UpdateDone, Goto, PutCommit, Typed, TypeOK, ClientTypeOK
<1>2. /\ n \in Nat /\ n = Len(cm[c].log) + 1 /\ hist'[k][n + 1] = Patch(h[n], Mine(c))
  BY <1>1, CommitGrows
<1>3. /\ snapshotKey[c] = k /\ localSeq[c] = cm[c].seq /\ pc[c] \in InSavepoint /\ Upto(c) = cm[c].seq
  BY <1>1, SavepointFacts DEF InSavepoint, Upto
<1>4. /\ cm[c].seq = base[k].seq + Len(cm[c].log) /\ base[k].seq \in Nat /\ cm[c].seq \in Nat
      /\ Len(cm[c].log) \in Nat
  <2>1. cm[c] \in Manifests /\ Known(cm[c])
    BY ClientFacts
  <2> QED
    BY <2>1 DEF Known, Manifests, blobRef
<1>5. cm[c].seq - base[k].seq + 1 = n /\ cm[c].seq + 1 - base[k].seq + 1 = n + 1
  <2> DEFINE s == cm[c].seq
             b == base[k].seq
             l == Len(cm[c].log)
  <2>1. s \in Nat /\ b \in Nat /\ l \in Nat /\ s = b + l /\ n = l + 1
    BY <1>2, <1>4
  <2> HIDE DEF n, s, b, l
  <2>2. s - b + 1 = n /\ s + 1 - b + 1 = n + 1
    BY <2>1
  <2> QED
    BY <2>2 DEF s, b
<1>6. c \notin stale => Agree(conn[c], Patch(h[n], Mine(c)))
  BY <1>3, <1>4, <1>5 DEF ContentInv, Content, Pos
<1>7. hist'[snapshotKey'[c]][localSeq'[c] - base'[snapshotKey'[c]].seq + 1] = Patch(h[n], Mine(c))
  <2>1. localSeq'[c] - base'[snapshotKey'[c]].seq + 1 = n + 1
    <3>1. snapshotKey'[c] = k /\ base' = base /\ localSeq'[c] = cm[c].seq + 1
      BY <1>1, <1>3
    <3> HIDE DEF n
    <3> QED
      BY <1>4, <1>5, <3>1
  <2> QED
    BY <1>1, <1>2, <1>3, <2>1
<1> QED
  BY <1>1, <1>6, <1>7 DEF ContentInv, Content, Pos, InSavepoint

\* A clean rebase ends with the file of its new manifest.
LEMMA RebasedContent ==
  ASSUME Typed, Grows, NEW c \in Clients, ContentInv(c), Rebased(c)
  PROVE  ContentInv(c)'
<1>1. /\ pc[c] = "rebase" /\ Missing(m2[c], reb[c]) = {} /\ localSeq'[c] = m2[c].seq
      /\ pc'[c] \in {"cas", "exhausted"}
      /\ UNCHANGED <<hist, base, csBody, conn, saved, snapshotKey, savedSeq, stale, csKey>>
  BY DEF Rebased, At, Goto, Again, storeVars, Typed, TypeOK, ClientTypeOK
<1>2. m2[c].seq = reb[c]
  <2>1. /\ reb[c] <= m2[c].seq /\ m2[c].snap.seq <= reb[c] /\ reb[c] \in Nat
    <3>1. m2[c].snap.key = cm[c].snap.key /\ localSeq[c] <= reb[c] /\ reb[c] <= m2[c].seq
          /\ Known(cm[c]) /\ Known(m2[c]) /\ reb[c] \in Nat /\ localSeq[c] \in Nat
      BY <1>1, ClientFacts DEF PositionInv
    <3>2. m2[c].snap.seq = cm[c].snap.seq /\ cm[c].snap.seq \in Nat
      BY <3>1, ClientFacts DEF Known, Manifests, blobRef
    <3>3. cm[c].snap.seq <= localSeq[c]
      BY <1>1, SavepointFacts DEF InSavepoint
    <3> QED
      BY <3>1, <3>2, <3>3
  <2>2. m2[c].seq <= reb[c] /\ m2[c].seq \in Nat
    BY <1>1, <2>1, ClientFacts, MissingFacts DEF Manifests
  <2> QED
    BY <2>1, <2>2
<1>3. pc[c] \in InSavepoint /\ saved[c] # NoConn /\ Upto(c) = m2[c].seq
  BY <1>1, <1>2, ClientFacts DEF FlowInv, InSavepoint, Upto
<1>4. Upto(c)' = Upto(c)
  BY <1>1, <1>2, <1>3 DEF Upto
<1>5. Content(snapshotKey[c], Upto(c))' = Content(snapshotKey[c], Upto(c))
      /\ Content(snapshotKey[c], savedSeq[c])' = Content(snapshotKey[c], savedSeq[c])
      /\ Mine(c)' = Mine(c) /\ conn'[c] = conn[c] /\ saved'[c] = saved[c] /\ stale' = stale
  BY <1>1, <1>4 DEF Content, Pos, Mine
<1> QED
  BY <1>1, <1>3, <1>5 DEF ContentInv

\* The steps of doUpdate.
LEMMA CommitContent ==
  ASSUME Typed, Grows, NEW c \in Clients, ContentInv(c), LogOK(m2[c]),
         CommitStep(c), UNCHANGED <<todo, lastVer>>
  PROVE  ContentInv(c)'
<1>0. Shapes
  BY DEF Typed, TypeOK, ClientTypeOK, CommitTypeOK, MigrateTypeOK, Shapes
<1> USE DEF Shapes
<1>1. CASE CaptureNothing(c)
  <2>1. CASE Return(c)
    BY <1>1, <2>1, ReturnContent DEF CaptureNothing, At, Dirty
  <2>2. CASE ~Return(c)
    <3>1. UNCHANGED connVars /\ pc[c] = "capture" /\ pc'[c] \in {"idle", "refresh"}
      BY <1>0, <1>1, <2>2 DEF CaptureNothing, At, UpdateDone, Goto
    <3> QED
      BY <3>1, ContentStays DEF connVars, Dirty, InSavepoint
  <2> QED
    BY <2>1, <2>2
<1>2. CASE Unorphan(c) \/ Upload(c) \/ CasLost(c)
  <2>1. UNCHANGED connVars /\ pc[c] \in {"unorphan", "upload", "cas"} /\ csKey'[c] = csKey[c]
        /\ pc'[c] \in {"upload", "cas", "reload"}
    BY <1>0, <1>2 DEF Unorphan, Upload, CasLost, At, Goto, updateVars
  <2>2. Upto(c)' = Upto(c)
    BY <2>1 DEF Upto, connVars
  <2> QED
    BY <2>1, <2>2, ContentStays DEF connVars, Dirty, InSavepoint
<1>3. CASE CasPhantom(c) \/ RebaseNotFound(c) \/ Exhausted(c)
  BY <1>3, ReturnContent DEF CasPhantom, RebaseNotFound, Exhausted, At, Dirty
<1>4. CASE Reload(c)
  <2>1. CASE rollbackAndResync(c, manifest)
    <3>1. /\ manifest # NoManifest /\ pc[c] = "reload" /\ pc[c] \in InSavepoint /\ conn[c] # NoConn
      BY <1>4, ClientFacts DEF Reload, At, InSavepoint, FlowInv, Synced
    <3>2. snapshotKey[c] = manifest.snap.key => localSeq[c] <= manifest.seq
      BY <3>1, SyncBound
    <3> QED
      BY <2>1, <3>1, <3>2, ManifestFacts, ResyncContent
  <2>2. CASE ~rollbackAndResync(c, manifest)
    <3>1. UNCHANGED connVars /\ pc[c] = "reload" /\ csKey'[c] = csKey[c] /\ pc'[c] = "rebase"
          /\ reb'[c] = localSeq[c]
      BY <1>0, <1>4, <2>2 DEF Reload, At, Goto
    <3>2. Upto(c)' = Upto(c)
      BY <3>1 DEF Upto, connVars
    <3> QED
      BY <3>1, <3>2, ContentStays DEF connVars, Dirty, InSavepoint
  <2> QED
    BY <2>1, <2>2
<1> QED
  BY <1>1, <1>2, <1>3, <1>4, CaptureContent, RebaseContent, CasContent, RebasedContent DEF CommitStep
-----------------------------------------------------------------------------
\* A client whose snapshot became the one of its manifest holds that snapshot.
LEMMA EpochContent ==
  ASSUME Typed, NEW c \in Clients, pc[c] \in Pending, pc'[c] \in {"idle", "migrate"},
         snapshotKey'[c] = snapKey[c], localSeq'[c] = cm[c].seq,
         UNCHANGED <<conn, saved, hist, base>>
  PROVE  ContentInv(c)'
<1> DEFINE s == snapKey[c]
<1>1. hist[s] = <<conn[c]>> /\ base[s].seq = cm[c].seq /\ cm[c].seq \in Nat
  <2>1. cm[c] \in Manifests /\ SnapInv(c)
    BY ClientFacts
  <2> QED
    BY <2>1 DEF SnapInv, Pending, Manifests
<1>2. saved[c] = NoConn
  BY ClientFacts DEF FlowInv, InSavepoint, Pending
<1>3. hist'[snapshotKey'[c]][localSeq'[c] - base'[snapshotKey'[c]].seq + 1] = conn'[c]
  BY <1>1
<1> QED
  BY <1>2, <1>3 DEF ContentInv, Content, Pos, Agree, InSavepoint

\* The steps of compactLocked.
LEMMA CompactContent ==
  ASSUME Typed, Grows, NEW c \in Clients, ContentInv(c),
         CompactStep(c), UNCHANGED <<todo, lastVer>>
  PROVE  ContentInv(c)'
<1>0. Shapes /\ snapKey \in [Clients -> Nat]
  BY DEF Typed, TypeOK, ClientTypeOK, CommitTypeOK, MigrateTypeOK, Shapes
<1> USE DEF Shapes
<1>1. CASE CompactCas(c)
  <2>1. pc[c] = "compactcas" /\ localSeq[c] = cm[c].seq
    BY <1>1, ClientFacts DEF CompactCas, At, PositionInv, Synced
  <2> QED
    BY <1>0, <1>1, <2>1, EpochContent DEF CompactCas, PutCompact, Goto, Pending
<1>2. CASE CompactNothing(c) \/ CompactPhantom(c) \/ (CompactLost(c) /\ Return(c))
  BY <1>2, ReturnContent DEF CompactNothing, CompactPhantom, CompactLost, At, Dirty
<1>3. CASE CompactUpload(c) \/ (CompactLost(c) /\ ~Return(c))
  <2>1. UNCHANGED connVars /\ pc[c] \in {"compact", "compactcas"} /\ pc'[c] \in {"compactcas", "refresh"}
    BY <1>0, <1>3 DEF CompactUpload, CompactLost, At, Goto
  <2> QED
    BY <2>1, ContentStays DEF connVars, Dirty, InSavepoint
<1> QED
  BY <1>1, <1>2, <1>3 DEF CompactStep

\* The steps of runMigrations: a file that is already migrated is not taken
\* for the current state of the database.
LEMMA MigrateContent ==
  ASSUME Typed, Grows, NEW c \in Clients, ContentInv(c), OpenInv(c),
         MigrateStep(c), UNCHANGED todo
  PROVE  ContentInv(c)'
<1>0. Shapes /\ snapKey \in [Clients -> Nat] /\ Version[c] \in Nat
  BY ClientAssumption DEF Typed, TypeOK, ClientTypeOK, CommitTypeOK, MigrateTypeOK, Shapes
<1> USE DEF Shapes
<1>1. CASE MigrateTooNew(c) \/ MigratePhantom(c)
  BY <1>1, ShutContent DEF MigrateTooNew, MigratePhantom
<1>2. CASE MigrateDone(c) \/ MigrateNext(c)
  <2> DEFINE key == IF manifest.schema = Version[c] THEN snapshotKey[c] ELSE forceRefresh(c, manifest)
  <2>1. /\ pc[c] = "migrate" /\ manifest # NoManifest /\ saved'[c] = saved[c] /\ stale' = stale
        /\ (manifest.schema = Version[c] \/ manifest.schema < Version[c])
    BY <1>0, <1>2 DEF MigrateDone, MigrateNext, At
  <2>2. \E next \in Rets : syncToManifest(c, manifest, conn[c], key, next)
    <3>1. "idle" \in Rets /\ "up" \in Rets
      BY DEF Rets, OpenRets
    <3>2. CASE MigrateDone(c)
      <4>1. key = snapshotKey[c]
        BY <3>2 DEF MigrateDone
      <4> QED
        BY <3>1, <3>2, <4>1 DEF MigrateDone
    <3>3. CASE MigrateNext(c)
      <4>1. manifest.schema \in Nat /\ Version[c] \in Nat /\ manifest.schema < Version[c]
        BY <2>1, <3>3, ManifestFacts, ClientAssumption DEF MigrateNext, Manifests
      <4>2. manifest.schema # Version[c]
        BY <4>1
      <4>3. key = forceRefresh(c, manifest)
        BY <4>2
      <4> QED
        BY <3>1, <3>3, <4>3 DEF MigrateNext
    <3> QED
      BY <1>2, <3>2, <3>3
  <2>p. PICK next \in Rets : syncToManifest(c, manifest, conn[c], key, next)
    BY <2>2
  <2>3. key \in Nat /\ key \in {snapshotKey[c], NoSnap}
    BY <1>0 DEF forceRefresh, NoSnap
  <2>4. manifest \in Manifests /\ Known(manifest) /\ manifest.snap.key # NoSnap
    BY <2>1, ManifestFacts, HistFacts DEF Known, NoSnap
  <2>5. saved[c] = NoConn
    BY <2>1, ClientFacts DEF FlowInv, InSavepoint
  <2>6. ASSUME conn[c] # NoConn, key = manifest.snap.key
        PROVE  key = snapshotKey[c] /\ localSeq[c] <= manifest.seq /\ ~Dirty(c)
    <3>1. key = snapshotKey[c]
      BY <2>3, <2>4, <2>6
    <3>2. localSeq[c] <= manifest.seq
      BY <2>1, <2>6, <3>1, SyncBound
    <3>3. cm[c].schema = manifest.schema /\ cm[c].schema \in Nat
      <4>1. snapshotKey[c] = cm[c].snap.key /\ Known(cm[c]) /\ cm[c] \in Manifests
        BY <2>6, ClientFacts DEF PositionInv
      <4> QED
        BY <2>4, <2>6, <3>1, <4>1 DEF Known, Manifests
    <3>4. ASSUME Dirty(c) PROVE FALSE
      <4>1. lastVer[c] = manifest.schema + 1 /\ lastVer[c] <= Version[c]
        BY <2>1, <3>3, <3>4 DEF Dirty, OpenInv
      <4>2. manifest.schema # Version[c]
        BY <1>0, <3>3, <4>1
      <4> QED
        BY <2>4, <2>6, <4>1, <4>2 DEF forceRefresh
    <3> QED
      BY <3>1, <3>2, <3>4
  <2>7. c \notin stale /\ conn[c] # NoConn /\ key = manifest.snap.key
          => Agree(conn[c], Content(key, localSeq[c]))
    BY <2>5, <2>6 DEF ContentInv
  <2> HIDE DEF key
  <2> QED
    BY <2>1, <2>p, <2>3, <2>4, <2>5, <2>6, <2>7, ClientFacts, SyncContent
<1>3. CASE MigrateUp(c)
  <2>1. pc[c] = "up" /\ saved'[c] = saved[c] /\ pc'[c] = "migcas"
    BY <1>0, <1>3 DEF MigrateUp, At, Goto
  <2>2. saved[c] = NoConn
    BY <2>1, ClientFacts DEF FlowInv, InSavepoint
  <2> QED
    BY <2>1, <2>2 DEF ContentInv, Dirty, InSavepoint
<1>4. CASE MigrateCas(c)
  BY <1>0, <1>4, EpochContent DEF MigrateCas, PutMigrate, At, Goto, Pending
<1>5. CASE MigrateLost(c)
  <2>1. UNCHANGED connVars /\ pc[c] = "migcas" /\ pc'[c] = "migrate" /\ lastVer' = lastVer
    BY <1>0, <1>5 DEF MigrateLost, At, Goto
  <2>2. lastVer[c] = cm[c].schema + 1
    BY <2>1 DEF OpenInv, Target, SyncLabels
  <2> QED
    BY <2>1, <2>2, ContentStays DEF connVars, Dirty, InSavepoint
<1> QED
  BY <1>1, <1>2, <1>3, <1>4, <1>5 DEF MigrateStep
\* What the step of any action of c leaves in the file of c.
LEMMA StepContent ==
  ASSUME Typed, Grows, NEW c \in Clients, ContentInv(c), OpenInv(c), LogOK(cm[c]), LogOK(m2[c]),
         Call(c) \/ Step(c) \/ Disrupt(c)
  PROVE  ContentInv(c)'
<1>0. Shapes
  BY DEF Typed, TypeOK, ClientTypeOK, CommitTypeOK, MigrateTypeOK, Shapes
<1> USE DEF Shapes
<1>1. CASE Call(c)
  <2>1. UNCHANGED connVars /\ pc[c] \in {"closed", "idle"} /\ pc'[c] \in {"open", "refresh"}
    BY <1>0, <1>1 DEF Call, OpenStart, ViewStart, UpdateStart, CompactStart, GCStart, Start, At, Goto
  <2> QED
    BY <2>1, ContentStays DEF connVars, Dirty, InSavepoint
<1>2. CASE Disrupt(c)
  <2>1. Shut(c) \/ (StoreError(c) /\ ret[c] \notin OpenRets /\ Return(c))
    BY <1>2 DEF Disrupt, StoreError, Crash, Close, Fail
  <2>2. ret[c] \notin OpenRets => ~Dirty(c)
    BY DEF OpenInv, Dirty, OpenLabels
  <2> QED
    BY <2>1, <2>2, ShutContent, ReturnContent
<1>3. CASE GCStep(c) /\ UNCHANGED lastVer
  <2>1. CASE GCDone(c)
    BY <2>1, ReturnContent DEF GCDone, At, Dirty
  <2>2. CASE ~GCDone(c)
    <3>1. UNCHANGED connVars /\ pc[c] \in {"gc", "gclist", "gcsweep", "gcsnaps", "gcdelete"}
          /\ pc'[c] \in {"gclist", "gcsweep", "gcsnaps", "gcdelete"}
      BY <1>0, <1>3, <2>2 DEF GCStep, GCStat, GCList, GCSweep, GCSwept, GCSnaps, GCDelete, At, Goto,
         gcFrame
    <3> QED
      BY <3>1, ContentStays DEF connVars, Dirty, InSavepoint
  <2> QED
    BY <2>1, <2>2
<1>4. CASE (RefreshRejected(c) \/ NotFound(c) \/ ApplyConflict(c)) /\ EndEarly(c)
  <2>1. (Return(c) \/ Shut(c)) /\ ~Dirty(c)
    BY <1>4 DEF RefreshRejected, NotFound, ApplyConflict, Fail, At, Dirty
  <2> QED
    BY <2>1, ReturnContent, ShutContent
<1> QED
  BY <1>1, <1>2, <1>3, <1>4, ClientContent, CommitContent, CompactContent, MigrateContent DEF Step
-----------------------------------------------------------------------------
(***************************************************************************)
(* The inductive invariant about contents.                                 *)
(***************************************************************************)

\* Types, contents, and what Open knows of its migration, for all clients.
Contents == Typed /\ DataInv /\ \A c \in Clients : OpenInv(c)

\* It holds of the empty database and of handles that are not in an operation.
LEMMA InitContents == Init => Contents
<1> SUFFICES ASSUME Init PROVE Contents
  OBVIOUS
<1>1. Typed
  BY InitTyped
<1>2. /\ cm = [c \in Clients |-> InitManifest] /\ m2 = [c \in Clients |-> InitManifest]
      /\ manifest \in {NoManifest, InitManifest} /\ hist = << <<EmptyDB>> >>
      /\ base = << [seq |-> 0, schema |-> 0] >> /\ lastVer = [c \in Clients |-> 0]
      /\ pc = [c \in Clients |-> IF c \in Warm THEN "idle" ELSE "closed"]
      /\ conn = [c \in Clients |-> IF c \in Warm THEN EmptyDB ELSE NoConn]
      /\ saved = [c \in Clients |-> NoConn] /\ localSeq = [c \in Clients |-> 0]
      /\ snapshotKey = [c \in Clients |-> IF c \in Warm THEN InitSnap ELSE NoSnap]
  BY DEF Init, ClientInit, CommitInit, GCInit, MigrateInit
<1>3. ASSUME NEW c \in Clients PROVE ContentInv(c) /\ OpenInv(c)
  <2>1. pc[c] \in {"idle", "closed"} /\ saved[c] = NoConn
    BY <1>2
  <2>2. conn[c] # NoConn => conn[c] = EmptyDB /\ Content(snapshotKey[c], localSeq[c]) = EmptyDB
    BY <1>2 DEF Content, Pos, InitSnap
  <2>3. Version[c] \in Nat
    BY ClientAssumption
  <2> QED
    BY <1>2, <2>1, <2>2, <2>3 DEF ContentInv, OpenInv, Agree, InSavepoint, OpenLabels, Target, SyncLabels
<1>4. DataInv
  BY <1>2, <1>3, NoLog DEF DataInv
<1> QED
  BY <1>1, <1>3, <1>4 DEF Contents

\* The step of a client keeps the logs and the files of all clients what they were.
LEMMA StepData ==
  ASSUME Contents, NEW c \in Clients, Call(c) \/ Step(c) \/ Disrupt(c), sound'
  PROVE  /\ manifest' # NoManifest => LogOK(manifest)'
         /\ \A d \in Clients : LogOK(cm[d])' /\ LogOK(m2[d])' /\ ContentInv(d)'
<1>1. Typed /\ Grows /\ sound /\ DataInv /\ OpenInv(c)
  BY StepGrows DEF Contents, Grows
<1>2. \A m : Src(c, m) => LogOK(m)'
  BY <1>1, SourceReplays
<1>3. manifest' # NoManifest => LogOK(manifest)'
  BY <1>1, <1>2, Sources, CommitReplays
<1>4. LogOK(cm[c])' /\ LogOK(m2[c])'
  <2>1. Src(c, cm'[c]) \/ (cm'[c] = manifest' /\ LogOK(manifest)')
    BY <1>1, Sources, CommitReplays
  <2> QED
    BY <1>1, <1>2, <2>1, Sources DEF LogOK
<1>5. ContentInv(c)'
  BY <1>1, StepContent DEF DataInv
<1>6. ASSUME NEW d \in Clients \ {c}
      PROVE  LogOK(cm[d])' /\ LogOK(m2[d])' /\ ContentInv(d)'
  <2>1. Untouched(d) /\ LogOK(cm[d]) /\ LogOK(m2[d]) /\ ContentInv(d)
    BY <1>1, OthersUntouched DEF DataInv
  <2>2. \A m \in Manifests : Known(m) /\ LogOK(m) => LogOK(m)'
    BY <1>1, LogStays
  <2>3. LogOK(cm[d])' /\ LogOK(m2[d])'
    <3>1. \A m \in {cm[d], m2[d]} : LogOK(m)'
      BY <1>1, <2>1, <2>2, ClientFacts
    <3>2. cm'[d] = cm[d] /\ m2'[d] = m2[d]
      BY <2>1 DEF Untouched
    <3> QED
      BY <3>1, <3>2 DEF LogOK
  <2>4. Upto(d)' = Upto(d) /\ (Dirty(d)' <=> Dirty(d))
    BY <2>1 DEF Untouched, Upto, Dirty
  <2>5. ContentInv(d)'
    BY <1>1, <2>1, <2>4, ContentStays DEF Untouched
  <2> QED
    BY <2>3, <2>5
<1> QED
  BY <1>3, <1>4, <1>5, <1>6

\* Every step of every client preserves it.
LEMMA NextContents == Contents /\ [Next]_vars => Contents'
<1> SUFFICES ASSUME Contents, [Next]_vars PROVE Contents'
  OBVIOUS
<1>1. Typed'
  BY NextTyped DEF Contents
<1>2. CASE \E c \in Clients : Call(c) \/ Step(c) \/ Disrupt(c)
  <2>1. PICK c \in Clients : Call(c) \/ Step(c) \/ Disrupt(c)
    BY <1>2
  <2>2. DataInv'
    BY <2>1, StepData DEF DataInv
  <2>3. ASSUME NEW d \in Clients PROVE OpenInv(d)'
    <3>1. CASE d = c
      BY <2>1, <3>1, OpenStep DEF Contents
    <3>2. CASE d # c
      BY <2>1, <3>2, OthersUntouched DEF Contents, Untouched, OpenInv, Target
    <3> QED
      BY <3>1, <3>2
  <2> QED
    BY <1>1, <2>2, <2>3 DEF Contents
<1>3. CASE UNCHANGED <<manifest, hist, base, csBody, sound, connVars, pc, ret, updateVars, lastVer>>
  <2>1. DataInv'
    <3>1. sound' => sound /\ DataInv
      BY <1>3 DEF Contents
    <3>2. sound' /\ manifest' # NoManifest => LogOK(manifest)'
      BY <1>3, <3>1 DEF DataInv, LogOK
    <3>3. sound' => \A d \in Clients : LogOK(cm[d])' /\ LogOK(m2[d])'
      BY <1>3, <3>1 DEF DataInv, LogOK, connVars, updateVars
    <3>4. ASSUME sound', NEW d \in Clients PROVE ContentInv(d)'
      <4>1. ContentInv(d)
        BY <3>1, <3>4 DEF DataInv
      <4> QED
        BY <1>3, <4>1 DEF ContentInv, Content, Pos, Dirty, Mine, Upto, connVars, updateVars
    <3> QED
      BY <3>2, <3>3, <3>4 DEF DataInv
  <2>2. \A d \in Clients : OpenInv(d)'
    BY <1>3 DEF Contents, OpenInv, Target, connVars
  <2> QED
    BY <1>1, <2>1, <2>2 DEF Contents
<1> QED
  BY <1>2, <1>3 DEF Next, Elapse, gcFrame, vars, storeVars, flowVars

\* Contents holds in every reachable state.
THEOREM ContentsInvariant == Spec => []Contents
BY InitContents, NextContents, PTL DEF Spec

\* What holds of the contents makes the log replay ...
LEMMA ContentsReplay == Contents => LogReplays
<1> SUFFICES ASSUME Contents, sound, manifest # NoManifest PROVE LogApplies
  BY DEF LogReplays, LogApplies
<1>1. LogOK(manifest) /\ Len(hist[manifest.snap.key]) = Len(manifest.log) + 1
  BY ManifestFacts DEF Contents, DataInv
<1> QED
  BY <1>1 DEF LogApplies, LogOK, epoch

\* ... and the local files match it.
LEMMA ContentsMatch == Contents => LocalMatchesReplay
<1> SUFFICES ASSUME Contents, NEW c \in Clients, sound, c \notin stale, conn[c] # NoConn,
                    saved[c] = NoConn, pc[c] \notin {"migrate", "migcas"}
             PROVE  /\ Pos(snapshotKey[c], localSeq[c]) \in DOMAIN hist[snapshotKey[c]]
                    /\ Agree(conn[c], Content(snapshotKey[c], localSeq[c]))
  BY DEF LocalMatchesReplay
<1>1. Typed /\ ContentInv(c) /\ ~Dirty(c)
  BY DEF Contents, DataInv, Dirty
<1>2. /\ snapshotKey[c] = cm[c].snap.key /\ cm[c].snap.seq <= localSeq[c] /\ localSeq[c] <= cm[c].seq
      /\ cm[c] \in Manifests /\ Known(cm[c]) /\ localSeq[c] \in Nat
  BY <1>1, ClientFacts DEF PositionInv
<1>3. Pos(snapshotKey[c], localSeq[c]) \in DOMAIN hist[snapshotKey[c]]
  BY <1>1, <1>2, KnownSpan
<1> QED
  BY <1>1, <1>3 DEF ContentInv

\* The log of the manifest in the bucket replays from its snapshot without a
\* conflict, and what it replays to is what the commits, one after the other,
\* made of the database: a rebase never lets a changeset into the log that does
\* not follow on the entry before it (commit.go:240-245), in every history in
\* which no client commits from a connection that a ROLLBACK set back.
THEOREM LogAlwaysReplays == Spec => []LogReplays
BY ContentsReplay, ContentsInvariant, PTL

\* The local file of a client holds what replaying the log up to localSeq
\* yields: after syncs that failed half-way, rollbacks, lost CAS attempts,
\* compactions and migrations (sync.go, commit.go:229-282).
THEOREM LocalAlwaysMatches == Spec => []LocalMatchesReplay
BY ContentsMatch, ContentsInvariant, PTL
=============================================================================
