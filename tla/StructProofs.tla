----------------------------- MODULE StructProofs -----------------------------
(***************************************************************************)
(* Proofs that TypeOK and StructInv are invariants of S3db, and of what    *)
(* follows from them.  Every action has a lemma of its own; a lemma looks  *)
(* only at the client that takes the step, and Frame says why the others   *)
(* are not disturbed.                                                      *)
(***************************************************************************)
EXTENDS S3dbInv, ChangesetProofs, SequenceTheorems

\* The invariant without what it says about contents.
Typed == TypeOK /\ StructInv

ClientOK(c) == FlowInv(c) /\ PositionInv(c) /\ SnapInv(c)

\* A step that leaves the handle of client d alone, and all of client d.
SameHandle(d) ==
  /\ pc'[d] = pc[d] /\ ret'[d] = ret[d] /\ conn'[d] = conn[d] /\ saved'[d] = saved[d]
  /\ localSeq'[d] = localSeq[d] /\ snapshotKey'[d] = snapshotKey[d] /\ cm'[d] = cm[d]
  /\ savedSeq'[d] = savedSeq[d] /\ snapKey'[d] = snapKey[d]
  /\ d \in stale' <=> d \in stale

Same(d) ==
  /\ SameHandle(d) /\ lastVer'[d] = lastVer[d]
  /\ fn'[d] = fn[d] /\ csKey'[d] = csKey[d] /\ m2'[d] = m2[d] /\ reb'[d] = reb[d]

Others(c) == \A d \in Clients \ {c} : Same(d)

\* The part of the store that the invariant speaks of.
coreVars == <<manifest, csBody, hist, base>>
-----------------------------------------------------------------------------
(***************************************************************************)
(* Frames: what a step of one client leaves intact.                        *)
(***************************************************************************)

\* A step of c that leaves the snapshots which the others uploaded alone, and
\* every manifest known, only has to be looked at for c.
LEMMA Frame ==
  ASSUME Typed, NEW c \in Clients, Others(c), StoreInv', ClientOK(c)',
         \A m \in Manifests : Known(m) => Known(m)',
         DOMAIN hist \subseteq DOMAIN hist', DOMAIN csBody \subseteq DOMAIN csBody',
         \A k \in DOMAIN hist : base'[k] = base[k],
         \A d \in Clients \ {c} : pc[d] \in Pending =>
            /\ hist'[snapKey[d]] = hist[snapKey[d]]
            /\ manifest' # NoManifest => snapKey[d] # manifest'.snap.key
            /\ pc'[c] \in Pending => snapKey[d] # snapKey'[c]
  PROVE  StructInv'
<1>1. SUFFICES ASSUME NEW d \in Clients \ {c} PROVE ClientOK(d)'
  BY DEF StructInv, ClientOK
<1>2. ClientOK(d) /\ Same(d) /\ cm[d] \in Manifests /\ m2[d] \in Manifests
  BY DEF Typed, StructInv, ClientOK, Others, TypeOK, ClientTypeOK, CommitTypeOK
<1>3. FlowInv(d)'
  BY <1>2 DEF ClientOK, FlowInv, Target, Same, SameHandle
<1>4. PositionInv(d)'
  BY <1>2 DEF ClientOK, PositionInv, Same, SameHandle
<1>5. SnapInv(d)'
  BY <1>2 DEF ClientOK, SnapInv, Same, SameHandle, Others, Pending
<1> QED
  BY <1>3, <1>4, <1>5 DEF ClientOK

\* A step of c that does not touch what the invariant says of the store.
LEMMA LocalFrame ==
  ASSUME Typed, NEW c \in Clients, Others(c), UNCHANGED coreVars,
         FlowInv(c)', PositionInv(c)', SnapInv(c)',
         pc'[c] \in Pending => pc[c] \in Pending /\ snapKey'[c] = snapKey[c]
  PROVE  StructInv'
<1>1. StoreInv' /\ \A m \in Manifests : Known(m) => Known(m)'
  BY DEF Typed, StructInv, StoreInv, Known, coreVars
<1>2. ClientOK(c)'
  BY DEF ClientOK
<1>3. \A d \in Clients \ {c} : pc[d] \in Pending =>
            /\ hist'[snapKey[d]] = hist[snapKey[d]]
            /\ manifest' # NoManifest => snapKey[d] # manifest'.snap.key
            /\ pc'[c] \in Pending => snapKey[d] # snapKey'[c]
  BY DEF Typed, StructInv, SnapInv, coreVars, Pending
<1> QED
  BY <1>1, <1>2, <1>3, Frame DEF coreVars

\* A known manifest stays known while the store is left alone.
LEMMA KnownFrame ==
  ASSUME NEW m, Known(m), UNCHANGED coreVars
  PROVE  Known(m)'
BY DEF Known, coreVars

\* The manifest of bootstrap is a manifest.
LEMMA InitManifestType == InitManifest \in Manifests
BY DEF InitManifest, Manifests, blobRef, InitSnap

\* ... and it is known from the start, put or not: its snapshot has fixed bytes.
LEMMA InitManifestKnown ==
  ASSUME StoreInv, hist \in Seq(Seq(DB))
  PROVE  Known(InitManifest)
BY DEF StoreInv, Known, InitManifest, InitSnap

\* The log of a known manifest lists consecutive sequence numbers.
LEMMA MissingFacts ==
  ASSUME NEW m \in Manifests, Known(m), NEW n \in Nat, m.snap.seq <= n
  PROVE  /\ Missing(m, n) = {} <=> m.seq <= n
         /\ \A i \in DOMAIN m.log : FirstMissing(m, n, i) =>
              /\ i = n - m.snap.seq + 1
              /\ m.log[i].seq = n + 1
              /\ n + 1 <= m.seq
<1>1. m.log \in Seq(logEntry) /\ m.snap.seq \in Nat /\ m.seq = m.snap.seq + Len(m.log)
  BY DEF Known, Manifests, blobRef
<1>2. \A i \in DOMAIN m.log : m.log[i].seq = m.snap.seq + i
  BY DEF Known
<1>3. DOMAIN m.log = 1..Len(m.log) /\ Len(m.log) \in Nat
  BY <1>1
<1>4. m.seq > n => n - m.snap.seq + 1 \in Missing(m, n)
  BY <1>1, <1>2, <1>3 DEF Missing
<1>5. m.seq <= n => Missing(m, n) = {}
  BY <1>1, <1>2, <1>3 DEF Missing
<1>6. ASSUME NEW i \in DOMAIN m.log, FirstMissing(m, n, i)
      PROVE  i = n - m.snap.seq + 1 /\ m.log[i].seq = n + 1 /\ n + 1 <= m.seq
  <2>1. i \in Missing(m, n) /\ m.log[i].seq = m.snap.seq + i /\ m.log[i].seq > n
    BY <1>2, <1>6 DEF FirstMissing, Missing
  <2>2. m.seq > n
    BY <1>5, <2>1, <1>1
  <2>3. i <= n - m.snap.seq + 1
    BY <1>4, <1>6, <2>2 DEF FirstMissing
  <2> QED
    BY <1>1, <1>3, <2>1, <2>2, <2>3
<1> QED
  BY <1>1, <1>4, <1>5, <1>6

\* What a sync to a known manifest m leads to.
LEMMA SyncFacts ==
  ASSUME TypeOK, NEW c \in Clients, NEW m \in Manifests, Known(m),
         NEW cn \in DB \cup {NoConn}, NEW key \in Nat, NEW next \in Rets,
         cn # NoConn /\ key = m.snap.key => localSeq[c] <= m.seq,
         syncToManifest(c, m, cn, key, next)
  PROVE  /\ pc' \in [Clients -> Labels] /\ ret' \in [Clients -> Rets]
         /\ conn' \in [Clients -> DB \cup {NoConn}]
         /\ snapshotKey' \in [Clients -> Nat] /\ cm' \in [Clients -> Manifests]
         /\ cm'[c] = m /\ ret'[c] = next /\ localSeq' = localSeq
         /\ conn'[c] # NoConn =>
              /\ conn'[c] = cn /\ snapshotKey'[c] = key /\ key = m.snap.key
              /\ m.snap.seq <= localSeq[c] /\ localSeq[c] <= m.seq
         /\ \/ pc'[c] = "download" /\ conn'[c] = NoConn
            \/ pc'[c] = "fetch" /\ conn'[c] # NoConn /\ localSeq[c] < m.seq
            \/ pc'[c] = next /\ conn'[c] # NoConn /\ localSeq[c] = m.seq
         /\ \A d \in Clients \ {c} : /\ pc'[d] = pc[d] /\ ret'[d] = ret[d]
                                     /\ conn'[d] = conn[d] /\ cm'[d] = cm[d]
                                     /\ snapshotKey'[d] = snapshotKey[d]
<1> USE DEF syncToManifest, Goto, TypeOK, ClientTypeOK
<1>1. next \in Labels /\ "download" \in Labels /\ "fetch" \in Labels
  BY DEF Rets, OpenRets, Labels, OpenLabels, SyncLabels, UpdateLabels, MaintainLabels
<1>2. pc' \in [Clients -> Labels] /\ ret' \in [Clients -> Rets]
         /\ conn' \in [Clients -> DB \cup {NoConn}]
         /\ snapshotKey' \in [Clients -> Nat] /\ cm' \in [Clients -> Manifests]
  BY <1>1
<1>3. CASE needRefresh(cn, localSeq[c], key, m)
  BY <1>2, <1>3
<1>4. CASE ~needRefresh(cn, localSeq[c], key, m)
  <2>1. cn # NoConn /\ m.snap.seq <= localSeq[c] /\ key = m.snap.key
        /\ localSeq[c] <= m.seq
    BY <1>4 DEF needRefresh, Manifests, blobRef
  <2>2. Missing(m, localSeq[c]) = {} <=> m.seq <= localSeq[c]
    BY <2>1, MissingFacts
  <2>3. m.seq \in Nat /\ localSeq[c] \in Nat
    BY DEF Manifests
  <2>4. cm'[c] = m /\ ret'[c] = next /\ conn'[c] = cn /\ snapshotKey'[c] = key
    BY <1>4
  <2>5. pc'[c] = IF Missing(m, localSeq[c]) = {} THEN next ELSE "fetch"
    BY <1>4
  <2>6. \/ pc'[c] = "fetch" /\ localSeq[c] < m.seq
        \/ pc'[c] = next /\ localSeq[c] = m.seq
    <3> HIDE DEF syncToManifest, Goto, TypeOK, ClientTypeOK
    <3>1. CASE m.seq <= localSeq[c]
      BY <2>1, <2>2, <2>3, <2>5, <3>1
    <3>2. CASE ~(m.seq <= localSeq[c])
      BY <2>2, <2>3, <2>5, <3>2
    <3> QED
      BY <3>1, <3>2
  <2>7. \A d \in Clients \ {c} : /\ pc'[d] = pc[d] /\ ret'[d] = ret[d]
                                 /\ conn'[d] = conn[d] /\ cm'[d] = cm[d]
                                 /\ snapshotKey'[d] = snapshotKey[d]
    OBVIOUS
  <2> HIDE DEF syncToManifest, Goto, TypeOK, ClientTypeOK
  <2>8. localSeq' = localSeq
    BY DEF syncToManifest
  <2> QED
    BY <1>2, <2>1, <2>4, <2>6, <2>7, <2>8
<1> QED
  BY <1>3, <1>4
-----------------------------------------------------------------------------
(***************************************************************************)
(* The ends of an operation.                                               *)
(***************************************************************************)

\* The two labels at which an operation ends.
LEMMA LabelFacts == "closed" \in Labels /\ "idle" \in Labels
BY DEF Labels

\* The step of c that ends its operation.
LEMMA ReturnOK ==
  ASSUME Typed, NEW c \in Clients, Return(c),
         \A m \in Manifests : Known(m) => Known(m)',
         Known(m2[c])'
  PROVE  /\ ClientTypeOK' /\ ClientOK(c)' /\ pc'[c] = "idle"
         /\ \A d \in Clients \ {c} : SameHandle(d)
<1> USE DEF Typed, TypeOK, ClientTypeOK, Return, Goto
<1>1. ClientTypeOK'
  <2>1. pc' \in [Clients -> Labels]
    BY LabelFacts
  <2>2. conn' \in [Clients -> DB \cup {NoConn}]
    BY DEF RolledBack
  <2>3. stale' \subseteq Clients
    BY DEF StaleAfterRollback
  <2>4. began' \in [Clients -> [seq : Nat, clock : Nat]]
    BY DEF NotBegun
  <2>5. savedSeq' \in [Clients -> Nat] /\ attempt' \in [Clients -> Nat]
        /\ snapKey' \in [Clients -> Nat] /\ saved' \in [Clients -> DB \cup {NoConn}]
    BY DEF NoSnap
  <2> QED
    BY <2>1, <2>2, <2>3, <2>4, <2>5
<1>2. pc'[c] = "idle" /\ saved'[c] = NoConn
  OBVIOUS
<1>3. FlowInv(c)'
  BY <1>2 DEF FlowInv, Target, Synced, InSavepoint, SyncLabels
<1>4. PositionInv(c)'
  <2>1. PositionInv(c) /\ FlowInv(c)
    BY DEF StructInv
  <2>2. cm'[c] = cm[c] /\ localSeq'[c] = localSeq[c]
        /\ snapshotKey'[c] = snapshotKey[c] /\ cm[c] \in Manifests
    OBVIOUS
  <2>3. conn'[c] # NoConn => conn[c] # NoConn
    BY <2>1 DEF FlowInv, RolledBack, Synced, InSavepoint
  <2> QED
    BY <1>2, <2>1, <2>2, <2>3 DEF PositionInv, Synced, InSavepoint
<1>5. SnapInv(c)'
  BY <1>2 DEF SnapInv
<1>6. \A d \in Clients \ {c} : SameHandle(d)
  BY DEF SameHandle, StaleAfterRollback
<1> QED
  BY <1>1, <1>2, <1>3, <1>4, <1>5, <1>6 DEF ClientOK

\* The step of c that closes its handle.
LEMMA ShutOK ==
  ASSUME Typed, NEW c \in Clients, Shut(c),
         \A m \in Manifests : Known(m) => Known(m)',
         Known(m2[c])'
  PROVE  /\ ClientTypeOK' /\ ClientOK(c)' /\ pc'[c] = "closed"
         /\ \A d \in Clients \ {c} : SameHandle(d)
<1> USE DEF Typed, TypeOK, ClientTypeOK, Shut, Goto
<1>1. ClientTypeOK'
  <2>1. pc' \in [Clients -> Labels] /\ ret' \in [Clients -> Rets]
    BY LabelFacts DEF Rets, OpenRets
  <2>2. conn' \in [Clients -> DB \cup {NoConn}]
        /\ saved' \in [Clients -> DB \cup {NoConn}]
    OBVIOUS
  <2>3. stale' \subseteq Clients /\ left' \in [Clients -> [OpKinds -> Nat]]
    OBVIOUS
  <2>4. began' \in [Clients -> [seq : Nat, clock : Nat]]
    BY DEF NotBegun
  <2>5. savedSeq' \in [Clients -> Nat] /\ attempt' \in [Clients -> Nat]
        /\ snapKey' \in [Clients -> Nat]
    /\ localSeq' \in [Clients -> Nat] /\ snapshotKey' \in [Clients -> Nat]
      /\ schemaVer' \in [Clients -> Nat]
    BY DEF NoSnap
  <2>6. cm' \in [Clients -> Manifests]
    BY InitManifestType
  <2> QED
    BY <2>1, <2>2, <2>3, <2>4, <2>5, <2>6
<1>2. pc'[c] = "closed" /\ saved'[c] = NoConn /\ conn'[c] = NoConn
      /\ cm'[c] = InitManifest
  OBVIOUS
<1>3. FlowInv(c)'
  BY <1>2 DEF FlowInv, Target, Synced, InSavepoint, SyncLabels
<1>4. PositionInv(c)'
  <2>1. Known(cm[c])'
    BY <1>2, InitManifestType, InitManifestKnown DEF StoreTypeOK, StructInv
  <2> QED
    BY <1>2, <2>1 DEF PositionInv, Synced, InSavepoint
<1>5. SnapInv(c)'
  BY <1>2 DEF SnapInv
<1>6. \A d \in Clients \ {c} : SameHandle(d)
  BY DEF SameHandle, StaleAfterRollback
<1> QED
  BY <1>1, <1>2, <1>3, <1>4, <1>5, <1>6 DEF ClientOK

\* Nothing that is known is forgotten.
KnownStays == \A m \in Manifests : Known(m) => Known(m)'

\* A step that leaves manifest and bytes alone keeps what holds of the store.
LEMMA StoreFrame ==
  ASSUME Typed, UNCHANGED coreVars
  PROVE  StoreInv' /\ KnownStays
BY DEF Typed, StructInv, StoreInv, Known, coreVars, KnownStays

\* doUpdate drops its local variables.
LEMMA ForgetOK ==
  ASSUME Typed, NEW c \in Clients, Forget(c)
  PROVE  /\ CommitTypeOK' /\ m2'[c] = InitManifest
         /\ \A d \in Clients \ {c} :
              fn'[d] = fn[d] /\ csKey'[d] = csKey[d] /\ m2'[d] = m2[d]
                /\ reb'[d] = reb[d]
<1> USE DEF Typed, TypeOK, CommitTypeOK, Forget
<1>1. CommitTypeOK'
  <2>1. fn' \in [Clients -> Txns \cup {NoTxn}]
    OBVIOUS
  <2>2. NoKey \in CsKey
    BY DEF NoKey, CsKey
  <2>3. csKey' \in [Clients -> CsKey] /\ orphan' \in [Clients -> CsKey]
    BY <2>2
  <2>4. m2' \in [Clients -> Manifests] /\ reb' \in [Clients -> Nat]
    BY InitManifestType
  <2> QED
    BY <2>1, <2>3, <2>4
<1> QED
  BY <1>1

\* Return or Shut, as a client sees it.
LEMMA EndFacts ==
  ASSUME Typed, NEW c \in Clients, Return(c) \/ Shut(c),
         Forget(c) \/ UNCHANGED updateVars, KnownStays,
         \A d \in Clients \ {c} : lastVer'[d] = lastVer[d]
  PROVE  /\ ClientTypeOK' /\ CommitTypeOK' /\ ClientOK(c)' /\ Others(c)
         /\ pc'[c] \notin Pending
<1>1. CommitTypeOK'
  BY ForgetOK DEF Typed, TypeOK, CommitTypeOK, updateVars
<1>2. m2[c] \in Manifests /\ Known(m2[c]) /\ Known(InitManifest)
  BY InitManifestKnown DEF Typed, TypeOK, CommitTypeOK, StructInv, PositionInv,
     StoreTypeOK
<1>3. m2'[c] \in {m2[c], InitManifest}
  BY ForgetOK DEF updateVars
<1>4. Known(m2[c])'
  BY <1>2, <1>3, InitManifestType DEF KnownStays
<1>5. /\ ClientTypeOK' /\ ClientOK(c)' /\ pc'[c] \in {"idle", "closed"}
      /\ \A d \in Clients \ {c} : SameHandle(d)
  BY <1>4, ReturnOK, ShutOK DEF KnownStays
<1>6. \A d \in Clients \ {c} :
        fn'[d] = fn[d] /\ csKey'[d] = csKey[d] /\ m2'[d] = m2[d] /\ reb'[d] = reb[d]
  BY ForgetOK DEF updateVars
<1> QED
  BY <1>1, <1>5, <1>6 DEF Others, Same, Pending

\* An operation that ends without a write to the store preserves the invariant.
LEMMA EndOK ==
  ASSUME Typed, NEW c \in Clients, Return(c) \/ Shut(c),
         Forget(c) \/ UNCHANGED updateVars, UNCHANGED coreVars,
         \A d \in Clients \ {c} : lastVer'[d] = lastVer[d],
         StoreTypeOK', GCTypeOK', MigrateTypeOK'
  PROVE  Typed'
<1>1. KnownStays
  BY StoreFrame
<1>2. /\ ClientTypeOK' /\ CommitTypeOK' /\ ClientOK(c)' /\ Others(c)
      /\ pc'[c] \notin Pending
  BY <1>1, EndFacts
<1>3. StructInv'
  BY <1>2, LocalFrame DEF ClientOK
<1> QED
  BY <1>2, <1>3 DEF Typed, TypeOK

\* Steps that end an operation early.
LEMMA EarlyOK ==
  ASSUME Typed, NEW c \in Clients, Return(c) \/ Shut(c), EndEarly(c),
    UNCHANGED storeVars
  PROVE  Typed'
<1>1. UNCHANGED coreVars /\ StoreTypeOK'
  BY DEF storeVars, coreVars, Typed, TypeOK, StoreTypeOK
<1>2. GCTypeOK' /\ MigrateTypeOK' /\ \A d \in Clients \ {c} : lastVer'[d] = lastVer[d]
  BY DEF Typed, TypeOK, GCTypeOK, MigrateTypeOK, EndEarly
<1> QED
  BY <1>1, <1>2, EndOK DEF EndEarly

-----------------------------------------------------------------------------
(***************************************************************************)
(* What the lemmas about the actions have in common.                       *)
(***************************************************************************)

\* The types of what a step of the handle alone leaves unchanged.
LEMMA OtherTypes ==
  ASSUME Typed
  PROVE  /\ UNCHANGED storeVars => StoreTypeOK' /\ UNCHANGED coreVars
         /\ UNCHANGED updateVars => CommitTypeOK'
         /\ UNCHANGED todo => GCTypeOK'
         /\ UNCHANGED lastVer => MigrateTypeOK'
BY DEF Typed, TypeOK, storeVars, coreVars, updateVars, StoreTypeOK, CommitTypeOK,
   GCTypeOK,
       MigrateTypeOK

\* A step of c that moves on and touches nothing the invariant speaks of.
LEMMA MoveOK ==
  ASSUME Typed, NEW c \in Clients, NEW l \in Labels, Goto(c, l),
         UNCHANGED <<coreVars, connVars, ret, attempt, snapKey, schemaVer, left, began,
                     fn, csKey, m2, reb, lastVer>>,
         StoreTypeOK', orphan' \in [Clients -> CsKey], GCTypeOK',
         \/ saved[c] = NoConn /\ l \notin Synced \cup SyncLabels
         \/ pc[c] = l /\ l \notin Pending
         \/ pc[c] = "fetch" /\ l = "apply"
         \/ pc[c] \in InSavepoint /\ l \in InSavepoint \ {"rebase"}
  PROVE  Typed'
<1>1. ClientTypeOK' /\ CommitTypeOK' /\ MigrateTypeOK'
  BY DEF Typed, TypeOK, ClientTypeOK, CommitTypeOK, MigrateTypeOK, connVars, Goto
<1>2. pc'[c] = l
  BY DEF Goto, Typed, TypeOK, ClientTypeOK
<1>3. Others(c)
  BY DEF Others, Same, SameHandle, Goto, connVars, Typed, TypeOK, ClientTypeOK
<1>4. FlowInv(c) /\ PositionInv(c)
  BY DEF Typed, StructInv
<1>5. FlowInv(c)'
  BY <1>2, <1>4 DEF FlowInv, Target, connVars, Synced, InSavepoint, SyncLabels
<1>6. cm[c] \in Manifests /\ m2[c] \in Manifests
  BY DEF Typed, TypeOK, ClientTypeOK, CommitTypeOK
<1>7. Known(cm[c])' /\ Known(m2[c])'
  BY <1>4, <1>6, KnownFrame DEF PositionInv, connVars
<1>8. PositionInv(c)'
  BY <1>2, <1>4, <1>7 DEF PositionInv, connVars, coreVars, Synced, InSavepoint,
     SyncLabels
<1>9. SnapInv(c)' /\ pc'[c] \notin Pending
  BY <1>2 DEF SnapInv, Pending, Synced, InSavepoint
<1> QED
  BY <1>1, <1>3, <1>5, <1>8, <1>9, LocalFrame DEF Typed, TypeOK

\* An operation starts.
LEMMA StartOK ==
  ASSUME Typed, NEW c \in Clients, NEW op \in OpKinds, NEW r \in Rets,
         NEW from, NEW l, 
         \/ from = "closed" /\ l = "open"
         \/ from = "idle" /\ l = "refresh"
           /\ r \in {"view", "compact", "gc", "capture"},
         Start(c, op, from, l, r),
         r = "capture" => fn'[c] \in Txns,
         \A d \in Clients \ {c} : fn'[d] = fn[d],
         CommitTypeOK', UNCHANGED <<csKey, m2, reb, todo, lastVer>>
  PROVE  Typed'
<1> USE DEF Start
<1>1. StoreTypeOK' /\ GCTypeOK' /\ MigrateTypeOK' /\ UNCHANGED coreVars
  BY OtherTypes
<1>2. l \in Labels
  BY DEF Labels, OpenLabels, SyncLabels
<1>3. ClientTypeOK'
  <2> USE DEF Typed, TypeOK, ClientTypeOK, connVars
  <2>1. pc' \in [Clients -> Labels] /\ ret' \in [Clients -> Rets]
    BY <1>2 DEF Goto
  <2>2. left' \in [Clients -> [OpKinds -> Nat]]
    <3>1. left[c] \in [OpKinds -> Nat] /\ left[c][op] - 1 \in Nat
      OBVIOUS
    <3> QED
      BY <3>1
  <2>3. attempt' \in [Clients -> Nat]
    OBVIOUS
  <2>4. began' \in [Clients -> [seq : Nat, clock : Nat]]
    <3>1. (IF manifest = NoManifest THEN 0 ELSE manifest.seq) \in Nat /\ clock \in Nat
      BY DEF StoreTypeOK, Manifests
    <3> QED
      BY <3>1
  <2> QED
    BY <2>1, <2>2, <2>3, <2>4
<1>4. pc'[c] = l /\ ret'[c] = r /\ pc[c] = from
  BY DEF Goto, At, Typed, TypeOK, ClientTypeOK
<1>5. Others(c)
  BY DEF Others, Same, SameHandle, Goto, connVars, Typed, TypeOK, ClientTypeOK
<1>6. FlowInv(c) /\ PositionInv(c) /\ saved[c] = NoConn
  BY <1>4 DEF Typed, StructInv, FlowInv, InSavepoint
<1>7. FlowInv(c)'
  BY <1>4, <1>6 DEF FlowInv, Target, connVars, Synced, InSavepoint, SyncLabels
<1>8. Known(cm[c])' /\ Known(m2[c])'
  BY <1>1, <1>6, KnownFrame DEF PositionInv, connVars
<1>9. PositionInv(c)' /\ SnapInv(c)' /\ pc'[c] \notin Pending
  BY <1>4, <1>6, <1>8 DEF PositionInv, SnapInv, Pending, connVars, Synced, InSavepoint
<1> QED
  BY <1>1, <1>3, <1>5, <1>7, <1>9, LocalFrame DEF Typed, TypeOK

\* The types of the variables of a handle that a sync leaves to its caller.
RestTypes ==
  /\ saved \in [Clients -> DB \cup {NoConn}] /\ savedSeq \in [Clients -> Nat]
  /\ stale \subseteq Clients /\ attempt \in [Clients -> Nat]
    /\ snapKey \in [Clients -> Nat]
  /\ schemaVer \in [Clients -> Nat] /\ left \in [Clients -> [OpKinds -> Nat]]
  /\ began \in [Clients -> [seq : Nat, clock : Nat]]

\* What the caller of a sync to m that goes on at next leaves of client d alone.
RestSame(d) ==
  /\ saved'[d] = saved[d] /\ savedSeq'[d] = savedSeq[d] /\ snapKey'[d] = snapKey[d]
  /\ d \in stale' <=> d \in stale
  /\ lastVer'[d] = lastVer[d] /\ fn'[d] = fn[d] /\ csKey'[d] = csKey[d]
  /\ m2'[d] = m2[d] /\ reb'[d] = reb[d]

\* The client after the first part of a sync to a known manifest.
LEMMA SyncClient ==
  ASSUME Typed, NEW c \in Clients, NEW m \in Manifests, Known(m), Known(m)',
         Known(m2[c])', NEW cn \in DB \cup {NoConn}, NEW key \in Nat,
         NEW next \in Rets,
         cn # NoConn /\ key = m.snap.key => localSeq[c] <= m.seq,
         syncToManifest(c, m, cn, key, next),
         RestTypes', saved'[c] = NoConn, \A d \in Clients \ {c} : RestSame(d),
         next \in {"capture", "exhausted"} => fn'[c] \in Txns,
         next = "up" => m.schema < Version[c]
  PROVE  ClientTypeOK' /\ ClientOK(c)' /\ Others(c) /\ pc'[c] \notin Pending
<1>1. /\ pc' \in [Clients -> Labels] /\ ret' \in [Clients -> Rets]
      /\ conn' \in [Clients -> DB \cup {NoConn}]
      /\ snapshotKey' \in [Clients -> Nat] /\ cm' \in [Clients -> Manifests]
      /\ cm'[c] = m /\ ret'[c] = next /\ localSeq' = localSeq
      /\ conn'[c] # NoConn =>
           /\ conn'[c] = cn /\ snapshotKey'[c] = key /\ key = m.snap.key
           /\ m.snap.seq <= localSeq[c] /\ localSeq[c] <= m.seq
      /\ \/ pc'[c] = "download" /\ conn'[c] = NoConn
         \/ pc'[c] = "fetch" /\ conn'[c] # NoConn /\ localSeq[c] < m.seq
         \/ pc'[c] = next /\ conn'[c] # NoConn /\ localSeq[c] = m.seq
      /\ \A d \in Clients \ {c} : /\ pc'[d] = pc[d] /\ ret'[d] = ret[d]
                                  /\ conn'[d] = conn[d] /\ cm'[d] = cm[d]
                                  /\ snapshotKey'[d] = snapshotKey[d]
  BY SyncFacts DEF Typed
<1>2. ClientTypeOK'
  BY <1>1 DEF ClientTypeOK, RestTypes, Typed, TypeOK
<1>3. Others(c)
  BY <1>1 DEF Others, Same, SameHandle, RestSame
<1>4. next \notin InSavepoint \cup {"migcas", "refresh", "compactcas", "fetch", "apply"}
  BY DEF Rets, OpenRets, InSavepoint
<1>5. FlowInv(c)'
  BY <1>1, <1>4 DEF FlowInv, Target, Synced, InSavepoint, SyncLabels
<1>6. PositionInv(c)'
  BY <1>1, <1>4 DEF PositionInv, Synced, InSavepoint
<1>7. SnapInv(c)' /\ pc'[c] \notin Pending
  BY <1>1, <1>4 DEF SnapInv, Pending
<1> QED
  BY <1>2, <1>3, <1>5, <1>6, <1>7 DEF ClientOK

\* A sync to a known manifest, as a step of its own, preserves the invariant.
LEMMA SyncOK ==
  ASSUME Typed, NEW c \in Clients, NEW m \in Manifests, Known(m), Known(m2[c])',
         NEW cn \in DB \cup {NoConn}, NEW key \in Nat,
         NEW next \in Rets,
         cn # NoConn /\ key = m.snap.key => localSeq[c] <= m.seq,
         syncToManifest(c, m, cn, key, next),
         RestTypes', saved'[c] = NoConn, \A d \in Clients \ {c} : RestSame(d),
         next \in {"capture", "exhausted"} => fn'[c] \in Txns,
         next = "up" => m.schema < Version[c],
         UNCHANGED <<storeVars, todo>>, CommitTypeOK', MigrateTypeOK'
  PROVE  Typed'
<1>1. UNCHANGED coreVars /\ StoreTypeOK' /\ GCTypeOK'
  BY OtherTypes
<1>2. Known(m)'
  BY <1>1, KnownFrame
<1>3. ClientTypeOK' /\ ClientOK(c)' /\ Others(c) /\ pc'[c] \notin Pending
  BY <1>2, SyncClient
<1> QED
  BY <1>1, <1>3, LocalFrame DEF Typed, TypeOK, ClientOK

\* The manifest of the bucket is the last of its epoch.
LEMMA Latest ==
  ASSUME Typed, NEW m \in Manifests, Known(m), manifest # NoManifest,
         m.snap.key = manifest.snap.key
  PROVE  m.seq <= manifest.seq /\ m.snap = manifest.snap
<1>1. manifest \in Manifests /\ Known(manifest)
      /\ Len(hist[manifest.snap.key]) = Len(manifest.log) + 1
  BY DEF Typed, StructInv, StoreInv, TypeOK, StoreTypeOK
<1>2. m.seq = m.snap.seq + Len(m.log) /\ m.snap.seq = base[m.snap.key].seq
      /\ Len(m.log) < Len(hist[m.snap.key])
  BY DEF Known
<1>3. manifest.seq = manifest.snap.seq + Len(manifest.log)
      /\ manifest.snap.seq = base[m.snap.key].seq
  BY <1>1 DEF Known
<1>4. Len(m.log) \in Nat /\ Len(manifest.log) \in Nat /\ m.snap.seq \in Nat
      /\ m.snap.seq = manifest.snap.seq
  BY <1>1, <1>2, <1>3 DEF Manifests, blobRef
<1>5. m.seq <= manifest.seq
  BY <1>1, <1>2, <1>3, <1>4
<1>6. m.snap \in blobRef /\ manifest.snap \in blobRef
  BY <1>1 DEF Manifests
<1> QED
  BY <1>4, <1>5, <1>6 DEF blobRef

-----------------------------------------------------------------------------
(***************************************************************************)
(* The steps of a sync, of Open and of View.                               *)
(***************************************************************************)

\* Facts about a client that every step starts from.
LEMMA ClientFacts ==
  ASSUME Typed, NEW c \in Clients
  PROVE  /\ FlowInv(c) /\ PositionInv(c) /\ SnapInv(c)
         /\ pc[c] \in Labels /\ ret[c] \in Rets /\ conn[c] \in DB \cup {NoConn}
         /\ saved[c] \in DB \cup {NoConn} /\ localSeq[c] \in Nat
           /\ snapshotKey[c] \in Nat
         /\ savedSeq[c] \in Nat /\ attempt[c] \in Nat /\ snapKey[c] \in Nat
         /\ cm[c] \in Manifests /\ m2[c] \in Manifests /\ Known(cm[c]) /\ Known(m2[c])
         /\ reb[c] \in Nat /\ csKey[c] \in CsKey
BY DEF Typed, StructInv, TypeOK, ClientTypeOK, CommitTypeOK, PositionInv

\* The manifest of the bucket is known.
LEMMA ManifestFacts ==
  ASSUME Typed, manifest # NoManifest
  PROVE  /\ manifest \in Manifests /\ Known(manifest)
         /\ Len(hist[manifest.snap.key]) = Len(manifest.log) + 1
BY DEF Typed, StructInv, StoreInv, TypeOK, StoreTypeOK

\* The precondition of a sync to the manifest of the bucket.
LEMMA SyncBound ==
  ASSUME Typed, NEW c \in Clients, manifest # NoManifest, conn[c] # NoConn,
         snapshotKey[c] = manifest.snap.key
  PROVE  localSeq[c] <= manifest.seq
<1>1. cm[c].snap.key = manifest.snap.key /\ localSeq[c] <= cm[c].seq
  BY ClientFacts DEF PositionInv
<1>2. cm[c].seq <= manifest.seq
  BY <1>1, ClientFacts, Latest
<1> QED
  BY <1>1, <1>2, ClientFacts, ManifestFacts DEF Manifests

\* What a step of c leaves alone when it changes only what a sync changes.
LEMMA RestFrame ==
  ASSUME Typed, UNCHANGED <<saved, savedSeq, stale, attempt, snapKey, schemaVer, left,
    began>>,
         NEW c \in Clients, \A d \in Clients \ {c} : lastVer'[d] = lastVer[d],
         UNCHANGED updateVars
  PROVE  RestTypes' /\ \A d \in Clients \ {c} : RestSame(d)
BY DEF Typed, TypeOK, ClientTypeOK, RestTypes, RestSame, updateVars

\* refreshManifest preserves the invariant.
LEMMA RefreshOK ==
  ASSUME Typed, NEW c \in Clients, Refresh(c), UNCHANGED <<updateVars, todo, lastVer>>
  PROVE  Typed'
<1>1. pc[c] = "refresh" /\ manifest # NoManifest /\ UNCHANGED storeVars
  BY DEF Refresh, At
<1>2. RestTypes' /\ \A d \in Clients \ {c} : RestSame(d)
  BY RestFrame DEF Refresh
<1>3. /\ ret[c] \in {"view", "capture", "compact", "gc"} /\ saved[c] = NoConn
      /\ ret[c] = "capture" => fn[c] \in Txns
  BY <1>1, ClientFacts DEF FlowInv, InSavepoint, Target, SyncLabels
<1>4. saved'[c] = NoConn /\ Known(m2[c])' /\ fn'[c] = fn[c]
  BY <1>1, <1>3, ClientFacts, KnownFrame, OtherTypes DEF Refresh, updateVars
<1>5. CommitTypeOK' /\ MigrateTypeOK'
  BY OtherTypes
<1>6. syncToManifest(c, manifest, conn[c], snapshotKey[c], ret[c])
  BY DEF Refresh
<1> QED
  BY <1>1, <1>2, <1>3, <1>4, <1>5, <1>6, ClientFacts, ManifestFacts, SyncBound, SyncOK

\* Download, Fetch and Apply: a sync goes on.
LEMMA SnapBodyType ==
  ASSUME Typed, NEW k \in DOMAIN hist
  PROVE  SnapBody(k) \in DB
<1>1. hist \in Seq(Seq(DB)) /\ Len(hist[k]) >= 1
  BY DEF Typed, TypeOK, StoreTypeOK, StructInv, StoreInv
<1>2. hist[k] \in Seq(DB) /\ 1 \in 1..Len(hist[k])
  BY <1>1
<1> QED
  BY <1>2 DEF SnapBody

\* downloadSnapshot preserves the invariant: the file is at the snapshot of cm.
LEMMA DownloadOK ==
  ASSUME Typed, NEW c \in Clients, Download(c), UNCHANGED <<updateVars, todo, lastVer>>
  PROVE  Typed'
<1> USE DEF Download
<1>1. pc[c] = "download" /\ UNCHANGED coreVars /\ StoreTypeOK' /\ CommitTypeOK'
      /\ GCTypeOK' /\ MigrateTypeOK'
  BY OtherTypes DEF At
<1>2. epoch(cm[c]) \in DOMAIN hist /\ SnapBody(epoch(cm[c])) \in DB
  <2>1. epoch(cm[c]) \in DOMAIN hist
    BY ClientFacts DEF Known, epoch
  <2> QED
    BY <2>1, SnapBodyType
<1>3. ret[c] \in Labels /\ "fetch" \in Labels
  BY ClientFacts DEF Rets, OpenRets, Labels, OpenLabels, SyncLabels, UpdateLabels,
     MaintainLabels
<1>4. cm[c].snap.seq \in Nat /\ epoch(cm[c]) \in Nat /\ cm[c].seq \in Nat
  BY ClientFacts DEF Manifests, blobRef, epoch
<1>5. ClientTypeOK'
  <2> USE DEF Typed, TypeOK, ClientTypeOK
  <2>1. pc' \in [Clients -> Labels]
    BY <1>3 DEF Goto
  <2>2. conn' \in [Clients -> DB \cup {NoConn}]
    BY <1>2
  <2>3. localSeq' \in [Clients -> Nat] /\ snapshotKey' \in [Clients -> Nat]
        /\ stale' \subseteq Clients
    BY <1>4
  <2> QED
    BY <2>1, <2>2, <2>3
<1>6. Others(c)
  BY DEF Others, Same, SameHandle, Goto, updateVars
<1>7. /\ conn'[c] # NoConn /\ localSeq'[c] = cm[c].snap.seq
      /\ snapshotKey'[c] = cm[c].snap.key
      /\ saved'[c] = saved[c] /\ saved[c] = NoConn /\ cm'[c] = cm[c]
        /\ ret'[c] = ret[c] /\ fn'[c] = fn[c]
  BY <1>1, <1>2, ClientFacts, ClientAssumption
     DEF FlowInv, InSavepoint, updateVars, epoch, Typed, TypeOK, ClientTypeOK
<1>8. \/ pc'[c] = ret[c] /\ localSeq'[c] = cm[c].seq
      \/ pc'[c] = "fetch" /\ localSeq'[c] < cm[c].seq
  <2>1. Missing(cm[c], cm[c].snap.seq) = {} <=> cm[c].seq <= cm[c].snap.seq
    <3>1. cm[c].snap.seq <= cm[c].snap.seq
      BY <1>4
    <3> QED
      BY <1>4, <3>1, ClientFacts, MissingFacts
  <2>2. cm[c].snap.seq <= cm[c].seq
    BY <1>4, ClientFacts DEF Known, Manifests
  <2>3. pc'[c] = IF Missing(cm[c], cm[c].snap.seq) = {} THEN ret[c] ELSE "fetch"
    BY DEF Goto, Typed, TypeOK, ClientTypeOK
  <2>4. CASE cm[c].seq <= cm[c].snap.seq
    BY <1>4, <1>7, <2>1, <2>2, <2>3, <2>4
  <2>5. CASE ~(cm[c].seq <= cm[c].snap.seq)
    BY <1>4, <1>7, <2>1, <2>3, <2>5
  <2> QED
    BY <2>4, <2>5
<1>9. ret[c] \notin InSavepoint \cup {"migcas", "refresh", "compactcas", "fetch",
      "apply", "download"}
  BY ClientFacts DEF Rets, OpenRets, InSavepoint
<1>10. FlowInv(c)'
  BY <1>1, <1>7, <1>8, <1>9, ClientFacts DEF FlowInv, Target, SyncLabels, InSavepoint
<1>11. Known(cm[c])' /\ Known(m2[c])'
  BY <1>1, <1>7, ClientFacts, KnownFrame DEF updateVars
<1>12. PositionInv(c)'
  <2>1. cm[c].snap.seq <= localSeq'[c] /\ localSeq'[c] <= cm[c].seq
    BY <1>4, <1>7, <1>8
  <2> QED
    BY <1>7, <1>8, <1>9, <1>11, <2>1 DEF PositionInv, InSavepoint, Synced
<1>13. SnapInv(c)' /\ pc'[c] \notin Pending
  BY <1>8, <1>9 DEF SnapInv, Pending
<1> QED
  BY <1>1, <1>5, <1>6, <1>10, <1>12, <1>13, LocalFrame DEF Typed, TypeOK

\* One iteration of applyLog preserves the invariant: localSeq advances by one.
LEMMA ApplyOK ==
  ASSUME Typed, NEW c \in Clients, Apply(c), UNCHANGED <<updateVars, todo, lastVer>>
  PROVE  Typed'
<1> USE DEF Apply
<1>1. pc[c] = "apply" /\ UNCHANGED coreVars /\ StoreTypeOK' /\ CommitTypeOK'
      /\ GCTypeOK' /\ MigrateTypeOK'
  BY OtherTypes DEF At
<1>2. PICK i \in DOMAIN cm[c].log :
        /\ FirstMissing(cm[c], localSeq[c], i)
        /\ conn' = [conn EXCEPT ![c] = Patch(conn[c], csBody[cm[c].log[i].key.id])]
        /\ localSeq' = [localSeq EXCEPT ![c] = cm[c].log[i].seq]
        /\ Goto(c, IF Missing(cm[c], cm[c].log[i].seq) = {} THEN ret[c] ELSE "apply")
  OBVIOUS
<1>3. conn[c] \in DB /\ saved[c] = NoConn /\ cm[c].snap.seq <= localSeq[c]
      /\ snapshotKey[c] = cm[c].snap.key
  BY <1>1, ClientFacts DEF FlowInv, PositionInv, InSavepoint
<1>4. cm[c].log[i].seq = localSeq[c] + 1 /\ localSeq[c] + 1 <= cm[c].seq
  BY <1>2, <1>3, ClientFacts, MissingFacts
<1>5. csBody[cm[c].log[i].key.id] \in Changeset
  <2>1. cm[c].log[i].key.id \in DOMAIN csBody /\ csBody \in Seq(Changeset)
    BY ClientFacts DEF Known, Typed, TypeOK, StoreTypeOK
  <2> QED
    BY <2>1
<1>6. Patch(conn[c], csBody[cm[c].log[i].key.id]) \in DB
  BY <1>3, <1>5, PatchType
<1>7. ret[c] \in Labels /\ "apply" \in Labels
  BY ClientFacts DEF Rets, OpenRets, Labels, OpenLabels, SyncLabels, UpdateLabels,
     MaintainLabels
<1>8. ClientTypeOK'
  <2> USE DEF Typed, TypeOK, ClientTypeOK
  <2>1. pc' \in [Clients -> Labels]
    BY <1>2, <1>7 DEF Goto
  <2>2. conn' \in [Clients -> DB \cup {NoConn}]
    BY <1>2, <1>6
  <2>3. localSeq' \in [Clients -> Nat]
    BY <1>2, <1>4
  <2> QED
    BY <2>1, <2>2, <2>3
<1>9. Others(c)
  BY <1>2 DEF Others, Same, SameHandle, Goto, updateVars
<1>10. /\ conn'[c] # NoConn /\ localSeq'[c] = localSeq[c] + 1
       /\ snapshotKey'[c] = cm[c].snap.key
       /\ saved'[c] = NoConn /\ cm'[c] = cm[c] /\ ret'[c] = ret[c] /\ fn'[c] = fn[c]
  BY <1>2, <1>3, <1>4, <1>6, ClientAssumption DEF updateVars, Typed, TypeOK,
     ClientTypeOK
<1>11. \/ pc'[c] = ret[c] /\ localSeq'[c] = cm[c].seq
       \/ pc'[c] = "apply" /\ localSeq'[c] < cm[c].seq
  <2>1. localSeq[c] + 1 \in Nat /\ cm[c].snap.seq <= localSeq[c] + 1
        /\ cm[c].seq \in Nat
    BY <1>3, ClientFacts DEF Manifests, blobRef
  <2>2. Missing(cm[c], localSeq[c] + 1) = {} <=> cm[c].seq <= localSeq[c] + 1
    BY <2>1, ClientFacts, MissingFacts
  <2>3. pc'[c] = IF Missing(cm[c], localSeq[c] + 1) = {} THEN ret[c] ELSE "apply"
    BY <1>2, <1>4 DEF Goto, Typed, TypeOK, ClientTypeOK
  <2>4. CASE cm[c].seq <= localSeq[c] + 1
    BY <1>4, <1>10, <2>1, <2>2, <2>3, <2>4
  <2>5. CASE ~(cm[c].seq <= localSeq[c] + 1)
    BY <1>10, <2>1, <2>2, <2>3, <2>5
  <2> QED
    BY <2>4, <2>5
<1>12. ret[c] \notin InSavepoint \cup {"migcas", "refresh", "compactcas", "fetch",
       "apply", "download"}
  BY ClientFacts DEF Rets, OpenRets, InSavepoint
<1>13. FlowInv(c)'
  BY <1>1, <1>10, <1>11, <1>12, ClientFacts DEF FlowInv, Target, SyncLabels, InSavepoint
<1>14. Known(cm[c])' /\ Known(m2[c])'
  BY <1>1, <1>10, ClientFacts, KnownFrame DEF updateVars
<1>15. PositionInv(c)'
  <2>1. cm[c].snap.seq <= localSeq'[c] /\ localSeq'[c] <= cm[c].seq
    BY <1>3, <1>4, <1>10, ClientFacts DEF Manifests, blobRef
  <2> QED
    BY <1>10, <1>11, <1>12, <1>14, <2>1 DEF PositionInv, InSavepoint, Synced
<1>16. SnapInv(c)' /\ pc'[c] \notin Pending
  BY <1>11, <1>12 DEF SnapInv, Pending
<1> QED
  BY <1>1, <1>8, <1>9, <1>13, <1>15, <1>16, LocalFrame DEF Typed, TypeOK

\* The fetches of applyLog preserve the invariant.
LEMMA FetchOK ==
  ASSUME Typed, NEW c \in Clients, Fetch(c), UNCHANGED <<updateVars, todo, lastVer>>
  PROVE  Typed'
<1>1. StoreTypeOK' /\ UNCHANGED coreVars /\ GCTypeOK' /\ orphan' \in [Clients -> CsKey]
  BY OtherTypes DEF Fetch, CommitTypeOK
<1>2. "apply" \in Labels /\ pc[c] = "fetch" /\ Goto(c, "apply")
  BY DEF Fetch, At, Labels, SyncLabels
<1> QED
  BY <1>1, <1>2, MoveOK DEF Fetch, updateVars

\* Open on a bucket with a manifest preserves the invariant.
LEMMA OpenOK ==
  ASSUME Typed, NEW c \in Clients, Open(c), UNCHANGED <<updateVars, todo, lastVer>>
  PROVE  Typed'
<1> DEFINE next == IF c \in Admin THEN "idle" ELSE "migrate"
<1>1. pc[c] = "open" /\ manifest # NoManifest /\ UNCHANGED storeVars
  BY DEF Open, At
<1>2. RestTypes' /\ \A d \in Clients \ {c} : RestSame(d)
  <2>1. schemaVer' \in [Clients -> Nat]
    BY <1>1, ManifestFacts, ClientAssumption DEF Open, OpenWith, Typed, TypeOK,
       ClientTypeOK, Manifests
  <2> QED
    BY <2>1 DEF Typed, TypeOK, ClientTypeOK, RestTypes, RestSame, updateVars, Open,
       OpenWith
<1>3. saved[c] = NoConn
  BY <1>1, ClientFacts DEF FlowInv, InSavepoint
<1>4. saved'[c] = NoConn /\ Known(m2[c])'
  BY <1>1, <1>3, ClientFacts, KnownFrame, OtherTypes DEF Open, OpenWith, updateVars
<1>5. CommitTypeOK' /\ MigrateTypeOK'
  BY OtherTypes
<1>6. next \in Rets /\ next \notin {"capture", "exhausted", "up"} /\ NoSnap \in Nat
  BY DEF Rets, OpenRets, NoSnap
<1>7. syncToManifest(c, manifest, NoConn, NoSnap, next)
  BY DEF Open, OpenWith
<1> HIDE DEF next
<1> QED
  BY <1>1, <1>2, <1>4, <1>5, <1>6, <1>7, ManifestFacts, SyncOK

\* Open on a bucket without a manifest preserves the invariant.
LEMMA OpenEmptyOK ==
  ASSUME Typed, NEW c \in Clients, OpenEmpty(c), UNCHANGED <<updateVars, todo, lastVer>>
  PROVE  Typed'
<1>1. StoreTypeOK' /\ UNCHANGED coreVars /\ GCTypeOK' /\ orphan' \in [Clients -> CsKey]
  BY OtherTypes DEF OpenEmpty, CommitTypeOK
<1>2. "bootupload" \in Labels \ (Synced \cup SyncLabels) /\ pc[c] = "open"
      /\ Goto(c, "bootupload")
  BY DEF OpenEmpty, At, Labels, OpenLabels, Synced, InSavepoint, SyncLabels
<1>3. saved[c] = NoConn
  BY <1>2, ClientFacts DEF FlowInv, InSavepoint
<1> QED
  BY <1>1, <1>2, <1>3, MoveOK DEF OpenEmpty, updateVars

\* uploadEmptySQLite preserves the invariant.
LEMMA BootUploadOK ==
  ASSUME Typed, NEW c \in Clients, BootUpload(c), UNCHANGED <<updateVars, todo,
    lastVer>>
  PROVE  Typed'
<1>1. UNCHANGED coreVars /\ GCTypeOK' /\ orphan' \in [Clients -> CsKey]
  BY OtherTypes DEF BootUpload, CommitTypeOK, coreVars
<1>2. StoreTypeOK'
  BY DEF BootUpload, Typed, TypeOK, StoreTypeOK, StructInv, StoreInv, InitSnap
<1>3. "bootput" \in Labels \ (Synced \cup SyncLabels) /\ pc[c] = "bootupload"
      /\ Goto(c, "bootput")
  BY DEF BootUpload, At, Labels, OpenLabels, Synced, InSavepoint, SyncLabels
<1>4. saved[c] = NoConn
  BY <1>3, ClientFacts DEF FlowInv, InSavepoint
<1> QED
  BY <1>1, <1>2, <1>3, <1>4, MoveOK DEF BootUpload, updateVars

\* A bootstrap that lost the race preserves the invariant.
LEMMA BootLostOK ==
  ASSUME Typed, NEW c \in Clients, BootLost(c), UNCHANGED <<updateVars, todo, lastVer>>
  PROVE  Typed'
<1>1. StoreTypeOK' /\ UNCHANGED coreVars /\ GCTypeOK' /\ orphan' \in [Clients -> CsKey]
  BY OtherTypes DEF BootLost, CommitTypeOK
<1>2. "open" \in Labels \ (Synced \cup SyncLabels) /\ pc[c] = "bootput"
      /\ Goto(c, "open")
  BY DEF BootLost, At, Labels, OpenLabels, Synced, InSavepoint, SyncLabels
<1>3. saved[c] = NoConn
  BY <1>2, ClientFacts DEF FlowInv, InSavepoint
<1> QED
  BY <1>1, <1>2, <1>3, MoveOK DEF BootLost, updateVars

\* The first manifest appears.
LEMMA BootStore ==
  ASSUME Typed, IfNoneMatch, PutManifest(InitManifest, TRUE), UNCHANGED <<blobVars,
    hist, base>>
  PROVE  /\ StoreTypeOK' /\ StoreInv' /\ KnownStays
         /\ \A d \in Clients : pc[d] \in Pending => snapKey[d] # manifest'.snap.key
         /\ manifest' = InitManifest
<1>1. /\ manifest' = InitManifest /\ clock' = clock + 1 /\ sound' = sound
      /\ UNCHANGED <<snapshots, changesets, young, csBody, hist, base>>
  BY DEF PutManifest, blobVars, Typed, TypeOK, StoreTypeOK
<1>2. StoreTypeOK'
  BY <1>1, InitManifestType DEF Typed, TypeOK, StoreTypeOK
<1>3. KnownStays
  BY <1>1 DEF KnownStays, Known
<1>4. Known(InitManifest)'
  BY <1>3, InitManifestType, InitManifestKnown DEF KnownStays, Typed, TypeOK,
     StoreTypeOK, StructInv
<1>5. Len(hist[InitSnap]) = 1
  BY DEF IfNoneMatch, Typed, StructInv, StoreInv
<1>6. InitManifest.snap.key = InitSnap /\ InitManifest.log = <<>>
      /\ InitManifest # NoManifest
  BY InitManifestType, StoreAssumption DEF InitManifest
<1>7. StoreInv'
  BY <1>1, <1>4, <1>5, <1>6 DEF StoreInv, Typed, StructInv
<1>8. \A d \in Clients : pc[d] \in Pending => snapKey[d] # InitSnap
  BY DEF Typed, StructInv, SnapInv, Pending
<1> QED
  BY <1>1, <1>2, <1>3, <1>6, <1>7, <1>8

\* A bootstrap that won the race preserves the invariant.
LEMMA BootPutOK ==
  ASSUME Typed, NEW c \in Clients, BootPut(c), UNCHANGED <<updateVars, todo, lastVer>>
  PROVE  Typed'
<1> DEFINE next == IF c \in Admin THEN "idle" ELSE "migrate"
<1>1. /\ StoreTypeOK' /\ StoreInv' /\ KnownStays
      /\ \A d \in Clients : pc[d] \in Pending => snapKey[d] # manifest'.snap.key
      /\ manifest' = InitManifest
  BY BootStore DEF BootPut
<1>2. pc[c] = "bootput" /\ UNCHANGED <<csBody, hist, base>>
  BY DEF BootPut, At, blobVars
<1>3. RestTypes' /\ \A d \in Clients \ {c} : RestSame(d)
  <2>1. schemaVer' \in [Clients -> Nat]
    BY InitManifestType, ClientAssumption DEF BootPut, OpenWith, Typed, TypeOK,
       ClientTypeOK, Manifests
  <2> QED
    BY <2>1 DEF Typed, TypeOK, ClientTypeOK, RestTypes, RestSame, updateVars, BootPut,
       OpenWith
<1>4. saved'[c] = NoConn
  BY <1>2, ClientFacts DEF FlowInv, InSavepoint, BootPut, OpenWith
<1>5. Known(m2[c])' /\ Known(InitManifest) /\ Known(InitManifest)'
  BY <1>1, ClientFacts, InitManifestType, InitManifestKnown
     DEF KnownStays, updateVars, Typed, TypeOK, StoreTypeOK, StructInv
<1>6. CommitTypeOK' /\ MigrateTypeOK' /\ GCTypeOK'
  BY OtherTypes
<1>7. next \in Rets /\ next \notin {"capture", "exhausted", "up"} /\ NoSnap \in Nat
  BY DEF Rets, OpenRets, NoSnap
<1>8. syncToManifest(c, InitManifest, NoConn, NoSnap, next)
  BY DEF BootPut, OpenWith
<1> HIDE DEF next
<1>9. ClientTypeOK' /\ ClientOK(c)' /\ Others(c) /\ pc'[c] \notin Pending
  BY <1>3, <1>4, <1>5, <1>7, <1>8, InitManifestType, SyncClient
<1>10. StructInv'
  BY <1>1, <1>2, <1>9, Frame DEF KnownStays
<1> QED
  BY <1>1, <1>6, <1>9, <1>10 DEF Typed, TypeOK

\* A bootstrap whose answer is lost preserves the invariant.
LEMMA BootPhantomOK ==
  ASSUME Typed, NEW c \in Clients, BootPhantom(c), UNCHANGED <<updateVars, todo,
    lastVer>>
  PROVE  Typed'
<1>1. /\ StoreTypeOK' /\ StoreInv' /\ KnownStays
      /\ \A d \in Clients : pc[d] \in Pending => snapKey[d] # manifest'.snap.key
  BY BootStore DEF BootPhantom
<1>2. pc[c] = "bootput" /\ UNCHANGED <<csBody, hist, base>>
  BY DEF BootPhantom, At, blobVars
<1>3. CommitTypeOK' /\ MigrateTypeOK' /\ GCTypeOK'
  BY OtherTypes
<1>4. ClientTypeOK' /\ ClientOK(c)' /\ Others(c) /\ pc'[c] \notin Pending
  <2>1. CASE Fail(c)
    BY <1>1, <2>1, EndFacts DEF Fail
  <2>2. CASE Goto(c, "open")
        /\ UNCHANGED <<connVars, ret, attempt, snapKey, schemaVer, left, began>>
    <3>1. "open" \in Labels
      BY DEF Labels, OpenLabels
    <3>2. ClientTypeOK' /\ pc'[c] = "open"
      BY <2>2, <3>1 DEF Typed, TypeOK, ClientTypeOK, connVars, Goto
    <3>3. Others(c)
      BY <2>2 DEF Others, Same, SameHandle, Goto, connVars, updateVars
    <3>4. saved[c] = NoConn
      BY <1>2, ClientFacts DEF FlowInv, InSavepoint
    <3>5. FlowInv(c)' /\ SnapInv(c)'
      BY <2>2, <3>2, <3>4 DEF FlowInv, SnapInv, Target, connVars, Synced, InSavepoint,
         SyncLabels
    <3>6. PositionInv(c)'
      BY <1>1, <2>2, <3>2, <3>4, ClientFacts
         DEF KnownStays, PositionInv, connVars, updateVars, Synced, InSavepoint
    <3> QED
      BY <3>2, <3>3, <3>5, <3>6 DEF ClientOK, Pending
  <2> QED
    BY <2>1, <2>2 DEF BootPhantom
<1>5. StructInv'
  BY <1>1, <1>2, <1>4, Frame DEF KnownStays
<1> QED
  BY <1>1, <1>3, <1>4, <1>5 DEF Typed, TypeOK

\* The end of View preserves the invariant.
LEMMA ViewOK ==
  ASSUME Typed, NEW c \in Clients, View(c), UNCHANGED <<updateVars, todo, lastVer>>
  PROVE  Typed'
BY OtherTypes, EndOK DEF View

\* Calls of an application.
LEMMA CallOK ==
  ASSUME Typed, NEW c \in Clients, Call(c)
  PROVE  Typed'
<1>1. CASE OpenStart(c) /\ UNCHANGED <<updateVars, todo, lastVer>>
  <2>1. "open" \in OpKinds /\ "migrate" \in Rets /\ CommitTypeOK'
    BY <1>1, OtherTypes DEF OpKinds, Rets, OpenRets
  <2> QED
    BY <1>1, <2>1, StartOK DEF OpenStart, updateVars
<1>2. CASE ViewStart(c) /\ UNCHANGED <<updateVars, todo, lastVer>>
  <2>1. "view" \in OpKinds /\ "view" \in Rets /\ CommitTypeOK'
    BY <1>2, OtherTypes DEF OpKinds, Rets
  <2> QED
    BY <1>2, <2>1, StartOK DEF ViewStart, updateVars
<1>3. CASE UpdateStart(c) /\ UNCHANGED <<todo, lastVer>>
  <2>1. "update" \in OpKinds /\ "capture" \in Rets
    BY DEF OpKinds, Rets
  <2>2. PICK f \in Txns : fn' = [fn EXCEPT ![c] = f]
    BY <1>3 DEF UpdateStart
  <2>3. /\ CommitTypeOK' /\ fn'[c] \in Txns /\ UNCHANGED <<csKey, m2, reb>>
        /\ \A d \in Clients \ {c} : fn'[d] = fn[d]
    BY <1>3, <2>2 DEF UpdateStart, Typed, TypeOK, CommitTypeOK
  <2>4. Start(c, "update", "idle", "refresh", "capture")
    BY <1>3 DEF UpdateStart
  <2> QED
    BY <1>3, <2>1, <2>3, <2>4, StartOK
<1>4. CASE CompactStart(c) /\ UNCHANGED <<todo, lastVer>>
  <2>1. "compact" \in OpKinds /\ "compact" \in Rets /\ CommitTypeOK'
    BY <1>4, OtherTypes DEF OpKinds, Rets, CompactStart
  <2> QED
    BY <1>4, <2>1, StartOK DEF CompactStart, updateVars
<1>5. CASE GCStart(c) /\ UNCHANGED lastVer
  <2>1. "gc" \in OpKinds /\ "gc" \in Rets /\ CommitTypeOK'
    BY <1>5, OtherTypes DEF OpKinds, Rets, GCStart
  <2> QED
    BY <1>5, <2>1, StartOK DEF GCStart, updateVars
<1> QED
  BY <1>1, <1>2, <1>3, <1>4, <1>5 DEF Call

\* Errors, crashes and Close.
LEMMA DisruptOK ==
  ASSUME Typed, NEW c \in Clients,
         \/ Disrupt(c)
         \/ (RefreshRejected(c) \/ NotFound(c) \/ ApplyConflict(c)) /\ EndEarly(c)
  PROVE  Typed'
<1>1. (Return(c) \/ Shut(c)) /\ EndEarly(c) /\ UNCHANGED storeVars
  BY DEF Disrupt, StoreError, Crash, Close, RefreshRejected, NotFound, ApplyConflict,
     Fail
<1> QED
  BY <1>1, EarlyOK

\* Every step of Open, View and of a sync preserves the invariant.
LEMMA ClientStepOK ==
  ASSUME Typed, NEW c \in Clients, ClientStep(c), UNCHANGED <<updateVars, todo,
    lastVer>>
  PROVE  Typed'
BY RefreshOK, DownloadOK, FetchOK, ApplyOK, OpenOK, OpenEmptyOK, BootUploadOK,
   BootPutOK,
   BootLostOK, BootPhantomOK, ViewOK DEF ClientStep

-----------------------------------------------------------------------------
(***************************************************************************)
(* The steps of Update.                                                    *)
(***************************************************************************)

\* What If-Match compares: the ETags of two manifests are equal only if they are.
LEMMA IfMatchFacts ==
  ASSUME NEW m, IfMatch(m)
  PROVE  manifest # NoManifest /\ manifest = m
<1>1. Compute(manifest).md5 = manifest /\ Compute(m).md5 = m
  BY DEF Compute
<1> QED
  BY <1>1 DEF IfMatch

\* Replacing one element of a sequence of sequences.
LEMMA SeqOfSeqs ==
  ASSUME NEW S, NEW s \in Seq(Seq(S)), NEW k \in DOMAIN s
  PROVE  s[k] \in Seq(S) /\ k \in 1..Len(s) /\ Len(s[k]) \in Nat
<1>1. s[k] \in Seq(S) /\ k \in 1..Len(s)
  OBVIOUS
<1> QED
  BY <1>1

\* What the type of hist says of one snapshot.
LEMMA HistFacts ==
  ASSUME Typed, NEW k \in DOMAIN hist
  PROVE  /\ hist \in Seq(Seq(DB)) /\ k \in 1..Len(hist) /\ hist[k] \in Seq(DB)
         /\ Len(hist[k]) \in Nat /\ Len(hist[k]) >= 1
<1>1. hist \in Seq(Seq(DB)) /\ Len(hist[k]) >= 1
  BY DEF Typed, TypeOK, StoreTypeOK, StructInv, StoreInv
<1> QED
  BY <1>1, SeqOfSeqs

\* The CAS of doUpdate appends to the log and to the history of its epoch.
LEMMA CommitStore ==
  ASSUME Typed, NEW c \in Clients, pc[c] = "cas", PutCommit(c)
  PROVE  /\ StoreTypeOK' /\ StoreInv' /\ KnownStays
         /\ newManifest(c) \in Manifests /\ Known(manifest)'
         /\ manifest' = newManifest(c) /\ manifest = cm[c] /\ manifest # NoManifest
         /\ DOMAIN hist' = DOMAIN hist /\ UNCHANGED <<csBody, base>>
         /\ \A d \in Clients : pc[d] \in Pending =>
              hist'[snapKey[d]] = hist[snapKey[d]] /\ snapKey[d] # manifest'.snap.key
<1> DEFINE k == cm[c].snap.key
           h == hist[k]
           cs == csBody[csKey[c].id]
           e == [key |-> csKey[c], seq |-> cm[c].seq + 1]
<1>0. PICK m : m = newManifest(c)
  OBVIOUS
<1>1. /\ manifest = cm[c] /\ manifest # NoManifest /\ manifest' = m
      /\ hist' = [hist EXCEPT ![k] = Append(h, Patch(h[Len(h)], cs))]
      /\ UNCHANGED <<snapshots, changesets, young, csBody, base>>
      /\ clock' = clock + 1 /\ sound' = (sound /\ c \notin stale)
  BY <1>0, IfMatchFacts DEF PutCommit, PutManifest, blobVars, epoch
<1>2. /\ cm[c] \in Manifests /\ Known(cm[c]) /\ Len(h) = Len(cm[c].log) + 1
      /\ csKey[c] \in CsKey /\ csKey[c].id \in DOMAIN csBody /\ csKey[c].epoch = k
  BY <1>1, ClientFacts, ManifestFacts DEF PositionInv, InSavepoint
<1>3. /\ hist \in Seq(Seq(DB)) /\ k \in 1..Len(hist) /\ h \in Seq(DB) /\ Len(h) >= 1
      /\ csBody \in Seq(Changeset) /\ cs \in Changeset
  <2>1. k \in DOMAIN hist /\ csBody \in Seq(Changeset)
    BY <1>2 DEF Known, Typed, TypeOK, StoreTypeOK
  <2>2. cs \in Changeset
    BY <1>2, <2>1
  <2> QED
    BY <2>1, <2>2, HistFacts
<1>4. Patch(h[Len(h)], cs) \in DB
  BY <1>3, PatchType
<1> DEFINE g == Append(h, Patch(h[Len(h)], cs))
<1>5. g \in Seq(DB) /\ Len(g) = Len(h) + 1
  BY <1>3, <1>4, AppendProperties
<1> HIDE DEF g
<1>6. hist' = [hist EXCEPT ![k] = g]
  BY <1>1 DEF g
<1>7. /\ hist' \in Seq(Seq(DB)) /\ Len(hist') = Len(hist) /\ DOMAIN hist' = DOMAIN hist
      /\ \A j \in DOMAIN hist : hist'[j] = IF j = k THEN g ELSE hist[j]
  BY <1>3, <1>5, <1>6, ExceptSeq
<1>8. /\ m \in Manifests /\ m.log = Append(cm[c].log, e) /\ m.snap = cm[c].snap
      /\ m.schema = cm[c].schema /\ m.seq = cm[c].seq + 1 /\ m # NoManifest
  <2>1. e \in logEntry /\ cm[c].log \in Seq(logEntry) /\ cm[c].seq + 1 \in Nat
    BY <1>2 DEF logEntry, Manifests
  <2>2. Append(cm[c].log, e) \in Seq(logEntry)
    BY <2>1
  <2>3. m = [seq |-> cm[c].seq + 1, schema |-> cm[c].schema, snap |-> cm[c].snap,
             log |-> Append(cm[c].log, e)]
    BY <1>0 DEF newManifest, appendLog
  <2>4. cm[c].schema \in Nat /\ cm[c].snap \in blobRef
    BY <1>2 DEF Manifests
  <2> HIDE DEF e
  <2>5. m \in Manifests
    BY <2>1, <2>2, <2>3, <2>4 DEF Manifests
  <2> QED
    BY <2>3, <2>5, StoreAssumption
<1> HIDE DEF k, h, cs
<1>9. StoreTypeOK'
  BY <1>1, <1>7, <1>8 DEF Typed, TypeOK, StoreTypeOK
<1>10. KnownStays
  <2> SUFFICES ASSUME NEW x \in Manifests, Known(x) PROVE Known(x)'
    BY DEF KnownStays
  <2>1. x.snap.key \in DOMAIN hist /\ Len(hist[x.snap.key]) <= Len(hist'[x.snap.key])
    <3>1. x.snap.key \in DOMAIN hist
      BY DEF Known
    <3>2. Len(hist[x.snap.key]) \in Nat /\ Len(h) \in Nat
      BY <1>3, <3>1, HistFacts
    <3>3. CASE x.snap.key = k
      BY <1>5, <1>7, <3>1, <3>2, <3>3 DEF h
    <3>4. CASE x.snap.key # k
      BY <1>7, <3>1, <3>2, <3>4
    <3> QED
      BY <3>3, <3>4
  <2>2. Len(x.log) < Len(hist'[x.snap.key])
    <3>1. Len(x.log) \in Nat /\ Len(x.log) < Len(hist[x.snap.key])
      BY DEF Known, Manifests
    <3>2. Len(hist[x.snap.key]) \in Nat /\ Len(hist'[x.snap.key]) \in Nat
      BY <1>3, <1>7, <2>1, SeqOfSeqs
    <3> QED
      BY <2>1, <3>1, <3>2
  <2> QED
    BY <1>1, <1>7, <2>2 DEF Known
<1>11. Known(m)' /\ Len(hist'[m.snap.key]) = Len(m.log) + 1
  <2>1. cm[c].log \in Seq(logEntry) /\ e \in logEntry /\ Len(cm[c].log) \in Nat
    BY <1>2 DEF Manifests, logEntry
  <2>2. /\ Len(m.log) = Len(cm[c].log) + 1
        /\ \A i \in 1..Len(cm[c].log) : m.log[i] = cm[c].log[i]
        /\ m.log[Len(cm[c].log) + 1] = e
        /\ DOMAIN m.log = 1..Len(m.log)
    BY <1>8, <2>1, AppendProperties
  <2>3. m.snap.key = k /\ hist'[k] = g /\ Len(g) = Len(m.log) + 1
    BY <1>2, <1>3, <1>5, <1>7, <1>8, <2>1, <2>2 DEF k
  <2>4. m.seq = m.snap.seq + Len(m.log) /\ m.snap.seq = base[k].seq
        /\ m.schema = base[k].schema
    <3>1. cm[c].snap.seq \in Nat /\ cm[c].seq = cm[c].snap.seq + Len(cm[c].log)
      BY <1>2 DEF Known, Manifests, blobRef
    <3>2. cm[c].snap.seq = base[k].seq /\ cm[c].schema = base[k].schema
      BY <1>2 DEF Known, k
    <3> QED
      BY <1>8, <2>1, <2>2, <3>1, <3>2
  <2>5. ASSUME NEW i \in DOMAIN m.log
        PROVE  /\ m.log[i].seq = m.snap.seq + i /\ m.log[i].key.epoch = k
               /\ m.log[i].key.id \in DOMAIN csBody
    <3>1. CASE i = Len(cm[c].log) + 1
      BY <1>2, <1>8, <2>1, <2>2, <2>4, <3>1 DEF Manifests, blobRef
    <3>2. CASE i # Len(cm[c].log) + 1
      <4>1. i \in 1..Len(cm[c].log) /\ DOMAIN cm[c].log = 1..Len(cm[c].log)
        BY <2>1, <2>2, <3>2
      <4> QED
        BY <1>2, <1>8, <2>2, <4>1 DEF Known, k
    <3> QED
      BY <3>1, <3>2
  <2>6. Len(m.log) < Len(hist'[k]) /\ k \in DOMAIN hist'
    BY <1>3, <1>7, <2>1, <2>2, <2>3
  <2> HIDE DEF e
  <2> QED
    BY <1>1, <2>3, <2>4, <2>5, <2>6 DEF Known
<1>12. StoreInv'
  <2>1. \A j \in DOMAIN hist' : Len(hist'[j]) >= 1
    <3> TAKE j \in DOMAIN hist'
    <3>1. j \in DOMAIN hist /\ Len(hist[j]) \in Nat /\ Len(hist[j]) >= 1
          /\ Len(h) \in Nat
      BY <1>3, <1>7, HistFacts
    <3>2. CASE j = k
      BY <1>3, <1>5, <1>7, <3>1, <3>2
    <3>3. CASE j # k
      BY <1>7, <3>1, <3>3
    <3> QED
      BY <3>2, <3>3
  <2>2. Len(hist') >= 1 /\ Len(base') = Len(hist')
        /\ base'[InitSnap] = [seq |-> 0, schema |-> 0]
    BY <1>1, <1>7 DEF Typed, StructInv, StoreInv
  <2> QED
    BY <1>1, <1>8, <1>11, <2>1, <2>2 DEF StoreInv
<1>13. \A d \in Clients : pc[d] \in Pending =>
         hist'[snapKey[d]] = hist[snapKey[d]] /\ snapKey[d] # m.snap.key
  BY <1>1, <1>7, <1>8 DEF Typed, StructInv, SnapInv, Pending, k
<1> QED
  BY <1>1, <1>7, <1>8, <1>9, <1>10, <1>11, <1>12, <1>13, <1>0

\* Where Update goes when doUpdate succeeded.
LEMMA UpdateDoneFacts ==
  ASSUME Typed, NEW c \in Clients, NEW m, UpdateDone(c, m)
  PROVE  /\ pc' \in [Clients -> Labels] /\ ret' \in [Clients -> Rets]
         /\ attempt' \in [Clients -> Nat]
           /\ began' \in [Clients -> [seq : Nat, clock : Nat]]
         /\ \/ pc'[c] = "idle"
            \/ pc'[c] = "refresh" /\ ret'[c] = "compact"
         /\ \A d \in Clients \ {c} : pc'[d] = pc[d] /\ ret'[d] = ret[d]
<1> USE DEF Typed, TypeOK, ClientTypeOK, Goto
<1>1. "idle" \in Labels /\ "refresh" \in Labels /\ "compact" \in Rets
  BY DEF Labels, SyncLabels, Rets
<1>2. attempt' \in [Clients -> Nat]
  BY DEF UpdateDone
<1>3. CASE Goto(c, "refresh") /\ ret' = [ret EXCEPT ![c] = "compact"] /\ UNCHANGED began
  BY <1>1, <1>2, <1>3
<1>4. CASE Goto(c, "idle") /\ began' = [began EXCEPT ![c] = NotBegun] /\ UNCHANGED ret
  <2>1. NotBegun \in [seq : Nat, clock : Nat]
    BY DEF NotBegun
  <2> QED
    BY <1>1, <1>2, <1>4, <2>1
<1> QED
  BY <1>3, <1>4 DEF UpdateDone

\* doUpdate succeeded: the handle is at rest with manifest cm'[c].
LEMMA UpdateDoneOK ==
  ASSUME Typed, NEW c \in Clients, NEW m, UpdateDone(c, m), KnownStays,
         cm' \in [Clients -> Manifests], localSeq' \in [Clients -> Nat],
         saved' \in [Clients -> DB \cup {NoConn}], savedSeq' \in [Clients -> Nat],
         UNCHANGED <<conn, snapshotKey, stale, snapKey, schemaVer, left, lastVer>>,
         \A d \in Clients \ {c} : /\ cm'[d] = cm[d] /\ localSeq'[d] = localSeq[d]
                                  /\ saved'[d] = saved[d] /\ savedSeq'[d] = savedSeq[d],
         saved'[c] = NoConn, Known(cm[c])',
         conn[c] # NoConn => /\ snapshotKey[c] = cm'[c].snap.key
                             /\ cm'[c].snap.seq <= localSeq'[c]
                               /\ localSeq'[c] <= cm'[c].seq
  PROVE  ClientTypeOK' /\ CommitTypeOK' /\ ClientOK(c)' /\ Others(c)
    /\ pc'[c] \notin Pending
<1>1. /\ CommitTypeOK' /\ m2'[c] = InitManifest
      /\ \A d \in Clients \ {c} :
           fn'[d] = fn[d] /\ csKey'[d] = csKey[d] /\ m2'[d] = m2[d] /\ reb'[d] = reb[d]
  BY ForgetOK DEF UpdateDone
<1>2. /\ pc' \in [Clients -> Labels] /\ ret' \in [Clients -> Rets]
      /\ attempt' \in [Clients -> Nat]
        /\ began' \in [Clients -> [seq : Nat, clock : Nat]]
      /\ \/ pc'[c] = "idle"
         \/ pc'[c] = "refresh" /\ ret'[c] = "compact"
      /\ \A d \in Clients \ {c} : pc'[d] = pc[d] /\ ret'[d] = ret[d]
  BY UpdateDoneFacts
<1>3. ClientTypeOK'
  BY <1>2 DEF Typed, TypeOK, ClientTypeOK
<1>4. Others(c)
  BY <1>1, <1>2 DEF Others, Same, SameHandle
<1>5. FlowInv(c)' /\ SnapInv(c)'
  BY <1>2 DEF FlowInv, SnapInv, Target, SyncLabels, Synced, InSavepoint
<1>6. Known(m2[c])'
  BY <1>1, InitManifestType, InitManifestKnown DEF KnownStays, Typed, TypeOK,
     StoreTypeOK, StructInv
<1>7. PositionInv(c)'
  BY <1>2, <1>6 DEF PositionInv, Synced, InSavepoint
<1> QED
  BY <1>1, <1>2, <1>3, <1>4, <1>5, <1>7 DEF ClientOK, Pending

\* An fn that changes nothing preserves the invariant.
LEMMA CaptureNothingOK ==
  ASSUME Typed, NEW c \in Clients, CaptureNothing(c), UNCHANGED <<todo, lastVer>>
  PROVE  Typed'
<1>1. UNCHANGED storeVars /\ StoreTypeOK' /\ UNCHANGED coreVars /\ GCTypeOK'
      /\ MigrateTypeOK'
  BY OtherTypes DEF CaptureNothing
<1>2. CASE Return(c) /\ Forget(c)
  BY <1>1, <1>2, EndOK
<1>3. CASE UpdateDone(c, cm[c]) /\ UNCHANGED <<connVars, snapKey, schemaVer, left>>
  <2>1. saved[c] = NoConn
    BY ClientFacts DEF CaptureNothing, At, FlowInv, InSavepoint
  <2>2. KnownStays
    BY <1>1, StoreFrame
  <2>3. /\ UNCHANGED <<conn, snapshotKey, stale, snapKey, schemaVer, left, lastVer>>
        /\ UNCHANGED <<cm, localSeq, saved, savedSeq>>
    BY <1>3 DEF connVars
  <2>4. Known(cm[c])'
    BY <2>2, <2>3, ClientFacts DEF KnownStays
  <2>5. ClientTypeOK' /\ CommitTypeOK' /\ ClientOK(c)' /\ Others(c)
        /\ pc'[c] \notin Pending
    BY <1>3, <2>1, <2>2, <2>3, <2>4, ClientFacts, UpdateDoneOK
       DEF PositionInv, Typed, TypeOK, ClientTypeOK
  <2> QED
    BY <1>1, <2>5, LocalFrame DEF Typed, TypeOK, ClientOK
<1> QED
  BY <1>2, <1>3 DEF CaptureNothing

\* Opening the SAVEPOINT and drawing a changeset key preserves the invariant.
LEMMA CaptureOK ==
  ASSUME Typed, NEW c \in Clients, Capture(c), UNCHANGED <<todo, lastVer>>
  PROVE  Typed'
<1> DEFINE after == Effect[fn[c]][conn[c]]
           cs == Diff(conn[c], after)
           l == IF orphan[c] = NoKey THEN "upload" ELSE "unorphan"
           ck == [epoch |-> epoch(cm[c]), id |-> Len(csBody) + 1]
<1> USE DEF Capture
<1>1. pc[c] = "capture" /\ conn[c] \in DB /\ fn[c] \in Txns /\ localSeq[c] = cm[c].seq
  BY ClientFacts DEF At, FlowInv, PositionInv, Target, SyncLabels, Synced
<1>2. after \in DB
  BY <1>1, CommitAssumption
<1>3. cs \in Changeset
  BY <1>1, <1>2, DiffType
<1>4. csBody \in Seq(Changeset) /\ Len(csBody) \in Nat
  BY DEF Typed, TypeOK, StoreTypeOK
<1>5. ck \in CsKey
  BY <1>4, ClientFacts DEF CsKey, epoch, Manifests, blobRef
<1>6. l \in {"upload", "unorphan"}
      /\ {"upload", "unorphan"} \subseteq Labels \cap InSavepoint
  BY DEF Labels, UpdateLabels, InSavepoint
<1>7. /\ csBody' = Append(csBody, cs) /\ csKey' = [csKey EXCEPT ![c] = ck]
      /\ conn' = [conn EXCEPT ![c] = after] /\ pc' = [pc EXCEPT ![c] = l]
      /\ saved' = [saved EXCEPT ![c] = conn[c]]
        /\ savedSeq' = [savedSeq EXCEPT ![c] = localSeq[c]]
      /\ UNCHANGED <<manifest, snapshots, changesets, young, hist, base, clock, sound>>
      /\ UNCHANGED <<localSeq, snapshotKey, cm, stale, ret, attempt, snapKey,
        schemaVer, left,
                    began, fn, orphan, m2, reb>>
  BY DEF Goto
<1>8. csBody' \in Seq(Changeset) /\ Len(csBody') = Len(csBody) + 1
      /\ DOMAIN csBody \subseteq DOMAIN csBody'
      /\ ck.id \in DOMAIN csBody' /\ ck.epoch = cm[c].snap.key
  BY <1>3, <1>4, <1>7 DEF epoch
<1> HIDE DEF after, cs, l, ck, Capture
<1>9. StoreTypeOK'
  BY <1>7, <1>8 DEF Typed, TypeOK, StoreTypeOK
<1>10. ClientTypeOK'
  <2> USE DEF Typed, TypeOK, ClientTypeOK
  <2>1. pc' \in [Clients -> Labels]
    BY <1>6, <1>7
  <2>2. conn' \in [Clients -> DB \cup {NoConn}]
        /\ saved' \in [Clients -> DB \cup {NoConn}]
    BY <1>2, <1>7
  <2>3. savedSeq' \in [Clients -> Nat]
    BY <1>7
  <2> QED
    BY <1>7, <2>1, <2>2, <2>3
<1>11. CommitTypeOK' /\ GCTypeOK' /\ MigrateTypeOK'
  BY <1>5, <1>7, OtherTypes DEF Typed, TypeOK, CommitTypeOK
<1>12. KnownStays
  BY <1>7, <1>8 DEF KnownStays, Known
<1>13. StoreInv'
  <2>1. manifest # NoManifest => Known(manifest)'
    BY <1>7, <1>12, ManifestFacts DEF KnownStays
  <2> QED
    BY <1>7, <2>1 DEF StoreInv, Typed, StructInv
<1>14. Others(c)
  BY <1>7 DEF Others, Same, SameHandle
<1>15. /\ pc'[c] = l /\ conn'[c] = after /\ saved'[c] = conn[c]
       /\ savedSeq'[c] = localSeq[c]
       /\ csKey'[c] = ck /\ after # NoConn /\ conn[c] # NoConn
  BY <1>1, <1>2, <1>7, ClientAssumption DEF Typed, TypeOK, ClientTypeOK, CommitTypeOK
<1>16. FlowInv(c)' /\ SnapInv(c)' /\ pc'[c] \notin Pending
  BY <1>1, <1>6, <1>7, <1>15 DEF FlowInv, SnapInv, Pending, Target, SyncLabels,
     InSavepoint
<1>17. Known(cm[c])' /\ Known(m2[c])'
  BY <1>7, <1>12, ClientFacts DEF KnownStays
<1>18. PositionInv(c)'
  <2>1. /\ snapshotKey[c] = cm[c].snap.key /\ cm[c].snap.seq <= localSeq[c]
        /\ localSeq[c] <= localSeq[c]
    BY <1>15, ClientFacts DEF PositionInv
  <2> QED
    BY <1>1, <1>6, <1>7, <1>8, <1>15, <1>17, <2>1 DEF PositionInv, InSavepoint
<1>19. StructInv'
  BY <1>7, <1>8, <1>12, <1>13, <1>14, <1>16, <1>18, Frame
     DEF KnownStays, ClientOK, Typed, StructInv, SnapInv, Pending
<1> QED
  BY <1>9, <1>10, <1>11, <1>19 DEF Typed, TypeOK

\* The deletion of an orphan preserves the invariant.
LEMMA UnorphanOK ==
  ASSUME Typed, NEW c \in Clients, Unorphan(c), UNCHANGED <<todo, lastVer>>
  PROVE  Typed'
<1>1. UNCHANGED coreVars /\ StoreTypeOK'
  BY DEF Unorphan, DeleteChangesets, storeVars, coreVars, Typed, TypeOK, StoreTypeOK
<1>2. GCTypeOK'
  BY OtherTypes
<1>3. orphan' \in [Clients -> CsKey]
  BY DEF Unorphan, NoKey, CsKey, Typed, TypeOK, CommitTypeOK
<1>4. "upload" \in Labels \cap InSavepoint /\ pc[c] \in InSavepoint /\ Goto(c, "upload")
  BY DEF Unorphan, At, Labels, UpdateLabels, InSavepoint
<1> QED
  BY <1>1, <1>2, <1>3, <1>4, MoveOK DEF Unorphan

\* The upload of a changeset preserves the invariant.
LEMMA UploadOK ==
  ASSUME Typed, NEW c \in Clients, Upload(c), UNCHANGED <<todo, lastVer>>
  PROVE  Typed'
<1>1. UNCHANGED coreVars /\ StoreTypeOK'
  BY ClientFacts DEF Upload, coreVars, Typed, TypeOK, StoreTypeOK
<1>2. GCTypeOK' /\ orphan' \in [Clients -> CsKey]
  BY OtherTypes DEF CommitTypeOK, Upload
<1>3. "cas" \in Labels \cap InSavepoint /\ pc[c] \in InSavepoint /\ Goto(c, "cas")
  BY DEF Upload, At, Labels, UpdateLabels, InSavepoint
<1> QED
  BY <1>1, <1>2, <1>3, MoveOK DEF Upload, updateVars

\* The epoch of a client that is inside its SAVEPOINT is that of its file.
LEMMA SavepointFacts ==
  ASSUME Typed, NEW c \in Clients, pc[c] \in InSavepoint
  PROVE  /\ conn[c] \in DB /\ saved[c] \in DB /\ fn[c] \in Txns
         /\ snapshotKey[c] = cm[c].snap.key /\ localSeq[c] = cm[c].seq
         /\ cm[c].snap.seq <= savedSeq[c] /\ savedSeq[c] <= localSeq[c]
         /\ cm[c].snap.seq <= localSeq[c] /\ localSeq[c] <= cm[c].seq
         /\ csKey[c].id \in DOMAIN csBody /\ csKey[c].epoch = cm[c].snap.key
BY ClientFacts DEF FlowInv, PositionInv, Target, Synced, SyncLabels, InSavepoint

\* A CAS of doUpdate that wins preserves the invariant.
LEMMA CasOK ==
  ASSUME Typed, NEW c \in Clients, Cas(c), UNCHANGED <<todo, lastVer>>
  PROVE  Typed'
<1> USE DEF Cas
<1>1. pc[c] = "cas" /\ GCTypeOK' /\ MigrateTypeOK' /\ pc[c] \in InSavepoint
  BY OtherTypes DEF At, InSavepoint
<1>2. /\ StoreTypeOK' /\ StoreInv' /\ KnownStays
      /\ newManifest(c) \in Manifests /\ Known(manifest)' /\ manifest' = newManifest(c)
      /\ DOMAIN hist' = DOMAIN hist /\ UNCHANGED <<csBody, base>>
      /\ \A d \in Clients : pc[d] \in Pending =>
           hist'[snapKey[d]] = hist[snapKey[d]] /\ snapKey[d] # manifest'.snap.key
  BY <1>1, CommitStore
<1>3. PICK m : m = newManifest(c)
  OBVIOUS
<1>4. /\ m.snap = cm[c].snap /\ m.seq = cm[c].seq + 1
      /\ cm[c].seq \in Nat /\ cm[c].snap.seq <= cm[c].seq /\ cm[c].snap.seq \in Nat
  BY <1>1, <1>3, ClientFacts, SavepointFacts DEF newManifest, appendLog, Manifests,
     blobRef
<1>5. /\ cm' \in [Clients -> Manifests] /\ cm'[c] = m
      /\ localSeq' \in [Clients -> Nat] /\ localSeq'[c] = m.seq
      /\ saved' \in [Clients -> DB \cup {NoConn}] /\ savedSeq' \in [Clients -> Nat]
      /\ saved'[c] = NoConn
      /\ \A d \in Clients \ {c} : /\ cm'[d] = cm[d] /\ localSeq'[d] = localSeq[d]
                                  /\ saved'[d] = saved[d] /\ savedSeq'[d] = savedSeq[d]
  BY <1>2, <1>3, <1>4 DEF Typed, TypeOK, ClientTypeOK
<1>6. Known(cm[c])'
  BY <1>2, <1>3, <1>5
<1>7. snapshotKey[c] = m.snap.key /\ m.snap.seq <= m.seq /\ m.seq <= m.seq
  BY <1>1, <1>4, SavepointFacts
<1>8. UpdateDone(c, newManifest(c))
      /\ UNCHANGED <<conn, snapshotKey, stale, snapKey, schemaVer, left>>
  OBVIOUS
<1> HIDE DEF Cas
<1>9. ClientTypeOK' /\ CommitTypeOK' /\ ClientOK(c)' /\ Others(c)
      /\ pc'[c] \notin Pending
  BY <1>2, <1>5, <1>6, <1>7, <1>8, UpdateDoneOK
<1>10. StructInv'
  BY <1>2, <1>9, Frame DEF KnownStays
<1> QED
  BY <1>1, <1>2, <1>9, <1>10 DEF Typed, TypeOK

\* ... and so does one whose answer is lost,
LEMMA CasPhantomOK ==
  ASSUME Typed, NEW c \in Clients, CasPhantom(c), UNCHANGED <<todo, lastVer>>
  PROVE  Typed'
<1>1. pc[c] = "cas" /\ GCTypeOK' /\ MigrateTypeOK'
  BY OtherTypes DEF CasPhantom, At
<1>2. /\ StoreTypeOK' /\ StoreInv' /\ KnownStays
      /\ DOMAIN hist' = DOMAIN hist /\ UNCHANGED <<csBody, base>>
      /\ \A d \in Clients : pc[d] \in Pending =>
           hist'[snapKey[d]] = hist[snapKey[d]] /\ snapKey[d] # manifest'.snap.key
  BY <1>1, CommitStore DEF CasPhantom
<1>3. ClientTypeOK' /\ CommitTypeOK' /\ ClientOK(c)' /\ Others(c)
      /\ pc'[c] \notin Pending
  BY <1>2, EndFacts DEF CasPhantom
<1>4. StructInv'
  BY <1>2, <1>3, Frame DEF KnownStays
<1> QED
  BY <1>1, <1>2, <1>3, <1>4 DEF Typed, TypeOK

\* ... and one that is answered with 412, by others or by its own retry.
LEMMA CasLostOK ==
  ASSUME Typed, NEW c \in Clients, CasLost(c), UNCHANGED <<todo, lastVer>>
  PROVE  Typed'
<1>1. /\ pc[c] = "cas" /\ GCTypeOK' /\ MigrateTypeOK' /\ CommitTypeOK'
      /\ orphan' \in [Clients -> CsKey]
  BY OtherTypes DEF CasLost, At, CommitTypeOK
<1>2. pc[c] \in InSavepoint /\ "reload" \in Labels \cap InSavepoint
  BY <1>1 DEF InSavepoint, Labels, UpdateLabels
<1>3. /\ Goto(c, "reload")
      /\ UNCHANGED <<connVars, ret, attempt, snapKey, schemaVer, left, began,
        updateVars, lastVer>>
  BY DEF CasLost
<1>4. CASE UNCHANGED storeVars
  BY <1>1, <1>2, <1>3, <1>4, OtherTypes, MoveOK DEF updateVars
<1>5. CASE PutCommit(c)
  <2>1. /\ StoreTypeOK' /\ StoreInv' /\ KnownStays
        /\ DOMAIN hist' = DOMAIN hist /\ UNCHANGED <<csBody, base>>
        /\ \A d \in Clients : pc[d] \in Pending =>
             hist'[snapKey[d]] = hist[snapKey[d]] /\ snapKey[d] # manifest'.snap.key
    BY <1>1, <1>5, CommitStore
  <2>2. ClientTypeOK' /\ pc'[c] = "reload"
    BY <1>2, <1>3 DEF Typed, TypeOK, ClientTypeOK, connVars, Goto
  <2>3. Others(c)
    BY <1>3 DEF Others, Same, SameHandle, Goto, connVars, updateVars
  <2>4. FlowInv(c)' /\ SnapInv(c)'
    BY <1>1, <1>3, <2>2, ClientFacts
       DEF FlowInv, SnapInv, Target, connVars, updateVars, Synced, InSavepoint,
         SyncLabels
  <2>5. Known(cm[c])' /\ Known(m2[c])'
    BY <1>3, <2>1, ClientFacts DEF KnownStays, connVars, updateVars
  <2>6. PositionInv(c)'
    BY <1>1, <1>3, <2>1, <2>2, <2>5, ClientFacts
       DEF PositionInv, connVars, updateVars, Synced, InSavepoint
  <2>7. StructInv'
    BY <2>1, <2>2, <2>3, <2>4, <2>6, Frame DEF KnownStays, ClientOK, Pending
  <2> QED
    BY <1>1, <2>1, <2>2, <2>7 DEF Typed, TypeOK
<1> QED
  BY <1>4, <1>5 DEF CasLost

\* rollbackAndResync, from Reload or RebaseEntry.
LEMMA ResyncOK ==
  ASSUME Typed, NEW c \in Clients, NEW m \in Manifests, Known(m), pc[c] \in InSavepoint,
         snapshotKey[c] = m.snap.key => localSeq[c] <= m.seq,
         rollbackAndResync(c, m), UNCHANGED <<todo, lastVer>>
  PROVE  Typed'
<1> USE DEF rollbackAndResync
<1> DEFINE next == Again(c, "capture")
<1>1. next \in Rets /\ next \in {"capture", "exhausted"}
  BY DEF Again, Rets
<1>2. saved'[c] = NoConn /\ fn'[c] \in Txns /\ saved[c] \in DB \cup {NoConn}
      /\ snapshotKey[c] \in Nat
  BY SavepointFacts, ClientFacts DEF Typed, TypeOK, ClientTypeOK
<1>3. RestTypes'
  BY DEF RestTypes, StaleAfterRollback, Typed, TypeOK, ClientTypeOK
<1>4. \A d \in Clients \ {c} : RestSame(d)
  BY DEF RestSame, StaleAfterRollback
<1>5. CommitTypeOK' /\ MigrateTypeOK' /\ m2'[c] = InitManifest
  BY ClientFacts, InitManifestType, OtherTypes DEF Typed, TypeOK, CommitTypeOK
<1>6. Known(m2[c])'
  BY <1>5, InitManifestKnown, KnownFrame, OtherTypes DEF Typed, TypeOK, StoreTypeOK,
     StructInv
<1>7. syncToManifest(c, m, saved[c], snapshotKey[c], next)
      /\ UNCHANGED <<storeVars, todo>>
  OBVIOUS
<1> HIDE DEF next, rollbackAndResync
<1> QED
  BY <1>1, <1>2, <1>3, <1>4, <1>5, <1>6, <1>7, SyncOK

\* The reload after a 412 preserves the invariant.
LEMMA ReloadOK ==
  ASSUME Typed, NEW c \in Clients, Reload(c), UNCHANGED <<todo, lastVer>>
  PROVE  Typed'
<1>1. pc[c] = "reload" /\ pc[c] \in InSavepoint /\ manifest # NoManifest
  BY DEF Reload, At, InSavepoint
<1>2. snapshotKey[c] = manifest.snap.key => localSeq[c] <= manifest.seq
  BY <1>1, SavepointFacts, SyncBound, ClientAssumption
<1>3. CASE rollbackAndResync(c, manifest)
  BY <1>1, <1>2, <1>3, ManifestFacts, ResyncOK
<1>4. CASE /\ ~cannotRebase(c, manifest)
           /\ m2' = [m2 EXCEPT ![c] = manifest]
           /\ reb' = [reb EXCEPT ![c] = localSeq[c]]
           /\ Goto(c, "rebase")
           /\ UNCHANGED <<storeVars, connVars, ret, attempt, snapKey, schemaVer, left,
                          began, fn, csKey, orphan>>
  <2>1. StoreTypeOK' /\ UNCHANGED coreVars /\ GCTypeOK' /\ MigrateTypeOK'
    BY <1>4, OtherTypes
  <2>2. CommitTypeOK'
    BY <1>1, <1>4, ManifestFacts, ClientFacts DEF Typed, TypeOK, CommitTypeOK
  <2>3. "rebase" \in Labels
    BY DEF Labels, UpdateLabels
  <2>4. ClientTypeOK'
    BY <1>4, <2>3 DEF Typed, TypeOK, ClientTypeOK, connVars, Goto
  <2>5. pc'[c] = "rebase" /\ m2'[c] = manifest /\ reb'[c] = localSeq[c]
    BY <1>4 DEF Typed, TypeOK, ClientTypeOK, CommitTypeOK, Goto
  <2>6. Others(c)
    BY <1>4 DEF Others, Same, SameHandle, Goto, connVars
  <2>7. FlowInv(c)' /\ SnapInv(c)' /\ pc'[c] \notin Pending
    BY <1>1, <1>4, <2>5, ClientFacts
       DEF FlowInv, SnapInv, Pending, Target, connVars, Synced, InSavepoint, SyncLabels
  <2>8. Known(cm[c])' /\ Known(m2[c])'
    BY <1>1, <1>4, <2>1, <2>5, ClientFacts, ManifestFacts, KnownFrame DEF connVars
  <2>9. snapshotKey[c] = manifest.snap.key /\ localSeq[c] <= manifest.seq
        /\ localSeq[c] <= localSeq[c]
    BY <1>2, <1>4, ClientFacts DEF cannotRebase
  <2>10. PositionInv(c)'
    <3>1. /\ cm'[c] = cm[c] /\ localSeq'[c] = localSeq[c] /\ savedSeq'[c] = savedSeq[c]
          /\ snapshotKey'[c] = snapshotKey[c] /\ csKey'[c] = csKey[c]
            /\ csBody' = csBody
      BY <1>4, <2>1 DEF connVars, coreVars
    <3> QED
      BY <1>1, <2>5, <2>8, <2>9, <3>1, SavepointFacts DEF PositionInv
  <2> QED
    BY <2>1, <2>2, <2>4, <2>6, <2>7, <2>10, LocalFrame DEF Typed, TypeOK
<1> QED
  BY <1>3, <1>4 DEF Reload

\* One iteration of the rebase loop preserves the invariant.
LEMMA RebaseEntryOK ==
  ASSUME Typed, NEW c \in Clients, RebaseEntry(c), UNCHANGED <<todo, lastVer>>
  PROVE  Typed'
<1>1. pc[c] = "rebase" /\ pc[c] \in InSavepoint
  BY DEF RebaseEntry, At, InSavepoint
<1>2. /\ m2[c].snap.key = cm[c].snap.key /\ localSeq[c] <= reb[c] /\ reb[c] <= m2[c].seq
      /\ m2[c].seq \in Nat /\ m2[c].snap = cm[c].snap
  <2>1. m2[c].snap.key = cm[c].snap.key /\ localSeq[c] <= reb[c] /\ reb[c] <= m2[c].seq
    BY <1>1, ClientFacts DEF PositionInv
  <2>2. m2[c].snap.seq = cm[c].snap.seq
    BY <2>1, ClientFacts DEF Known
  <2>3. m2[c].snap \in blobRef /\ cm[c].snap \in blobRef /\ m2[c].seq \in Nat
    BY ClientFacts DEF Manifests
  <2> QED
    BY <2>1, <2>2, <2>3 DEF blobRef
<1>3. PICK i \in DOMAIN m2[c].log :
        LET cs == csBody[m2[c].log[i].key.id]
        IN /\ FirstMissing(m2[c], reb[c], i)
           /\ \/ /\ conn' = [conn EXCEPT ![c] = Patch(conn[c], cs)]
                 /\ reb' = [reb EXCEPT ![c] = m2[c].log[i].seq]
                 /\ UNCHANGED <<storeVars, saved, localSeq, snapshotKey, cm, savedSeq,
                                stale, flowVars, fn, csKey, orphan, m2>>
              \/ rollbackAndResync(c, m2[c])
  BY DEF RebaseEntry
<1>4. CASE rollbackAndResync(c, m2[c])
  <2>1. localSeq[c] <= m2[c].seq
    BY <1>2, ClientFacts
  <2> QED
    BY <1>1, <1>4, <2>1, ClientFacts, ResyncOK
<1>5. CASE /\ conn' = [conn EXCEPT ![c] = Patch(conn[c], csBody[m2[c].log[i].key.id])]
           /\ reb' = [reb EXCEPT ![c] = m2[c].log[i].seq]
           /\ UNCHANGED <<storeVars, saved, localSeq, snapshotKey, cm, savedSeq,
                          stale, flowVars, fn, csKey, orphan, m2>>
  <2>1. StoreTypeOK' /\ UNCHANGED coreVars /\ GCTypeOK' /\ MigrateTypeOK'
    BY <1>5, OtherTypes
  <2>2. m2[c].snap.seq <= reb[c]
    BY <1>1, <1>2, SavepointFacts, ClientFacts DEF Manifests, blobRef
  <2>3. m2[c].log[i].seq = reb[c] + 1 /\ reb[c] + 1 <= m2[c].seq
    BY <1>3, <2>2, ClientFacts, MissingFacts
  <2>4. csBody[m2[c].log[i].key.id] \in Changeset
    <3>1. m2[c].log[i].key.id \in DOMAIN csBody /\ csBody \in Seq(Changeset)
      BY ClientFacts DEF Known, Typed, TypeOK, StoreTypeOK
    <3> QED
      BY <3>1
  <2>5. Patch(conn[c], csBody[m2[c].log[i].key.id]) \in DB
    BY <1>1, <2>4, SavepointFacts, PatchType
  <2>6. ClientTypeOK'
    BY <1>5, <2>5 DEF Typed, TypeOK, ClientTypeOK, flowVars
  <2>7. CommitTypeOK'
    BY <1>5, <2>3, ClientFacts DEF Typed, TypeOK, CommitTypeOK
  <2>8. Others(c)
    BY <1>5 DEF Others, Same, SameHandle, flowVars
  <2>9. conn'[c] # NoConn /\ reb'[c] = reb[c] + 1 /\ pc'[c] = "rebase"
    BY <1>1, <1>5, <2>3, <2>5, ClientAssumption DEF Typed, TypeOK, ClientTypeOK,
       CommitTypeOK, flowVars
  <2>10. FlowInv(c)' /\ SnapInv(c)' /\ pc'[c] \notin Pending
    BY <1>1, <1>5, <2>9, ClientFacts
       DEF FlowInv, SnapInv, Pending, Target, flowVars, Synced, InSavepoint, SyncLabels
  <2>11. Known(cm[c])' /\ Known(m2[c])'
    BY <1>5, <2>1, ClientFacts, KnownFrame
  <2>12. localSeq[c] <= reb[c] + 1
    BY <1>2, ClientFacts
  <2>13. PositionInv(c)'
    <3>1. /\ cm'[c] = cm[c] /\ localSeq'[c] = localSeq[c]
          /\ savedSeq'[c] = savedSeq[c] /\ m2'[c] = m2[c]
          /\ snapshotKey'[c] = snapshotKey[c] /\ csKey'[c] = csKey[c]
            /\ csBody' = csBody
      BY <1>5, <2>1 DEF coreVars
    <3> QED
      BY <1>1, <1>2, <2>3, <2>9, <2>11, <2>12, <3>1, SavepointFacts DEF PositionInv
  <2> QED
    BY <2>1, <2>6, <2>7, <2>8, <2>10, <2>13, LocalFrame DEF Typed, TypeOK
<1> QED
  BY <1>3, <1>4, <1>5

\* The end of a clean rebase preserves the invariant.
LEMMA RebasedOK ==
  ASSUME Typed, NEW c \in Clients, Rebased(c), UNCHANGED <<todo, lastVer>>
  PROVE  Typed'
<1> USE DEF Rebased
<1> DEFINE l == Again(c, "cas")
<1>1. pc[c] = "rebase" /\ pc[c] \in InSavepoint
  BY DEF At, InSavepoint
<1>2. m2[c].snap.key = cm[c].snap.key /\ m2[c].snap.seq = cm[c].snap.seq
      /\ localSeq[c] <= m2[c].seq
      /\ m2[c].seq \in Nat
  <2>1. /\ m2[c].snap.key = cm[c].snap.key /\ localSeq[c] <= reb[c]
        /\ reb[c] <= m2[c].seq
        /\ m2[c].seq \in Nat
    BY <1>1, ClientFacts DEF PositionInv, Manifests
  <2>2. m2[c].snap.seq = cm[c].snap.seq
    BY <2>1, ClientFacts DEF Known
  <2> QED
    BY <2>1, <2>2, ClientFacts
<1>3. StoreTypeOK' /\ UNCHANGED coreVars /\ GCTypeOK' /\ MigrateTypeOK'
  BY OtherTypes
<1>4. CommitTypeOK' /\ m2'[c] = InitManifest
  BY InitManifestType DEF Typed, TypeOK, CommitTypeOK
<1>5. l \in Labels /\ l \in {"cas", "exhausted"}
  BY DEF Again, Labels, UpdateLabels
<1>6. ClientTypeOK'
  BY <1>2, <1>5, ClientFacts DEF Typed, TypeOK, ClientTypeOK, Goto
<1>7. Others(c)
  BY DEF Others, Same, SameHandle, Goto
<1>8. pc'[c] = l /\ cm'[c] = m2[c] /\ localSeq'[c] = m2[c].seq
  BY DEF Typed, TypeOK, ClientTypeOK, Goto
<1>9. FlowInv(c)' /\ SnapInv(c)' /\ pc'[c] \notin Pending
  BY <1>1, <1>5, <1>8, ClientFacts
     DEF FlowInv, SnapInv, Pending, Target, Synced, InSavepoint, SyncLabels
<1>10. Known(cm[c])' /\ Known(m2[c])'
  BY <1>3, <1>4, <1>8, ClientFacts, KnownFrame, InitManifestKnown
     DEF Typed, TypeOK, StoreTypeOK, StructInv
<1>11. PositionInv(c)'
  <2>1. /\ m2[c].snap.seq <= savedSeq[c] /\ savedSeq[c] <= m2[c].seq
        /\ m2[c].snap.seq <= m2[c].seq
        /\ m2[c].seq <= m2[c].seq
    BY <1>1, <1>2, SavepointFacts, ClientFacts DEF Manifests, blobRef
  <2>2. snapshotKey'[c] = m2[c].snap.key /\ csKey'[c].id \in DOMAIN csBody'
        /\ csKey'[c].epoch = m2[c].snap.key
    BY <1>1, <1>2, <1>3, SavepointFacts DEF coreVars
  <2> QED
    BY <1>5, <1>8, <1>10, <2>1, <2>2 DEF PositionInv, Synced, InSavepoint
<1> QED
  BY <1>3, <1>4, <1>6, <1>7, <1>9, <1>11, LocalFrame DEF Typed, TypeOK

\* The error returns of doUpdate preserve the invariant.
LEMMA CommitEndOK ==
  ASSUME Typed, NEW c \in Clients, RebaseNotFound(c) \/ Exhausted(c), UNCHANGED <<todo,
    lastVer>>
  PROVE  Typed'
<1>1. UNCHANGED coreVars /\ StoreTypeOK'
  BY DEF RebaseNotFound, Exhausted, DeleteChangesets, storeVars, coreVars, Typed,
     TypeOK, StoreTypeOK
<1>2. GCTypeOK' /\ MigrateTypeOK'
  BY OtherTypes
<1> QED
  BY <1>1, <1>2, EndOK DEF RebaseNotFound, Exhausted

\* Every step of doUpdate preserves the invariant.
LEMMA CommitStepOK ==
  ASSUME Typed, NEW c \in Clients, CommitStep(c), UNCHANGED <<todo, lastVer>>
  PROVE  Typed'
BY CaptureNothingOK, CaptureOK, UnorphanOK, UploadOK, CasOK, CasPhantomOK, CasLostOK,
   ReloadOK,
   RebaseEntryOK, RebasedOK, CommitEndOK DEF CommitStep

-----------------------------------------------------------------------------
(***************************************************************************)
(* The steps of Compact and of migrations: a new snapshot.                 *)
(***************************************************************************)

\* A new snapshot appears in the bucket, under a key that nobody knows yet.
LEMMA UploadStore ==
  ASSUME Typed, NEW body \in DB, NEW n \in Nat, NEW v \in Nat, PutSnapshot(body, n, v)
  PROVE  /\ StoreTypeOK' /\ StoreInv' /\ KnownStays /\ UNCHANGED <<manifest, csBody>>
         /\ DOMAIN hist \subseteq DOMAIN hist'
           /\ NextSnap \in DOMAIN hist' \ DOMAIN hist
         /\ \A k \in DOMAIN hist : hist'[k] = hist[k] /\ base'[k] = base[k]
         /\ NextSnap \in Nat \ {InitSnap} /\ hist'[NextSnap] = <<body>>
         /\ base'[NextSnap] = [seq |-> n, schema |-> v]
<1> DEFINE b == [seq |-> n, schema |-> v]
           s == <<body>>
           k0 == Len(hist) + 1
<1>1. /\ hist' = Append(hist, s) /\ base' = Append(base, b) /\ k0 = NextSnap
      /\ snapshots' = snapshots \cup {k0}
      /\ young' = IF Grace THEN young \cup {k0} ELSE young
      /\ UNCHANGED <<manifest, changesets, csBody, clock, sound>>
  BY DEF PutSnapshot, NextSnap
<1>2. /\ hist \in Seq(Seq(DB)) /\ base \in Seq([seq : Nat, schema : Nat])
      /\ Len(base) = Len(hist)
      /\ Len(hist) \in Nat /\ Len(hist) >= 1
  BY DEF Typed, TypeOK, StoreTypeOK, StructInv, StoreInv
<1>3. s \in Seq(DB) /\ Len(s) = 1 /\ b \in [seq : Nat, schema : Nat]
  OBVIOUS
<1> HIDE DEF s, b
<1>4. /\ hist' \in Seq(Seq(DB)) /\ Len(hist') = k0 /\ hist'[k0] = s
      /\ \A k \in 1..Len(hist) : hist'[k] = hist[k]
  BY <1>1, <1>2, <1>3, AppendProperties
<1>5. /\ base' \in Seq([seq : Nat, schema : Nat]) /\ Len(base') = k0 /\ base'[k0] = b
      /\ \A k \in 1..Len(hist) : base'[k] = base[k]
  BY <1>1, <1>2, <1>3, AppendProperties
<1>6. DOMAIN hist = 1..Len(hist) /\ DOMAIN hist' = 1..k0 /\ k0 \in Nat /\ k0 # InitSnap
      /\ k0 = Len(hist) + 1
  BY <1>2, <1>4 DEF InitSnap
<1>7. DOMAIN hist \subseteq DOMAIN hist' /\ k0 \in DOMAIN hist' \ DOMAIN hist
  BY <1>2, <1>6
<1> HIDE DEF k0
<1>8. StoreTypeOK'
  BY <1>1, <1>4, <1>5, <1>7 DEF Typed, TypeOK, StoreTypeOK
<1>9. KnownStays
  BY <1>1, <1>4, <1>5, <1>6, <1>7 DEF KnownStays, Known
<1>10. StoreInv'
  <2>1. \A k \in DOMAIN hist' : Len(hist'[k]) >= 1
    <3> TAKE k \in DOMAIN hist'
    <3>1. CASE k = k0
      <4>1. hist'[k] = s
        BY <1>4, <3>1
      <4> QED
        BY <1>3, <4>1
    <3>2. CASE k # k0
      <4>1. k \in DOMAIN hist
        <5>1. k \in 1..k0
          BY <1>6
        <5>2. k \in 1..Len(hist)
          BY <1>2, <1>6, <3>2, <5>1
        <5> QED
          BY <1>6, <5>2
      <4> QED
        BY <1>4, <1>6, <4>1, HistFacts
    <3> QED
      BY <3>1, <3>2
  <2>2. InitSnap \in DOMAIN hist
    BY <1>2, <1>6 DEF InitSnap
  <2>3. base'[InitSnap] = [seq |-> 0, schema |-> 0] /\ Len(hist') >= 1
        /\ Len(base') = Len(hist')
    <3>1. base'[InitSnap] = base[InitSnap] /\ base[InitSnap] = [seq |-> 0, schema |-> 0]
      BY <1>5, <1>6, <2>2 DEF Typed, StructInv, StoreInv
    <3> QED
      BY <1>2, <1>4, <1>5, <1>6, <3>1
  <2>4. manifest = NoManifest => Len(hist'[InitSnap]) = 1
    BY <1>4, <1>6, <2>2 DEF Typed, StructInv, StoreInv
  <2>5. manifest # NoManifest => Known(manifest)'
        /\ hist'[manifest.snap.key] = hist[manifest.snap.key]
    BY <1>1, <1>4, <1>6, <1>9, ManifestFacts DEF KnownStays, Known
  <2> QED
    BY <1>1, <2>1, <2>3, <2>4, <2>5, ManifestFacts DEF StoreInv
<1> QED
  BY <1>1, <1>4, <1>5, <1>6, <1>7, <1>8, <1>9, <1>10 DEF s, b

\* The manifest m that puts the uploaded snapshot of c in charge.
LEMMA SnapStore ==
  ASSUME Typed, NEW c \in Clients, pc[c] \in Pending, NEW m \in Manifests,
         IfMatch(cm[c]), PutManifest(m, c \notin stale), UNCHANGED <<blobVars, hist,
           base>>,
         m.snap.key = snapKey[c], m.snap.seq = base[snapKey[c]].seq, m.seq = m.snap.seq,
         m.schema = base[snapKey[c]].schema, m.log = <<>>
  PROVE  /\ StoreTypeOK' /\ StoreInv' /\ KnownStays /\ UNCHANGED <<csBody, hist, base>>
         /\ manifest' = m /\ Known(m)'
         /\ \A d \in Clients \ {c} : pc[d] \in Pending => snapKey[d] # m.snap.key
<1>1. /\ manifest' = m /\ clock' = clock + 1 /\ sound' = (sound /\ c \notin stale)
      /\ UNCHANGED <<snapshots, changesets, young, csBody, hist, base>>
  BY DEF PutManifest, blobVars
<1>2. StoreTypeOK'
  BY <1>1 DEF Typed, TypeOK, StoreTypeOK
<1>3. KnownStays
  BY <1>1 DEF KnownStays, Known
<1>4. snapKey[c] \in DOMAIN hist /\ Len(hist[snapKey[c]]) = 1 /\ Len(m.log) = 0
  <2>1. snapKey[c] \in DOMAIN hist /\ hist[snapKey[c]] = <<conn[c]>>
    BY ClientFacts DEF SnapInv, Pending
  <2> QED
    BY <2>1
<1>5. DOMAIN m.log = {} /\ m.snap.seq \in Nat
  BY DEF Manifests, blobRef
<1>6. Known(m)'
  BY <1>1, <1>4, <1>5 DEF Known
<1>7. m # NoManifest
  BY StoreAssumption
<1>8. StoreInv'
  <2>1. StoreInv /\ Len(hist[m.snap.key]) = Len(m.log) + 1
    BY <1>4 DEF Typed, StructInv
  <2> QED
    BY <1>1, <1>6, <1>7, <2>1 DEF StoreInv
<1>9. \A d \in Clients \ {c} : pc[d] \in Pending => snapKey[d] # m.snap.key
  BY DEF Typed, StructInv, SnapInv, Pending
<1> QED
  BY <1>1, <1>2, <1>3, <1>6, <1>8, <1>9

\* The manifest of a compaction puts the snapshot of c in charge.
LEMMA CompactStore ==
  ASSUME Typed, NEW c \in Clients, pc[c] = "compactcas", PutCompact(c)
  PROVE  /\ StoreTypeOK' /\ StoreInv' /\ KnownStays /\ UNCHANGED <<csBody, hist, base>>
         /\ compactManifest(c) \in Manifests
         /\ manifest' = compactManifest(c) /\ Known(manifest)'
         /\ \A d \in Clients \ {c} : pc[d] \in Pending => snapKey[d] # manifest'.snap.key
<1>1. PICK m : m = compactManifest(c)
  OBVIOUS
<1>2. m = [seq |-> cm[c].seq, schema |-> cm[c].schema,
           snap |-> [key |-> snapKey[c], seq |-> cm[c].seq], log |-> <<>>]
  BY <1>1 DEF compactManifest, withSnapshot
<1>3. m \in Manifests
  BY <1>2, ClientFacts DEF Manifests, blobRef
<1>4. base[snapKey[c]] = [seq |-> cm[c].seq, schema |-> cm[c].schema]
  BY ClientFacts DEF SnapInv
<1>5. /\ m.snap.key = snapKey[c] /\ m.snap.seq = base[snapKey[c]].seq
      /\ m.seq = m.snap.seq
      /\ m.schema = base[snapKey[c]].schema /\ m.log = <<>>
  BY <1>2, <1>4
<1>6. /\ IfMatch(cm[c]) /\ PutManifest(m, c \notin stale)
      /\ UNCHANGED <<blobVars, hist, base>>
      /\ pc[c] \in Pending
  BY <1>1 DEF PutCompact, Pending
<1>7. /\ StoreTypeOK' /\ StoreInv' /\ KnownStays /\ UNCHANGED <<csBody, hist, base>>
      /\ manifest' = m /\ Known(m)'
      /\ \A d \in Clients \ {c} : pc[d] \in Pending => snapKey[d] # m.snap.key
  BY <1>3, <1>5, <1>6, SnapStore
<1> QED
  BY <1>1, <1>3, <1>7

\* The manifest of a migration puts the snapshot of c in charge.
LEMMA MigrateStore ==
  ASSUME Typed, NEW c \in Clients, pc[c] = "migcas", PutMigrate(c)
  PROVE  /\ StoreTypeOK' /\ StoreInv' /\ KnownStays /\ UNCHANGED <<csBody, hist, base>>
         /\ migrateManifest(c) \in Manifests
         /\ manifest' = migrateManifest(c) /\ Known(manifest)'
         /\ \A d \in Clients \ {c} : pc[d] \in Pending => snapKey[d] # manifest'.snap.key
<1>1. PICK m : m = migrateManifest(c)
  OBVIOUS
<1>2. m = [seq |-> cm[c].seq, schema |-> cm[c].schema + 1,
           snap |-> [key |-> snapKey[c], seq |-> cm[c].seq], log |-> <<>>]
  BY <1>1 DEF migrateManifest
<1>3. m \in Manifests
  BY <1>2, ClientFacts DEF Manifests, blobRef
<1>4. base[snapKey[c]] = [seq |-> cm[c].seq, schema |-> cm[c].schema + 1]
  BY ClientFacts DEF SnapInv
<1>5. /\ m.snap.key = snapKey[c] /\ m.snap.seq = base[snapKey[c]].seq
      /\ m.seq = m.snap.seq
      /\ m.schema = base[snapKey[c]].schema /\ m.log = <<>>
  BY <1>2, <1>4
<1>6. /\ IfMatch(cm[c]) /\ PutManifest(m, c \notin stale)
      /\ UNCHANGED <<blobVars, hist, base>>
      /\ pc[c] \in Pending
  BY <1>1 DEF PutMigrate, Pending
<1>7. /\ StoreTypeOK' /\ StoreInv' /\ KnownStays /\ UNCHANGED <<csBody, hist, base>>
      /\ manifest' = m /\ Known(m)'
      /\ \A d \in Clients \ {c} : pc[d] \in Pending => snapKey[d] # m.snap.key
  BY <1>3, <1>5, <1>6, SnapStore
<1> QED
  BY <1>1, <1>3, <1>7

\* A snapshot is uploaded: the operation goes on to its CAS.
LEMMA UploadedOK ==
  ASSUME Typed, NEW c \in Clients, NEW l \in Pending, NEW body \in DB, NEW v \in Nat,
         PutSnapshot(body, cm[c].seq, v),
         snapKey' = [snapKey EXCEPT ![c] = NextSnap], Goto(c, l),
         conn' = [conn EXCEPT ![c] = body], pc[c] \in Synced, saved[c] = NoConn,
         UNCHANGED <<saved, localSeq, snapshotKey, cm, savedSeq, stale, ret, attempt,
           schemaVer,
                     left, began, updateVars, todo, lastVer>>,
         \/ l = "compactcas" /\ v = cm[c].schema /\ ret[c] = "compact"
         \/ l = "migcas" /\ v = cm[c].schema + 1 /\ cm[c].schema < Version[c]
  PROVE  Typed'
<1> USE DEF Goto
<1>1. CommitTypeOK' /\ GCTypeOK' /\ MigrateTypeOK'
  BY OtherTypes
<1>2. cm[c].seq \in Nat
  BY ClientFacts DEF Manifests
<1>3. PICK k : k = NextSnap
  OBVIOUS
<1>4. /\ StoreTypeOK' /\ StoreInv' /\ KnownStays /\ UNCHANGED <<manifest, csBody>>
      /\ DOMAIN hist \subseteq DOMAIN hist' /\ k \in DOMAIN hist' \ DOMAIN hist
      /\ \A j \in DOMAIN hist : hist'[j] = hist[j] /\ base'[j] = base[j]
      /\ k \in Nat \ {InitSnap} /\ hist'[k] = <<body>>
      /\ base'[k] = [seq |-> cm[c].seq, schema |-> v]
  BY <1>2, <1>3, UploadStore
<1>5. l \in Labels
  BY DEF Pending, Labels, OpenLabels, MaintainLabels
<1>6. ClientTypeOK'
  BY <1>3, <1>4, <1>5 DEF Typed, TypeOK, ClientTypeOK
<1>7. Others(c)
  BY DEF Others, Same, SameHandle, updateVars
<1>8. pc'[c] = l /\ snapKey'[c] = k /\ conn'[c] = body /\ body # NoConn
  BY <1>3, ClientAssumption DEF Typed, TypeOK, ClientTypeOK
<1>9. FlowInv(c)'
  BY <1>8 DEF FlowInv, Target, SyncLabels, Synced, InSavepoint, Pending
<1>10. Known(cm[c])' /\ Known(m2[c])'
  BY <1>4, ClientFacts DEF KnownStays, updateVars
<1>11. conn[c] # NoConn /\ localSeq[c] = cm[c].seq
  BY ClientFacts DEF FlowInv, PositionInv
<1>12. PositionInv(c)'
  BY <1>8, <1>10, <1>11, ClientFacts DEF PositionInv, Pending, InSavepoint
<1>13. manifest # NoManifest => manifest.snap.key \in DOMAIN hist
  BY ManifestFacts DEF Known
<1>14. \A d \in Clients : pc[d] \in Pending => snapKey[d] \in DOMAIN hist
  BY DEF Typed, StructInv, SnapInv, Pending
<1>15. \A d \in Clients \ {c} : pc'[d] = pc[d] /\ snapKey'[d] = snapKey[d]
  BY <1>7 DEF Others, Same, SameHandle
<1>16. SnapInv(c)'
  <2>1. k # InitSnap /\ k \in DOMAIN hist' /\ hist'[k] = <<conn'[c]>>
    BY <1>4, <1>8
  <2>2. base'[k] = [seq |-> cm'[c].seq,
                    schema |-> IF pc'[c] = "migcas" THEN cm'[c].schema + 1 ELSE cm'[c].schema]
    BY <1>4, <1>8
  <2>3. manifest' # NoManifest => k # manifest'.snap.key
    BY <1>4, <1>13
  <2>4. \A d \in Clients \ {c} : pc'[d] \in Pending => snapKey'[d] # k
    BY <1>4, <1>14, <1>15
  <2> QED
    BY <1>8, <2>1, <2>2, <2>3, <2>4 DEF SnapInv, Pending
<1>17. \A d \in Clients \ {c} : pc[d] \in Pending =>
            /\ hist'[snapKey[d]] = hist[snapKey[d]]
            /\ manifest' # NoManifest => snapKey[d] # manifest'.snap.key
            /\ pc'[c] \in Pending => snapKey[d] # snapKey'[c]
  BY <1>4, <1>8, <1>14 DEF Typed, StructInv, SnapInv, Pending
<1>18. StructInv'
  BY <1>4, <1>7, <1>9, <1>12, <1>16, <1>17, Frame DEF KnownStays, ClientOK
<1> QED
  BY <1>1, <1>4, <1>6, <1>18 DEF Typed, TypeOK

\* The upload of a compaction preserves the invariant.
LEMMA CompactUploadOK ==
  ASSUME Typed, NEW c \in Clients, CompactUpload(c), UNCHANGED <<todo, lastVer>>
  PROVE  Typed'
<1>1. pc[c] = "compact" /\ pc[c] \in Synced
  BY DEF CompactUpload, At, Synced
<1>2. conn[c] \in DB /\ saved[c] = NoConn /\ ret[c] = "compact" /\ cm[c].schema \in Nat
  BY <1>1, ClientFacts DEF FlowInv, InSavepoint, Manifests
<1>3. conn' = [conn EXCEPT ![c] = conn[c]] /\ "compactcas" \in Pending
  BY DEF CompactUpload, connVars, Pending, Typed, TypeOK, ClientTypeOK
<1> QED
  BY <1>1, <1>2, <1>3, UploadedOK DEF CompactUpload, connVars

\* A migration and its upload preserve the invariant.
LEMMA MigrateUpOK ==
  ASSUME Typed, NEW c \in Clients, MigrateUp(c), UNCHANGED todo
  PROVE  Typed'
<1> DEFINE after == Up[cm[c].schema + 1][conn[c]]
<1>1. pc[c] = "up" /\ pc[c] \in Synced
  BY DEF MigrateUp, At, Synced
<1>2. /\ conn[c] \in DB /\ saved[c] = NoConn /\ cm[c].schema \in Nat
      /\ cm[c].schema < Version[c]
  BY <1>1, ClientFacts DEF FlowInv, InSavepoint, Manifests, Target, SyncLabels
<1>3. cm[c].schema + 1 \in 1..Version[c]
  BY <1>2, ClientAssumption
<1>4. after \in DB /\ cm[c].schema + 1 \in Nat /\ "migcas" \in Pending
  BY <1>2, <1>3, MigrateAssumption DEF Pending
<1>5. /\ PutSnapshot(after, cm[c].seq, cm[c].schema + 1)
      /\ snapKey' = [snapKey EXCEPT ![c] = NextSnap] /\ Goto(c, "migcas")
      /\ conn' = [conn EXCEPT ![c] = after]
      /\ UNCHANGED <<saved, localSeq, snapshotKey, cm, savedSeq, stale, ret, attempt,
        schemaVer,
                     left, began, updateVars, todo, lastVer>>
  BY DEF MigrateUp
<1> HIDE DEF after
<1> QED
  BY <1>1, <1>2, <1>4, <1>5, UploadedOK

\* The CAS of a snapshot succeeded: the handle moves to the new epoch.
LEMMA NewEpochOK ==
  ASSUME Typed, NEW c \in Clients, NEW l \in {"idle", "migrate"}, NEW m \in Manifests,
         pc[c] \in Pending, Goto(c, l),
         StoreTypeOK', StoreInv', KnownStays, UNCHANGED <<csBody, hist, base>>,
         manifest' = m, Known(m)', m.snap.key = snapKey[c], m.snap.seq = cm[c].seq,
           m.seq = cm[c].seq,
         \A d \in Clients \ {c} : pc[d] \in Pending => snapKey[d] # manifest'.snap.key,
         cm' = [cm EXCEPT ![c] = m],
           snapshotKey' = [snapshotKey EXCEPT ![c] = snapKey[c]],
         snapKey' = [snapKey EXCEPT ![c] = NoSnap],
         localSeq' = localSeq \/ localSeq' = [localSeq EXCEPT ![c] = cm[c].seq],
         attempt' \in [Clients -> Nat], began' \in [Clients -> [seq : Nat,
           clock : Nat]],
         UNCHANGED <<conn, saved, savedSeq, stale, ret, schemaVer, left, updateVars,
           todo, lastVer>>
  PROVE  Typed'
<1> USE DEF Goto
<1>1. CommitTypeOK' /\ GCTypeOK' /\ MigrateTypeOK'
  BY OtherTypes
<1>2. l \in Labels /\ pc[c] \in Synced /\ pc[c] \notin InSavepoint \cup {"exhausted"}
  BY DEF Labels, OpenLabels, Pending, Synced, InSavepoint
<1>3. localSeq[c] = cm[c].seq /\ cm[c].seq \in Nat /\ saved[c] = NoConn
  BY <1>2, ClientFacts DEF PositionInv, FlowInv, Manifests
<1>4. ClientTypeOK'
  <2> USE DEF Typed, TypeOK, ClientTypeOK
  <2>1. pc' \in [Clients -> Labels] /\ cm' \in [Clients -> Manifests]
    BY <1>2
  <2>2. /\ snapshotKey' \in [Clients -> Nat] /\ snapKey' \in [Clients -> Nat]
        /\ localSeq' \in [Clients -> Nat]
    BY <1>3, ClientFacts DEF NoSnap
  <2> QED
    BY <2>1, <2>2
<1>5. /\ pc'[c] = l /\ cm'[c] = m /\ snapshotKey'[c] = snapKey[c] /\ saved'[c] = NoConn
      /\ localSeq'[c] = cm[c].seq
  BY <1>3 DEF Typed, TypeOK, ClientTypeOK
<1>6. Others(c)
  <2>1. \A d \in Clients \ {c} : localSeq'[d] = localSeq[d]
    BY DEF Typed, TypeOK, ClientTypeOK
  <2> QED
    BY <2>1 DEF Others, Same, SameHandle, updateVars
<1>7. FlowInv(c)' /\ SnapInv(c)' /\ pc'[c] \notin Pending
  BY <1>5 DEF FlowInv, SnapInv, Pending, Target, SyncLabels, Synced, InSavepoint
<1>8. Known(cm[c])' /\ Known(m2[c])'
  BY <1>5, ClientFacts DEF KnownStays, updateVars
<1>9. PositionInv(c)'
  <2>1. m.snap.seq <= localSeq'[c] /\ localSeq'[c] <= m.seq
    BY <1>3, <1>5
  <2> QED
    BY <1>5, <1>8, <2>1 DEF PositionInv, Synced, InSavepoint
<1>10. StructInv'
  BY <1>6, <1>7, <1>9, Frame DEF KnownStays, ClientOK
<1> QED
  BY <1>1, <1>4, <1>10 DEF Typed, TypeOK

\* A compaction that wins its CAS preserves the invariant.
LEMMA CompactCasOK ==
  ASSUME Typed, NEW c \in Clients, CompactCas(c), UNCHANGED <<todo, lastVer>>
  PROVE  Typed'
<1>1. pc[c] = "compactcas" /\ pc[c] \in Pending
  BY DEF CompactCas, At, Pending
<1>2. PICK m : m = compactManifest(c)
  OBVIOUS
<1>3. /\ StoreTypeOK' /\ StoreInv' /\ KnownStays /\ UNCHANGED <<csBody, hist, base>>
      /\ m \in Manifests /\ manifest' = m /\ Known(m)'
      /\ \A d \in Clients \ {c} : pc[d] \in Pending => snapKey[d] # manifest'.snap.key
  BY <1>1, <1>2, CompactStore DEF CompactCas
<1>4. m.snap.key = snapKey[c] /\ m.snap.seq = cm[c].seq /\ m.seq = cm[c].seq
  BY <1>2 DEF compactManifest, withSnapshot
<1>5. attempt' \in [Clients -> Nat] /\ began' \in [Clients -> [seq : Nat, clock : Nat]]
  BY DEF CompactCas, NotBegun, Typed, TypeOK, ClientTypeOK
<1>6. Goto(c, "idle") /\ cm' = [cm EXCEPT ![c] = m] /\ localSeq' = localSeq
  BY <1>2 DEF CompactCas
<1> QED
  BY <1>1, <1>3, <1>4, <1>5, <1>6, NewEpochOK DEF CompactCas

\* A migration that wins its CAS preserves the invariant.
LEMMA MigrateCasOK ==
  ASSUME Typed, NEW c \in Clients, MigrateCas(c), UNCHANGED todo
  PROVE  Typed'
<1>1. pc[c] = "migcas" /\ pc[c] \in Pending
  BY DEF MigrateCas, At, Pending
<1>2. PICK m : m = migrateManifest(c)
  OBVIOUS
<1>3. /\ StoreTypeOK' /\ StoreInv' /\ KnownStays /\ UNCHANGED <<csBody, hist, base>>
      /\ m \in Manifests /\ manifest' = m /\ Known(m)'
      /\ \A d \in Clients \ {c} : pc[d] \in Pending => snapKey[d] # manifest'.snap.key
  BY <1>1, <1>2, MigrateStore DEF MigrateCas
<1>4. m.snap.key = snapKey[c] /\ m.snap.seq = cm[c].seq /\ m.seq = cm[c].seq
  BY <1>2 DEF migrateManifest
<1>5. attempt' \in [Clients -> Nat] /\ began' \in [Clients -> [seq : Nat, clock : Nat]]
  BY DEF MigrateCas, Typed, TypeOK, ClientTypeOK
<1>6. Goto(c, "migrate") /\ cm' = [cm EXCEPT ![c] = m]
      /\ localSeq' = [localSeq EXCEPT ![c] = cm[c].seq]
  BY <1>2 DEF MigrateCas
<1> QED
  BY <1>1, <1>3, <1>4, <1>5, <1>6, NewEpochOK DEF MigrateCas

\* A CAS of a snapshot that is answered with 412, or with nothing.
LEMMA SnapLost ==
  ASSUME Typed, NEW c \in Clients, pc[c] \in Pending,
         StoreTypeOK', StoreInv', KnownStays, UNCHANGED <<csBody, hist, base>>,
         \A d \in Clients \ {c} : pc[d] \in Pending => snapKey[d] # manifest'.snap.key \/ manifest' = NoManifest,
         GCTypeOK', MigrateTypeOK', CommitTypeOK',
         ClientTypeOK', ClientOK(c)', Others(c), pc'[c] \notin Pending
  PROVE  Typed'
<1>1. StructInv'
  BY Frame DEF KnownStays
<1> QED
  BY <1>1 DEF Typed, TypeOK

\* An operation that lost the CAS of a snapshot starts over.
LEMMA BackOK ==
  ASSUME Typed, NEW c \in Clients, pc[c] \in Pending, KnownStays,
         NEW l \in {"refresh", "migrate"}, Goto(c, l),
         l = "refresh" => pc[c] = "compactcas",
         snapKey' = [snapKey EXCEPT ![c] = NoSnap], attempt' \in [Clients -> Nat],
         UNCHANGED <<connVars, ret, schemaVer, left, began, updateVars, lastVer>>
  PROVE  ClientTypeOK' /\ ClientOK(c)' /\ Others(c) /\ pc'[c] \notin Pending
<1> USE DEF Goto
<1>1. l \in Labels
  BY DEF Labels, OpenLabels, SyncLabels
<1>2. ClientTypeOK' /\ pc'[c] = l
  BY <1>1 DEF Typed, TypeOK, ClientTypeOK, connVars, NoSnap
<1>3. Others(c)
  BY DEF Others, Same, SameHandle, connVars, updateVars
<1>4. saved[c] = NoConn /\ (pc[c] = "compactcas" => ret[c] = "compact")
  BY ClientFacts DEF FlowInv, Pending, InSavepoint
<1>5. FlowInv(c)' /\ SnapInv(c)'
  BY <1>2, <1>4 DEF FlowInv, SnapInv, Target, connVars, Synced, InSavepoint, SyncLabels
<1>6. Known(cm[c])' /\ Known(m2[c])'
  BY ClientFacts DEF KnownStays, connVars, updateVars
<1>7. PositionInv(c)'
  BY <1>2, <1>4, <1>6, ClientFacts DEF PositionInv, connVars, Synced, InSavepoint
<1> QED
  BY <1>2, <1>3, <1>5, <1>7 DEF ClientOK, Pending

\* A compaction that loses its CAS preserves the invariant.
LEMMA CompactLostOK ==
  ASSUME Typed, NEW c \in Clients, CompactLost(c), UNCHANGED <<todo, lastVer>>
  PROVE  Typed'
<1>1. /\ pc[c] = "compactcas" /\ pc[c] \in Pending
      /\ GCTypeOK' /\ MigrateTypeOK' /\ CommitTypeOK' /\ UNCHANGED updateVars
  BY OtherTypes DEF CompactLost, At, Pending
<1>2. /\ StoreTypeOK' /\ StoreInv' /\ KnownStays /\ UNCHANGED <<csBody, hist, base>>
      /\ \A d \in Clients \ {c} : pc[d] \in Pending => snapKey[d] # manifest'.snap.key \/ manifest' = NoManifest
  <2>1. CASE UNCHANGED storeVars
    BY <2>1, OtherTypes, StoreFrame DEF coreVars, Typed, StructInv, SnapInv, Pending
  <2>2. CASE PutCompact(c)
    BY <1>1, <2>2, CompactStore
  <2> QED
    BY <2>1, <2>2 DEF CompactLost
<1>3. ClientTypeOK' /\ ClientOK(c)' /\ Others(c) /\ pc'[c] \notin Pending
  <2>1. CASE /\ attempt' = [attempt EXCEPT ![c] = @ + 1]
             /\ snapKey' = [snapKey EXCEPT ![c] = NoSnap]
             /\ Goto(c, "refresh")
             /\ UNCHANGED <<connVars, ret, schemaVer, left, began>>
    <3>1. attempt' \in [Clients -> Nat]
      BY <2>1 DEF Typed, TypeOK, ClientTypeOK
    <3> QED
      BY <1>1, <1>2, <2>1, <3>1, BackOK
  <2>2. CASE Return(c)
    BY <1>1, <1>2, <2>2, EndFacts
  <2> QED
    BY <2>1, <2>2 DEF CompactLost
<1> QED
  BY <1>1, <1>2, <1>3, SnapLost

\* The other ends of a compaction preserve the invariant.
LEMMA CompactEndOK ==
  ASSUME Typed, NEW c \in Clients, CompactNothing(c) \/ CompactPhantom(c),
    UNCHANGED <<todo, lastVer>>
  PROVE  Typed'
<1>1. CASE CompactNothing(c)
  BY <1>1, OtherTypes, EndOK DEF CompactNothing
<1>2. CASE CompactPhantom(c)
  <2>1. /\ pc[c] = "compactcas" /\ pc[c] \in Pending
        /\ GCTypeOK' /\ MigrateTypeOK' /\ CommitTypeOK'
    BY <1>2, OtherTypes DEF CompactPhantom, At, Pending
  <2>2. /\ StoreTypeOK' /\ StoreInv' /\ KnownStays /\ UNCHANGED <<csBody, hist, base>>
        /\ \A d \in Clients \ {c} : pc[d] \in Pending => snapKey[d] # manifest'.snap.key
    BY <1>2, <2>1, CompactStore DEF CompactPhantom
  <2>3. ClientTypeOK' /\ ClientOK(c)' /\ Others(c) /\ pc'[c] \notin Pending
    BY <1>2, <2>2, EndFacts DEF CompactPhantom
  <2> QED
    BY <2>1, <2>2, <2>3, SnapLost
<1> QED
  BY <1>1, <1>2

\* Every step of compactLocked preserves the invariant.
LEMMA CompactStepOK ==
  ASSUME Typed, NEW c \in Clients, CompactStep(c), UNCHANGED <<todo, lastVer>>
  PROVE  Typed'
BY CompactUploadOK, CompactCasOK, CompactLostOK, CompactEndOK DEF CompactStep

\* The syncs of runMigrations preserve the invariant.
LEMMA MigrateSyncOK ==
  ASSUME Typed, NEW c \in Clients, MigrateDone(c) \/ MigrateNext(c), UNCHANGED todo
  PROVE  Typed'
<1>1. /\ pc[c] = "migrate" /\ manifest # NoManifest
      /\ UNCHANGED <<storeVars, updateVars, todo>>
      /\ UNCHANGED <<saved, savedSeq, stale, attempt, snapKey, schemaVer, left, began>>
  BY DEF MigrateDone, MigrateNext, At
<1>2. CommitTypeOK'
  BY <1>1, OtherTypes
<1>3. saved'[c] = NoConn
  BY <1>1, ClientFacts DEF FlowInv, InSavepoint
<1>4. Known(m2[c])'
  BY <1>1, ClientFacts, KnownFrame, OtherTypes DEF updateVars
<1>5. MigrateTypeOK' /\ \A d \in Clients \ {c} : lastVer'[d] = lastVer[d]
  BY <1>1, ManifestFacts DEF MigrateDone, MigrateNext, Typed, TypeOK, MigrateTypeOK,
     Manifests
<1>6. RestTypes' /\ \A d \in Clients \ {c} : RestSame(d)
  BY <1>1, <1>5, RestFrame
<1>7. "idle" \in Rets /\ "up" \in Rets /\ NoSnap \in Nat /\ NoSnap # manifest.snap.key
  <2>1. manifest.snap.key \in DOMAIN hist /\ hist \in Seq(Seq(DB))
    BY <1>1, ManifestFacts DEF Known, Typed, TypeOK, StoreTypeOK
  <2> QED
    BY <2>1 DEF Rets, OpenRets, NoSnap
<1>8. CASE MigrateDone(c)
  BY <1>1, <1>2, <1>3, <1>4, <1>5, <1>6, <1>7, <1>8, ClientFacts, ManifestFacts,
     SyncBound, SyncOK
     DEF MigrateDone
<1>9. CASE MigrateNext(c)
  <2>1. PICK key : key = forceRefresh(c, manifest)
    OBVIOUS
  <2>2. key \in Nat /\ (key = manifest.snap.key => key = snapshotKey[c])
    BY <1>7, <2>1, ClientFacts DEF forceRefresh
  <2>3. syncToManifest(c, manifest, conn[c], key, "up") /\ manifest.schema < Version[c]
    BY <1>9, <2>1 DEF MigrateNext
  <2>4. conn[c] # NoConn /\ key = manifest.snap.key => localSeq[c] <= manifest.seq
    BY <1>1, <2>2, SyncBound
  <2> QED
    BY <1>1, <1>2, <1>3, <1>4, <1>5, <1>6, <1>7, <2>2, <2>3, <2>4, ClientFacts,
       ManifestFacts, SyncOK
<1> QED
  BY <1>8, <1>9

\* The ways in which runMigrations makes Open fail preserve the invariant.
LEMMA MigrateEndOK ==
  ASSUME Typed, NEW c \in Clients, MigrateTooNew(c) \/ MigratePhantom(c), UNCHANGED todo
  PROVE  Typed'
<1>1. /\ GCTypeOK' /\ MigrateTypeOK' /\ CommitTypeOK' /\ UNCHANGED updateVars
      /\ Shut(c) /\ \A d \in Clients \ {c} : lastVer'[d] = lastVer[d]
  BY OtherTypes DEF MigrateTooNew, MigratePhantom, Typed, TypeOK, MigrateTypeOK
<1>2. CASE MigrateTooNew(c)
  BY <1>1, <1>2, OtherTypes, EndOK DEF MigrateTooNew
<1>3. CASE MigratePhantom(c)
  <2>1. pc[c] = "migcas" /\ pc[c] \in Pending
    BY <1>3 DEF MigratePhantom, At, Pending
  <2>2. /\ StoreTypeOK' /\ StoreInv' /\ KnownStays /\ UNCHANGED <<csBody, hist, base>>
        /\ \A d \in Clients \ {c} : pc[d] \in Pending => snapKey[d] # manifest'.snap.key
    BY <1>3, <2>1, MigrateStore DEF MigratePhantom
  <2>3. ClientTypeOK' /\ ClientOK(c)' /\ Others(c) /\ pc'[c] \notin Pending
    BY <1>1, <2>2, EndFacts
  <2> QED
    BY <1>1, <2>1, <2>2, <2>3, SnapLost
<1> QED
  BY <1>2, <1>3

\* A migration that loses its CAS preserves the invariant.
LEMMA MigrateLostOK ==
  ASSUME Typed, NEW c \in Clients, MigrateLost(c), UNCHANGED todo
  PROVE  Typed'
<1>1. /\ pc[c] = "migcas" /\ pc[c] \in Pending
      /\ GCTypeOK' /\ MigrateTypeOK' /\ CommitTypeOK' /\ UNCHANGED updateVars
  BY OtherTypes DEF MigrateLost, At, Pending
<1>2. /\ StoreTypeOK' /\ StoreInv' /\ KnownStays /\ UNCHANGED <<csBody, hist, base>>
      /\ \A d \in Clients \ {c} : pc[d] \in Pending => snapKey[d] # manifest'.snap.key \/ manifest' = NoManifest
  <2>1. CASE UNCHANGED storeVars
    BY <2>1, OtherTypes, StoreFrame DEF coreVars, Typed, StructInv, SnapInv, Pending
  <2>2. CASE PutMigrate(c)
    BY <1>1, <2>2, MigrateStore
  <2> QED
    BY <2>1, <2>2 DEF MigrateLost
<1>3. attempt' \in [Clients -> Nat]
  BY DEF MigrateLost, Typed, TypeOK, ClientTypeOK
<1>4. ClientTypeOK' /\ ClientOK(c)' /\ Others(c) /\ pc'[c] \notin Pending
  BY <1>1, <1>2, <1>3, BackOK DEF MigrateLost
<1> QED
  BY <1>1, <1>2, <1>4, SnapLost

\* Every step of runMigrations preserves the invariant.
LEMMA MigrateStepOK ==
  ASSUME Typed, NEW c \in Clients, MigrateStep(c), UNCHANGED todo
  PROVE  Typed'
BY MigrateSyncOK, MigrateUpOK, MigrateCasOK, MigrateLostOK, MigrateEndOK DEF MigrateStep

-----------------------------------------------------------------------------
(***************************************************************************)
(* The steps of GC, and all steps.                                         *)
(***************************************************************************)

\* Every step of GC preserves the invariant: it deletes keys, never bytes in use.
LEMMA GCStepOK ==
  ASSUME Typed, NEW c \in Clients, GCStep(c), UNCHANGED lastVer
  PROVE  Typed'
<1> USE DEF gcFrame
<1>1. CASE GCDone(c)
  BY <1>1, OtherTypes, EndOK DEF GCDone
<1>2. CASE GCStat(c) \/ GCList(c) \/ GCSweep(c) \/ GCSwept(c) \/ GCSnaps(c) \/ GCDelete(c)
  <2>1. UNCHANGED coreVars /\ StoreTypeOK'
    <3>1. CASE UNCHANGED storeVars
      BY <3>1, OtherTypes
    <3>2. CASE GCSweep(c)
      <4>1. PICK k \in todo[c] : DeleteChangesets(groupByEpoch(k))
        BY <3>2 DEF GCSweep
      <4> QED
        BY <4>1 DEF DeleteChangesets, coreVars, Typed, TypeOK, StoreTypeOK
    <3>3. CASE GCDelete(c) /\ ~UNCHANGED storeVars
      <4>1. PICK k \in todo[c] : DeleteSnapshot(k)
        BY <3>3 DEF GCDelete
      <4> QED
        BY <4>1 DEF DeleteSnapshot, coreVars, Typed, TypeOK, StoreTypeOK
    <3> QED
      BY <1>2, <3>1, <3>2, <3>3 DEF GCStat, GCList, GCSwept, GCSnaps
  <2>2. orphan' \in [Clients -> CsKey]
    BY <1>2 DEF GCStat, GCList, GCSweep, GCSwept, GCSnaps, GCDelete, updateVars, Typed,
       TypeOK, CommitTypeOK
  <2>3. /\ UNCHANGED <<connVars, ret, attempt, snapKey, schemaVer, left, began>>
        /\ UNCHANGED <<fn, csKey, m2, reb>>
    BY <1>2 DEF GCStat, GCList, GCSweep, GCSwept, GCSnaps, GCDelete, updateVars
  <2>4. GCTypeOK'
    <3>1. deletableEpochs(cm[c]) \in SUBSET Nat
      BY DEF deletableEpochs, Typed, TypeOK, StoreTypeOK, CsKey
    <3>2. snapshots \in SUBSET Nat
      BY DEF Typed, TypeOK, StoreTypeOK
    <3>3. todo \in [Clients -> SUBSET Nat]
      BY DEF Typed, TypeOK, GCTypeOK
    <3>4. CASE UNCHANGED todo
      BY <3>3, <3>4 DEF GCTypeOK
    <3>5. CASE GCList(c) \/ GCSnaps(c)
      BY <3>1, <3>2, <3>3, <3>5 DEF GCList, GCSnaps, GCTypeOK
    <3>6. CASE GCSweep(c) \/ GCDelete(c)
      <4>1. PICK k \in todo[c] : todo' = [todo EXCEPT ![c] = todo[c] \ {k}]
        BY <3>6 DEF GCSweep, GCDelete
      <4>2. todo[c] \ {k} \in SUBSET Nat
        BY <3>3
      <4> QED
        BY <3>3, <4>1, <4>2 DEF GCTypeOK
    <3> QED
      BY <1>2, <3>4, <3>5, <3>6 DEF GCStat, GCSwept
  <2>5. /\ pc[c] \in {"gc", "gclist", "gcsweep", "gcsnaps", "gcdelete"}
        /\ saved[c] = NoConn
    BY <1>2, ClientFacts
       DEF GCStat, GCList, GCSweep, GCSwept, GCSnaps, GCDelete, At, FlowInv, InSavepoint
  <2>6. \E l \in {"gclist", "gcsweep", "gcsnaps", "gcdelete"} : Goto(c, l)
    BY <1>2 DEF GCStat, GCList, GCSweep, GCSwept, GCSnaps, GCDelete, At, Goto, Typed,
       TypeOK,
                ClientTypeOK
  <2>7. PICK l \in {"gclist", "gcsweep", "gcsnaps", "gcdelete"} : Goto(c, l)
    BY <2>6
  <2>8. l \in Labels \ (Synced \cup SyncLabels)
    BY DEF Labels, MaintainLabels, Synced, SyncLabels, InSavepoint
  <2> QED
    BY <2>1, <2>2, <2>3, <2>4, <2>5, <2>7, <2>8, MoveOK
<1> QED
  BY <1>1, <1>2 DEF GCStep

\* A step that changes no variable of the invariant.
LEMMA IdleOK ==
  ASSUME Typed, UNCHANGED <<coreVars, connVars, flowVars, updateVars, todo, lastVer>>,
    StoreTypeOK'
  PROVE  Typed'
<1> USE DEF coreVars, connVars, flowVars, updateVars
<1>1. ClientTypeOK' /\ CommitTypeOK' /\ GCTypeOK' /\ MigrateTypeOK'
  BY DEF Typed, TypeOK, ClientTypeOK, CommitTypeOK, GCTypeOK, MigrateTypeOK
<1>2. StoreInv' /\ KnownStays
  BY StoreFrame
<1>3. ASSUME NEW c \in Clients PROVE FlowInv(c)' /\ PositionInv(c)' /\ SnapInv(c)'
  <2>1. FlowInv(c)'
    BY ClientFacts DEF FlowInv, Target
  <2>2. PositionInv(c)'
    BY <1>2, ClientFacts DEF PositionInv, KnownStays
  <2>3. SnapInv(c)'
    BY ClientFacts DEF SnapInv
  <2> QED
    BY <2>1, <2>2, <2>3
<1> QED
  BY <1>1, <1>2, <1>3 DEF Typed, TypeOK, StructInv

\* Every step of the system preserves the invariant.
LEMMA NextTyped ==
  ASSUME Typed, [Next]_vars
  PROVE  Typed'
<1>1. CASE UNCHANGED vars
  BY <1>1, OtherTypes, IdleOK DEF vars, storeVars, coreVars
<1>2. CASE Elapse /\ UNCHANGED lastVer
  <2>1. StoreTypeOK'
        /\ UNCHANGED <<coreVars, connVars, flowVars, updateVars, todo, lastVer>>
    BY <1>2 DEF Elapse, gcFrame, flowVars, coreVars, Typed, TypeOK, StoreTypeOK
  <2> QED
    BY <2>1, IdleOK
<1>3. ASSUME NEW c \in Clients, Call(c) \/ Step(c) \/ Disrupt(c) PROVE Typed'
  BY <1>3, CallOK, DisruptOK, ClientStepOK, CommitStepOK, CompactStepOK, GCStepOK,
     MigrateStepOK
     DEF Step
<1> QED
  BY <1>1, <1>2, <1>3 DEF Next

\* The invariant holds initially, for warm and for cold clients.
LEMMA InitTyped == Init => Typed
<1> SUFFICES ASSUME Init PROVE Typed
  OBVIOUS
<1> USE DEF Init, ClientInit, CommitInit, GCInit, MigrateInit
<1>1. EmptyDB \in DB
  BY RowsAssumption DEF EmptyDB, DB
<1>2. StoreTypeOK
  <2>1. << <<EmptyDB>> >> \in Seq(Seq(DB)) /\ DOMAIN << <<EmptyDB>> >> = {1}
    BY <1>1
  <2>2. << [seq |-> 0, schema |-> 0] >> \in Seq([seq : Nat, schema : Nat])
    OBVIOUS
  <2>3. <<>> \in Seq(Changeset)
    OBVIOUS
  <2>4. manifest \in Manifests \cup {NoManifest}
    BY InitManifestType
  <2> QED
    BY <2>1, <2>2, <2>3, <2>4 DEF StoreTypeOK, InitSnap
<1>3. ClientTypeOK
  <2>1. "idle" \in Labels /\ "closed" \in Labels /\ "idle" \in Rets
    BY DEF Labels, Rets, OpenRets
  <2>2. pc \in [Clients -> Labels] /\ ret \in [Clients -> Rets]
    BY <2>1
  <2>3. /\ conn \in [Clients -> DB \cup {NoConn}]
        /\ saved \in [Clients -> DB \cup {NoConn}]
        /\ cm \in [Clients -> Manifests]
    BY <1>1, InitManifestType
  <2>4. /\ localSeq \in [Clients -> Nat] /\ snapshotKey \in [Clients -> Nat]
        /\ schemaVer \in [Clients -> Nat] /\ attempt \in [Clients -> Nat]
        /\ snapKey \in [Clients -> Nat] /\ savedSeq \in [Clients -> Nat]
    BY DEF NoSnap, InitSnap
  <2>5. left \in [Clients -> [OpKinds -> Nat]]
        /\ began \in [Clients -> [seq : Nat, clock : Nat]]
    BY ClientAssumption DEF NotBegun
  <2> QED
    BY <2>2, <2>3, <2>4, <2>5 DEF ClientTypeOK
<1>4. CommitTypeOK /\ GCTypeOK /\ MigrateTypeOK
  <2>1. NoKey \in CsKey
    BY DEF NoKey, CsKey
  <2> QED
    BY <2>1, InitManifestType DEF CommitTypeOK, GCTypeOK, MigrateTypeOK
<1>5. hist = << <<EmptyDB>> >> /\ base = << [seq |-> 0, schema |-> 0] >>
  OBVIOUS
<1>6. Len(hist) = 1 /\ Len(base) = 1 /\ DOMAIN hist = {1} /\ Len(hist[1]) = 1
      /\ base[1] = [seq |-> 0, schema |-> 0]
  BY <1>5
<1>7. Known(InitManifest)
  BY <1>6 DEF Known, InitManifest, InitSnap
<1>8. StoreInv
  <2>1. InitManifest.snap.key = InitSnap /\ Len(InitManifest.log) = 0
    BY DEF InitManifest
  <2>2. manifest \in {NoManifest, InitManifest}
    OBVIOUS
  <2> HIDE DEF Init, ClientInit, CommitInit, GCInit, MigrateInit
  <2>3. \A k \in DOMAIN hist : Len(hist[k]) >= 1
    BY <1>6
  <2>4. Len(hist) >= 1 /\ Len(base) = Len(hist)
    BY <1>6
  <2>5. base[InitSnap] = [seq |-> 0, schema |-> 0] /\ Len(hist[InitSnap]) = 1
    BY <1>6 DEF InitSnap
  <2>6. Len(hist[InitManifest.snap.key]) = Len(InitManifest.log) + 1
    BY <2>1, <2>5
  <2> QED
    BY <1>7, <2>2, <2>3, <2>4, <2>5, <2>6 DEF StoreInv
<1>9. ASSUME NEW c \in Clients PROVE FlowInv(c) /\ PositionInv(c) /\ SnapInv(c)
  <2>1. /\ pc[c] \in {"idle", "closed"} /\ saved[c] = NoConn /\ cm[c] = InitManifest
        /\ m2[c] = InitManifest
        /\ localSeq[c] = 0 /\ (conn[c] # NoConn => snapshotKey[c] = InitSnap)
    OBVIOUS
  <2>2. InitManifest.snap.key = InitSnap /\ InitManifest.snap.seq = 0
        /\ InitManifest.seq = 0
    BY DEF InitManifest
  <2> HIDE DEF Init, ClientInit, CommitInit, GCInit, MigrateInit
  <2> QED
    BY <1>7, <2>1, <2>2 DEF FlowInv, PositionInv, SnapInv, Target, Synced, InSavepoint,
       SyncLabels
<1> QED
  BY <1>2, <1>3, <1>4, <1>8, <1>9 DEF Typed, TypeOK, StructInv

\* Whatever the constants, every manifest that the bucket or a client holds is
\* one that was put (consecutive log, keys of its own epoch, schema of its
\* snapshot), every operation is where its handle allows, and a local file is
\* at a sequence number of the manifest its handle holds: Typed is inductive
\* for every step of Open, View, Update, Compact, GC, migrations and failures.
THEOREM TypedInvariant == Spec => []Typed
<1>1. Typed /\ [Next]_vars => Typed'
  BY NextTyped
<1> QED
  BY <1>1, InitTyped, PTL DEF Spec

\* Every variable keeps its type: no step of the client code leaves the sets
\* of manifests, keys, labels and databases that the model declares.
THEOREM TypeCorrect == Spec => []TypeOK
<1>1. Typed => TypeOK
  BY DEF Typed
<1> QED
  BY <1>1, TypedInvariant, PTL

\* No operation runs on a connection that a failed sync left closed: every
\* path of syncToManifest to View's fn, to capture, to a migration or to a
\* compaction reopens st.conn first (commit.go:49-92).
THEOREM ConnAlwaysOpen == Spec => []ConnOpen
<1>1. Typed => ConnOpen
  BY ClientFacts DEF ConnOpen, FlowInv, Synced, InSavepoint, UpdateLabels
<1> QED
  BY <1>1, TypedInvariant, PTL

\* The log never refers to a changeset of another epoch: a CAS that follows a
\* compaction or a migration fails, and its changeset is drawn anew in the
\* epoch that rollbackAndResync moved to (commit.go:219-238).
THEOREM NoStraggler == Spec => []LogInEpoch
<1>1. Typed => LogInEpoch
  BY ManifestFacts DEF LogInEpoch, Known, epoch
<1> QED
  BY <1>1, TypedInvariant, PTL

\* No operation ever tries to put a manifest that validate refuses: appendLog,
\* withSnapshot and applyMigration keep the log consecutive and end it at the
\* sequence number of the manifest (manifest.go:81-144).
THEOREM PutsAreValid == Spec => []PutNeverInvalid
<1>1. Typed => PutNeverInvalid
  <2> SUFFICES ASSUME Typed, NEW c \in Clients
               PROVE  /\ At(c, "cas") => validate(newManifest(c))
                      /\ At(c, "compactcas") => validate(compactManifest(c))
                      /\ At(c, "migcas") => validate(migrateManifest(c))
    BY DEF PutNeverInvalid
  <2>1. /\ cm[c].seq \in Nat /\ cm[c].snap.seq \in Nat /\ cm[c].log \in Seq(logEntry)
        /\ cm[c].seq = cm[c].snap.seq + Len(cm[c].log) /\ cm[c].snap.key \in DOMAIN hist
        /\ \A i \in DOMAIN cm[c].log : /\ cm[c].log[i].seq = cm[c].snap.seq + i
                                       /\ cm[c].log[i].key.epoch = cm[c].snap.key
    BY ClientFacts DEF Known, Manifests, blobRef
  <2>2. \A k \in DOMAIN hist : k \in Nat \ {NoSnap}
    BY DEF Typed, TypeOK, StoreTypeOK, NoSnap
  <2>3. ASSUME pc[c] = "cas" PROVE validate(newManifest(c))
    <3> DEFINE e == [key |-> csKey[c], seq |-> cm[c].seq + 1]
               log == Append(cm[c].log, e)
    <3>1. csKey[c].epoch = cm[c].snap.key /\ e \in logEntry
      BY <2>1, <2>3, ClientFacts, SavepointFacts DEF InSavepoint, logEntry
    <3>2. /\ newManifest(c).log = log /\ newManifest(c).snap = cm[c].snap
          /\ newManifest(c).seq = cm[c].seq + 1
      BY DEF newManifest, appendLog
    <3> HIDE DEF e
    <3>3. /\ log \in Seq(logEntry) /\ Len(log) = Len(cm[c].log) + 1 /\ log # <<>>
          /\ \A i \in 1..Len(cm[c].log) : log[i] = cm[c].log[i]
          /\ log[Len(cm[c].log) + 1] = e
      BY <2>1, <3>1, AppendProperties
    <3> HIDE DEF log
    <3>4. e.seq = cm[c].snap.seq + Len(log) /\ e.key # NoKey /\ e.seq = cm[c].seq + 1
      <4>1. e.key = csKey[c] /\ e.seq = cm[c].seq + 1
        BY DEF e
      <4>2. csKey[c].epoch # NoKey.epoch
        BY <2>1, <2>2, <3>1 DEF NoKey, NoSnap
      <4>3. cm[c].seq + 1 = cm[c].snap.seq + Len(log)
        BY <2>1, <3>3
      <4> QED
        BY <4>1, <4>2, <4>3
    <3>5. ASSUME NEW i \in DOMAIN log
          PROVE  log[i].key # NoKey /\ log[i].seq = cm[c].snap.seq + i
      <4>1. i \in 1..Len(log) /\ DOMAIN cm[c].log = 1..Len(cm[c].log)
            /\ Len(cm[c].log) \in Nat
        BY <2>1, <3>3
      <4>2. CASE i = Len(cm[c].log) + 1
        BY <3>3, <3>4, <4>2
      <4>3. CASE i # Len(cm[c].log) + 1
        <5>1. i \in DOMAIN cm[c].log /\ log[i] = cm[c].log[i]
          BY <3>3, <4>1, <4>3
        <5> QED
          BY <2>1, <2>2, <5>1 DEF NoKey, NoSnap
      <4> QED
        BY <4>2, <4>3
    <3>6. log[Len(log)].seq = cm[c].seq + 1
      BY <3>3, <3>4
    <3>7. cm[c].snap.key # NoSnap
      BY <2>1, <2>2
    <3> QED
      BY <3>2, <3>3, <3>5, <3>6, <3>7 DEF validate
  <2>4. ASSUME pc[c] \in Pending PROVE snapKey[c] # NoSnap
    BY <2>2, <2>4, ClientFacts DEF SnapInv, Pending
  <2>5. ASSUME pc[c] = "compactcas" PROVE validate(compactManifest(c))
    <3>1. compactManifest(c) = [seq |-> cm[c].seq, schema |-> cm[c].schema,
                                snap |-> [key |-> snapKey[c], seq |-> cm[c].seq],
                                  log |-> <<>>]
      BY DEF compactManifest, withSnapshot
    <3> QED
      BY <2>4, <2>5, <3>1 DEF validate, Pending
  <2>6. ASSUME pc[c] = "migcas" PROVE validate(migrateManifest(c))
    BY <2>4, <2>6 DEF migrateManifest, validate, Pending
  <2> QED
    BY <2>3, <2>5, <2>6 DEF At
<1> QED
  BY <1>1, TypedInvariant, PTL
=============================================================================
