--------------------------- MODULE PullPushProofs ---------------------------
(***************************************************************************)
(* Proofs about Init, Pull and Push while handles use the same database:   *)
(* the commands and the handles preserve the invariant of each other, what *)
(* a pull leaves in the file, and what a checked push may replace.         *)
(***************************************************************************)
EXTENDS RefinementProofs, PullPushInv

\* What the command of user u has to satisfy.
UserOK(u) == CommandInv(u) /\ UploadInv(u) /\ PullInv(u)

\* A step leaves the command and the file of user w alone.
UserSame(w) ==
  /\ upc'[w] = upc[w] /\ command'[w] = command[w] /\ file'[w] = file[w]
  /\ sidecar'[w] = sidecar[w] /\ um'[w] = um[w] /\ replayed'[w] = replayed[w]
  /\ expectedSeq'[w] = expectedSeq[w] /\ upKey'[w] = upKey[w] /\ seen'[w] = seen[w]
  /\ (w \in tracked' <=> w \in tracked)
-----------------------------------------------------------------------------
(***************************************************************************)
(* What a step of a handle does to the snapshots.                          *)
(***************************************************************************)

\* What was put once stays known, whatever is appended to the history.
LEMMA GrowsKnown ==
  ASSUME Typed, Typed', Grows
  PROVE  KnownStays
<1> SUFFICES ASSUME NEW m \in Manifests, Known(m) PROVE Known(m)'
  BY DEF KnownStays
<1> DEFINE k == m.snap.key
<1>1. k \in DOMAIN hist /\ k \in DOMAIN hist' /\ base'[k] = base[k]
  BY DEF Known, Grows
<1>2. Len(hist[k]) <= Len(hist'[k])
  <2>1. hist[k] \in Seq(DB) /\ Len(hist[k]) \in Nat /\ Len(hist[k]) >= 1
    BY <1>1, HistFacts
  <2>2. hist'[k] \in Seq(DB) /\ Len(hist'[k]) \in Nat
    <3>1. hist' \in Seq(Seq(DB))
      BY DEF Typed, TypeOK, StoreTypeOK
    <3> QED
      BY <1>1, <3>1, SeqOfSeqs
  <2>3. DOMAIN hist[k] = 1..Len(hist[k]) /\ DOMAIN hist'[k] = 1..Len(hist'[k])
    BY <2>1, <2>2
  <2>4. Len(hist[k]) \in DOMAIN hist'[k]
    BY <1>1, <2>1, <2>3 DEF Grows
  <2> QED
    BY <2>1, <2>2, <2>3, <2>4
<1>3. Len(m.log) < Len(hist'[k])
  <2>1. Len(hist[k]) \in Nat /\ Len(hist'[k]) \in Nat /\ Len(m.log) \in Nat
    <3>1. hist' \in Seq(Seq(DB)) /\ m.log \in Seq(logEntry)
      BY DEF Typed, TypeOK, StoreTypeOK, Manifests
    <3> QED
      BY <1>1, <3>1, SeqOfSeqs, HistFacts
  <2>2. Len(m.log) < Len(hist[k])
    BY DEF Known
  <2> QED
    BY <1>2, <2>1, <2>2
<1> QED
  BY <1>1, <1>3 DEF Known, Grows

\* What a step of a handle does to the snapshots: it adds to the history of the
\* current one only, it puts in charge only its own, and the one it uploads is new.
LEMMA HandleEffects ==
  ASSUME Typed, NEW c \in Clients, Call(c) \/ Step(c) \/ Disrupt(c)
  PROVE  /\ \A k \in DOMAIN hist :
              manifest = NoManifest \/ k # manifest.snap.key => hist'[k] = hist[k]
         /\ \/ manifest' = manifest
            \/ manifest'.snap.key = InitSnap
            \/ manifest # NoManifest /\ manifest'.snap.key = manifest.snap.key
            \/ pc[c] \in Pending /\ manifest'.snap.key = snapKey[c]
         /\ pc'[c] \in Pending => snapKey'[c] \notin DOMAIN hist
         /\ \A d \in Clients \ {c} : pc'[d] = pc[d] /\ snapKey'[d] = snapKey[d]
<1>1. ASSUME PutCommit(c), pc[c] = "cas"
      PROVE  /\ \A k \in DOMAIN hist : k # manifest.snap.key => hist'[k] = hist[k]
             /\ manifest # NoManifest /\ manifest'.snap.key = manifest.snap.key
  <2>1. /\ manifest' = newManifest(c) /\ manifest = cm[c] /\ manifest # NoManifest
        /\ \A j \in DOMAIN hist : j # cm[c].snap.key => hist'[j] = hist[j]
    BY <1>1, CommitStore, CommitGrows
  <2> QED
    BY <2>1 DEF newManifest, appendLog
<1>2. ASSUME PutCompact(c) \/ PutMigrate(c)
      PROVE  hist' = hist /\ manifest'.snap.key = snapKey[c]
  BY <1>2 DEF PutCompact, PutMigrate, PutManifest, compactManifest, migrateManifest, withSnapshot
<1>3. /\ hist \in Seq(Seq(DB)) /\ snapKey \in [Clients -> Nat] /\ pc \in [Clients -> Labels]
      /\ NextSnap \notin DOMAIN hist
  BY DEF Typed, TypeOK, StoreTypeOK, ClientTypeOK, NextSnap
<1>4. ASSUME NEW body, NEW n, NEW v, PutSnapshot(body, n, v)
      PROVE  \A k \in DOMAIN hist : hist'[k] = hist[k]
  BY <1>3, <1>4 DEF PutSnapshot
<1>5. pc'[c] \in Pending => snapKey'[c] \notin DOMAIN hist
  <2>1. CompactUpload(c) \/ MigrateUp(c) => snapKey'[c] = NextSnap
    BY <1>3 DEF CompactUpload, MigrateUp
  <2> QED
    BY <1>3, <2>1, OnlyUploadsWait
<1>6. \A d \in Clients \ {c} : pc'[d] = pc[d]
  BY OthersUntouched DEF Untouched
<1>7. \/ snapKey' = snapKey \/ \E k : snapKey' = [snapKey EXCEPT ![c] = k]
  <2>r. Return(c) \/ Shut(c) => snapKey' = [snapKey EXCEPT ![c] = NoSnap]
    BY DEF Return, Shut
  <2>1. CASE Call(c)
    BY <2>1 DEF Call, OpenStart, ViewStart, UpdateStart, CompactStart, GCStart, Start
  <2>2. CASE Disrupt(c) \/ RefreshRejected(c) \/ NotFound(c) \/ ApplyConflict(c)
    BY <2>r, <2>2 DEF Disrupt, StoreError, Crash, Close, RefreshRejected, NotFound, ApplyConflict, Fail
  <2>3. CASE ClientStep(c)
    BY <2>r, <2>3 DEF ClientStep, Refresh, Download, Fetch, Apply, Open, OpenEmpty, BootUpload,
       BootPut, BootLost, BootPhantom, View, Fail, OpenWith, flowVars
  <2>4. CASE CommitStep(c)
    <3>1. ASSUME NEW m, rollbackAndResync(c, m) PROVE snapKey' = snapKey
      BY <3>1 DEF rollbackAndResync
    <3> QED
      BY <2>4, <2>r, <3>1 DEF CommitStep, CaptureNothing, Capture, Unorphan, Upload, Cas, CasPhantom,
         CasLost, Reload, RebaseEntry, RebaseNotFound, Rebased, Exhausted, flowVars
  <2>5. CASE CompactStep(c)
    BY <2>r, <2>5 DEF CompactStep, CompactNothing, CompactUpload, CompactCas, CompactPhantom, CompactLost
  <2>6. CASE GCStep(c)
    BY <2>r, <2>6 DEF GCStep, GCStat, GCList, GCSweep, GCSwept, GCSnaps, GCDelete, GCDone, gcFrame, flowVars
  <2>7. CASE MigrateStep(c)
    BY <2>r, <2>7 DEF MigrateStep, MigrateTooNew, MigrateDone, MigrateNext, MigrateUp, MigrateCas,
       MigrateLost, MigratePhantom
  <2> QED
    BY <2>1, <2>2, <2>3, <2>4, <2>5, <2>6, <2>7 DEF Step
<1>8. \A d \in Clients \ {c} : snapKey'[d] = snapKey[d]
  BY <1>3, <1>7
<1>9. \/ hist' = hist
      \/ \E body, n, v : PutSnapshot(body, n, v)
      \/ pc[c] = "cas" /\ PutCommit(c)
  <2> USE DEF storeVars
  <2>1. CASE Call(c)
    BY <2>1 DEF Call, OpenStart, ViewStart, UpdateStart, CompactStart, GCStart, Start
  <2>2. CASE Disrupt(c) \/ RefreshRejected(c) \/ NotFound(c) \/ ApplyConflict(c)
    BY <2>2 DEF Disrupt, StoreError, Crash, Close, RefreshRejected, NotFound, ApplyConflict
  <2>3. CASE ClientStep(c)
    BY <2>3 DEF ClientStep, Refresh, Download, Fetch, Apply, Open, OpenEmpty, BootUpload,
       BootPut, BootLost, BootPhantom, View
  <2>4. CASE CommitStep(c)
    <3>1. ASSUME NEW m, rollbackAndResync(c, m) PROVE hist' = hist
      BY <3>1 DEF rollbackAndResync
    <3>2. CASE Cas(c) \/ CasPhantom(c) \/ CasLost(c)
      BY <3>2 DEF Cas, CasPhantom, CasLost, At
    <3>3. CASE ~(Cas(c) \/ CasPhantom(c) \/ CasLost(c))
      BY <2>4, <3>1, <3>3 DEF CommitStep, CaptureNothing, Capture, Unorphan, Upload, Reload, RebaseEntry,
         RebaseNotFound, Rebased, Exhausted, DeleteChangesets
    <3> QED
      BY <3>2, <3>3
  <2>5. CASE CompactStep(c)
    <3>1. CASE CompactUpload(c)
      BY <3>1 DEF CompactUpload
    <3> QED
      BY <2>5, <3>1 DEF CompactStep, CompactNothing, CompactCas, CompactPhantom, CompactLost, PutCompact
  <2>6. CASE GCStep(c)
    BY <2>6 DEF GCStep, GCStat, GCList, GCSweep, GCSwept, GCSnaps, GCDelete, GCDone, gcFrame,
       DeleteChangesets, DeleteSnapshot
  <2>7. CASE MigrateStep(c)
    <3>1. CASE MigrateUp(c)
      BY <3>1 DEF MigrateUp
    <3> QED
      BY <2>7, <3>1 DEF MigrateStep, MigrateTooNew, MigrateDone, MigrateNext, MigrateCas,
         MigrateLost, MigratePhantom, PutMigrate
  <2> QED
    BY <2>1, <2>2, <2>3, <2>4, <2>5, <2>6, <2>7 DEF Step
<1>10. \A k \in DOMAIN hist : manifest = NoManifest \/ k # manifest.snap.key => hist'[k] = hist[k]
  BY <1>1, <1>4, <1>9
<1>11. \/ manifest' = manifest
       \/ manifest'.snap.key = InitSnap
       \/ manifest # NoManifest /\ manifest'.snap.key = manifest.snap.key
       \/ pc[c] \in Pending /\ manifest'.snap.key = snapKey[c]
  BY <1>1, <1>2, Effects DEF InitManifest, Pending
<1> QED
  BY <1>5, <1>6, <1>8, <1>10, <1>11
-----------------------------------------------------------------------------
(***************************************************************************)
(* What a step of a user leaves alone.                                     *)
(***************************************************************************)

\* A step of a user, which leaves the handles alone.
Acts(u) == (UserStart(u) \/ UserStep(u) \/ Killed(u)) /\ UNCHANGED handleVars

\* The variables of user u have their types.
LEMMA UserFacts ==
  ASSUME UserTypeOK, NEW u \in Users
  PROVE  /\ upc[u] \in UserLabels /\ command[u] \in CommandKinds /\ file[u] \in DB \cup {NoFile}
         /\ sidecar[u] \in Nat \cup {NoSeq} /\ um[u] \in Manifests /\ replayed[u] \in Nat
         /\ expectedSeq[u] \in Nat \cup {Unchecked} /\ upKey[u] \in Nat
         /\ seen[u] \in [seq : Nat \cup {NoSeq}, contents : DB]
         /\ um[u].seq \in Nat /\ um[u].schema \in Nat /\ um[u].snap.key \in Nat
         /\ um[u].snap.seq \in Nat /\ um[u].log \in Seq(logEntry)
BY DEF UserTypeOK, Manifests, blobRef

\* A step of u changes the variables of u only.
LEMMA OtherUsers ==
  ASSUME UserTypeOK, NEW u \in Users, NEW w \in Users \ {u}, Acts(u)
  PROVE  UserSame(w)
<1> USE DEF UserTypeOK, UserSame, UserGoto
<1>1. CASE UserStart(u)
  BY <1>1 DEF UserStart, Edit, Pull, Push, PushCreate, InitStart, Enter
<1>2. Exit(u) => /\ upc'[w] = upc[w] /\ command'[w] = command[w] /\ um'[w] = um[w]
                 /\ replayed'[w] = replayed[w] /\ expectedSeq'[w] = expectedSeq[w]
                 /\ upKey'[w] = upKey[w]
  BY DEF Exit
<1>3. CASE \/ PullDownload(u) \/ PullFetch(u) \/ PullApply(u) \/ PullFails(u)
           \/ PullSidecar(u)
  BY <1>2, <1>3 DEF PullDownload, PullFetch, PullApply, PullFails, PullSidecar
<1>4. CASE \/ PushUpload(u) \/ PushCas(u) \/ PushLost(u)
           \/ InitStat(u) \/ InitUpload(u) \/ InitPut(u) \/ InitLost(u)
  BY <1>2, <1>4 DEF PushUpload, PushCas, PushLost, InitStat, InitUpload, InitPut, InitLost
<1>5. CASE Killed(u)
  BY <1>2, <1>5 DEF Killed
<1> QED
  BY <1>1, <1>3, <1>4, <1>5 DEF Acts, UserStep

\* A changeset that Pull is about to apply.
LEMMA PullEntry ==
  ASSUME Typed, UserTypeOK, NEW u \in Users, Known(um[u]), NEW i \in DOMAIN um[u].log
  PROVE  csBody[um[u].log[i].key.id] \in Changeset /\ um[u].log[i].seq \in Nat
<1>1. um[u].log[i].key.id \in DOMAIN csBody
  BY DEF Known
<1>2. csBody \in Seq(Changeset) /\ um[u].log \in Seq(logEntry)
  BY UserFacts DEF Typed, TypeOK, StoreTypeOK
<1>3. csBody[um[u].log[i].key.id] \in Changeset
  BY <1>1, <1>2
<1>4. um[u].log[i] \in logEntry
  BY <1>2
<1> QED
  BY <1>3, <1>4 DEF logEntry

\* The variables of the users keep their types.
LEMMA UserTypes ==
  ASSUME Typed, UserTypeOK, NEW u \in Users, CommandInv(u), Acts(u)
  PROVE  UserTypeOK'
<1>l. /\ {"idle", "initput", "pushcas"} \subseteq UserLabels /\ "edit" \in CommandKinds
      /\ NextSnap \in Nat /\ InitSnap \in Nat /\ NoSnap \in Nat
  BY DEF UserLabels, CommandKinds, Typed, TypeOK, StoreTypeOK, NextSnap, InitSnap, NoSnap
<1>1. Exit(u) => /\ upc' \in [Users -> UserLabels] /\ command' \in [Users -> CommandKinds]
                 /\ um' \in [Users -> Manifests] /\ replayed' \in [Users -> Nat]
                 /\ expectedSeq' \in [Users -> Nat \cup {Unchecked}]
                 /\ upKey' \in [Users -> Nat] /\ uleft' \in [Users -> Nat]
  BY <1>l, InitManifestType DEF Exit, UserGoto, UserTypeOK
<1>2. ASSUME NEW cmd \in CommandKinds, NEW l \in UserLabels, Enter(u, cmd, l)
      PROVE  /\ upc' \in [Users -> UserLabels] /\ command' \in [Users -> CommandKinds]
             /\ uleft' \in [Users -> Nat]
  BY <1>2 DEF Enter, UserGoto, UserTypeOK
<1>3. manifest # NoManifest => manifest \in Manifests
  BY ManifestFacts
<1>4. CASE Edit(u)
  <2>1. PICK t \in Txns : file' = [file EXCEPT ![u] = Effect[t][file[u]]]
    BY <1>4 DEF Edit
  <2>2. file[u] \in DB
    BY <1>4, UserFacts DEF Edit
  <2>3. Effect[t][file[u]] \in DB
    BY <2>2, CommitAssumption
  <2>4. file' \in [Users -> DB \cup {NoFile}]
    BY <2>1, <2>3 DEF UserTypeOK
  <2>5. /\ upc' \in [Users -> UserLabels] /\ command' \in [Users -> CommandKinds]
        /\ uleft' \in [Users -> Nat]
    BY <1>2, <1>4 DEF Edit, CommandKinds, UserLabels
  <2> QED
    BY <1>4, <2>4, <2>5 DEF Edit, UserTypeOK
<1>5. CASE Pull(u) \/ PushCreate(u) \/ InitStart(u)
  <2>1. /\ upc' \in [Users -> UserLabels] /\ command' \in [Users -> CommandKinds]
        /\ uleft' \in [Users -> Nat]
    BY <1>2, <1>5 DEF Pull, PushCreate, InitStart, CommandKinds, UserLabels
  <2> QED
    BY <1>3, <1>5, <2>1 DEF Pull, PushCreate, InitStart, UserTypeOK
<1>6. CASE Push(u)
  <2>1. PICK cmd \in {"push", "push -create", "push -force"} :
          /\ MayPush(u, cmd) /\ manifest # NoManifest /\ Enter(u, cmd, "pushupload")
          /\ expectedSeq' = [expectedSeq EXCEPT ![u] = expected(u, cmd)]
          /\ um' = [um EXCEPT ![u] = manifest]
          /\ UNCHANGED <<storeVars, file, sidecar, replayed, upKey, seen, tracked>>
    BY <1>6 DEF Push
  <2>2. expected(u, cmd) \in Nat \cup {Unchecked}
    BY <2>1, UserFacts DEF expected, MayPush
  <2>3. /\ upc' \in [Users -> UserLabels] /\ command' \in [Users -> CommandKinds]
        /\ uleft' \in [Users -> Nat]
    BY <1>2, <2>1 DEF CommandKinds, UserLabels
  <2> QED
    BY <1>3, <2>1, <2>2, <2>3 DEF UserTypeOK
<1>7. CASE PullDownload(u)
  <2>1. epoch(um[u]) \in DOMAIN hist
    BY <1>7 DEF PullDownload, Typed, TypeOK, StoreTypeOK
  <2>2. SnapBody(epoch(um[u])) \in DB /\ um[u].snap.seq \in Nat
    BY <2>1, SnapBodyType, UserFacts
  <2> QED
    BY <1>7, <2>2 DEF PullDownload, UserTypeOK, UserGoto, UserLabels
<1>8. CASE PullApply(u)
  <2> DEFINE cs(i) == csBody[um[u].log[i].key.id]
  <2>1. PICK i \in DOMAIN um[u].log :
          /\ file' = [file EXCEPT ![u] = Patch(file[u], cs(i))]
          /\ seen' = [seen EXCEPT ![u] = [seq |-> um[u].log[i].seq, contents |-> Patch(file[u], cs(i))]]
          /\ replayed' = [replayed EXCEPT ![u] = um[u].log[i].seq]
          /\ UserGoto(u, IF Missing(um[u], um[u].log[i].seq) = {} THEN "pullsidecar" ELSE "pullapply")
    BY <1>8 DEF PullApply
  <2>2. file[u] \in DB
    BY <1>8, UserFacts DEF PullApply, UserAt, CommandInv, Pulling
  <2>3. cs(i) \in Changeset /\ um[u].log[i].seq \in Nat
    BY PullEntry DEF CommandInv
  <2>4. Patch(file[u], cs(i)) \in DB
    BY <2>2, <2>3, PatchType
  <2> HIDE DEF cs
  <2> QED
    BY <1>8, <2>1, <2>3, <2>4 DEF PullApply, UserTypeOK, UserGoto, UserLabels
<1>9. CASE PullFetch(u)
  BY <1>9 DEF PullFetch, UserTypeOK, UserGoto, UserLabels
<1>10. CASE PullFails(u) \/ PushLost(u) \/ InitLost(u) \/ Killed(u)
  BY <1>1, <1>10 DEF PullFails, PushLost, InitLost, Killed, UserTypeOK
<1>11. CASE PullSidecar(u)
  BY <1>1, <1>11, UserFacts DEF PullSidecar, UserTypeOK
<1>12. CASE PushUpload(u) \/ InitUpload(u)
  <2>1. \E k \in Nat : upKey' = [upKey EXCEPT ![u] = k]
    BY <1>l, <1>12 DEF PushUpload, InitUpload
  <2>2. \E l \in UserLabels : upc' = [upc EXCEPT ![u] = l]
    BY <1>l, <1>12 DEF PushUpload, InitUpload, UserGoto
  <2>3. UNCHANGED <<command, file, sidecar, um, replayed, expectedSeq, uleft, seen, tracked>>
    BY <1>12 DEF PushUpload, InitUpload
  <2> QED
    BY <2>1, <2>2, <2>3 DEF UserTypeOK
<1>13. CASE PushCas(u)
  <2>1. file[u] \in DB
    BY <1>13, UserFacts DEF PushCas, UserAt, CommandInv
  <2> QED
    BY <1>1, <1>13, <2>1, UserFacts DEF PushCas, UserTypeOK
<1>14. CASE InitPut(u)
  <2>1. command[u] = "push -create" => file[u] \in DB
    BY <1>14, UserFacts DEF InitPut, UserAt, CommandInv
  <2>2. /\ sidecar' \in [Users -> Nat \cup {NoSeq}] /\ tracked' \subseteq Users
        /\ seen' \in [Users -> [seq : Nat \cup {NoSeq}, contents : DB]]
    <3>1. CASE UNCHANGED <<sidecar, seen, tracked>>
      BY <3>1 DEF UserTypeOK
    <3>2. CASE /\ command[u] = "push -create"
               /\ sidecar' = [sidecar EXCEPT ![u] = 0]
               /\ seen' = [seen EXCEPT ![u] = [seq |-> 0, contents |-> file[u]]]
               /\ tracked' = tracked \cup {u}
      BY <2>1, <3>2 DEF UserTypeOK
    <3> QED
      BY <1>14, <3>1, <3>2 DEF InitPut
  <2>3. Exit(u) /\ UNCHANGED file
    BY <1>14 DEF InitPut
  <2> QED
    BY <1>1, <2>2, <2>3 DEF UserTypeOK
<1>15. CASE InitStat(u)
  BY <1>1, <1>15 DEF InitStat, UserTypeOK, UserGoto, UserLabels
<1> QED
  BY <1>4, <1>5, <1>6, <1>7, <1>8, <1>9, <1>10, <1>11, <1>12, <1>13, <1>14, <1>15
     DEF Acts, UserStart, UserStep
-----------------------------------------------------------------------------
(***************************************************************************)
(* A step of a user preserves what holds of the store and of the handles.  *)
(***************************************************************************)

\* The store changes, but nothing that a handle relies on.
LEMMA HandlesStay ==
  ASSUME Contents, UNCHANGED handleVars, StoreTypeOK', StoreInv', Grows, KnownStays,
         \A c \in Clients : pc[c] \in Pending =>
           /\ hist'[snapKey[c]] = hist[snapKey[c]]
           /\ manifest' # NoManifest => snapKey[c] # manifest'.snap.key,
         manifest' # NoManifest /\ sound => LogOK(manifest)'
  PROVE  Contents'
<1> USE DEF handleVars, connVars, flowVars, updateVars
<1>0. Typed
  BY DEF Contents
<1>1. ClientTypeOK' /\ CommitTypeOK' /\ GCTypeOK' /\ MigrateTypeOK'
  BY <1>0 DEF Typed, TypeOK, ClientTypeOK, CommitTypeOK, GCTypeOK, MigrateTypeOK
<1>2. ASSUME NEW c \in Clients PROVE FlowInv(c)' /\ PositionInv(c)' /\ SnapInv(c)'
  <2>1. FlowInv(c)'
    BY <1>0, ClientFacts DEF FlowInv, Target
  <2>2. PositionInv(c)'
    BY <1>0, ClientFacts DEF PositionInv, KnownStays, Grows
  <2>3. SnapInv(c)'
    BY <1>0, ClientFacts DEF SnapInv, Grows, Pending
  <2> QED
    BY <2>1, <2>2, <2>3
<1>3. Typed'
  BY <1>1, <1>2 DEF Typed, TypeOK, StructInv
<1>4. \A c \in Clients : OpenInv(c)'
  BY DEF Contents, OpenInv, Target
<1>5. ASSUME sound', NEW c \in Clients PROVE LogOK(cm[c])' /\ LogOK(m2[c])' /\ ContentInv(c)'
  <2>1. sound /\ LogOK(cm[c]) /\ LogOK(m2[c]) /\ ContentInv(c)
    BY <1>5 DEF Contents, DataInv, Grows
  <2>2. cm[c] \in Manifests /\ m2[c] \in Manifests /\ Known(cm[c]) /\ Known(m2[c])
    BY <1>0, ClientFacts
  <2>3. (cm[c])' = cm[c] /\ (m2[c])' = m2[c]
    OBVIOUS
  <2>4. LogOK(cm[c])' /\ LogOK(m2[c])'
    <3>1. \A m \in Manifests : Known(m) /\ LogOK(m) => LogOK(m)'
      BY <1>0, LogStays
    <3> QED
      BY <2>1, <2>2, <2>3, <3>1 DEF LogOK
  <2>5. ContentInv(c)'
    BY <1>0, <2>1, ContentStays DEF Dirty, Upto
  <2> QED
    BY <2>4, <2>5
<1> QED
  BY <1>3, <1>4, <1>5 DEF Contents, DataInv, Grows

\* The snapshot that a command uploaded takes over.
LEMMA PutUploaded ==
  ASSUME Contents, NEW u \in Users, UploadInv(u), Uploaded(u), NEW m \in Manifests,
         PutManifest(m, TRUE), UNCHANGED <<blobVars, hist, base, handleVars>>,
         m.snap.key = upKey[u], m.snap.seq = um[u].seq, m.seq = um[u].seq,
         m.schema = um[u].schema, m.log = <<>>
  PROVE  Contents' /\ Grows /\ manifest' = m
<1>0. Typed
  BY DEF Contents
<1>1. /\ manifest' = m /\ clock' = clock + 1 /\ sound' = sound
      /\ UNCHANGED <<snapshots, changesets, young, csBody, hist, base>>
  BY <1>0 DEF PutManifest, blobVars, Typed, TypeOK, StoreTypeOK
<1>2. StoreTypeOK'
  BY <1>0, <1>1 DEF Typed, TypeOK, StoreTypeOK
<1>3. KnownStays /\ Grows
  BY <1>1 DEF KnownStays, Known, Grows
<1>4. upKey[u] \in DOMAIN hist /\ Len(hist[upKey[u]]) = 1 /\ Len(m.log) = 0
  <2>1. upKey[u] \in DOMAIN hist /\ hist[upKey[u]] = <<file[u]>>
    BY DEF UploadInv
  <2> QED
    BY <2>1
<1>5. DOMAIN m.log = {} /\ m.snap.seq \in Nat
  BY DEF Manifests, blobRef
<1>6. Known(m)'
  <2>1. base[upKey[u]].seq = um[u].seq /\ base[upKey[u]].schema = um[u].schema
    BY DEF UploadInv
  <2> QED
    BY <1>1, <1>4, <1>5, <2>1 DEF Known
<1>7. m # NoManifest
  BY StoreAssumption
<1>8. StoreInv'
  <2>1. StoreInv /\ Len(hist[m.snap.key]) = Len(m.log) + 1
    BY <1>0, <1>4 DEF Typed, StructInv
  <2> QED
    BY <1>1, <1>6, <1>7, <2>1 DEF StoreInv
<1>9. \A c \in Clients : pc[c] \in Pending => snapKey[c] # m.snap.key
  BY DEF UploadInv, Pending
<1>10. LogOK(manifest)'
  BY <1>1, <1>5 DEF LogOK
<1> QED
  BY <1>1, <1>2, <1>3, <1>8, <1>9, <1>10, HandlesStay

\* init puts the manifest that a bootstrap would put.
LEMMA PutInit ==
  ASSUME Contents, IfNoneMatch, PutManifest(InitManifest, TRUE),
         UNCHANGED <<blobVars, hist, base, handleVars>>
  PROVE  Contents' /\ Grows
<1>0. Typed
  BY DEF Contents
<1>1. /\ StoreTypeOK' /\ StoreInv' /\ KnownStays
      /\ \A d \in Clients : pc[d] \in Pending => snapKey[d] # manifest'.snap.key
      /\ manifest' = InitManifest
  BY <1>0, BootStore
<1>2. sound' = sound /\ Grows
  BY <1>0 DEF PutManifest, blobVars, Grows, Typed, TypeOK, StoreTypeOK
<1>3. LogOK(manifest)'
  BY <1>1, NoLog DEF LogOK
<1> QED
  BY <1>1, <1>2, <1>3, HandlesStay

\* An upload adds a snapshot that nobody refers to.
LEMMA PutUpload ==
  ASSUME Contents, NEW body \in DB, NEW n \in Nat, NEW v \in Nat, PutSnapshot(body, n, v),
         UNCHANGED handleVars
  PROVE  Contents' /\ Grows
<1>0. Typed
  BY DEF Contents
<1>1. /\ StoreTypeOK' /\ StoreInv' /\ KnownStays /\ UNCHANGED <<manifest, csBody>>
      /\ DOMAIN hist \subseteq DOMAIN hist'
      /\ \A k \in DOMAIN hist : hist'[k] = hist[k] /\ base'[k] = base[k]
  BY <1>0, UploadStore
<1>2. Grows
  BY <1>1 DEF Grows, PutSnapshot
<1>3. \A c \in Clients : pc[c] \in Pending =>
        /\ snapKey[c] \in DOMAIN hist
        /\ manifest # NoManifest => snapKey[c] # manifest.snap.key
  BY <1>0, ClientFacts DEF SnapInv, Pending
<1>4. manifest' # NoManifest /\ sound => LogOK(manifest)'
  <2>1. manifest # NoManifest /\ sound => manifest \in Manifests /\ Known(manifest) /\ LogOK(manifest)
    BY <1>0, ManifestFacts DEF Contents, DataInv
  <2>2. \A m \in Manifests : Known(m) /\ LogOK(m) => LogOK(m)'
    BY <1>0, <1>2, LogStays
  <2> QED
    BY <1>1, <2>1, <2>2 DEF LogOK
<1> QED
  BY <1>1, <1>2, <1>3, <1>4, HandlesStay

\* The rest reads the store, or puts the bytes of snap-init again.
LEMMA StoreQuiet ==
  ASSUME Contents, UNCHANGED <<coreVars, sound, handleVars>>, StoreTypeOK'
  PROVE  Contents' /\ Grows
<1>0. Typed
  BY DEF Contents
<1>1. StoreInv' /\ KnownStays
  BY <1>0, StoreFrame
<1>2. Grows
  BY DEF Grows, coreVars
<1>3. \A c \in Clients : pc[c] \in Pending /\ manifest # NoManifest =>
        snapKey[c] # manifest.snap.key
  BY <1>0, ClientFacts DEF SnapInv, Pending
<1>4. manifest' # NoManifest /\ sound => LogOK(manifest)'
  BY DEF Contents, DataInv, LogOK, coreVars
<1> QED
  BY <1>1, <1>2, <1>3, <1>4, HandlesStay DEF coreVars
-----------------------------------------------------------------------------
(***************************************************************************)
(* A step of somebody else preserves what holds of the command of a user.  *)
(***************************************************************************)

\* The snapshot that the command of w uploaded stays nobody else's.
Untaken(w) ==
  Uploaded(w) =>
    /\ hist'[upKey[w]] = hist[upKey[w]]
    /\ manifest' # NoManifest => upKey[w] # manifest'.snap.key
    /\ \A c \in Clients : pc'[c] \in Pending => snapKey'[c] # upKey[w]
    /\ \A v \in Users \ {w} : Uploaded(v)' => upKey'[v] # upKey[w]

\* A user whose variables stay keeps what holds of them.
LEMMA UserStays ==
  ASSUME Typed, Typed', Grows, UserTypeOK, NEW w \in Users, UserOK(w), UserSame(w), Untaken(w)
  PROVE  UserOK(w)'
<1>1. um[w] \in Manifests /\ Known(um[w]) /\ replayed[w] \in Nat /\ (um[w])' = um[w]
  BY UserFacts DEF UserOK, CommandInv, UserSame
<1>2. Known(um[w])'
  <2>1. KnownStays
    BY GrowsKnown
  <2> QED
    BY <1>1, <2>1 DEF KnownStays, Known
<1>3. CommandInv(w)'
  BY <1>2 DEF UserOK, CommandInv, UserSame
<1>4. UploadInv(w)'
  <2>1. Uploaded(w)' <=> Uploaded(w)
    BY DEF Uploaded, UserSame
  <2> QED
    BY <2>1 DEF UserOK, UploadInv, UserSame, Untaken, Grows, Pending
<1>5. ASSUME sound' PROVE LogOK(um[w])'
  <2>1. LogOK(um[w])
    BY <1>5 DEF UserOK, PullInv, Grows
  <2>2. \A m \in Manifests : Known(m) /\ LogOK(m) => LogOK(m)'
    BY LogStays
  <2> QED
    BY <1>1, <2>1, <2>2 DEF LogOK
<1>6. ASSUME sound', upc[w] \in Pulling PROVE Agree(file[w], Content(um[w].snap.key, replayed[w]))'
  <2> DEFINE k == um[w].snap.key
             n == replayed[w]
  <2>1. Agree(file[w], Content(k, n)) /\ um[w].snap.seq <= n /\ n <= um[w].seq
    BY <1>6 DEF UserOK, PullInv, CommandInv, Grows
  <2>2. hist'[k][n - base'[k].seq + 1] = hist[k][n - base[k].seq + 1]
    BY <1>1, <2>1, SpanStays
  <2> QED
    BY <2>1, <2>2 DEF Content, Pos, UserSame
<1>7. PullInv(w)'
  BY <1>5, <1>6 DEF PullInv, UserSame
<1> QED
  BY <1>3, <1>4, <1>7 DEF UserOK

\* A step of a handle preserves what holds of the commands.
LEMMA HandleStepUsers ==
  ASSUME Typed, Typed', UserTypeOK, \A w \in Users : UserOK(w), UNCHANGED userVars,
         NEW c \in Clients, Call(c) \/ Step(c) \/ Disrupt(c)
  PROVE  \A w \in Users : UserOK(w)'
<1> SUFFICES ASSUME NEW w \in Users PROVE UserOK(w)'
  OBVIOUS
<1>1. UserSame(w)
  BY DEF userVars, UserSame
<1>2. Grows
  BY StepGrows
<1>3. Untaken(w)
  <2> SUFFICES ASSUME Uploaded(w)
               PROVE  /\ hist'[upKey[w]] = hist[upKey[w]]
                      /\ manifest' # NoManifest => upKey[w] # manifest'.snap.key
                      /\ \A d \in Clients : pc'[d] \in Pending => snapKey'[d] # upKey[w]
                      /\ \A v \in Users \ {w} : Uploaded(v)' => upKey'[v] # upKey[w]
    BY DEF Untaken
  <2>1. /\ upKey[w] \in DOMAIN hist \ {InitSnap}
        /\ manifest # NoManifest => upKey[w] # manifest.snap.key
        /\ \A d \in Clients : pc[d] \in Pending => snapKey[d] # upKey[w]
        /\ \A v \in Users \ {w} : Uploaded(v) => upKey[v] # upKey[w]
    BY DEF UserOK, UploadInv, Pending
  <2>2. \A v \in Users \ {w} : Uploaded(v)' => upKey'[v] # upKey[w]
    BY <2>1 DEF userVars, Uploaded
  <2> QED
    BY <2>1, <2>2, HandleEffects
<1> QED
  BY <1>1, <1>2, <1>3, UserStays DEF UserOK

\* A step of the handles, or none, preserves the invariant.
LEMMA HandleCli ==
  ASSUME CliInv, [Next]_vars, UNCHANGED userVars
  PROVE  CliInv'
<1>1. Contents /\ UserTypeOK /\ (\A w \in Users : UserOK(w)) /\ Typed
  BY DEF CliInv, Contents, Typed, UserOK
<1>2. Contents' /\ Typed'
  BY <1>1, NextContents DEF Contents
<1>3. UserTypeOK'
  BY <1>1 DEF UserTypeOK, userVars
<1>4. \A w \in Users : UserOK(w)'
  <2>1. CASE \E c \in Clients : Call(c) \/ Step(c) \/ Disrupt(c)
    BY <1>1, <1>2, <2>1, HandleStepUsers
  <2>2. CASE UNCHANGED <<manifest, hist, base, csBody, sound, pc, snapKey>>
    <3> SUFFICES ASSUME NEW w \in Users PROVE UserOK(w)'
      OBVIOUS
    <3>1. CommandInv(w)'
      BY <1>1, <2>2 DEF UserOK, CommandInv, Known, userVars
    <3>2. UploadInv(w)'
      BY <1>1, <2>2 DEF UserOK, UploadInv, Uploaded, userVars
    <3>3. PullInv(w)'
      BY <1>1, <2>2 DEF UserOK, PullInv, LogOK, Content, Pos, userVars
    <3> QED
      BY <3>1, <3>2, <3>3 DEF UserOK
  <2> QED
    BY <2>1, <2>2 DEF Next, Elapse, gcFrame, vars, storeVars, flowVars
<1> QED
  BY <1>2, <1>3, <1>4 DEF CliInv, Contents, Typed, UserOK
-----------------------------------------------------------------------------
(***************************************************************************)
(* A step of a user preserves what holds of its own command.               *)
(***************************************************************************)

\* A command that ends leaves nothing but the file, the sidecar and what they
\* stand for.
LEMMA Exited ==
  ASSUME Typed', UserTypeOK, NEW u \in Users, Exit(u),
         u \in tracked' => seen'[u].seq = sidecar'[u] /\ sidecar'[u] # NoSeq
  PROVE  UserOK(u)'
<1>1. upc'[u] = "idle" /\ um'[u] = InitManifest /\ (um[u])' = InitManifest
  BY DEF Exit, UserGoto, UserTypeOK
<1>2. Known(um[u])'
  <2>1. StoreInv' /\ (hist \in Seq(Seq(DB)))'
    BY DEF Typed, TypeOK, StoreTypeOK, StructInv
  <2>2. Known(InitManifest)'
    BY <2>1 DEF StoreInv, Known, InitManifest, InitSnap
  <2> QED
    BY <1>1, <2>2 DEF Known
<1>3. CommandInv(u)'
  BY <1>1, <1>2 DEF CommandInv, Pulling
<1>4. UploadInv(u)'
  BY <1>1 DEF UploadInv, Uploaded
<1>5. PullInv(u)'
  BY <1>1, NoLog DEF PullInv, Pulling, LogOK
<1> QED
  BY <1>3, <1>4, <1>5 DEF UserOK
\* A manifest that a command loads, or keeps, is known and replays.
LEMMA LoadedManifest ==
  ASSUME Contents, NEW u \in Users, UserOK(u), UNCHANGED <<coreVars, sound>>,
         um'[u] = um[u] \/ (manifest # NoManifest /\ um'[u] = manifest)
  PROVE  Known(um[u])' /\ (sound' => LogOK(um[u])')
<1>1. Known(um'[u]) /\ (sound => LogOK(um'[u]))
  BY ManifestFacts DEF Contents, DataInv, UserOK, CommandInv, PullInv
<1> QED
  BY <1>1 DEF Known, LogOK, coreVars

\* A sequence number that is given is checked.
LEMMA SeqChecked ==
  ASSUME NEW x \in Nat, NEW m, seqMatches(x, m)
  PROVE  m.seq = x
<1>1. x >= 0
  OBVIOUS
<1> QED
  BY <1>1 DEF seqMatches

\* A command that starts satisfies its invariant: in particular the -2 of a
\* missing sidecar is never the expected sequence number of a push.
LEMMA Started ==
  ASSUME Contents, UserTypeOK, NEW u \in Users, UserOK(u), UserStart(u),
         UNCHANGED <<coreVars, sound>>
  PROVE  UserOK(u)'
<1>0. upc[u] = "idle" /\ um[u] = InitManifest
  BY DEF UserStart, Edit, Pull, Push, PushCreate, InitStart, Enter, UserAt, UserOK, CommandInv
<1>1. ASSUME NEW cmd, NEW l, Enter(u, cmd, l) PROVE upc'[u] = l /\ command'[u] = cmd
  BY <1>1 DEF Enter, UserGoto, UserTypeOK
<1>2. um'[u] = um[u] \/ (manifest # NoManifest /\ um'[u] = manifest)
  BY DEF UserStart, Edit, Pull, Push, PushCreate, InitStart, UserTypeOK
<1>3. Known(um[u])' /\ (sound' => LogOK(um[u])')
  BY <1>2, LoadedManifest
<1>4. u \in tracked' => seen'[u].seq = sidecar'[u] /\ sidecar'[u] # NoSeq
  BY DEF UserStart, Edit, Pull, Push, PushCreate, InitStart, UserOK, CommandInv
<1>5. CASE Edit(u)
  <2>1. upc'[u] = "idle" /\ um'[u] = InitManifest
    BY <1>0, <1>1, <1>5 DEF Edit
  <2> QED
    BY <2>1, <1>3, <1>4 DEF UserOK, CommandInv, UploadInv, PullInv, Uploaded, Pulling
<1>6. CASE Pull(u)
  <2>1. upc'[u] = "pulldownload"
    BY <1>1, <1>6 DEF Pull
  <2> QED
    BY <2>1, <1>3, <1>4 DEF UserOK, CommandInv, UploadInv, PullInv, Uploaded, Pulling
<1>7. CASE PushCreate(u) \/ InitStart(u)
  <2>1. /\ \/ upc'[u] = "initstat" /\ command'[u] = "push -create" /\ file[u] # NoFile
           \/ upc'[u] = "initupload" /\ command'[u] = "init"
           \/ upc'[u] = "initupload" /\ command'[u] = "init -f" /\ file[u] # NoFile
        /\ um'[u] = InitManifest /\ file' = file
    BY <1>0, <1>1, <1>7 DEF PushCreate, InitStart, validateSQLiteFile
  <2> QED
    BY <2>1, <1>3, <1>4 DEF UserOK, CommandInv, UploadInv, PullInv, Uploaded, Pulling
<1>8. CASE Push(u)
  <2>1. PICK cmd \in {"push", "push -create", "push -force"} :
          /\ validateSQLiteFile(u) /\ MayPush(u, cmd)
          /\ manifest # NoManifest /\ seqMatches(expected(u, cmd), manifest)
          /\ Enter(u, cmd, "pushupload")
          /\ expectedSeq' = [expectedSeq EXCEPT ![u] = expected(u, cmd)]
          /\ um' = [um EXCEPT ![u] = manifest]
          /\ UNCHANGED <<storeVars, file, sidecar, replayed, upKey, seen, tracked>>
    BY <1>8 DEF Push
  <2>2. /\ upc'[u] = "pushupload" /\ file'[u] # NoFile /\ um'[u] = manifest
        /\ expectedSeq'[u] = expected(u, cmd) /\ sidecar' = sidecar
    BY <1>1, <2>1 DEF validateSQLiteFile, UserTypeOK
  <2>3. expected(u, cmd) # Unchecked =>
          /\ manifest.seq = expected(u, cmd)
          /\ sidecar[u] # NoSeq => expected(u, cmd) = sidecar[u]
    <3>1. sidecar[u] \in Nat \cup {NoSeq} /\ (cmd = "push" => sidecar[u] # NoSeq)
      BY <2>1, UserFacts DEF MayPush
    <3>2. /\ expected(u, cmd) # Unchecked => expected(u, cmd) \in Nat
          /\ expected(u, cmd) # Unchecked /\ sidecar[u] # NoSeq => expected(u, cmd) = sidecar[u]
      BY <3>1 DEF expected, Unchecked
    <3>3. seqMatches(expected(u, cmd), manifest)
      BY <2>1
    <3> QED
      BY <3>2, <3>3, SeqChecked
  <2> QED
    BY <2>2, <2>3, <1>3, <1>4 DEF UserOK, CommandInv, UploadInv, PullInv, Uploaded, Pulling
<1> QED
  BY <1>5, <1>6, <1>7, <1>8 DEF UserStart

\* The snapshot that a pull starts with is what its manifest replays from.
LEMMA PullDownloadOK ==
  ASSUME Contents, UserTypeOK, NEW u \in Users, UserOK(u), PullDownload(u)
  PROVE  UserOK(u)'
<1> DEFINE k == um[u].snap.key
           n == um[u].snap.seq
<1>1. /\ upc'[u] = IF um[u].log = <<>> THEN "pullsidecar" ELSE "pullfetch"
      /\ file'[u] = hist[k][1] /\ seen'[u].seq = n /\ replayed'[u] = n /\ u \notin tracked'
      /\ um' = um /\ UNCHANGED <<coreVars, sound>> /\ k \in snapshots
  BY DEF PullDownload, UserTypeOK, UserGoto, SnapBody, epoch, storeVars, coreVars
<1>0. Typed /\ um[u] \in Manifests /\ Known(um[u]) /\ n \in Nat /\ um[u].seq \in Nat
  BY UserFacts DEF Contents, UserOK, CommandInv
<1>2. Known(um[u])' /\ (sound' => LogOK(um[u])')
  BY <1>1, LoadedManifest
<1>3. n <= um[u].seq /\ (um[u].log = <<>> => um[u].seq = n)
  <2>1. um[u].log \in Seq(logEntry) /\ um[u].seq = n + Len(um[u].log)
    BY <1>0, UserFacts DEF Known
  <2> QED
    BY <1>0, <2>1
<1>4. hist[k][1] = hist[k][n - base[k].seq + 1] /\ file'[u] # NoFile
  <2>1. base[k].seq = n
    BY <1>0 DEF Known
  <2>2. hist[k][1] \in DB
    <3>1. k \in DOMAIN hist
      BY <1>0 DEF Known
    <3> QED
      BY <1>0, <3>1, SnapBodyType DEF SnapBody
  <2>3. n - base[k].seq + 1 = 1
    BY <1>0, <2>1
  <2> QED
    BY <1>1, <2>2, <2>3, UserAssumption
<1>5. CommandInv(u)'
  BY <1>0, <1>1, <1>2, <1>3, <1>4 DEF CommandInv, Pulling
<1>6. UploadInv(u)'
  BY <1>1 DEF UploadInv, Uploaded
<1>7. PullInv(u)'
  BY <1>1, <1>2, <1>4 DEF PullInv, Pulling, Content, Pos, Agree, coreVars
<1> QED
  BY <1>5, <1>6, <1>7 DEF UserOK

\* Each changeset takes the file one position further in the log.
LEMMA PullApplyOK ==
  ASSUME Contents, UserTypeOK, NEW u \in Users, UserOK(u), PullApply(u)
  PROVE  UserOK(u)'
<1> DEFINE k == um[u].snap.key
           n == replayed[u]
           cs(i) == csBody[um[u].log[i].key.id]
<1>0. /\ upc \in [Users -> UserLabels] /\ file \in [Users -> DB \cup {NoFile}]
      /\ seen \in [Users -> [seq : Nat \cup {NoSeq}, contents : DB]]
      /\ replayed \in [Users -> Nat]
  BY DEF UserTypeOK
<1>1. PICK i \in DOMAIN um[u].log :
        /\ FirstMissing(um[u], n, i) /\ Applies(file[u], cs(i))
        /\ file' = [file EXCEPT ![u] = Patch(file[u], cs(i))]
        /\ seen' = [seen EXCEPT ![u] = [seq |-> um[u].log[i].seq, contents |-> Patch(file[u], cs(i))]]
        /\ replayed' = [replayed EXCEPT ![u] = um[u].log[i].seq]
        /\ UserGoto(u, IF Missing(um[u], um[u].log[i].seq) = {} THEN "pullsidecar" ELSE "pullapply")
  BY DEF PullApply
<1>2. /\ upc[u] = "pullapply" /\ um' = um /\ tracked' = tracked /\ UNCHANGED <<coreVars, sound>>
  BY DEF PullApply, UserAt, storeVars, coreVars
<1>3. /\ Typed /\ um[u] \in Manifests /\ Known(um[u]) /\ n \in Nat /\ um[u].seq \in Nat
      /\ um[u].snap.seq \in Nat /\ um[u].snap.seq <= n /\ n <= um[u].seq /\ file[u] \in DB
      /\ u \notin tracked
  BY <1>2, UserFacts DEF Contents, UserOK, CommandInv, Pulling
<1>4. cs(i) \in Changeset
  BY <1>3, PullEntry
<1>5. i = n - um[u].snap.seq + 1 /\ um[u].log[i].seq = n + 1 /\ n + 1 <= um[u].seq
  BY <1>1, <1>3, MissingFacts
<1>6. Missing(um[u], n + 1) = {} <=> um[u].seq <= n + 1
  BY <1>3, MissingFacts
<1>7. Patch(file[u], cs(i)) \in DB /\ Patch(file[u], cs(i)) # NoFile
  BY <1>3, <1>4, PatchType, UserAssumption
<1>8. /\ upc'[u] \in {"pullapply", "pullsidecar"} /\ replayed'[u] = n + 1 /\ seen'[u].seq = n + 1
      /\ file'[u] = Patch(file[u], cs(i))
      /\ upc'[u] = "pullsidecar" => n + 1 = um[u].seq
  <2>1. replayed'[u] = n + 1 /\ seen'[u].seq = n + 1 /\ file'[u] = Patch(file[u], cs(i))
    BY <1>0, <1>1, <1>5
  <2>2. upc'[u] = IF Missing(um[u], n + 1) = {} THEN "pullsidecar" ELSE "pullapply"
    BY <1>0, <1>1, <1>5 DEF UserGoto
  <2>3. um[u].seq <= n + 1 => n + 1 = um[u].seq
    BY <1>3, <1>5
  <2> QED
    BY <1>6, <2>1, <2>2, <2>3
<1>9. Known(um[u])' /\ (sound' => LogOK(um[u])')
  BY <1>2, LoadedManifest
<1>10. CommandInv(u)'
  <2>1. /\ (replayed[u])' = n + 1 /\ (seen[u].seq)' = n + 1 /\ (um[u])' = um[u]
        /\ (file[u])' # NoFile /\ u \notin tracked'
    BY <1>2, <1>3, <1>7, <1>8
  <2>2. um[u].snap.seq <= n + 1 /\ n + 1 <= um[u].seq
    BY <1>3, <1>5
  <2> QED
    BY <1>8, <1>9, <2>1, <2>2 DEF CommandInv, Pulling
<1>11. UploadInv(u)'
  BY <1>8 DEF UploadInv, Uploaded
<1>12. ASSUME sound PROVE Agree(file'[u], hist[k][n + 1 - base[k].seq + 1])
  <2>1. Agree(file[u], Content(k, n)) /\ LogOK(um[u])
    BY <1>2, <1>12 DEF UserOK, PullInv, Pulling
  <2>2. /\ base[k].seq = um[u].snap.seq /\ n - base[k].seq + 1 = i
        /\ n + 1 - base[k].seq + 1 = i + 1
    <3> DEFINE b == base[k].seq
    <3>1. b = um[u].snap.seq
      BY <1>3 DEF Known
    <3>2. b \in Nat /\ n \in Nat /\ i = n - b + 1
      BY <1>3, <1>5, <3>1
    <3> HIDE DEF b
    <3>3. n - b + 1 = i /\ n + 1 - b + 1 = i + 1
      BY <3>2
    <3> QED
      BY <3>1, <3>3 DEF b
  <2>3. Content(k, n) = hist[k][i] /\ hist[k][i] \in DB
    BY <1>3, <1>5, KnownSpan
  <2>4. hist[k][i + 1] = Patch(hist[k][i], cs(i))
    BY <2>1 DEF LogOK
  <2>5. Agree(Patch(file[u], cs(i)), Patch(hist[k][i], cs(i)))
    BY <1>3, <1>4, <2>1, <2>3, AgreeApplies
  <2> QED
    BY <1>8, <2>2, <2>4, <2>5
<1>13. ASSUME sound' PROVE Agree(file[u], Content(um[u].snap.key, replayed[u]))'
  <2>1. /\ (um[u].snap.key)' = k /\ (replayed[u])' = n + 1 /\ (file[u])' = file'[u]
        /\ hist' = hist /\ base' = base /\ sound
    BY <1>2, <1>8, <1>13 DEF coreVars
  <2>2. Content(um[u].snap.key, replayed[u])' = hist[k][n + 1 - base[k].seq + 1]
    <3>1. base[k].seq \in Nat
      BY <1>3 DEF Known
    <3> QED
      BY <1>3, <2>1, <3>1 DEF Content, Pos
  <2> QED
    BY <1>12, <2>1, <2>2 DEF Agree
<1>14. PullInv(u)'
  BY <1>9, <1>13 DEF PullInv
<1> QED
  BY <1>10, <1>11, <1>14 DEF UserOK
\* What a step of a user has to establish.
Preserves(u) ==
  /\ Contents' /\ Grows /\ UserOK(u)'
  /\ \A w \in Users \ {u} : UserOK(w) => Untaken(w)

\* Nothing that the snapshots of others depend on changes.
LEMMA QuietUntaken ==
  ASSUME UserTypeOK, NEW u \in Users, Acts(u), UNCHANGED <<manifest, hist>>, ~Uploaded(u)'
  PROVE  \A w \in Users \ {u} : UserOK(w) => Untaken(w)
<1> SUFFICES ASSUME NEW w \in Users \ {u}, UserOK(w), Uploaded(w) PROVE Untaken(w)
  BY DEF Untaken
<1>1. UNCHANGED <<pc, snapKey>>
  BY DEF Acts, handleVars, flowVars
<1>2. \A v \in Users \ {w} : Uploaded(v)' => Uploaded(v) /\ upKey'[v] = upKey[v]
  BY OtherUsers DEF UserSame, Uploaded
<1> QED
  BY <1>1, <1>2 DEF UserOK, UploadInv, Untaken, Pending

\* The steps that write nothing.
LEMMA ReadersOK ==
  ASSUME CliInv, NEW u \in Users, Acts(u), UNCHANGED storeVars,
         ~(PushUpload(u) \/ PushCas(u) \/ InitUpload(u) \/ InitPut(u))
  PROVE  Preserves(u)
<1>1. Contents /\ UserTypeOK /\ UserOK(u) /\ Typed /\ UNCHANGED handleVars
  BY DEF CliInv, Contents, Typed, UserOK, Acts
<1>2. UNCHANGED <<coreVars, sound>> /\ StoreTypeOK'
  BY <1>1 DEF storeVars, coreVars, Typed, TypeOK, StoreTypeOK
<1>3. Contents' /\ Grows /\ Typed'
  BY <1>1, <1>2, StoreQuiet DEF Contents
<1>4. u \in tracked => seen[u].seq = sidecar[u] /\ sidecar[u] # NoSeq
  BY <1>1 DEF UserOK, CommandInv
<1>5. CASE UserStart(u) \/ PullDownload(u) \/ PullApply(u)
  <2>1. UserOK(u)'
    BY <1>1, <1>2, <1>5, Started, PullDownloadOK, PullApplyOK
  <2>2. ~Uploaded(u)'
    <3>1. upc'[u] \in {"idle", "pulldownload", "pushupload", "initstat", "initupload", "pullfetch",
                      "pullapply", "pullsidecar"}
      BY <1>1, <1>5 DEF UserStart, Edit, Pull, Push, PushCreate, InitStart, Enter, UserGoto, PullDownload,
         PullApply, UserTypeOK
    <3> QED
      BY <3>1 DEF Uploaded
  <2> QED
    BY <1>1, <1>2, <1>3, <2>1, <2>2, QuietUntaken DEF Preserves, coreVars
<1>6. CASE PullFetch(u) \/ (InitStat(u) /\ manifest = NoManifest)
  <2>1. /\ \/ upc[u] = "pullfetch" /\ upc'[u] = "pullapply"
           \/ upc[u] = "initstat" /\ upc'[u] = "initupload"
        /\ UNCHANGED <<command, file, sidecar, um, replayed, expectedSeq, upKey, seen, tracked>>
    BY <1>1, <1>6 DEF PullFetch, InitStat, UserAt, UserGoto, UserTypeOK
  <2>2. Known(um[u])' /\ (sound' => LogOK(um[u])')
    BY <1>1, <1>2, <2>1, LoadedManifest
  <2>3. CommandInv(u)'
    BY <1>1, <2>1, <2>2 DEF UserOK, CommandInv, Pulling
  <2>4. ~Uploaded(u)' /\ UploadInv(u)'
    BY <2>1 DEF Uploaded, UploadInv
  <2>5. PullInv(u)'
    BY <1>1, <1>2, <2>1, <2>2 DEF UserOK, PullInv, Pulling, Content, Pos, coreVars
  <2> QED
    BY <1>1, <1>2, <1>3, <2>3, <2>4, <2>5, QuietUntaken DEF Preserves, UserOK, coreVars
<1>7. CASE Exit(u) /\ (u \in tracked' => seen'[u].seq = sidecar'[u] /\ sidecar'[u] # NoSeq)
  <2>1. UserOK(u)'
    BY <1>1, <1>3, <1>7, Exited
  <2>2. ~Uploaded(u)'
    BY <1>1, <1>7 DEF Exit, UserGoto, Uploaded, UserTypeOK
  <2> QED
    BY <1>1, <1>2, <1>3, <2>1, <2>2, QuietUntaken DEF Preserves, coreVars
<1>8. CASE \/ PullFails(u) \/ PushLost(u) \/ InitLost(u) \/ Killed(u)
           \/ (InitStat(u) /\ manifest # NoManifest)
  BY <1>4, <1>7, <1>8 DEF PullFails, PushLost, InitLost, Killed, InitStat
<1>9. CASE PullSidecar(u)
  <2>1. /\ upc[u] = "pullsidecar" /\ Exit(u) /\ seen' = seen
        /\ \/ sidecar' = [sidecar EXCEPT ![u] = um[u].seq]
           \/ UNCHANGED <<sidecar, tracked>>
    BY <1>9 DEF PullSidecar, UserAt
  <2>2. seen[u].seq = um[u].seq /\ um[u].seq \in Nat /\ u \notin tracked
    BY <1>1, <2>1, UserFacts DEF UserOK, CommandInv, Pulling
  <2>3. u \in tracked' => seen'[u].seq = sidecar'[u] /\ sidecar'[u] # NoSeq
    <3>1. CASE sidecar' = [sidecar EXCEPT ![u] = um[u].seq]
      <4>1. sidecar'[u] = um[u].seq
        BY <1>1, <3>1 DEF UserTypeOK
      <4>2. um[u].seq # NoSeq
        BY <2>2 DEF NoSeq
      <4> QED
        BY <2>1, <2>2, <4>1, <4>2
    <3> QED
      BY <2>1, <2>2, <3>1
  <2> QED
    BY <1>7, <2>1, <2>3
<1> QED
  BY <1>5, <1>6, <1>8, <1>9 DEF Acts, UserStep

\* The uploads: the new snapshot is nobody else's.
LEMMA UploadersOK ==
  ASSUME CliInv, NEW u \in Users, Acts(u), PushUpload(u) \/ (InitUpload(u) /\ command[u] # "init")
  PROVE  Preserves(u)
<1>1. Contents /\ UserTypeOK /\ UserOK(u) /\ Typed /\ UNCHANGED handleVars
  BY DEF CliInv, Contents, Typed, UserOK, Acts
<1>2. /\ \/ upc[u] = "pushupload" /\ upc'[u] = "pushcas"
         \/ upc[u] = "initupload" /\ upc'[u] = "initput" /\ command[u] # "init"
      /\ upKey'[u] = NextSnap
      /\ UNCHANGED <<command, file, sidecar, um, replayed, expectedSeq, seen, tracked>>
  BY <1>1 DEF PushUpload, InitUpload, UserAt, UserGoto, UserTypeOK
<1>3. PutSnapshot(file[u], um[u].seq, um[u].schema)
  <2>1. CASE PushUpload(u)
    BY <2>1 DEF PushUpload
  <2>2. CASE InitUpload(u) /\ command[u] # "init"
    <3>1. um[u] = InitManifest /\ PutSnapshot(file[u], 0, 0)
      BY <1>1, <2>2 DEF InitUpload, UserAt, UserOK, CommandInv
    <3> QED
      BY <3>1 DEF InitManifest
  <2> QED
    BY <2>1, <2>2
<1>4. file[u] \in DB /\ um[u].seq \in Nat /\ um[u].schema \in Nat /\ file[u] # NoFile
  BY <1>1, <1>2, UserFacts DEF UserOK, CommandInv
<1>5. Contents' /\ Grows /\ Typed'
  BY <1>1, <1>3, <1>4, PutUpload DEF Contents
<1>6. /\ UNCHANGED <<manifest, csBody>>
      /\ NextSnap \in DOMAIN hist' \ DOMAIN hist
      /\ \A k \in DOMAIN hist : hist'[k] = hist[k] /\ base'[k] = base[k]
      /\ NextSnap \in Nat \ {InitSnap} /\ hist'[NextSnap] = <<file[u]>>
      /\ base'[NextSnap] = [seq |-> um[u].seq, schema |-> um[u].schema]
  BY <1>1, <1>3, <1>4, UploadStore
<1>7. CommandInv(u)'
  <2>1. KnownStays /\ um[u] \in Manifests /\ Known(um[u]) /\ (um[u])' = um[u]
    BY <1>1, <1>2, <1>5, GrowsKnown, UserFacts DEF UserOK, CommandInv
  <2>2. Known(um[u])'
    BY <2>1 DEF KnownStays, Known
  <2> QED
    BY <1>1, <1>2, <2>2 DEF UserOK, CommandInv, Pulling
<1>8. ASSUME NEW w \in Users \ {u} PROVE UserSame(w)
  BY <1>1, <1>8, OtherUsers
<1>9. /\ manifest # NoManifest => manifest.snap.key \in DOMAIN hist
      /\ \A c \in Clients : pc[c] \in Pending => snapKey[c] \in DOMAIN hist
      /\ \A w \in Users : Uploaded(w) => upKey[w] \in DOMAIN hist
  <2>1. manifest # NoManifest => manifest.snap.key \in DOMAIN hist
    BY <1>1, ManifestFacts DEF Known
  <2>2. \A c \in Clients : pc[c] \in Pending => snapKey[c] \in DOMAIN hist
    BY <1>1, ClientFacts DEF SnapInv, Pending
  <2>3. \A w \in Users : Uploaded(w) => upKey[w] \in DOMAIN hist
    BY DEF CliInv, UploadInv
  <2> QED
    BY <2>1, <2>2, <2>3
<1>10. UNCHANGED <<pc, snapKey>>
  BY <1>1 DEF handleVars, flowVars
<1>11. UploadInv(u)'
  <2>1. \A w \in Users \ {u} : Uploaded(w)' => upKey'[w] # upKey'[u]
    BY <1>2, <1>6, <1>8, <1>9 DEF UserSame, Uploaded
  <2> QED
    BY <1>2, <1>6, <1>9, <1>10, <2>1 DEF UploadInv, Pending
<1>12. PullInv(u)'
  <2>1. sound' => LogOK(um[u])
    BY <1>1, <1>5 DEF UserOK, PullInv, Grows
  <2>2. \A m \in Manifests : Known(m) /\ LogOK(m) => LogOK(m)'
    BY <1>1, <1>5, LogStays
  <2>3. um[u] \in Manifests /\ Known(um[u]) /\ (um[u])' = um[u]
    BY <1>1, <1>2, UserFacts DEF UserOK, CommandInv
  <2>4. sound' => LogOK(um[u])'
    BY <2>1, <2>2, <2>3 DEF LogOK
  <2> QED
    BY <1>2, <2>4 DEF PullInv, Pulling
<1>13. ASSUME NEW w \in Users \ {u}, UserOK(w), Uploaded(w) PROVE Untaken(w)
  <2>1. /\ upKey[w] \in DOMAIN hist
        /\ manifest # NoManifest => upKey[w] # manifest.snap.key
        /\ \A c \in Clients : pc[c] \in Pending => snapKey[c] # upKey[w]
        /\ \A v \in Users \ {w} : Uploaded(v) => upKey[v] # upKey[w]
    BY <1>13 DEF UserOK, UploadInv, Pending
  <2>2. \A v \in Users \ {w, u} : Uploaded(v)' => upKey'[v] # upKey[w]
    BY <1>8, <2>1 DEF UserSame, Uploaded
  <2>3. upKey'[u] # upKey[w]
    BY <1>2, <1>6, <2>1
  <2> QED
    BY <1>6, <1>10, <2>1, <2>2, <2>3 DEF Untaken
<1> QED
  BY <1>5, <1>7, <1>11, <1>12, <1>13 DEF Preserves, UserOK, Untaken
\* init uploads snap-init, whose bytes are fixed.
LEMMA InitUploadOK ==
  ASSUME CliInv, NEW u \in Users, Acts(u), InitUpload(u), command[u] = "init"
  PROVE  Preserves(u)
<1>1. Contents /\ UserTypeOK /\ UserOK(u) /\ Typed /\ UNCHANGED handleVars
  BY DEF CliInv, Contents, Typed, UserOK, Acts
<1>2. /\ upc[u] = "initupload" /\ upc'[u] = "initput" /\ command' = command /\ upKey'[u] = InitSnap
      /\ UNCHANGED <<manifest, changesets, csBody, hist, base, clock, sound>>
      /\ UNCHANGED <<file, sidecar, um, expectedSeq, seen, tracked>>
      /\ snapshots' = snapshots \cup {InitSnap}
      /\ young' = IF Grace THEN young \cup {InitSnap} ELSE young
  BY <1>1 DEF InitUpload, UserAt, UserGoto, UserTypeOK
<1>3. StoreTypeOK'
  <2>1. InitSnap \in DOMAIN hist
    BY <1>1 DEF Typed, TypeOK, StoreTypeOK, StructInv, StoreInv, InitSnap
  <2> QED
    BY <1>1, <1>2, <2>1 DEF Typed, TypeOK, StoreTypeOK
<1>4. UNCHANGED <<coreVars, sound>>
  BY <1>2 DEF coreVars
<1>5. Contents' /\ Grows
  BY <1>1, <1>3, <1>4, StoreQuiet
<1>6. Known(um[u])' /\ (sound' => LogOK(um[u])')
  BY <1>1, <1>2, <1>4, LoadedManifest
<1>7. CommandInv(u)'
  BY <1>1, <1>2, <1>6 DEF UserOK, CommandInv, Pulling
<1>8. ~Uploaded(u)' /\ UploadInv(u)'
  BY <1>2 DEF Uploaded, UploadInv
<1>9. PullInv(u)'
  BY <1>2, <1>6 DEF PullInv, Pulling
<1> QED
  BY <1>1, <1>2, <1>5, <1>7, <1>8, <1>9, QuietUntaken DEF Preserves, UserOK

\* A manifest that a command puts names its own snapshot, or snap-init.
LEMMA PutUntaken ==
  ASSUME UserTypeOK, NEW u \in Users, Acts(u), hist' = hist, ~Uploaded(u)', 
         \/ Uploaded(u) /\ manifest'.snap.key = upKey[u]
         \/ manifest'.snap.key = InitSnap
  PROVE  \A w \in Users \ {u} : UserOK(w) => Untaken(w)
<1> SUFFICES ASSUME NEW w \in Users \ {u}, UserOK(w), Uploaded(w) PROVE Untaken(w)
  BY DEF Untaken
<1>1. UNCHANGED <<pc, snapKey>>
  BY DEF Acts, handleVars, flowVars
<1>2. \A v \in Users \ {w} : Uploaded(v)' => Uploaded(v) /\ upKey'[v] = upKey[v]
  BY OtherUsers DEF UserSame, Uploaded
<1>3. upKey[w] # manifest'.snap.key
  BY DEF UserOK, UploadInv
<1> QED
  BY <1>1, <1>2, <1>3 DEF UserOK, UploadInv, Untaken, Pending

\* What a push puts, and what it replaces.
LEMMA PushCasOK ==
  ASSUME CliInv, NEW u \in Users, Acts(u), PushCas(u)
  PROVE  Preserves(u) /\ manifest = um[u] /\ Successor(manifest')
<1>1. Contents /\ UserTypeOK /\ UserOK(u) /\ Typed /\ UNCHANGED handleVars
  BY DEF CliInv, Contents, Typed, UserOK, Acts
<1> DEFINE m == withSnapshot(um[u], [key |-> upKey[u], seq |-> um[u].seq])
<1>2. /\ upc[u] = "pushcas" /\ PutManifest(m, TRUE) /\ UNCHANGED <<blobVars, hist, base>>
      /\ manifest = um[u] /\ Exit(u) /\ sidecar' = sidecar
      /\ seen' = [seen EXCEPT ![u] = [seq |-> um[u].seq, contents |-> file[u]]]
      /\ tracked' = IF sidecar[u] = um[u].seq THEN tracked \cup {u} ELSE tracked \ {u}
  BY IfMatchFacts DEF PushCas, UserAt
<1>3. m = [seq |-> um[u].seq, schema |-> um[u].schema,
           snap |-> [key |-> upKey[u], seq |-> um[u].seq], log |-> <<>>]
  BY DEF withSnapshot
<1>n. upKey[u] \in Nat /\ um[u].seq \in Nat /\ um[u].schema \in Nat
  BY <1>1, UserFacts
<1> HIDE DEF m
<1>4. m \in Manifests
  BY <1>n, <1>3 DEF Manifests, blobRef
<1>5. /\ m.snap.key = upKey[u] /\ m.snap.seq = um[u].seq /\ m.seq = um[u].seq
      /\ m.schema = um[u].schema /\ m.log = <<>>
  BY <1>3
<1>6. Contents' /\ Grows /\ manifest' = m /\ Typed'
  <2>1. UploadInv(u) /\ Uploaded(u)
    BY <1>1, <1>2 DEF UserOK, Uploaded
  <2> QED
    BY <1>1, <1>2, <1>4, <1>5, <2>1, PutUploaded DEF Contents
<1>7. u \in tracked' => seen'[u].seq = sidecar'[u] /\ sidecar'[u] # NoSeq
  <2>1. u \in tracked' => sidecar[u] = um[u].seq
    BY <1>2
  <2>2. seen'[u].seq = um[u].seq /\ um[u].seq \in Nat
    BY <1>1, <1>2, UserFacts DEF UserTypeOK
  <2>3. um[u].seq # NoSeq
    BY <2>2 DEF NoSeq
  <2> QED
    BY <1>2, <2>1, <2>2, <2>3
<1>8. UserOK(u)'
  BY <1>1, <1>2, <1>6, <1>7, Exited
<1>9. \A w \in Users \ {u} : UserOK(w) => Untaken(w)
  <2>1. ~Uploaded(u)' /\ Uploaded(u)
    BY <1>1, <1>2 DEF Exit, UserGoto, Uploaded, UserTypeOK
  <2> QED
    BY <1>1, <1>2, <1>5, <1>6, <2>1, PutUntaken
<1>10. Successor(manifest')
  BY <1>2, <1>5, <1>6 DEF Successor
<1> QED
  BY <1>2, <1>6, <1>8, <1>9, <1>10 DEF Preserves

\* What Init puts.
LEMMA InitPutOK ==
  ASSUME CliInv, NEW u \in Users, Acts(u), InitPut(u)
  PROVE  Preserves(u) /\ manifest = NoManifest
<1>1. Contents /\ UserTypeOK /\ UserOK(u) /\ Typed /\ UNCHANGED handleVars
  BY DEF CliInv, Contents, Typed, UserOK, Acts
<1> DEFINE m == [InitManifest EXCEPT !.snap = [key |-> upKey[u], seq |-> 0]]
<1>2. /\ upc[u] = "initput" /\ PutManifest(m, TRUE) /\ UNCHANGED <<blobVars, hist, base>>
      /\ IfNoneMatch /\ manifest = NoManifest /\ Exit(u)
      /\ \/ /\ sidecar' = [sidecar EXCEPT ![u] = 0]
            /\ seen' = [seen EXCEPT ![u] = [seq |-> 0, contents |-> file[u]]]
         \/ UNCHANGED <<sidecar, seen, tracked>>
  BY DEF InitPut, UserAt, IfNoneMatch
<1>3. m = [seq |-> 0, schema |-> 0, snap |-> [key |-> upKey[u], seq |-> 0], log |-> <<>>]
  BY DEF InitManifest
<1>n. upKey[u] \in Nat
  BY <1>1, UserFacts
<1> HIDE DEF m
<1>4. m \in Manifests
  BY <1>n, <1>3 DEF Manifests, blobRef
<1>5. /\ m.snap.key = upKey[u] /\ m.snap.seq = 0 /\ m.seq = 0 /\ m.schema = 0 /\ m.log = <<>>
      /\ um[u] = InitManifest /\ um[u].seq = 0 /\ um[u].schema = 0
  BY <1>1, <1>2, <1>3 DEF UserOK, CommandInv, InitManifest
<1>6. manifest' = m
  BY <1>2 DEF PutManifest
<1>7. Contents' /\ Grows /\ Typed'
  <2>1. CASE command[u] = "init"
    <3>1. m = InitManifest
      BY <1>1, <1>2, <1>3, <2>1 DEF UserOK, CommandInv, InitManifest
    <3> QED
      BY <1>1, <1>2, <3>1, PutInit DEF Contents
  <2>2. CASE command[u] # "init"
    <3>1. UploadInv(u) /\ Uploaded(u)
      BY <1>1, <1>2, <2>2 DEF UserOK, Uploaded
    <3> QED
      BY <1>1, <1>2, <1>4, <1>5, <3>1, PutUploaded DEF Contents
  <2> QED
    BY <2>1, <2>2
<1>8. u \in tracked' => seen'[u].seq = sidecar'[u] /\ sidecar'[u] # NoSeq
  <2>1. CASE UNCHANGED <<sidecar, seen, tracked>>
    BY <1>1, <2>1 DEF UserOK, CommandInv
  <2>2. CASE /\ sidecar' = [sidecar EXCEPT ![u] = 0]
             /\ seen' = [seen EXCEPT ![u] = [seq |-> 0, contents |-> file[u]]]
    BY <1>1, <2>2 DEF UserTypeOK, NoSeq
  <2> QED
    BY <1>2, <2>1, <2>2
<1>9. UserOK(u)'
  BY <1>1, <1>2, <1>7, <1>8, Exited
<1>10. \A w \in Users \ {u} : UserOK(w) => Untaken(w)
  <2>1. ~Uploaded(u)'
    BY <1>1, <1>2 DEF Exit, UserGoto, Uploaded, UserTypeOK
  <2>2. Uploaded(u) \/ upKey[u] = InitSnap
    BY <1>1, <1>2 DEF Uploaded, UserOK, CommandInv
  <2> QED
    BY <1>1, <1>2, <1>5, <1>6, <2>1, <2>2, PutUntaken
<1> QED
  BY <1>2, <1>7, <1>9, <1>10 DEF Preserves
-----------------------------------------------------------------------------
(***************************************************************************)
(* The theorems.                                                           *)
(***************************************************************************)

\* A step of a user writes to the store in four places.
LEMMA OnlyWriters ==
  ASSUME NEW u \in Users, Acts(u)
  PROVE  UNCHANGED storeVars \/ PushUpload(u) \/ PushCas(u) \/ InitUpload(u) \/ InitPut(u)
BY DEF Acts, UserStart, UserStep, Edit, Pull, Push, PushCreate, InitStart, PullDownload, PullFetch, PullApply,
   PullFails, PullSidecar, PushLost, InitStat, InitLost, Killed

\* A step of a user preserves the invariant.
LEMMA UserCli ==
  ASSUME CliInv, NEW u \in Users, Acts(u)
  PROVE  CliInv'
<1>1. Contents /\ UserTypeOK /\ (\A w \in Users : UserOK(w)) /\ Typed
  BY DEF CliInv, Contents, Typed, UserOK
<1>2. Preserves(u)
  BY OnlyWriters, ReadersOK, UploadersOK, InitUploadOK, PushCasOK, InitPutOK
<1>3. Contents' /\ Typed' /\ Grows
  BY <1>2 DEF Preserves, Contents
<1>4. UserTypeOK'
  BY <1>1, UserTypes DEF UserOK
<1>5. ASSUME NEW w \in Users PROVE UserOK(w)'
  <2>1. CASE w = u
    BY <1>2, <2>1 DEF Preserves
  <2>2. CASE w # u
    <3>1. UserSame(w) /\ UserOK(w) /\ Untaken(w)
      BY <1>1, <1>2, <2>2, OtherUsers DEF Preserves
    <3> QED
      BY <1>1, <1>3, <3>1, UserStays
  <2> QED
    BY <2>1, <2>2
<1> QED
  BY <1>3, <1>4, <1>5 DEF CliInv, Contents, Typed, UserOK
\* The invariant holds at first.
LEMMA InitCli == CliInit => CliInv
<1> SUFFICES ASSUME CliInit PROVE CliInv
  OBVIOUS
<1>1. Contents /\ Typed
  BY InitContents DEF CliInit, Contents
<1>2. UserTypeOK
  <2>1. EmptyDB \in DB /\ InitManifest \in Manifests
    BY RowsAssumption, InitManifestType DEF EmptyDB, DB
  <2>2. "idle" \in UserLabels /\ "edit" \in CommandKinds
    BY DEF UserLabels, CommandKinds
  <2> QED
    BY <2>1, <2>2, UserAssumption DEF CliInit, UserInit, UserTypeOK, NoSnap, NoSeq, Unseen
<1>3. ASSUME NEW u \in Users PROVE UserOK(u)
  <2>1. upc[u] = "idle" /\ um[u] = InitManifest /\ u \notin tracked
    BY DEF CliInit, UserInit
  <2>2. Known(InitManifest)
    BY <1>1, InitManifestKnown DEF Typed, TypeOK, StoreTypeOK, StructInv
  <2> QED
    BY <2>1, <2>2, NoLog DEF UserOK, CommandInv, UploadInv, PullInv, Uploaded, Pulling
<1> QED
  BY <1>1, <1>2, <1>3 DEF CliInv, Contents, Typed, UserOK

\* Every step preserves the invariant.
LEMMA NextCli == CliInv /\ [CliNext]_cliVars => CliInv'
<1> SUFFICES ASSUME CliInv, [CliNext]_cliVars PROVE CliInv'
  OBVIOUS
<1>1. CASE UNCHANGED cliVars
  BY <1>1, HandleCli DEF cliVars, handleVars, vars
<1>2. CASE Next /\ UNCHANGED userVars
  BY <1>2, HandleCli
<1>3. CASE \E u \in Users : Acts(u)
  BY <1>3, UserCli
<1> QED
  BY <1>1, <1>2, <1>3 DEF CliNext, Acts

\* The invariant of the commands and of the handles holds in every reachable state.
THEOREM CliInvariant == CliSpec => []CliInv
BY InitCli, NextCli, PTL DEF CliSpec

\* Every variable of a command has its type: a missing sidecar (-2, main.go:262)
\* never becomes the expected sequence number of a push.
THEOREM UsersTyped == CliSpec => []UserTypeOK
<1>1. CliInv => UserTypeOK
  BY DEF CliInv
<1> QED
  BY <1>1, CliInvariant, PTL

\* A pull that succeeds leaves in the file the database of the manifest it loaded,
\* whatever handles commit, compact, migrate or collect and other users push in the
\* meantime (pullpush.go: Pull).
THEOREM PullsAreExact == CliSpec => []PulledMatchesReplay
<1>1. CliInv => PulledMatchesReplay
  <2> SUFFICES ASSUME CliInv, NEW u \in Users, sound, upc[u] = "pullsidecar"
               PROVE  Agree(file[u], Content(epoch(um[u]), um[u].seq))
    BY DEF PulledMatchesReplay, UserAt
  <2> QED
    BY DEF CliInv, PullInv, CommandInv, Pulling, epoch
<1> QED
  BY <1>1, CliInvariant, PTL

\* Pushes and inits keep the promises of the handles: the log of the manifest in
\* the bucket replays without a conflict ...
THEOREM PushedLogReplays == CliSpec => []LogReplays
<1>1. CliInv => Contents
  BY DEF CliInv, Contents, Typed
<1> QED
  BY <1>1, ContentsReplay, CliInvariant, PTL

\* ... and the local file of every handle holds what replaying the log yields, even
\* while others replace the database under it.
THEOREM HandlesStillMatch == CliSpec => []LocalMatchesReplay
<1>1. CliInv => Contents
  BY DEF CliInv, Contents, Typed
<1> QED
  BY <1>1, ContentsMatch, CliInvariant, PTL

\* The manifest is created once, and a push replaces it at the same sequence number
\* by a snapshot that takes over the log (manifest.go:35-37): it never rewinds.
THEOREM CliManifestSteps == CliSpec => SeqSteps
<1>1. ASSUME CliInv, [CliNext]_cliVars, manifest # NoManifest, manifest' # manifest
      PROVE  Successor(manifest')
  <2>1. ~UNCHANGED cliVars
    BY <1>1 DEF cliVars, storeVars
  <2>2. CASE Next
    BY <1>1, <2>2, NextSucceeds DEF CliInv, Typed
  <2>3. CASE \E u \in Users : Acts(u)
    <3>1. PICK u \in Users : Acts(u)
      BY <2>3
    <3>2. PushCas(u)
      <4>1. PushUpload(u) \/ InitUpload(u) \/ UNCHANGED storeVars => manifest' = manifest
        BY DEF PushUpload, InitUpload, PutSnapshot, storeVars
      <4> QED
        BY <1>1, <3>1, <4>1, OnlyWriters, InitPutOK
    <3> QED
      BY <1>1, <3>1, <3>2, PushCasOK
  <2> QED
    BY <1>1, <2>1, <2>2, <2>3 DEF CliNext, Acts
<1>2. CliInv /\ [CliNext]_cliVars =>
        [manifest # NoManifest =>
           \/ /\ manifest'.seq = manifest.seq + 1
              /\ manifest'.snap = manifest.snap
              /\ Len(manifest'.log) = Len(manifest.log) + 1
              /\ \A i \in DOMAIN manifest.log : manifest'.log[i] = manifest.log[i]
           \/ /\ manifest'.seq = manifest.seq
              /\ manifest'.snap.seq = manifest.seq
              /\ manifest'.log = <<>>]_manifest
  BY <1>1 DEF Successor
<1> QED
  BY <1>2, CliInvariant, PTL DEF CliSpec, SeqSteps

\* Nobody but the command that uploaded a snapshot puts it in charge.
LEMMA OnlyOwnerPuts ==
  ASSUME CliInv, NEW u \in Users, upc[u] = "pushcas", [CliNext]_cliVars,
         manifest' # manifest, epoch(manifest') = upKey[u]
  PROVE  Acts(u) /\ PushCas(u)
<1>1. Contents /\ UserTypeOK /\ (\A w \in Users : UserOK(w)) /\ Typed
  BY DEF CliInv, Contents, Typed, UserOK
<1>2. /\ upKey[u] # InitSnap
      /\ manifest # NoManifest => upKey[u] # manifest.snap.key
      /\ \A c \in Clients : pc[c] \in Pending => snapKey[c] # upKey[u]
      /\ \A w \in Users \ {u} : Uploaded(w) => upKey[w] # upKey[u]
  BY <1>1 DEF UserOK, UploadInv, Uploaded, Pending
<1>3. ~UNCHANGED cliVars
  BY DEF cliVars, storeVars
<1>4. ~Next
  <2> SUFFICES ASSUME Next PROVE FALSE
    OBVIOUS
  <2>1. PICK c \in Clients : Call(c) \/ Step(c) \/ Disrupt(c)
    BY DEF Next, Elapse, storeVars
  <2> QED
    BY <1>1, <1>2, <2>1, HandleEffects DEF epoch
<1>5. PICK w \in Users : Acts(w)
  BY <1>3, <1>4 DEF CliNext, Acts
<1>6. PushCas(w) \/ InitPut(w)
  <2>1. PushUpload(w) \/ InitUpload(w) \/ UNCHANGED storeVars => manifest' = manifest
    BY DEF PushUpload, InitUpload, PutSnapshot, storeVars
  <2> QED
    BY <1>5, <2>1, OnlyWriters
<1>7. epoch(manifest') = upKey[w]
  <2>1. CASE PushCas(w)
    BY <2>1 DEF PushCas, PutManifest, withSnapshot, epoch
  <2>2. CASE InitPut(w)
    <3>1. manifest' = [InitManifest EXCEPT !.snap = [key |-> upKey[w], seq |-> 0]]
      BY <2>2 DEF InitPut, PutManifest
    <3> QED
      BY <3>1 DEF InitManifest, epoch
  <2> QED
    BY <1>6, <2>1, <2>2
<1>8. w = u
  <2>1. Uploaded(w) \/ upKey[w] = InitSnap
    BY <1>1, <1>6 DEF PushCas, InitPut, UserAt, Uploaded, UserOK, CommandInv
  <2> QED
    BY <1>2, <1>7, <2>1
<1> QED
  BY <1>5, <1>6, <1>8 DEF InitPut, UserAt

\* A checked push discards no commit, if the sidecar was written for the file: the
\* file started from the sequence number of the manifest that the push replaces
\* (pullpush.go:141-144), whoever else committed, compacted or pushed meanwhile.
THEOREM PushesKeepCommits == CliSpec => PushKeepsCommits
<1>1. ASSUME CliInv, [CliNext]_cliVars, NEW u \in Users, Overwrites(u), u \in tracked
      PROVE  seen[u].seq = manifest.seq
  <2>1. /\ upc[u] = "pushcas" /\ manifest' # manifest /\ epoch(manifest') = upKey[u]
        /\ expectedSeq[u] # Unchecked
    BY <1>1 DEF Overwrites, UserAt
  <2>2. manifest = um[u]
    BY <1>1, <2>1, OnlyOwnerPuts, PushCasOK
  <2> QED
    BY <1>1, <2>1, <2>2 DEF CliInv, CommandInv
<1>2. CliInv /\ [CliNext]_cliVars =>
        [\A u \in Users : Overwrites(u) /\ u \in tracked => seen[u].seq = manifest.seq]_cliVars
  BY <1>1
<1> QED
  BY <1>2, CliInvariant, PTL DEF CliSpec, PushKeepsCommits
=============================================================================
