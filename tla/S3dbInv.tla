------------------------------ MODULE S3dbInv ------------------------------
(***************************************************************************)
(* The inductive invariant of S3db: what holds of the manifests that the   *)
(* bucket and the clients hold, of where an operation may be and of what   *)
(* the local files contain.                                                *)
(***************************************************************************)
EXTENDS S3db

\* Labels between the SAVEPOINT and its end, and labels of a client whose
\* file is in sync with its manifest.
InSavepoint == {"unorphan", "upload", "cas", "reload", "rebase"}
Synced == InSavepoint \cup {"view", "capture", "exhausted", "compact", "compactcas",
                            "gc", "up", "migcas"}

\* Where an operation is, or is going to be once it is in sync.
Target(c) == IF pc[c] \in SyncLabels THEN ret[c] ELSE pc[c]

\* A manifest that was put at some time.
Known(m) ==
  LET k == m.snap.key
  IN /\ k \in DOMAIN hist
     /\ m.snap.seq = base[k].seq /\ m.schema = base[k].schema
     /\ m.seq = m.snap.seq + Len(m.log)
     /\ Len(m.log) < Len(hist[k])
     /\ \A i \in DOMAIN m.log :
          /\ m.log[i].seq = m.snap.seq + i
          /\ m.log[i].key.epoch = k
          /\ m.log[i].key.id \in DOMAIN csBody

StoreInv ==
  /\ Len(hist) >= 1 /\ Len(base) = Len(hist)
  /\ base[InitSnap] = [seq |-> 0, schema |-> 0]
  /\ \A k \in DOMAIN hist : Len(hist[k]) >= 1
  /\ manifest = NoManifest => Len(hist[InitSnap]) = 1
  /\ manifest # NoManifest =>
       Known(manifest) /\ Len(hist[manifest.snap.key]) = Len(manifest.log) + 1

\* Control: which labels go with which continuations and variables.
FlowInv(c) ==
  /\ pc[c] = "refresh" => ret[c] \in {"view", "capture", "compact", "gc"}
  /\ pc[c] \in {"compact", "compactcas"} => ret[c] = "compact"
  /\ Target(c) \in {"capture", "exhausted"} \cup InSavepoint => fn[c] \in Txns
  /\ Target(c) \in {"up", "migcas"} => cm[c].schema < Version[c]
  /\ pc[c] \in Synced \cup {"fetch", "apply"} => conn[c] # NoConn
  /\ pc[c] \in InSavepoint => saved[c] # NoConn
  /\ saved[c] # NoConn => pc[c] \in InSavepoint \cup {"exhausted"}

\* Positions: what the local file is a copy of.
PositionInv(c) ==
  /\ Known(cm[c]) /\ Known(m2[c])
  /\ conn[c] # NoConn =>
       /\ snapshotKey[c] = cm[c].snap.key
       /\ cm[c].snap.seq <= localSeq[c] /\ localSeq[c] <= cm[c].seq
  /\ pc[c] \in {"fetch", "apply"} => localSeq[c] < cm[c].seq
  /\ pc[c] \in Synced => localSeq[c] = cm[c].seq
  /\ saved[c] # NoConn => cm[c].snap.seq <= savedSeq[c] /\ savedSeq[c] <= localSeq[c]
  /\ pc[c] \in InSavepoint =>
       csKey[c].id \in DOMAIN csBody /\ csKey[c].epoch = cm[c].snap.key
  /\ pc[c] = "rebase" =>
       m2[c].snap.key = cm[c].snap.key /\ localSeq[c] <= reb[c] /\ reb[c] <= m2[c].seq

\* The snapshot that an operation uploaded is nobody else's.
SnapInv(c) ==
  /\ pc[c] \in {"compactcas", "migcas"} =>
       /\ snapKey[c] \in DOMAIN hist \ {InitSnap}
       /\ hist[snapKey[c]] = <<conn[c]>>
       /\ base[snapKey[c]] =
            [seq |-> cm[c].seq,
             schema |-> IF pc[c] = "migcas" THEN cm[c].schema + 1 ELSE cm[c].schema]
       /\ manifest # NoManifest => snapKey[c] # manifest.snap.key
       /\ \A d \in Clients \ {c} :
            pc[d] \in {"compactcas", "migcas"} => snapKey[d] # snapKey[c]

StructInv == StoreInv /\ \A c \in Clients : FlowInv(c) /\ PositionInv(c) /\ SnapInv(c)

\* Contents: each log entry of a manifest that was put follows on the one
\* before.
LogOK(m) ==
  LET k == m.snap.key
  IN \A i \in DOMAIN m.log :
       /\ Applies(hist[k][i], csBody[m.log[i].key.id])
       /\ hist[k][i + 1] = Patch(hist[k][i], csBody[m.log[i].key.id])

\* The uploaded changeset, inside the SAVEPOINT, may follow on sequence number
\* n, and the connection holds what that gives.
Mine(c) == csBody[csKey[c].id]
Upto(c) == IF pc[c] = "rebase" THEN reb[c] ELSE localSeq[c]

\* A migration already ran on the local file and was not committed.
Dirty(c) == pc[c] = "migcas" \/ (pc[c] = "migrate" /\ lastVer[c] = cm[c].schema + 1)

ContentInv(c) ==
  c \notin stale =>
    /\ conn[c] # NoConn /\ saved[c] = NoConn /\ ~Dirty(c) =>
         Agree(conn[c], Content(snapshotKey[c], localSeq[c]))
    /\ saved[c] # NoConn => Agree(saved[c], Content(snapshotKey[c], savedSeq[c]))
    /\ pc[c] \in InSavepoint =>
         /\ \A r \in DOMAIN Mine(c) : Mine(c)[r].old # Mine(c)[r].new
         /\ Applies(Content(snapshotKey[c], Upto(c)), Mine(c))
         /\ Agree(conn[c], Patch(Content(snapshotKey[c], Upto(c)), Mine(c)))

DataInv ==
  sound =>
    /\ manifest # NoManifest => LogOK(manifest)
    /\ \A c \in Clients : LogOK(cm[c]) /\ LogOK(m2[c]) /\ ContentInv(c)

-----------------------------------------------------------------------------
\* Open knows that its migration ran on the local file: an error then closes
\* the handle, and a second try of the same migration clears the snapshot key.
OpenInv(c) ==
  /\ pc[c] \in OpenLabels => ret[c] \in OpenRets
  /\ Target(c) \in {"up", "migcas"} => lastVer[c] = cm[c].schema + 1
  /\ lastVer[c] <= Version[c]

\* fn is there during an Update only, and the uploaded changeset is what it did.
RecordInv(c) ==
  /\ fn[c] # NoTxn => Target(c) \in {"capture", "exhausted"} \cup InSavepoint
  /\ pc[c] \in InSavepoint =>
       Mine(c) # NoChange /\ \E d \in DB : Mine(c) = Diff(d, Effect[fn[c]][d])

\* CAS attempts that the manifests loaded since make c lose, in excess of attempt.
Loaded == {"download", "fetch", "apply", "capture", "unorphan", "upload", "cas",
           "compact", "compactcas"}
Losses(c) ==
  CASE pc[c] = "reload" -> 1
    [] pc[c] = "rebase" -> IF m2[c] = manifest THEN 1 ELSE 2
    [] pc[c] \in Loaded -> IF cm[c] = manifest THEN 0 ELSE 1
    [] OTHER -> 0

ContentionInv(c) ==
  pc[c] \notin {"idle", "closed"} => attempt[c] + Losses(c) <= clock - began[c].clock

\* Sequence numbers do not fall behind the start of an operation.
SeqNow == IF manifest = NoManifest THEN 0 ELSE manifest.seq
FreshInv(c) ==
  /\ began[c].seq <= SeqNow
  /\ Target(c) = "view" /\ pc[c] # "refresh" => began[c].seq <= cm[c].seq

\* The changesets that c uploaded and did not commit are nobody else's and in no
\* log, unless the SDK retries a Put that took effect.
Own(c) == {csKey[c], orphan[c]} \ {NoKey}
OwnInv(c) ==
  "retry412" \notin Faults =>
    /\ \A x \in Own(c) : x.id \in DOMAIN csBody
    /\ manifest # NoManifest => Own(c) \cap liveChangesets(manifest) = {}
    /\ \A d \in Clients \ {c} : Own(c) \cap Own(d) = {}

\* What every reachable state satisfies and every step preserves.
IInv ==
  /\ TypeOK /\ StructInv /\ DataInv
  /\ hist[InitSnap][1] = EmptyDB
  /\ \A c \in Clients :
       OpenInv(c) /\ RecordInv(c) /\ ContentionInv(c) /\ FreshInv(c) /\ OwnInv(c)
-----------------------------------------------------------------------------
(***************************************************************************)
(* What an application must not do for its commits to be serializable and  *)
(* its migrations to yield the same database on every client.              *)
(***************************************************************************)

\* A transaction that changes something depends on no row but those it changes:
\* where its changeset applies, it would do the same again.
ReadsWhatItWrites ==
  \A t \in Txns : \A d, e \in DB :
    LET cs == Diff(d, Effect[t][d])
    IN cs # NoChange /\ Applies(e, cs) => Agree(Effect[t][e], Patch(e, cs))

\* A migration copies nothing from the tables that are not replicated.
MigratesTracked ==
  \A v \in DOMAIN Up : \A d, e \in DB : Agree(d, e) => Agree(Up[v][d], Up[v][e])

\* The snapshot of a migration holds the migrated contents of its manifest.
MigratedInv(c) ==
  sound /\ c \notin stale /\ pc[c] = "migcas" =>
    Agree(conn[c], Up[cm[c].schema + 1][Content(snapshotKey[c], localSeq[c])])
-----------------------------------------------------------------------------
(***************************************************************************)
(* What garbage collection must not overlap with (the run gcrace shows     *)
(* why), and what then holds of the blobs that a manifest refers to.       *)
(***************************************************************************)

\* May collect, and may put a manifest with a new epoch.
MayCollect(c) == Budget[c]["gc"] > 0
MayFold(c) ==
  \/ Budget[c]["compact"] > 0 \/ Version[c] > 0
  \/ AutoCompact > 0 /\ Budget[c]["update"] > 0

\* Nobody compacts or migrates beside the collector: db.mu keeps the operations
\* of one handle apart.
OneMaintainer == \A g, f \in Clients : MayCollect(g) /\ MayFold(f) => g = f

\* Labels of a collector, of a client that uploaded a changeset, and of one that
\* uploaded a snapshot.
Sweeping == {"gc", "gclist", "gcsweep", "gcsnaps", "gcdelete"}
AfterUpload == {"cas", "reload", "rebase"}
Pending == {"compactcas", "migcas"}

\* The operations of c are those that it may start.
RoleInv(c) ==
  /\ \A op \in OpKinds : left[c][op] > 0 => Budget[c][op] > 0
  /\ Target(c) \in UpdateLabels => Budget[c]["update"] > 0
  /\ Target(c) \in Sweeping => MayCollect(c)
  /\ Target(c) \in {"compact", "compactcas"} => MayFold(c)

\* No manifest that anyone holds refers to a changeset that c may delete.
HeldInv(c) ==
  \A d \in Clients : Own(c) \cap (liveChangesets(cm[d]) \cup liveChangesets(m2[d])) = {}

\* A collector knows the current epoch, and does not sweep it, nor any epoch if
\* the current one is young.
SweepInv(c) ==
  /\ Target(c) \in Sweeping /\ pc[c] # "refresh" =>
       manifest # NoManifest /\ epoch(cm[c]) = epoch(manifest)
  /\ pc[c] = "gcsweep" => epoch(cm[c]) \notin todo[c]
  /\ Grace /\ pc[c] \in {"gclist", "gcsweep"} => epoch(manifest) \notin young

\* Snapshot k is in the bucket, and no grace period has passed since it was put.
Recent(k) == k \in snapshots /\ (Grace => k \in young)

\* The epoch of the manifest, or of the first one.
CurrentEpoch == IF manifest = NoManifest THEN InitSnap ELSE epoch(manifest)

\* What an operation uploaded is there when its manifest is put.
PendingInv(c) ==
  /\ pc[c] \in AfterUpload /\ csKey[c].epoch = CurrentEpoch => csKey[c] \in changesets
  /\ pc[c] \in Pending =>
       /\ Recent(snapKey[c])
       /\ \A d \in Clients : snapKey[c] \notin {epoch(cm[d]), epoch(m2[d])}
  /\ pc[c] = "bootput" /\ manifest = NoManifest => Recent(InitSnap)

\* m was loaded by an operation that is still under way, so that its epoch is
\* current, or has been replaced by one that is young.
Holds(m) ==
  /\ manifest # NoManifest
  /\ epoch(m) = epoch(manifest) \/ epoch(manifest) \in young
  /\ liveChangesets(m) \subseteq changesets

GraceInv(c) ==
  Grace =>
    /\ pc[c] \in {"download", "fetch"} => Holds(cm[c])
    /\ pc[c] = "rebase" => Holds(m2[c])
    /\ pc[c] \in {"bootupload", "bootput"} /\ manifest # NoManifest =>
         epoch(manifest) \in young

\* Holds of every reachable state under OneMaintainer, if the SDK repeats no Put.
BlobInv ==
  /\ BlobsPresent
  /\ \A c \in Clients :
       RoleInv(c) /\ HeldInv(c) /\ SweepInv(c) /\ PendingInv(c) /\ GraceInv(c)
=============================================================================
