------------------------------- MODULE Client -------------------------------
(***************************************************************************)
(* A DB handle (s3db.go) with its commitState (commit.go) and the way it   *)
(* brings its local SQLite file up to date (sync.go): Open, bootstrap,     *)
(* View, Close, refreshManifest, syncToManifest, downloadSnapshot and      *)
(* applyLog.  The operations that write to the bucket extend this module.  *)
(*                                                                         *)
(* A client is one DB handle, each with a bucket connection and a local    *)
(* file of its own.  db.mu admits one operation of a handle at a time, so  *)
(* pc[c] says where that operation is.  Every step makes at most one call  *)
(* to the store: the calls of different clients interleave.                *)
(***************************************************************************)
EXTENDS BlobStore

CONSTANTS Clients,
          Warm,      \* the clients that are open in the initial state
          Admin,     \* the clients opened WithSchemaUnchecked
          Version,   \* Version[c]: client c knows the migrations 1..Version[c]
          Budget,    \* Budget[c][op]: how often c may start op (a bound)
          NoConn     \* conn = nil, or no SAVEPOINT

OpKinds == {"open", "view", "update", "compact", "gc"}

ASSUME ClientAssumption ==
  /\ Warm \subseteq Clients /\ Admin \subseteq Clients
  /\ Version \in [Clients -> Nat]
  /\ \A c \in Warm : Version[c] = 0
  /\ Budget \in [Clients -> [OpKinds -> Nat]]
  /\ NoConn \notin DB

VARIABLES pc,           \* where the operation of the client is
          ret,          \* where it goes on once its local file is in sync
          conn,         \* contents of the local file as st.conn sees it
          saved,        \* what a ROLLBACK of the open SAVEPOINT restores
          localSeq,     \* st.localSeq
          snapshotKey,  \* st.snapshotKey
          cm,           \* st.manifest; st.etag is always the ETag of it
          schemaVer,    \* cfg.schemaVer
          attempt,      \* CAS attempts already lost by this operation
          snapKey,      \* the snapshot uploaded and not yet committed
          left          \* what is left of Budget

(***************************************************************************)
(* History variables.  savedSeq[c] is localSeq[c] when the SAVEPOINT was   *)
(* opened.  A client is stale once it rolled back a SAVEPOINT inside which *)
(* localSeq had advanced: its connection lost the changesets of other      *)
(* clients that localSeq says it holds.  sound is FALSE once a stale       *)
(* client replaced the manifest.  began[c] is the sequence number and the  *)
(* clock of the manifest when the operation of c started.                  *)
(***************************************************************************)
VARIABLES savedSeq, stale, began

connVars == <<conn, saved, localSeq, snapshotKey, cm, savedSeq, stale>>
flowVars == <<pc, ret, attempt, snapKey, schemaVer, left, began>>

OpenLabels == {"open", "bootupload", "bootput", "migrate", "up", "migcas"}
SyncLabels == {"refresh", "download", "fetch", "apply"}
UpdateLabels == {"capture", "unorphan", "upload", "cas", "reload", "rebase", "exhausted"}
MaintainLabels == {"compact", "compactcas", "gc", "gclist", "gcsweep", "gcsnaps", "gcdelete"}
Labels == {"closed", "idle", "view"} \cup OpenLabels \cup SyncLabels
             \cup UpdateLabels \cup MaintainLabels

\* Continuations of a sync that is part of Open, and of all others.
OpenRets == {"migrate", "up", "idle"}
Rets == OpenRets \cup {"view", "capture", "exhausted", "compact", "gc"}

NotBegun == [seq |-> 0, clock |-> 0]

ClientTypeOK ==
  /\ pc \in [Clients -> Labels]
  /\ ret \in [Clients -> Rets]
  /\ conn \in [Clients -> DB \cup {NoConn}]
  /\ saved \in [Clients -> DB \cup {NoConn}]
  /\ localSeq \in [Clients -> Nat]
  /\ snapshotKey \in [Clients -> Nat]
  /\ cm \in [Clients -> Manifests]
  /\ schemaVer \in [Clients -> Nat]
  /\ attempt \in [Clients -> Nat]
  /\ snapKey \in [Clients -> Nat]
  /\ left \in [Clients -> [OpKinds -> Nat]]
  /\ savedSeq \in [Clients -> Nat]
  /\ stale \subseteq Clients
  /\ began \in [Clients -> [seq : Nat, clock : Nat]]

ClientInit ==
  /\ manifest = IF Warm = {} THEN NoManifest ELSE InitManifest
  /\ snapshots = IF Warm = {} THEN {} ELSE {InitSnap}
  /\ changesets = {} /\ young = {} /\ csBody = <<>>
  /\ hist = << <<EmptyDB>> >>
  /\ base = << [seq |-> 0, schema |-> 0] >>
  /\ clock = 0
  /\ pc = [c \in Clients |-> IF c \in Warm THEN "idle" ELSE "closed"]
  /\ ret = [c \in Clients |-> "idle"]
  /\ conn = [c \in Clients |-> IF c \in Warm THEN EmptyDB ELSE NoConn]
  /\ saved = [c \in Clients |-> NoConn]
  /\ localSeq = [c \in Clients |-> 0]
  /\ snapshotKey = [c \in Clients |-> IF c \in Warm THEN InitSnap ELSE NoSnap]
  /\ cm = [c \in Clients |-> InitManifest]
  /\ schemaVer = [c \in Clients |-> 0]
  /\ attempt = [c \in Clients |-> 0]
  /\ snapKey = [c \in Clients |-> NoSnap]
  /\ left = Budget
  /\ savedSeq = [c \in Clients |-> 0]
  /\ stale = {} /\ sound = TRUE
  /\ began = [c \in Clients |-> NotBegun]

At(c, l) == pc[c] = l
Goto(c, l) == pc' = [pc EXCEPT ![c] = l]

\* An operation of an idle handle starts; r is where it goes on when in sync.
Start(c, op, from, l, r) ==
  /\ At(c, from) /\ left[c][op] > 0
  /\ left' = [left EXCEPT ![c][op] = @ - 1]
  /\ Goto(c, l)
  /\ ret' = [ret EXCEPT ![c] = r]
  /\ attempt' = [attempt EXCEPT ![c] = 0]
  /\ began' = [began EXCEPT ![c] =
       [seq |-> IF manifest = NoManifest THEN 0 ELSE manifest.seq, clock |-> clock]]
  /\ UNCHANGED <<storeVars, connVars, snapKey, schemaVer>>
-----------------------------------------------------------------------------
(***************************************************************************)
(* Ways in which an operation ends.                                        *)
(***************************************************************************)

\* The handle is gone: Close, a failed Open, or the death of the process.
Shut(c) ==
  /\ Goto(c, "closed")
  /\ ret' = [ret EXCEPT ![c] = "idle"]
  /\ conn' = [conn EXCEPT ![c] = NoConn]
  /\ saved' = [saved EXCEPT ![c] = NoConn]
  /\ localSeq' = [localSeq EXCEPT ![c] = 0]
  /\ snapshotKey' = [snapshotKey EXCEPT ![c] = NoSnap]
  /\ cm' = [cm EXCEPT ![c] = InitManifest]
  /\ savedSeq' = [savedSeq EXCEPT ![c] = 0]
  /\ stale' = stale \ {c}
  /\ schemaVer' = [schemaVer EXCEPT ![c] = 0]
  /\ attempt' = [attempt EXCEPT ![c] = 0]
  /\ snapKey' = [snapKey EXCEPT ![c] = NoSnap]
  /\ began' = [began EXCEPT ![c] = NotBegun]
  /\ UNCHANGED left

\* A deferred release that forgets the ROLLBACK.
NotRolledBack(c) == conn[c]

\* The connection after a ROLLBACK of the SAVEPOINT, if one is open.
RolledBack(c) == IF saved[c] = NoConn THEN conn[c] ELSE saved[c]

\* A ROLLBACK leaves st.localSeq alone.
StaleAfterRollback(c) ==
  IF saved[c] # NoConn /\ localSeq[c] # savedSeq[c] THEN stale \cup {c} ELSE stale

\* The operation returns.  If a SAVEPOINT is open, it returns an error, and
\* the deferred release rolls back.
Return(c) ==
  /\ Goto(c, "idle")
  /\ conn' = [conn EXCEPT ![c] = RolledBack(c)]
  /\ saved' = [saved EXCEPT ![c] = NoConn]
  /\ savedSeq' = [savedSeq EXCEPT ![c] = 0]
  /\ stale' = StaleAfterRollback(c)
  /\ attempt' = [attempt EXCEPT ![c] = 0]
  /\ snapKey' = [snapKey EXCEPT ![c] = NoSnap]
  /\ began' = [began EXCEPT ![c] = NotBegun]
  /\ UNCHANGED <<ret, localSeq, snapshotKey, cm, schemaVer, left>>

\* An error while Open is running closes the handle again.
Fail(c) == IF ret[c] \in OpenRets THEN Shut(c) ELSE Return(c)

\* The labels whose step calls the store and returns its error, or runs fn.
MayFail == {"open", "bootupload", "bootput", "migrate", "up", "migcas", "refresh",
            "download", "fetch", "capture", "upload", "cas", "reload",
            "rebase", "compact", "compactcas", "gclist", "gcsweep", "gcsnaps",
            "gcdelete"}

\* A call fails without effect, fn returns an error, or ctx is done.
StoreError(c) ==
  /\ "error" \in Faults
  /\ pc[c] \in MayFail
  /\ Fail(c)
  /\ UNCHANGED storeVars

Crash(c) ==
  /\ "crash" \in Faults
  /\ pc[c] # "closed"
  /\ Shut(c)
  /\ UNCHANGED storeVars

\* Only a handle that may be opened again is closed (a bound).
Close(c) == At(c, "idle") /\ left[c]["open"] > 0 /\ Shut(c) /\ UNCHANGED storeVars
-----------------------------------------------------------------------------
(***************************************************************************)
(* Bringing the local file to the state a manifest describes.              *)
(***************************************************************************)

\* needRefresh without the comparison of snapshot keys.
needRefreshBySeq(cn, n, key, m) == cn = NoConn \/ n < m.snap.seq

\* A copy cn at sequence number n of snapshot key cannot be patched up to m.
needRefresh(cn, n, key, m) == cn = NoConn \/ n < m.snap.seq \/ key # m.snap.key

\* syncToManifest up to its first call: st.manifest is m, the connection
\* holds cn (and is closed if a download is needed), and the operation goes
\* on at next when the file is in sync.
syncToManifest(c, m, cn, key, next) ==
  LET refresh == needRefresh(cn, localSeq[c], key, m)
      l == IF refresh THEN "download"
           ELSE IF Missing(m, localSeq[c]) = {} THEN next ELSE "fetch"
  IN /\ cm' = [cm EXCEPT ![c] = m]
     /\ conn' = [conn EXCEPT ![c] = IF refresh THEN NoConn ELSE cn]
     /\ snapshotKey' = [snapshotKey EXCEPT ![c] = key]
     /\ ret' = [ret EXCEPT ![c] = next]
     /\ Goto(c, l)
     /\ UNCHANGED localSeq

\* refreshManifest: load the manifest, check the schema version, sync.
Refresh(c) ==
  /\ At(c, "refresh") /\ manifest # NoManifest
  /\ manifest.schema = schemaVer[c]
  /\ syncToManifest(c, manifest, conn[c], snapshotKey[c], ret[c])
  /\ UNCHANGED <<storeVars, saved, savedSeq, stale, attempt, snapKey, schemaVer,
                 left, began>>

\* ErrSchemaMismatch or ErrSchemaTooNew, before any sync.
RefreshRejected(c) ==
  /\ At(c, "refresh") /\ manifest # NoManifest
  /\ manifest.schema # schemaVer[c]
  /\ Return(c)
  /\ UNCHANGED storeVars

\* A download after which the connection is not reopened.
DownloadNoReopen(c) ==
  /\ At(c, "download")
  /\ epoch(cm[c]) \in snapshots
  /\ localSeq' = [localSeq EXCEPT ![c] = cm[c].snap.seq]
  /\ snapshotKey' = [snapshotKey EXCEPT ![c] = epoch(cm[c])]
  /\ stale' = stale \ {c}
  /\ Goto(c, IF Missing(cm[c], cm[c].snap.seq) = {} THEN ret[c] ELSE "fetch")
  /\ UNCHANGED <<storeVars, conn, saved, cm, savedSeq, ret, attempt, snapKey, schemaVer,
                 left, began>>

\* downloadSnapshot and reopen.
Download(c) ==
  /\ At(c, "download")
  /\ epoch(cm[c]) \in snapshots
  /\ conn' = [conn EXCEPT ![c] = SnapBody(epoch(cm[c]))]
  /\ localSeq' = [localSeq EXCEPT ![c] = cm[c].snap.seq]
  /\ snapshotKey' = [snapshotKey EXCEPT ![c] = epoch(cm[c])]
  /\ stale' = stale \ {c}
  /\ Goto(c, IF Missing(cm[c], cm[c].snap.seq) = {} THEN ret[c] ELSE "fetch")
  /\ UNCHANGED <<storeVars, saved, cm, savedSeq, ret, attempt, snapKey, schemaVer,
                 left, began>>

\* applyLog, first half: all missing changesets are fetched before any is
\* applied.  The concurrent Gets are one step: keys are never written again
\* once deleted, so that some instant gives the same answers.
Fetch(c) ==
  /\ At(c, "fetch")
  /\ \A i \in Missing(cm[c], localSeq[c]) : cm[c].log[i].key \in changesets
  /\ Goto(c, "apply")
  /\ UNCHANGED <<storeVars, connVars, ret, attempt, snapKey, schemaVer, left,
                 began>>

\* ErrNotFound: GC deleted the snapshot or a changeset.
NotFound(c) ==
  /\ \/ At(c, "download") /\ epoch(cm[c]) \notin snapshots
     \/ At(c, "fetch") /\ \E i \in Missing(cm[c], localSeq[c]) :
                             cm[c].log[i].key \notin changesets
  /\ Fail(c)
  /\ UNCHANGED storeVars

\* applyLog, second half: the first changeset that is missing is applied.
\* On a conflict localSeq keeps the last sequence number that was applied.
FirstMissing(m, n, i) == i \in Missing(m, n) /\ \A j \in Missing(m, n) : i <= j

Apply(c) ==
  /\ At(c, "apply")
  /\ \E i \in DOMAIN cm[c].log :
       LET e == cm[c].log[i]
           cs == csBody[e.key.id]
       IN /\ FirstMissing(cm[c], localSeq[c], i)
          /\ Applies(conn[c], cs)
          /\ conn' = [conn EXCEPT ![c] = Patch(conn[c], cs)]
          /\ localSeq' = [localSeq EXCEPT ![c] = e.seq]
          /\ Goto(c, IF Missing(cm[c], e.seq) = {} THEN ret[c] ELSE "apply")
  /\ UNCHANGED <<storeVars, saved, snapshotKey, cm, savedSeq, stale, ret, attempt,
                 snapKey, schemaVer, left, began>>

ApplyConflict(c) ==
  /\ At(c, "apply")
  /\ \E i \in DOMAIN cm[c].log :
       /\ FirstMissing(cm[c], localSeq[c], i)
       /\ ~Applies(conn[c], csBody[cm[c].log[i].key.id])
  /\ Fail(c)
  /\ UNCHANGED storeVars
-----------------------------------------------------------------------------
(***************************************************************************)
(* Open, up to its call of runMigrations, and View.                        *)
(***************************************************************************)

OpenStart(c) == Start(c, "open", "closed", "open", "migrate")

\* Open goes on with manifest m: its downloadSnapshot and applyLog are those
\* of a sync without a connection.
OpenWith(c, m) ==
  /\ syncToManifest(c, m, NoConn, NoSnap, IF c \in Admin THEN "idle" ELSE "migrate")
  /\ schemaVer' = [schemaVer EXCEPT ![c] = IF c \in Admin THEN m.schema ELSE Version[c]]
  /\ UNCHANGED <<saved, savedSeq, stale, attempt, snapKey, left, began>>

Open(c) ==
  /\ At(c, "open") /\ manifest # NoManifest
  /\ OpenWith(c, manifest)
  /\ UNCHANGED storeVars

\* There is no manifest: bootstrap uploads the empty snapshot,
OpenEmpty(c) ==
  /\ At(c, "open") /\ manifest = NoManifest
  /\ Goto(c, "bootupload")
  /\ UNCHANGED <<storeVars, connVars, ret, attempt, snapKey, schemaVer, left, began>>

BootUpload(c) ==
  /\ At(c, "bootupload")
  /\ snapshots' = snapshots \cup {InitSnap}
  /\ young' = IF Grace THEN young \cup {InitSnap} ELSE young
  /\ Goto(c, "bootput")
  /\ UNCHANGED <<manifest, changesets, csBody, hist, base, clock, sound, connVars, ret, attempt,
                 snapKey, schemaVer, left, began>>

\* and puts the first manifest,
BootPut(c) ==
  /\ At(c, "bootput") /\ IfNoneMatch
  /\ PutManifest(InitManifest, TRUE)
  /\ OpenWith(c, InitManifest)
  /\ UNCHANGED <<blobVars, hist, base>>

\* or loads the manifest of the client that won the race.
BootLost(c) ==
  /\ At(c, "bootput") /\ ~IfNoneMatch
  /\ Goto(c, "open")
  /\ UNCHANGED <<storeVars, connVars, ret, attempt, snapKey, schemaVer, left, began>>

\* The Put took effect and bootstrap sees an error, or 412 from the SDK's
\* second try.
BootPhantom(c) ==
  /\ At(c, "bootput") /\ IfNoneMatch
  /\ PutManifest(InitManifest, TRUE)
  /\ UNCHANGED <<blobVars, hist, base>>
  /\ \/ "phantom" \in Faults /\ Fail(c)
     \/ /\ "retry412" \in Faults /\ Goto(c, "open")
        /\ UNCHANGED <<connVars, ret, attempt, snapKey, schemaVer, left, began>>

ViewStart(c) == Start(c, "view", "idle", "refresh", "view")

\* fn runs between BEGIN and ROLLBACK.
View(c) ==
  /\ At(c, "view")
  /\ Return(c)
  /\ UNCHANGED storeVars

ClientStep(c) ==
  \/ Refresh(c) \/ Download(c) \/ Fetch(c) \/ Apply(c) \/ Open(c) \/ OpenEmpty(c)
  \/ BootUpload(c) \/ BootPut(c) \/ BootLost(c) \/ BootPhantom(c) \/ View(c)
=============================================================================
