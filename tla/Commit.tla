------------------------------- MODULE Commit -------------------------------
(***************************************************************************)
(* DB.Update and doUpdate (s3db.go, commit.go), with capture (session.go): *)
(* run fn inside a SAVEPOINT, upload what it changed, and replace the      *)
(* manifest by compare-and-swap; on 412, rebase on top of the changesets   *)
(* of the others or roll back and run fn again.                            *)
(*                                                                         *)
(* One iteration of the loop is  capture -> [unorphan] -> upload -> cas,   *)
(* and after a 412  reload -> rebase -> cas  or  reload -> sync -> capture.*)
(***************************************************************************)
EXTENDS Client

CONSTANTS Txns,         \* the functions given to Update
          Effect,       \* Effect[f][db]: the database after f ran on db
          MaxRetries,   \* cfg.maxRetries
          AutoCompact   \* opts.autoCompactAfter, 0 for never

NoTxn == "none"

ASSUME CommitAssumption ==
  /\ NoTxn \notin Txns
  /\ Effect \in [Txns -> [DB -> DB]]
  /\ MaxRetries \in Nat \ {0}
  /\ AutoCompact \in Nat

VARIABLES fn,       \* the argument of Update
          csKey,    \* the changeset uploaded, or about to be
          orphan,   \* a changeset uploaded by an earlier iteration
          m2,       \* the manifest loaded after a 412
          reb       \* sequence number of m2 up to which conn is rebased

updateVars == <<fn, csKey, orphan, m2, reb>>

CommitTypeOK ==
  /\ fn \in [Clients -> Txns \cup {NoTxn}]
  /\ csKey \in [Clients -> CsKey]
  /\ orphan \in [Clients -> CsKey]
  /\ m2 \in [Clients -> Manifests]
  /\ reb \in [Clients -> Nat]

CommitInit ==
  /\ fn = [c \in Clients |-> NoTxn]
  /\ csKey = [c \in Clients |-> NoKey]
  /\ orphan = [c \in Clients |-> NoKey]
  /\ m2 = [c \in Clients |-> InitManifest]
  /\ reb = [c \in Clients |-> 0]

\* A cleanup that takes the last changeset for an orphan, committed or not.
ForgetToOrphan(c) ==
  /\ fn' = [fn EXCEPT ![c] = NoTxn]
  /\ csKey' = [csKey EXCEPT ![c] = NoKey]
  /\ orphan' = [orphan EXCEPT ![c] = csKey[c]]
  /\ m2' = [m2 EXCEPT ![c] = InitManifest]
  /\ reb' = [reb EXCEPT ![c] = 0]

\* doUpdate returns: its local variables are gone.
Forget(c) ==
  /\ fn' = [fn EXCEPT ![c] = NoTxn]
  /\ csKey' = [csKey EXCEPT ![c] = NoKey]
  /\ orphan' = [orphan EXCEPT ![c] = NoKey]
  /\ m2' = [m2 EXCEPT ![c] = InitManifest]
  /\ reb' = [reb EXCEPT ![c] = 0]

UpdateStart(c) ==
  /\ Start(c, "update", "idle", "refresh", "capture")
  /\ \E f \in Txns : fn' = [fn EXCEPT ![c] = f]
  /\ UNCHANGED <<csKey, orphan, m2, reb>>

\* Update returns nil, after a compaction if the log of m is long enough.
UpdateDone(c, m) ==
  /\ IF AutoCompact > 0 /\ Len(m.log) >= AutoCompact
     THEN Goto(c, "refresh") /\ ret' = [ret EXCEPT ![c] = "compact"] /\ UNCHANGED began
     ELSE Goto(c, "idle") /\ began' = [began EXCEPT ![c] = NotBegun] /\ UNCHANGED ret
  /\ attempt' = [attempt EXCEPT ![c] = 0]
  /\ Forget(c)

\* The loop ends after MaxRetries attempts.
Again(c, l) == IF attempt[c] + 1 < MaxRetries THEN l ELSE "exhausted"
-----------------------------------------------------------------------------
\* fn changed nothing that the session records.  Update returns nil, or
\* ErrUnrecordedChanges if rows were written and a PK-less table exists.
CaptureNothing(c) ==
  LET after == Effect[fn[c]][conn[c]]
  IN /\ At(c, "capture")
     /\ Diff(conn[c], after) = NoChange
     /\ \/ /\ after = conn[c]
           /\ UpdateDone(c, cm[c])
           /\ UNCHANGED <<connVars, snapKey, schemaVer, left>>
        \/ NoPK # {} /\ Return(c) /\ Forget(c)
     /\ UNCHANGED storeVars

\* SAVEPOINT, fn, and a changeset with a key in the current epoch.
Capture(c) ==
  LET after == Effect[fn[c]][conn[c]]
      cs == Diff(conn[c], after)
  IN /\ At(c, "capture")
     /\ cs # NoChange
     /\ saved' = [saved EXCEPT ![c] = conn[c]]
     /\ savedSeq' = [savedSeq EXCEPT ![c] = localSeq[c]]
     /\ conn' = [conn EXCEPT ![c] = after]
     /\ csBody' = Append(csBody, cs)
     /\ csKey' = [csKey EXCEPT ![c] = [epoch |-> epoch(cm[c]), id |-> Len(csBody) + 1]]
     /\ Goto(c, IF orphan[c] = NoKey THEN "upload" ELSE "unorphan")
     /\ UNCHANGED <<manifest, snapshots, changesets, young, hist, base, clock, sound, localSeq,
                    snapshotKey, cm, stale, ret, attempt, snapKey, schemaVer, left,
                    began, fn, orphan, m2, reb>>

\* The blob of the iteration before is deleted; an error is ignored.
Unorphan(c) ==
  /\ At(c, "unorphan")
  /\ \/ DeleteChangesets({orphan[c]})
     \/ "error" \in Faults /\ UNCHANGED storeVars
  /\ orphan' = [orphan EXCEPT ![c] = NoKey]
  /\ Goto(c, "upload")
  /\ UNCHANGED <<connVars, ret, attempt, snapKey, schemaVer, left, began,
                 fn, csKey, m2, reb>>

Upload(c) ==
  /\ At(c, "upload")
  /\ changesets' = changesets \cup {csKey[c]}
  /\ Goto(c, "cas")
  /\ UNCHANGED <<manifest, snapshots, young, csBody, hist, base, clock, sound, connVars, ret,
                 attempt, snapKey, schemaVer, left, began, updateVars>>

\* The sequence number counts down.
newManifestBehind(c) == appendLog(cm[c], [key |-> csKey[c], seq |-> cm[c].seq - 1])

\* The manifest that the CAS of c tries to put.
newManifest(c) == appendLog(cm[c], [key |-> csKey[c], seq |-> cm[c].seq + 1])

\* The manifest Put of doUpdate takes effect.
PutCommit(c) ==
  LET k == epoch(cm[c])
  IN /\ IfMatch(cm[c])
     /\ PutManifest(newManifest(c), c \notin stale)
     /\ hist' = [hist EXCEPT ![k] = Append(@, Patch(@[Len(@)], csBody[csKey[c].id]))]
     /\ UNCHANGED <<blobVars, base>>

Cas(c) ==
  /\ At(c, "cas")
  /\ PutCommit(c)
  /\ cm' = [cm EXCEPT ![c] = newManifest(c)]
  /\ localSeq' = [localSeq EXCEPT ![c] = cm[c].seq + 1]
  /\ saved' = [saved EXCEPT ![c] = NoConn]
  /\ savedSeq' = [savedSeq EXCEPT ![c] = 0]
  /\ UpdateDone(c, newManifest(c))
  /\ UNCHANGED <<conn, snapshotKey, stale, snapKey, schemaVer, left>>

\* It takes effect and the answer is lost.
CasPhantom(c) ==
  /\ "phantom" \in Faults
  /\ At(c, "cas")
  /\ PutCommit(c)
  /\ Return(c) /\ Forget(c)

\* 412, from another client's write or, by a retry of the SDK, from our own.
CasLost(c) ==
  /\ At(c, "cas")
  /\ \/ ~IfMatch(cm[c]) /\ UNCHANGED storeVars
     \/ "retry412" \in Faults /\ PutCommit(c)
  /\ Goto(c, "reload")
  /\ UNCHANGED <<connVars, ret, attempt, snapKey, schemaVer, left, began, updateVars>>
-----------------------------------------------------------------------------
\* rollbackAndResync to manifest m; csKey becomes the orphan.
rollbackAndResync(c, m) ==
  /\ syncToManifest(c, m, saved[c], snapshotKey[c], Again(c, "capture"))
  /\ saved' = [saved EXCEPT ![c] = NoConn]
  /\ savedSeq' = [savedSeq EXCEPT ![c] = 0]
  /\ stale' = StaleAfterRollback(c)
  /\ attempt' = [attempt EXCEPT ![c] = @ + 1]
  /\ orphan' = [orphan EXCEPT ![c] = csKey[c]]
  /\ m2' = [m2 EXCEPT ![c] = InitManifest]
  /\ reb' = [reb EXCEPT ![c] = 0]
  /\ UNCHANGED <<storeVars, snapKey, schemaVer, left, began, fn, csKey>>

\* cannotRebase without the comparison of snapshot keys.
cannotRebaseBySeq(c, m) == m.snap.seq > localSeq[c]

\* A rebase in place is impossible: the snapshot was replaced.
cannotRebase(c, m) == m.snap.seq > localSeq[c] \/ m.snap.key # snapshotKey[c]

Reload(c) ==
  /\ At(c, "reload") /\ manifest # NoManifest
  /\ \/ cannotRebase(c, manifest) /\ rollbackAndResync(c, manifest)
     \/ /\ ~cannotRebase(c, manifest)
        /\ m2' = [m2 EXCEPT ![c] = manifest]
        /\ reb' = [reb EXCEPT ![c] = localSeq[c]]
        /\ Goto(c, "rebase")
        /\ UNCHANGED <<storeVars, connVars, ret, attempt, snapKey, schemaVer, left,
                       began, fn, csKey, orphan>>

\* applyMissingEntry: one changeset of another client, on top of fn's changes.
RebaseEntry(c) ==
  /\ At(c, "rebase")
  /\ \E i \in DOMAIN m2[c].log :
       LET e == m2[c].log[i]
           cs == csBody[e.key.id]
       IN /\ FirstMissing(m2[c], reb[c], i)
          /\ e.key \in changesets
          /\ \/ /\ Applies(conn[c], cs)
                /\ conn' = [conn EXCEPT ![c] = Patch(conn[c], cs)]
                /\ reb' = [reb EXCEPT ![c] = e.seq]
                /\ UNCHANGED <<storeVars, saved, localSeq, snapshotKey, cm, savedSeq,
                               stale, flowVars, fn, csKey, orphan, m2>>
             \/ /\ ~Applies(conn[c], cs)
                /\ rollbackAndResync(c, m2[c])

RebaseNotFound(c) ==
  /\ At(c, "rebase")
  /\ \E i \in DOMAIN m2[c].log :
       FirstMissing(m2[c], reb[c], i) /\ m2[c].log[i].key \notin changesets
  /\ Return(c) /\ Forget(c)
  /\ UNCHANGED storeVars

\* A clean rebase that keeps the manifest, and so the ETag, that just lost.
RebasedOldEtag(c) ==
  /\ At(c, "rebase")
  /\ Missing(m2[c], reb[c]) = {}
  /\ attempt' = [attempt EXCEPT ![c] = @ + 1]
  /\ Goto(c, Again(c, "cas"))
  /\ m2' = [m2 EXCEPT ![c] = InitManifest]
  /\ reb' = [reb EXCEPT ![c] = 0]
  /\ UNCHANGED <<storeVars, connVars, ret, snapKey, schemaVer, left, began, fn, csKey,
                 orphan>>

\* Clean rebase: retry the CAS on m2, with the SAVEPOINT still open.
Rebased(c) ==
  /\ At(c, "rebase")
  /\ Missing(m2[c], reb[c]) = {}
  /\ cm' = [cm EXCEPT ![c] = m2[c]]
  /\ localSeq' = [localSeq EXCEPT ![c] = m2[c].seq]
  /\ attempt' = [attempt EXCEPT ![c] = @ + 1]
  /\ Goto(c, Again(c, "cas"))
  /\ m2' = [m2 EXCEPT ![c] = InitManifest]
  /\ reb' = [reb EXCEPT ![c] = 0]
  /\ UNCHANGED <<storeVars, conn, saved, snapshotKey, savedSeq, stale, ret, snapKey,
                 schemaVer, left, began, fn, csKey, orphan>>

\* ErrConflict, after a best-effort deletion of the orphan.
Exhausted(c) ==
  /\ At(c, "exhausted")
  /\ \/ orphan[c] # NoKey /\ DeleteChangesets({orphan[c]})
     \/ (orphan[c] = NoKey \/ "error" \in Faults) /\ UNCHANGED storeVars
  /\ Return(c) /\ Forget(c)

CommitStep(c) ==
  \/ CaptureNothing(c) \/ Capture(c) \/ Unorphan(c) \/ Upload(c) \/ Cas(c)
  \/ CasPhantom(c) \/ CasLost(c) \/ Reload(c) \/ RebaseEntry(c)
  \/ RebaseNotFound(c) \/ Rebased(c) \/ Exhausted(c)
=============================================================================
