------------------------------ MODULE Compact ------------------------------
(***************************************************************************)
(* DB.Compact and compactLocked (compact.go): upload the local file as a   *)
(* new snapshot and replace the manifest by one with an empty log.         *)
(***************************************************************************)
EXTENDS Commit

CompactStart(c) ==
  Start(c, "compact", "idle", "refresh", "compact") /\ UNCHANGED updateVars

\* In sync with an empty log: nothing to compact.
CompactNothing(c) ==
  /\ At(c, "compact") /\ cm[c].log = <<>>
  /\ Return(c)
  /\ UNCHANGED <<storeVars, updateVars>>

\* VACUUM, close, upload, reopen: the local file keeps its contents.
CompactUpload(c) ==
  /\ At(c, "compact") /\ cm[c].log # <<>>
  /\ PutSnapshot(conn[c], cm[c].seq, cm[c].schema)
  /\ snapKey' = [snapKey EXCEPT ![c] = NextSnap]
  /\ Goto(c, "compactcas")
  /\ UNCHANGED <<connVars, ret, attempt, schemaVer, left, began, updateVars>>

\* The manifest that the CAS of c tries to put.
compactManifest(c) == withSnapshot(cm[c], [key |-> snapKey[c], seq |-> cm[c].seq])

PutCompact(c) ==
  /\ IfMatch(cm[c])
  /\ PutManifest(compactManifest(c), c \notin stale)
  /\ UNCHANGED <<blobVars, hist, base>>

CompactCas(c) ==
  /\ At(c, "compactcas")
  /\ PutCompact(c)
  /\ cm' = [cm EXCEPT ![c] = compactManifest(c)]
  /\ snapshotKey' = [snapshotKey EXCEPT ![c] = snapKey[c]]
  /\ attempt' = [attempt EXCEPT ![c] = 0]
  /\ snapKey' = [snapKey EXCEPT ![c] = NoSnap]
  /\ Goto(c, "idle")
  /\ began' = [began EXCEPT ![c] = NotBegun]
  /\ UNCHANGED <<conn, saved, localSeq, savedSeq, stale, ret, schemaVer, left, updateVars>>

\* It takes effect and the answer is lost.
CompactPhantom(c) ==
  /\ "phantom" \in Faults
  /\ At(c, "compactcas")
  /\ PutCompact(c)
  /\ Return(c)
  /\ UNCHANGED updateVars

\* 412: refresh and build another snapshot, or give up with ErrConflict.
CompactLost(c) ==
  /\ At(c, "compactcas")
  /\ \/ ~IfMatch(cm[c]) /\ UNCHANGED storeVars
     \/ "retry412" \in Faults /\ PutCompact(c)
  /\ \/ /\ attempt[c] + 1 < MaxRetries
        /\ attempt' = [attempt EXCEPT ![c] = @ + 1]
        /\ snapKey' = [snapKey EXCEPT ![c] = NoSnap]
        /\ Goto(c, "refresh")
        /\ UNCHANGED <<connVars, ret, schemaVer, left, began>>
     \/ attempt[c] + 1 >= MaxRetries /\ Return(c)
  /\ UNCHANGED updateVars

CompactStep(c) ==
  \/ CompactNothing(c) \/ CompactUpload(c) \/ CompactCas(c) \/ CompactPhantom(c)
  \/ CompactLost(c)
=============================================================================
