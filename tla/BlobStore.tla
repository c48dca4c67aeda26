----------------------------- MODULE BlobStore -----------------------------
(***************************************************************************)
(* The bucket under one database prefix, as blob.go promises it and        *)
(* blob_mem.go implements it: every Get, Put, List and Delete is atomic,   *)
(* and a Put may carry the precondition If-Match or If-None-Match.         *)
(*                                                                         *)
(* The bytes of a blob never change once its key is drawn, so the state    *)
(* keeps, apart from the bytes, the set of the keys the bucket holds: a    *)
(* deleted key stays deleted (snap-init, which has fixed bytes, excepted). *)
(* The bytes of snapshot k are hist[k][1].  The rest of hist[k] is a       *)
(* history variable: hist[k][i + 1] is what the database logically holds   *)
(* after the first i changesets ever committed on top of snapshot k.  So   *)
(* is base[k]: the sequence number and the schema version the snapshot was *)
(* built for.                                                              *)
(***************************************************************************)
EXTENDS Changeset, Manifest, FiniteSets

CONSTANTS NoManifest,  \* the bucket holds no manifest.json
          Grace,       \* whether GC runs with a grace period greater than 0
          Faults       \* the store failures that may happen; see below

(***************************************************************************)
(* "error"    a call fails and has no effect (or fn fails, or ctx ends)    *)
(* "phantom"  a Put takes effect and its answer is lost                    *)
(* "retry412" the same, and the S3 SDK sends the Put again: the client is  *)
(*            told 412 by its own write                                    *)
(* "crash"    the process dies                                             *)
(***************************************************************************)
FaultKinds == {"error", "phantom", "retry412", "crash"}

ASSUME StoreAssumption == /\ Grace \in BOOLEAN
                          /\ Faults \subseteq FaultKinds
                          /\ NoManifest \notin Manifests \cup DB

VARIABLES manifest,    \* manifest.json, or NoManifest
          snapshots,   \* the keys under snapshots/
          changesets,  \* the keys under changesets/
          young,       \* the snapshot keys written less than a grace period ago
          csBody,      \* the bytes of each changeset, by id
          hist,        \* the bytes of each snapshot, by key, and the contents
                       \* after each commit on top of it (history)
          base,        \* what each snapshot was built for (history)
          clock,       \* how often the manifest was replaced (history)
          sound        \* no client that had lost committed changesets
                       \* replaced it; see Client (history)

storeVars == <<manifest, snapshots, changesets, young, csBody, hist, base,
               clock, sound>>
blobVars == <<snapshots, changesets, young, csBody>>

StoreTypeOK ==
  /\ manifest \in Manifests \cup {NoManifest}
  /\ snapshots \subseteq DOMAIN hist
  /\ changesets \subseteq CsKey
  /\ young \subseteq snapshots
  /\ csBody \in Seq(Changeset)
  /\ hist \in Seq(Seq(DB))
  /\ base \in Seq([seq : Nat, schema : Nat])
  /\ clock \in Nat
  /\ sound \in BOOLEAN

\* The bytes of snapshot k.
SnapBody(k) == hist[k][1]

\* What replaying the log on top of snapshot k up to sequence number n yields.
Pos(k, n) == n - base[k].seq + 1
Content(k, n) == hist[k][Pos(k, n)]

\* A Put that ignores its precondition and overwrites.
Always(m) == manifest # NoManifest

\* The precondition of Put(manifest, IfMatch: etag of m) holds.
IfMatch(m) == manifest # NoManifest /\ Compute(manifest) = Compute(m)

\* The precondition of Put(manifest, IfNoneMatch) holds.
IfNoneMatch == manifest = NoManifest

\* Put of a new snapshot, under the next key, for sequence number n and
\* schema version v.
NextSnap == Len(hist) + 1
PutSnapshot(body, n, v) ==
  /\ hist' = Append(hist, <<body>>)
  /\ base' = Append(base, [seq |-> n, schema |-> v])
  /\ snapshots' = snapshots \cup {NextSnap}
  /\ young' = IF Grace THEN young \cup {NextSnap} ELSE young
  /\ UNCHANGED <<manifest, changesets, csBody, clock, sound>>

\* Put of a manifest, by a client that is intact or not.
PutManifest(m, intact) ==
  /\ manifest' = m
  /\ clock' = clock + 1
  /\ sound' = (sound /\ intact)

\* Deletes the blobs with these keys; a missing key is not an error.
DeleteChangesets(keys) ==
  /\ changesets' = changesets \ keys
  /\ UNCHANGED <<manifest, snapshots, young, csBody, hist, base, clock, sound>>

DeleteSnapshot(k) ==
  /\ snapshots' = snapshots \ {k}
  /\ young' = young \ {k}
  /\ UNCHANGED <<manifest, changesets, csBody, hist, base, clock, sound>>
=============================================================================
