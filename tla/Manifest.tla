------------------------------ MODULE Manifest ------------------------------
(***************************************************************************)
(* The manifest (manifest.go): the one object written with contention.  It *)
(* points to a snapshot and to the changesets to apply on top of it.       *)
(*                                                                         *)
(* A snapshot key is a number, in the order in which the keys were drawn   *)
(* (every key but snap-init holds a fresh UUID); the epoch of a manifest,  *)
(* the basename of its snapshot key, is that number.  A changeset key is   *)
(* the epoch it was uploaded under and a number drawn in the same way.     *)
(* The fields format_version and size are left out.                        *)
(***************************************************************************)
EXTENDS Integers, Sequences

NoSnap == 0        \* the empty string, as a snapshot key
InitSnap == 1      \* snapshots/snap-init.sqlite

CsKey == [epoch : Nat, id : Nat]
NoKey == [epoch |-> 0, id |-> 0]   \* the empty string, as a changeset key

logEntry == [key : CsKey, seq : Nat]
blobRef == [key : Nat, seq : Nat]
Manifests == [seq : Nat, schema : Nat, snap : blobRef, log : Seq(logEntry)]

epoch(m) == m.snap.key

validate(m) ==
  /\ m.snap.key # NoSnap
  /\ \A i \in DOMAIN m.log : m.log[i].key # NoKey /\ m.log[i].seq = m.snap.seq + i
  /\ m.seq = IF m.log = <<>> THEN m.snap.seq ELSE m.log[Len(m.log)].seq

\* The log grows and the sequence number stays.
appendLogKeepSeq(m, entry) ==
  [seq |-> m.seq, schema |-> m.schema, snap |-> m.snap, log |-> Append(m.log, entry)]

appendLog(m, entry) ==
  [seq |-> entry.seq, schema |-> m.schema, snap |-> m.snap, log |-> Append(m.log, entry)]

withSnapshot(m, snapshot) ==
  [seq |-> snapshot.seq, schema |-> m.schema, snap |-> snapshot, log |-> <<>>]

\* The manifest bootstrap writes.
InitManifest ==
  [seq |-> 0, schema |-> 0, snap |-> [key |-> InitSnap, seq |-> 0], log |-> <<>>]

\* The positions of the log entries a copy at sequence number n lacks.
MissingOffByOne(m, n) == {i \in DOMAIN m.log : m.log[i].seq > n + 1}
Missing(m, n) == {i \in DOMAIN m.log : m.log[i].seq > n}

\* The ETag of a stored manifest: the MD5 of its bytes, without collisions.
Compute(m) == [md5 |-> m]
=============================================================================
