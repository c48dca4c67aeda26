---------------------------- MODULE PullPushInv ----------------------------
(***************************************************************************)
(* The inductive invariant of PullPush: what holds of the commands of the  *)
(* users, on top of what holds of the handles and the store.               *)
(***************************************************************************)
EXTENDS S3dbInv, PullPush

\* Labels of a pull that has downloaded the snapshot.
Pulling == {"pullfetch", "pullapply", "pullsidecar"}

\* The command of u holds a snapshot that it uploaded and that no manifest names.
Uploaded(u) == upc[u] = "pushcas" \/ (upc[u] = "initput" /\ command[u] # "init")

\* Control: which labels go with which variables, and what the sidecar and the
\* expected sequence number stand for.
CommandInv(u) ==
  /\ Known(um[u])
  /\ upc[u] \in {"idle", "initstat", "initupload", "initput"} => um[u] = InitManifest
  /\ upc[u] \in Pulling =>
       /\ um[u].snap.seq <= replayed[u] /\ replayed[u] <= um[u].seq
       /\ seen[u].seq = replayed[u] /\ u \notin tracked
  /\ upc[u] = "pullsidecar" => replayed[u] = um[u].seq
  /\ \/ upc[u] \in Pulling \cup {"pushupload", "pushcas"}
     \/ upc[u] \in {"initstat", "initupload", "initput"} /\ command[u] # "init"
     => file[u] # NoFile
  /\ upc[u] = "initput" /\ command[u] = "init" => upKey[u] = InitSnap
  /\ u \in tracked => seen[u].seq = sidecar[u] /\ sidecar[u] # NoSeq
  /\ upc[u] \in {"pushupload", "pushcas"} /\ expectedSeq[u] # Unchecked =>
       /\ um[u].seq = expectedSeq[u]
       /\ sidecar[u] # NoSeq => expectedSeq[u] = sidecar[u]

\* The snapshot that a command uploaded is nobody else's.
UploadInv(u) ==
  Uploaded(u) =>
    /\ upKey[u] \in DOMAIN hist \ {InitSnap}
    /\ hist[upKey[u]] = <<file[u]>>
    /\ base[upKey[u]] = [seq |-> um[u].seq, schema |-> um[u].schema]
    /\ manifest # NoManifest => upKey[u] # manifest.snap.key
    /\ \A c \in Clients : pc[c] \in {"compactcas", "migcas"} => snapKey[c] # upKey[u]
    /\ \A w \in Users \ {u} : Uploaded(w) => upKey[w] # upKey[u]

\* The file of a pull holds what replaying the log so far yields.
PullInv(u) ==
  sound =>
    /\ LogOK(um[u])
    /\ upc[u] \in Pulling => Agree(file[u], Content(um[u].snap.key, replayed[u]))

\* What every reachable state satisfies and every step preserves.
CliInv ==
  /\ TypeOK /\ StructInv /\ DataInv /\ \A c \in Clients : OpenInv(c)
  /\ UserTypeOK
  /\ \A u \in Users : CommandInv(u) /\ UploadInv(u) /\ PullInv(u)
=============================================================================
