----------------------------- MODULE FsStoreInv -----------------------------
(***************************************************************************)
(* The inductive invariant of FsStore: the directory tree, the lock, where *)
(* a call may be, and what a walk or a download has still to deal with.    *)
(***************************************************************************)
EXTENDS FsStore

Holding == {"check", "rename", "remove", "prune", "unlock"}   \* the lock
Working == {"get", "stat", "part", "mkdir", "temp", "lock", "check", "rename", "remove",
            "walk", "next"}
Labels == Working \cup {"idle", "prune", "unlock", "untemp", "return"}
Walk == {"list", "deletePrefix"}

DiskTypeOK ==
  /\ file \in [Keys -> Bodies \cup {None}]
  /\ \A k \in Keys : file[k] # None => file[k] \in BodiesAt(k)
  /\ dir \subseteq Paths \ {<<>>}
  /\ lock \in Procs \cup {None}

CallTypeOK ==
  /\ pc \in [Procs -> Labels]
  /\ req \in [Procs -> Requests \cup {None}]
  /\ ans \in [Procs -> Answers \cup {None}]
  /\ DOMAIN dst = Procs
  /\ tmp \in [Procs -> Paths \cup {None}]
  /\ depth \in [Procs -> Nat]
  /\ todo \in [Procs -> SUBSET Paths]
  /\ keys \in [Procs -> SUBSET Keys]
  /\ cur \in [Procs -> Keys \cup {None}]
  /\ prune \in [Procs -> Paths]
  /\ got \in [Procs -> SUBSET Nat]
  /\ since \in [Procs -> SUBSET Keys] /\ met \in [Procs -> SUBSET Keys]

FsTypeOK == DiskTypeOK /\ CallTypeOK

\* Every file and every directory has all the directories above it.
TreeInv ==
  /\ \A d \in dir : Above(d) \subseteq dir
  /\ \A k \in Keys : IsFile(k) => Above(k) \subseteq dir /\ k \notin dir

\* The lock belongs to the call that is at work under it.
LockInv(p) == lock = p <=> pc[p] \in Holding

\* Which call is where, and whether its answer is settled.
CallInv(p) ==
  /\ pc[p] = "idle" <=> req[p] = None
  /\ pc[p] = "idle" => ans[p] = None /\ keys[p] = {} /\ got[p] = {} /\ dst[p] = <<>>
  /\ pc[p] \in Working => ans[p] = None
  /\ pc[p] \in {"return", "untemp"} => ans[p] # None
  /\ pc[p] \in {"get", "stat"} => req[p].op \in {"get", "stat"}
  /\ pc[p] = "part" => req[p].op = "download"
  /\ pc[p] \in {"mkdir", "temp", "check", "rename"} => req[p].op = "put"
  /\ pc[p] \in {"remove", "prune"} => req[p].op \in {"delete", "deletePrefix"}
  /\ pc[p] \in {"lock", "unlock"} => req[p].op \in {"put", "delete", "deletePrefix"}
  /\ pc[p] = "walk" => req[p].op \in Walk
  /\ pc[p] = "next" => req[p].op = "deletePrefix"
  /\ pc[p] \in {"prune", "unlock"} /\ req[p].op # "deletePrefix" => ans[p] # None
  /\ pc[p] = "prune" /\ req[p].op = "deletePrefix" => ans[p] = None

\* A temporary file lies beside its key, in a directory that is there.
TempInv(p) ==
  tmp[p] # None =>
    /\ pc[p] \in {"lock", "check", "rename", "unlock", "untemp"} /\ req[p].op = "put"
    /\ tmp[p] = Parent(req[p].key) /\ Exists(tmp[p])

\* A Put about to rename has a temporary file and a precondition that still holds;
\* a Delete is about to remove its own key, a DeletePrefix one under its prefix.
EffectInv(p) ==
  /\ pc[p] \in {"check", "rename"} \/ (pc[p] = "lock" /\ req[p].op = "put") => tmp[p] # None
  /\ pc[p] = "rename" => Matches(req[p])
  /\ pc[p] \in {"lock", "remove"} /\ req[p].op = "delete" => cur[p] = req[p].key
  /\ pc[p] \in {"lock", "remove"} /\ req[p].op = "deletePrefix" =>
       cur[p] \in Keys /\ KV!Under(req[p].prefix, cur[p])

\* What List and DeletePrefix have met, and what they still have to deal with.
HistoryInv(p) ==
  /\ since[p] \subseteq KV!Present(file)
  /\ KV!Walks(p) => KV!Present(file) \subseteq met[p]
  /\ ~KV!Walks(p) => met[p] = {}

\* A directory above k is still to be walked.
Ahead(p, k) == \E n \in 0..Len(k) - 1 : SubSeq(k, 1, n) \in todo[p]

WalkInv(p) ==
  pc[p] # "return" /\ KV!Walks(p) =>
    /\ \A k \in keys[p] : k \in met[p] /\ KV!Under(req[p].prefix, k)
    /\ ans[p] = None =>
         \A k \in since[p] : KV!Under(req[p].prefix, k) =>
           \/ k \in keys[p]
           \/ pc[p] = "walk" /\ Ahead(p, k)
           \/ pc[p] \in {"lock", "remove"} /\ k = cur[p]

\* The offsets, from 1, of the bytes that were fetched, and their contents.
Fetched(p) ==
  {x \in 1..req[p].size :
     \E i \in got[p] : x - 1 \in Start(i, req[p].size, Parts)..End(i, req[p].size, Parts)}

DownloadInv(p) ==
  pc[p] = "part" =>
    /\ got[p] \subseteq 0..PartCount(req[p].size, Parts) - 1
    /\ DOMAIN dst[p] = Fetched(p)
    /\ \A x \in Fetched(p) : \A b \in BodiesAt(req[p].key) : dst[p][x] = b[x]

\* What every reachable state satisfies and every step preserves.
FsInv ==
  /\ FsTypeOK /\ TreeInv
  /\ \A p \in Procs : /\ LockInv(p) /\ CallInv(p) /\ TempInv(p) /\ EffectInv(p)
                      /\ HistoryInv(p) /\ WalkInv(p) /\ DownloadInv(p)
=============================================================================
