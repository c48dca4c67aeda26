------------------------------- MODULE FsStore -------------------------------
(***************************************************************************)
(* FileSystemBlobStore (blob_fs.go) under concurrent calls of goroutines   *)
(* and processes that share the directory, one system call per step, and   *)
(* downloadParallel (sync.go) on top of its GetRange.  The store has to    *)
(* implement KVStore.                                                      *)
(*                                                                         *)
(* Files, directories and the flock are the operating system's: a rename   *)
(* and a removal are atomic, a directory is removed only if it is empty,   *)
(* an open file keeps its inode, and the lock of a dead process is free.   *)
(* The root directory is <<>> and always exists.                           *)
(***************************************************************************)
EXTENDS Naturals, Sequences, FiniteSets, Ranges

CONSTANTS Procs,
          Keys,        \* the keys in use: paths, none of them reserved
          Requests,    \* the calls the processes may make
          None,
          Stored,      \* the body under each key when the calls begin, or None
          MaxTries,    \* tries of createTemp (10)
          Parts,       \* parallelDownloadParts
          MaxCalls,    \* MaxCalls[p]: calls of process p (a bound)
          Deaths,      \* how many processes may die (a bound)
          Errors       \* whether a call may fail for a reason outside the store

\* The directories, below the root, on the path of a key.
Above(k) == {SubSeq(k, 1, n) : n \in 1..Len(k) - 1}

\* What is stored under key k at first or may be put there.
BodiesAt(k) ==
  ({Stored[k]} \ {None}) \cup {r.body : r \in {r \in Requests : r.op = "put" /\ r.key = k}}

Bodies == UNION {BodiesAt(k) : k \in Keys}

Names == UNION {{k[i] : i \in DOMAIN k} : k \in Keys}
Paths == Seq(Names)

Answers ==
  [is : {"ok", "not found", "precondition failed"}]
    \cup [is : {"found"}, body : Bodies]
    \cup [is : {"listed"}, keys : SUBSET Keys]
    \cup [is : {"failed"}, why : {"error", "not exist", "path conflict"}]

ASSUME FsAssumption ==
  /\ MaxTries \in Nat \ {0} /\ Parts \in Nat \ {0} /\ Deaths \in Nat
  /\ MaxCalls \in [Procs -> Nat] /\ Errors \in BOOLEAN
  /\ Keys \subseteq Paths /\ \A k \in Keys : Len(k) > 0
  /\ Stored \in [Keys -> Bodies \cup {None}]
  \* A path is that of a file or of a directory.
  /\ \A k, l \in Keys : Stored[k] # None /\ Stored[l] # None => k \notin Above(l)
  /\ None \notin Procs \cup Paths \cup Requests \cup Answers
  /\ \A r \in Requests :
       /\ r.op \in {"get", "stat", "put", "delete", "list", "deletePrefix", "download"}
       /\ r.op \in {"get", "stat", "put", "delete", "download"} => r.key \in Keys
       /\ r.op = "put" => r.body # None /\ r.ifNoneMatch \in BOOLEAN
       \* s3db writes a key that it downloads in parts with one body only.
       /\ r.op = "download" =>
            /\ r.size \in Nat \ {0}
            /\ \A b \in BodiesAt(r.key) :
                 /\ Len(b) = r.size /\ b = [x \in 1..r.size |-> b[x]]
                 /\ \A c \in BodiesAt(r.key) : b = c

VARIABLES file,    \* the regular file at the path of each key, or None
          dir,     \* the directories below the root
          litter,  \* the directories that hold a temporary file of a dead process
          lock,    \* the process that holds the flock, or None
          pc,
          req,     \* the arguments of the call, or None
          ans,     \* its answer, once it is settled
          tmp,     \* the directory of the temporary file, or None
          depth,   \* how many components MkdirAll has opened
          tries,
          todo,    \* the directories still to be walked
          keys,    \* the keys listed
          cur,     \* the key that is deleted
          prune,   \* the directory that is pruned next
          got,     \* the parts that are downloaded
          dst,     \* the bytes written so far: a function from offsets
          left, died,     \* what is left of MaxCalls, and used up of Deaths
          since, met      \* history, as in KVStore

fsVars == <<file, dir, litter, lock>>
callVars == <<tmp, depth, tries, todo, keys, cur, prune, got, dst>>
bounds == <<left, died>>
vars == <<fsVars, callVars, bounds, pc, req, ans, since, met>>

KV == INSTANCE KVStore WITH blob <- file

Init ==
  /\ file = Stored /\ litter = {} /\ lock = None
  /\ dir = UNION {Above(k) : k \in {k \in Keys : Stored[k] # None}}
  /\ pc = [p \in Procs |-> "idle"]
  /\ req = [p \in Procs |-> None] /\ ans = [p \in Procs |-> None]
  /\ tmp = [p \in Procs |-> None]
  /\ depth = [p \in Procs |-> 0] /\ tries = [p \in Procs |-> 0]
  /\ todo = [p \in Procs |-> {}] /\ keys = [p \in Procs |-> {}]
  /\ cur = [p \in Procs |-> None] /\ prune = [p \in Procs |-> <<>>]
  /\ got = [p \in Procs |-> {}] /\ dst = [p \in Procs |-> <<>>]
  /\ left = MaxCalls /\ died = 0
  /\ since = [p \in Procs |-> {}] /\ met = [p \in Procs |-> {}]

At(p, l) == pc[p] = l
Goto(p, l) == pc' = [pc EXCEPT ![p] = l]
Settle(p, a) == ans' = [ans EXCEPT ![p] = a]

NotExist == KV!Failed("not exist")
PathConflict == KV!Failed("path conflict")

Parent(path) == SubSeq(path, 1, Len(path) - 1)
Exists(d) == d = <<>> \/ d \in dir
IsFile(path) == path \in Keys /\ file[path] # None
\* A component before the last one is a file: system calls answer ENOTDIR.
Blocked(path) == \E n \in 1..Len(path) - 1 : IsFile(SubSeq(path, 1, n))
Absent(k) == IF Blocked(k) THEN PathConflict ELSE KV!NotFound
Children(d) == {x \in dir : Parent(x) = d}
Blobs(d) == {k \in Keys : file[k] # None /\ Parent(k) = d}

\* Emptiness that looks at blobs and directories only.
EmptyOfBlobs(d) == Children(d) = {} /\ Blobs(d) = {}

\* The directory holds nothing, not even a temporary file.
Empty(d) ==
  /\ Children(d) = {} /\ Blobs(d) = {} /\ d \notin litter
  /\ \A p \in Procs : tmp[p] # d

\* The system calls between entry and the first one that matters are one step.
First(r) ==
  CASE r.op \in {"get", "stat"} -> r.op
    [] r.op = "put" -> IF Len(r.key) = 1 THEN "temp" ELSE "mkdir"
    [] r.op = "delete" -> "lock"
    [] r.op \in {"list", "deletePrefix"} -> "walk"
    [] r.op = "download" -> "part"

Call(p, r) ==
  /\ left[p] > 0
  /\ KV!Call(p, r)
  /\ left' = [left EXCEPT ![p] = @ - 1]
  /\ todo' = [todo EXCEPT ![p] = IF First(r) = "walk" THEN {<<>>} ELSE {}]
  /\ cur' = [cur EXCEPT ![p] = IF r.op = "delete" THEN r.key ELSE None]
  /\ Goto(p, First(r))
  /\ UNCHANGED <<fsVars, tmp, depth, tries, keys, prune, got, dst, died>>

\* The call returns to its caller.
Return(p) ==
  /\ At(p, "return")
  /\ KV!Leave(p)
  /\ Goto(p, "idle")
  /\ depth' = [depth EXCEPT ![p] = 0] /\ tries' = [tries EXCEPT ![p] = 0]
  /\ keys' = [keys EXCEPT ![p] = {}] /\ todo' = [todo EXCEPT ![p] = {}]
  /\ cur' = [cur EXCEPT ![p] = None]
  /\ got' = [got EXCEPT ![p] = {}] /\ dst' = [dst EXCEPT ![p] = <<>>]
  /\ UNCHANGED <<dir, litter, lock, tmp, prune, bounds>>
-----------------------------------------------------------------------------
\* A path that is a directory holds no blob.
openBlob(k) == IF IsFile(k) THEN KV!Found(file[k]) ELSE Absent(k)

\* Body and ETag, or size, age and ETag, come from one open file: a Put that renames
\* another one over it does not show.
Get(p) ==
  /\ At(p, "get")
  /\ Settle(p, openBlob(req[p].key)) /\ Goto(p, "return")
  /\ UNCHANGED <<fsVars, callVars, bounds, req, since, met>>

Stat(p) ==
  /\ At(p, "stat")
  /\ Settle(p, openBlob(req[p].key)) /\ Goto(p, "return")
  /\ UNCHANGED <<fsVars, callVars, bounds, req, since, met>>

\* With an end that is taken as exclusive.
DeliveredExclusive(body, start, end) ==
  {i \in start..end - 1 : i < Len(body)}

\* The bytes of a file that a GetRange from start to end delivers.
Delivered(body, start, end) ==
  {i \in start..end : i < Len(body)}

\* One goroutine of downloadParallel: opens the file, reads its range and
\* writes it at its offset.  The last one to finish settles the download.
GetRange(p, i) ==
  LET r == req[p]
      n == PartCount(r.size, Parts)
      body == file[r.key]
      bytes == Delivered(body, Start(i, r.size, Parts), End(i, r.size, Parts))
      written == [x \in DOMAIN dst[p] \cup {j + 1 : j \in bytes} |->
                    IF x - 1 \in bytes THEN body[x] ELSE dst[p][x]]
  IN /\ At(p, "part") /\ i \in 0..(n - 1) \ got[p]
     /\ \/ /\ ~IsFile(r.key)
           /\ Settle(p, Absent(r.key)) /\ Goto(p, "return")
           /\ UNCHANGED <<got, dst>>
        \/ /\ IsFile(r.key)
           /\ dst' = [dst EXCEPT ![p] = written]
           /\ got' = [got EXCEPT ![p] = @ \cup {i}]
           /\ IF got'[p] = 0..(n - 1)
              THEN Settle(p, KV!Found(dst'[p])) /\ Goto(p, "return")
              ELSE UNCHANGED <<ans, pc>>
     /\ UNCHANGED <<fsVars, tmp, depth, tries, todo, keys, cur, prune, bounds, req, since,
                    met>>
-----------------------------------------------------------------------------
\* os.Root.MkdirAll opens or creates one component after the other, each in
\* the directory that it opened before.  (One that was removed and made again in
\* between counts as the one that was opened.)
MkdirAll(p) ==
  LET path == Parent(req[p].key)
      d == SubSeq(path, 1, depth[p] + 1)
  IN /\ At(p, "mkdir") /\ depth[p] < Len(path)
     /\ \/ /\ Exists(Parent(d)) /\ ~IsFile(d)
           /\ dir' = dir \cup {d}
           /\ depth' = [depth EXCEPT ![p] = @ + 1]
           /\ Goto(p, IF depth[p] + 1 = Len(path) THEN "temp" ELSE "mkdir")
           /\ UNCHANGED ans
        \/ /\ ~Exists(Parent(d))
           /\ Settle(p, NotExist) /\ Goto(p, "return")
           /\ UNCHANGED <<dir, depth>>
        \/ /\ Exists(Parent(d)) /\ IsFile(d)
           /\ Settle(p, PathConflict) /\ Goto(p, "return")
           /\ UNCHANGED <<dir, depth>>
     /\ UNCHANGED <<file, litter, lock, tmp, tries, todo, keys, cur, prune, got, dst, bounds,
                    req, since, met>>

\* createTemp and the copying of the body, before the lock is taken: a directory
\* that was pruned is made again.
createTemp(p) ==
  LET path == Parent(req[p].key)
  IN /\ At(p, "temp")
     /\ \/ /\ tries[p] < MaxTries /\ Exists(path)
           /\ tmp' = [tmp EXCEPT ![p] = path]
           /\ Goto(p, "lock")
           /\ UNCHANGED <<depth, tries, ans>>
        \/ /\ tries[p] < MaxTries /\ ~Exists(path) /\ ~Blocked(req[p].key)
           /\ tries' = [tries EXCEPT ![p] = @ + 1]
           /\ depth' = [depth EXCEPT ![p] = 0]
           /\ Goto(p, "mkdir")
           /\ UNCHANGED <<tmp, ans>>
        \/ /\ tries[p] = MaxTries \/ Blocked(req[p].key)
           /\ Settle(p, IF tries[p] = MaxTries THEN NotExist ELSE PathConflict)
           /\ Goto(p, "return")
           /\ UNCHANGED <<tmp, depth, tries>>
     /\ UNCHANGED <<fsVars, todo, keys, cur, prune, got, dst, bounds, req, since, met>>

\* An flock that another holder does not keep us from taking.
withoutLock(p) ==
  /\ At(p, "lock")
  /\ lock' = p
  /\ Goto(p, IF req[p].op = "put" THEN "check" ELSE "remove")
  /\ UNCHANGED <<file, dir, litter, callVars, bounds, req, ans, since, met>>

\* TryLockContext polls until the lock is free.
withLock(p) ==
  /\ At(p, "lock") /\ lock = None
  /\ lock' = p
  /\ Goto(p, IF req[p].op = "put" THEN "check" ELSE "remove")
  /\ UNCHANGED <<file, dir, litter, callVars, bounds, req, ans, since, met>>

\* Without the deferred Unlock.
KeepLock(p) ==
  /\ At(p, "unlock")
  /\ Goto(p, IF tmp[p] # None THEN "untemp"
             ELSE IF ans[p] = None THEN "next" ELSE "return")
  /\ UNCHANGED <<fsVars, callVars, bounds, req, ans, since, met>>

\* The deferred Unlock; a Put that failed then removes its temporary file, and a
\* DeletePrefix goes on with the next key.
Unlock(p) ==
  /\ At(p, "unlock")
  /\ lock' = None
  /\ Goto(p, IF tmp[p] # None THEN "untemp"
             ELSE IF ans[p] = None THEN "next" ELSE "return")
  /\ UNCHANGED <<file, dir, litter, callVars, bounds, req, ans, since, met>>

RemoveTemp(p) ==
  /\ At(p, "untemp")
  /\ tmp' = [tmp EXCEPT ![p] = None]
  /\ Goto(p, "return")
  /\ UNCHANGED <<fsVars, depth, tries, todo, keys, cur, prune, got, dst, bounds, req, ans,
                 since, met>>

\* The ETag is the MD5 of the contents.
computeETag(k) == file[k]

\* Lstat and computeETag against the preconditions; a directory at the path
\* means that there is no blob, and that there cannot be one.
Matches(r) ==
  /\ r.ifNoneMatch => ~IsFile(r.key)
  /\ r.ifMatch # None => IsFile(r.key) /\ computeETag(r.key) = r.ifMatch

PutCheck(p) ==
  LET r == req[p]
  IN /\ At(p, "check")
     /\ \/ Matches(r) /\ r.key \notin dir /\ Goto(p, "rename") /\ UNCHANGED ans
        \/ Matches(r) /\ r.key \in dir /\ Goto(p, "unlock")
             /\ Settle(p, PathConflict)
        \/ ~Matches(r) /\ Goto(p, "unlock") /\ Settle(p, KV!PreconditionFailed)
     /\ UNCHANGED <<fsVars, callVars, bounds, req, since, met>>

\* The rename fails if a directory appeared at the path in the meantime.
PutRename(p) ==
  LET k == req[p].key
  IN /\ At(p, "rename")
     /\ \/ /\ k \notin dir
           /\ file' = [file EXCEPT ![k] = req[p].body]
           /\ tmp' = [tmp EXCEPT ![p] = None]
           /\ KV!Track(file')
           /\ Settle(p, KV!Ok)
        \/ /\ k \in dir
           /\ Settle(p, PathConflict)
           /\ UNCHANGED <<file, tmp, since, met>>
     /\ Goto(p, "unlock")
     /\ UNCHANGED <<dir, litter, lock, depth, tries, todo, keys, cur, prune, got, dst, bounds,
                    req>>
-----------------------------------------------------------------------------
\* Delete, and one key of DeletePrefix, under the lock.
Remove(p) ==
  LET k == cur[p]
      deleted == IF req[p].op = "delete" THEN KV!Ok ELSE None
  IN /\ At(p, "remove")
     /\ \/ /\ IsFile(k)
           /\ file' = [file EXCEPT ![k] = None]
           /\ KV!Track(file')
           /\ prune' = [prune EXCEPT ![p] = Parent(k)]
           /\ Settle(p, deleted) /\ Goto(p, "prune")
        \/ /\ ~IsFile(k) /\ ~Blocked(k)
           /\ Settle(p, deleted) /\ Goto(p, "unlock")
           /\ UNCHANGED <<file, prune, since, met>>
        \/ /\ Blocked(k)
           /\ Settle(p, PathConflict) /\ Goto(p, "unlock")
           /\ UNCHANGED <<file, prune, since, met>>
     /\ UNCHANGED <<dir, litter, lock, tmp, depth, tries, todo, keys, cur, got, dst, bounds,
                    req>>

\* One round of the loop that removes empty directories up to the root; any
\* error ends it.
pruneEmptyDirs(p) ==
  LET d == prune[p]
  IN /\ At(p, "prune")
     /\ \/ /\ d \in dir /\ Empty(d)
           /\ dir' = dir \ {d}
           /\ prune' = [prune EXCEPT ![p] = Parent(d)]
           /\ UNCHANGED pc
        \/ /\ d \notin dir \/ ~Empty(d) \/ Errors
           /\ prune' = [prune EXCEPT ![p] = <<>>]
           /\ Goto(p, "unlock")
           /\ UNCHANGED dir
     /\ UNCHANGED <<file, litter, lock, tmp, depth, tries, todo, keys, cur, got, dst, bounds,
                    req, ans, since, met>>

\* WalkDir reads one directory at a time; one that is gone is skipped, and one that
\* became a file ends the walk.
WalkDir(p) ==
  /\ At(p, "walk")
  /\ \E d \in todo[p] :
       \/ /\ ~IsFile(d) /\ ~Blocked(d)
          /\ todo' = [todo EXCEPT ![p] = (@ \ {d}) \cup (IF Exists(d) THEN Children(d) ELSE {})]
          /\ keys' = [keys EXCEPT ![p] = @ \cup {k \in Blobs(d) : KV!Under(req[p].prefix, k)}]
          /\ UNCHANGED <<ans, pc>>
       \/ /\ IsFile(d) \/ Blocked(d)
          /\ Settle(p, PathConflict) /\ Goto(p, "return")
          /\ UNCHANGED <<todo, keys>>
  /\ UNCHANGED <<fsVars, tmp, depth, tries, cur, prune, got, dst, bounds, req, since, met>>

WalkDone(p) ==
  /\ At(p, "walk") /\ todo[p] = {}
  /\ IF req[p].op = "list"
     THEN Settle(p, KV!Listed(keys[p])) /\ Goto(p, "return")
     ELSE Goto(p, "next") /\ UNCHANGED ans
  /\ UNCHANGED <<fsVars, callVars, bounds, req, since, met>>

\* DeletePrefix calls Delete for each key that was listed.
DeleteNext(p) ==
  /\ At(p, "next")
  /\ \/ \E k \in keys[p] :
          /\ keys' = [keys EXCEPT ![p] = @ \ {k}]
          /\ cur' = [cur EXCEPT ![p] = k]
          /\ Goto(p, "lock")
          /\ UNCHANGED ans
     \/ /\ keys[p] = {}
        /\ Settle(p, KV!Ok) /\ Goto(p, "return")
        /\ UNCHANGED <<keys, cur>>
  /\ UNCHANGED <<fsVars, tmp, depth, tries, todo, prune, got, dst, bounds, req, since, met>>
-----------------------------------------------------------------------------
\* ctx is done, the reader of the body fails, or the operating system reports
\* another error (no space, no permission).
SystemError(p) ==
  /\ Errors
  /\ pc[p] \in {"get", "stat", "part", "mkdir", "temp", "lock", "check", "rename", "remove",
                "walk", "next"}
  /\ Settle(p, KV!Failed("error"))
  /\ Goto(p, IF lock = p THEN "unlock" ELSE IF tmp[p] # None THEN "untemp" ELSE "return")
  /\ UNCHANGED <<fsVars, callVars, bounds, req, since, met>>

\* The process dies: its lock is released, its temporary file stays behind.
Die(p) ==
  /\ died < Deaths /\ ~At(p, "idle")
  /\ died' = died + 1
  /\ KV!Leave(p)
  /\ Goto(p, "idle")
  /\ lock' = IF lock = p THEN None ELSE lock
  /\ litter' = litter \cup ({tmp[p]} \ {None})
  /\ tmp' = [tmp EXCEPT ![p] = None]
  /\ depth' = [depth EXCEPT ![p] = 0] /\ tries' = [tries EXCEPT ![p] = 0]
  /\ todo' = [todo EXCEPT ![p] = {}] /\ keys' = [keys EXCEPT ![p] = {}]
  /\ cur' = [cur EXCEPT ![p] = None] /\ prune' = [prune EXCEPT ![p] = <<>>]
  /\ got' = [got EXCEPT ![p] = {}] /\ dst' = [dst EXCEPT ![p] = <<>>]
  /\ UNCHANGED <<dir, left>>

Step(p) ==
  \/ Return(p) \/ Get(p) \/ Stat(p) \/ MkdirAll(p) \/ createTemp(p) \/ withLock(p) \/ Unlock(p)
  \/ RemoveTemp(p) \/ PutCheck(p) \/ PutRename(p) \/ Remove(p) \/ pruneEmptyDirs(p)
  \/ WalkDir(p) \/ WalkDone(p) \/ DeleteNext(p)
  \/ \E i \in 0..Parts - 1 : GetRange(p, i)

Next ==
  \E p \in Procs :
    \/ \E r \in Requests : Call(p, r)
    \/ Step(p) \/ SystemError(p) \/ Die(p)

Spec == Init /\ [][Next]_vars

\* A call that was made keeps running: its process is scheduled, and polls
\* for the lock.
FairSpec == Spec /\ \A p \in Procs : WF_vars(Step(p))
-----------------------------------------------------------------------------
\* The store implements what blob.go promises: every answer of a Get, Stat,
\* Put, Delete or parallel download is right at one instant of the call, for
\* every interleaving with other calls, failures and deaths.
Linearizable == KV!Spec

\* Every file and every directory lies in a directory that exists, and so does
\* a temporary file until its rename: "once the temp file exists, the directory
\* is non-empty and pruneEmptyDirs will leave it alone" (blob_fs.go:465-466).
Rooted ==
  /\ \A k \in Keys : IsFile(k) => Exists(Parent(k)) /\ k \notin dir
  /\ \A d \in dir : Exists(Parent(d))
  /\ \A p \in Procs : tmp[p] # None => Exists(tmp[p])

\* Every call ends, although reads and writes of others overlap with it and the
\* holder of the lock may die.
CallsEnd == \A p \in Procs : pc[p] # "idle" ~> pc[p] = "idle"
=============================================================================
