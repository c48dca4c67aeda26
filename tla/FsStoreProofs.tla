--------------------------- MODULE FsStoreProofs ---------------------------
(***************************************************************************)
(* Proofs about the file system store: the ranges of a parallel download,  *)
(* the directory tree and the lock under all interleavings of calls, and   *)
(* that it implements KVStore.                                             *)
(***************************************************************************)
EXTENDS FsStoreInv, TLAPS

-----------------------------------------------------------------------------
(***************************************************************************)
(* The ranges of downloadParallel partition the object, for every size and *)
(* every number of parts.                                                  *)
(***************************************************************************)

\* Multiplication is monotonic and leaves sums of natural numbers natural.
LEMMA TimesMonotonic ==
  ASSUME NEW a \in Nat, NEW b \in Nat, NEW c \in Nat, a <= b
  PROVE  a * c <= b * c /\ a * c \in Nat /\ b * c \in Nat
<1> DEFINE d == b - a
<1>1. d \in Nat /\ b = a + d
  OBVIOUS
<1> HIDE DEF d
<1>2. d * c \in Nat /\ a * c \in Nat /\ b * c \in Nat
  BY <1>1
<1>3. b * c = a * c + d * c
  BY <1>1, <1>2
<1> QED
  BY <1>2, <1>3

\* The chunks fit into the object, and the last one is the only one that does not
\* end where the next one starts.
LEMMA ChunksFit ==
  ASSUME NEW size \in Nat \ {0}, NEW parts \in Nat \ {0}
  PROVE  /\ ChunkSize(size, parts) \in Nat \ {0}
         /\ PartCount(size, parts) \in Nat \ {0}
         /\ PartCount(size, parts) * ChunkSize(size, parts) <= size
<1> DEFINE q == size \div parts
<1>1. q \in Nat /\ parts * q <= size
  OBVIOUS
<1> HIDE DEF q
<1>2. CASE q = 0
  BY <1>1, <1>2 DEF ChunkSize, PartCount, q
<1>3. CASE q # 0
  <2>1. ChunkSize(size, parts) = q /\ PartCount(size, parts) = parts
    BY <1>3 DEF ChunkSize, PartCount, q
  <2> QED
    BY <1>1, <1>3, <2>1
<1> QED
  BY <1>2, <1>3

\* Every byte of the object lies in the range of exactly one goroutine of
\* downloadParallel, and no range reaches beyond the object: whatever the size of
\* the snapshot, no byte of the local file is left unwritten and no two goroutines
\* write to the same one (sync.go:113-116).
THEOREM RangesPartition ==
  ASSUME NEW size \in Nat \ {0}, NEW parts \in Nat \ {0}
  PROVE  LET index == 0..PartCount(size, parts) - 1
             range(i) == Start(i, size, parts)..End(i, size, parts)
         IN /\ \A i \in index : range(i) \subseteq 0..size - 1
            /\ \A byte \in 0..size - 1 :
                 \E i \in index : /\ byte \in range(i)
                                  /\ \A j \in index : byte \in range(j) => j = i
<1>1. PICK c \in Nat \ {0} : c = ChunkSize(size, parts)
  BY ChunksFit
<1>2. PICK n \in Nat \ {0} : n = PartCount(size, parts)
  BY ChunksFit
<1>3. n * c <= size
  BY <1>1, <1>2, ChunksFit
<1> DEFINE start(i) == i * c
           end(i) == IF i = n - 1 THEN size - 1 ELSE i * c + c - 1
<1>4. \A i \in 0..n - 1 :
        Start(i, size, parts) = start(i) /\ End(i, size, parts) = end(i)
  BY <1>1, <1>2 DEF Start, End
\* Every part ends before the next one starts, or at the end of the object.
<1>5. ASSUME NEW i \in 0..n - 1
      PROVE  /\ i * c \in Nat
             /\ end(i) \in Int /\ end(i) <= size - 1
             /\ \A j \in 0..n - 1 : i < j => end(i) < start(j)
  <2>1. i \in Nat /\ i + 1 \in Nat /\ i + 1 <= n
    OBVIOUS
  <2>2. i * c \in Nat /\ (i + 1) * c <= n * c
    BY <2>1, TimesMonotonic
  <2>3. (i + 1) * c = i * c + c
    BY <2>1
  <2>4. ASSUME NEW j \in 0..n - 1, i < j
        PROVE  end(i) < start(j)
    <3>1. j \in Nat /\ i + 1 <= j /\ i # n - 1
      BY <2>4
    <3>2. (i + 1) * c <= j * c /\ j * c \in Nat
      BY <2>1, <3>1, TimesMonotonic
    <3> QED
      BY <2>2, <2>3, <3>1, <3>2
  <2>5. end(i) \in Int /\ end(i) <= size - 1
    BY <1>3, <2>2, <2>3
  <2> QED
    BY <2>2, <2>4, <2>5
<1>6. ASSUME NEW byte \in 0..size - 1
      PROVE  \E i \in 0..n - 1 : start(i) <= byte /\ byte <= end(i)
  <2>1. PICK q \in Nat : q * c <= byte /\ byte < q * c + c
    <3>1. byte \div c \in Nat /\ (byte \div c) * c <= byte /\ byte < (byte \div c) * c + c
      OBVIOUS
    <3> QED
      BY <3>1
  <2>2. CASE q < n
    <3>1. q \in 0..n - 1 /\ q * c \in Nat /\ byte <= end(q)
      BY <2>1, <2>2
    <3> QED
      BY <2>1, <3>1
  <2>3. CASE n <= q
    <3>1. n - 1 \in 0..n - 1 /\ n - 1 \in Nat /\ n - 1 <= q
      BY <2>3
    <3>2. (n - 1) * c <= q * c /\ (n - 1) * c \in Nat /\ q * c \in Nat
      BY <3>1, TimesMonotonic
    <3>3. start(n - 1) <= byte /\ byte <= end(n - 1)
      BY <2>1, <3>2
    <3> QED
      BY <3>1, <3>3
  <2> QED
    BY <2>2, <2>3
<1> HIDE DEF end
<1>7. \A i \in 0..n - 1 : start(i)..end(i) \subseteq 0..size - 1
  BY <1>5
<1>8. ASSUME NEW byte \in 0..size - 1
      PROVE  \E i \in 0..n - 1 :
               /\ byte \in start(i)..end(i)
               /\ \A j \in 0..n - 1 : byte \in start(j)..end(j) => j = i
  <2>1. PICK i \in 0..n - 1 : start(i) <= byte /\ byte <= end(i)
    BY <1>6
  <2>2. byte \in start(i)..end(i)
    BY <1>5, <2>1
  <2>3. ASSUME NEW j \in 0..n - 1, byte \in start(j)..end(j)
        PROVE  j = i
    <3>1. ~(i < j) /\ ~(j < i)
      BY <1>5, <2>1, <2>3
    <3> QED
      BY <3>1
  <2> QED
    BY <2>2, <2>3
<1> QED
  BY <1>2, <1>4, <1>7, <1>8

-----------------------------------------------------------------------------
(***************************************************************************)
(* Paths.                                                                  *)
(***************************************************************************)

\* A path up to its component n.
LEMMA Upto ==
  ASSUME NEW s \in Paths, NEW n \in 0..Len(s)
  PROVE  /\ SubSeq(s, 1, n) \in Paths /\ Len(SubSeq(s, 1, n)) = n
         /\ \A i \in 1..n : SubSeq(s, 1, n)[i] = s[i]
BY DEF Paths

\* Paths with the same components are the same.
LEMMA SamePath ==
  ASSUME NEW s \in Paths, NEW t \in Paths, Len(s) = Len(t), \A i \in 1..Len(s) : s[i] = t[i]
  PROVE  s = t
BY DEF Paths

\* Up to no component a path is the root, and up to the last one it is the path.
LEMMA UptoEnds ==
  ASSUME NEW s \in Paths
  PROVE  SubSeq(s, 1, 0) = <<>> /\ SubSeq(s, 1, Len(s)) = s
<1>1. <<>> \in Paths /\ Len(s) \in Nat /\ Len(<<>>) = 0
  BY DEF Paths
<1>2. SubSeq(s, 1, 0) = <<>>
  BY <1>1, Upto, SamePath
<1>3. SubSeq(s, 1, Len(s)) = s
  <2>1. Len(s) \in 0..Len(s)
    BY <1>1
  <2>2. /\ SubSeq(s, 1, Len(s)) \in Paths /\ Len(SubSeq(s, 1, Len(s))) = Len(s)
        /\ \A i \in 1..Len(s) : SubSeq(s, 1, Len(s))[i] = s[i]
    BY <2>1, Upto
  <2> QED
    BY <2>2, SamePath
<1> QED
  BY <1>2, <1>3

\* A path cut twice is cut once, at the earlier component.
LEMMA UptoUpto ==
  ASSUME NEW s \in Paths, NEW m \in 0..Len(s), NEW n \in 0..m
  PROVE  SubSeq(SubSeq(s, 1, m), 1, n) = SubSeq(s, 1, n)
<1> DEFINE t == SubSeq(s, 1, m)
<1>0. Len(s) \in Nat /\ n \in 0..Len(s)
  BY DEF Paths
<1>1. t \in Paths /\ Len(t) = m /\ \A i \in 1..m : t[i] = s[i]
  BY Upto
<1> HIDE DEF t
<1>2. SubSeq(t, 1, n) \in Paths /\ Len(SubSeq(t, 1, n)) = n /\ \A i \in 1..n : SubSeq(t, 1, n)[i] = t[i]
  BY <1>1, Upto
<1>3. SubSeq(s, 1, n) \in Paths /\ Len(SubSeq(s, 1, n)) = n /\ \A i \in 1..n : SubSeq(s, 1, n)[i] = s[i]
  BY <1>0, Upto
<1>4. \A i \in 1..n : SubSeq(t, 1, n)[i] = SubSeq(s, 1, n)[i]
  BY <1>1, <1>2, <1>3
<1>5. SubSeq(t, 1, n) = SubSeq(s, 1, n)
  BY <1>2, <1>3, <1>4, SamePath
<1> QED
  BY <1>5 DEF t

\* The parent of a path and the directories above it.
LEMMA ParentFacts ==
  ASSUME NEW s \in Paths, s # <<>>
  PROVE  /\ Len(s) \in Nat \ {0} /\ Parent(s) \in Paths /\ Len(Parent(s)) = Len(s) - 1
         /\ Parent(s) = <<>> \/ Parent(s) \in Above(s)
         /\ Above(s) \subseteq Paths \ {<<>>}
         /\ s \notin Above(s)
<1>1. Len(s) \in Nat \ {0}
  BY DEF Paths
<1>2. Len(s) - 1 \in 0..Len(s)
  BY <1>1
<1>3. Parent(s) \in Paths /\ Len(Parent(s)) = Len(s) - 1
  BY <1>2, Upto DEF Parent
<1>4. Parent(s) = <<>> \/ Parent(s) \in Above(s)
  BY <1>1, UptoEnds DEF Parent, Above
<1>5. ASSUME NEW n \in 1..Len(s) - 1
      PROVE  SubSeq(s, 1, n) \in Paths /\ SubSeq(s, 1, n) # <<>> /\ SubSeq(s, 1, n) # s
  <2>1. n \in 0..Len(s) /\ n # 0 /\ n # Len(s) /\ Len(<<>>) = 0
    BY <1>1
  <2>2. SubSeq(s, 1, n) \in Paths /\ Len(SubSeq(s, 1, n)) = n
    BY <2>1, Upto
  <2> QED
    BY <2>1, <2>2
<1>6. Above(s) \subseteq Paths \ {<<>>} /\ s \notin Above(s)
  BY <1>5 DEF Above
<1> QED
  BY <1>1, <1>3, <1>4, <1>6

\* The directories above a path are its parent and those above its parent.
LEMMA AboveParent ==
  ASSUME NEW s \in Paths, s # <<>>
  PROVE  Above(s) = Above(Parent(s)) \cup ({Parent(s)} \ {<<>>})
<1> DEFINE l == Len(s)
<1>1. /\ l \in Nat \ {0} /\ Parent(s) \in Paths /\ Len(Parent(s)) = l - 1
      /\ l - 1 \in 0..l /\ Parent(s) = SubSeq(s, 1, l - 1)
  BY ParentFacts DEF Parent
<1> HIDE DEF l
<1>2. ASSUME NEW n \in 1..l - 2
      PROVE  SubSeq(Parent(s), 1, n) = SubSeq(s, 1, n)
  <2>1. l - 1 \in 0..Len(s) /\ n \in 0..l - 1
    BY <1>1 DEF l
  <2> QED
    BY <1>1, <2>1, UptoUpto
<1>3. Above(Parent(s)) = {SubSeq(s, 1, n) : n \in 1..l - 2}
  <2>1. l - 1 - 1 = l - 2
    BY <1>1
  <2> QED
    BY <1>1, <1>2, <2>1 DEF Above
<1>4. Above(s) = {SubSeq(s, 1, n) : n \in 1..l - 1}
  BY DEF Above, l
<1>5. CASE l = 1
  <2>1. Parent(s) = <<>>
    BY <1>1, <1>5, UptoEnds
  <2> QED
    BY <1>3, <1>4, <1>5, <2>1
<1>6. CASE l # 1
  <2>1. 1..l - 1 = (1..l - 2) \cup {l - 1}
    BY <1>1, <1>6
  <2>2. Parent(s) # <<>>
    BY <1>1, <1>6
  <2> QED
    BY <1>1, <1>3, <1>4, <2>1, <2>2
<1> QED
  BY <1>5, <1>6

\* On the path from a directory d above s down to s there is a child of d.
LEMMA ChildTowards ==
  ASSUME NEW s \in Paths, NEW n \in 0..Len(s) - 1
  PROVE  /\ Parent(SubSeq(s, 1, n + 1)) = SubSeq(s, 1, n)
         /\ SubSeq(s, 1, n + 1) = s \/ SubSeq(s, 1, n + 1) \in Above(s)
         /\ SubSeq(s, 1, n) = <<>> \/ SubSeq(s, 1, n) \in Above(s)
<1>1. Len(s) \in Nat /\ n \in Nat /\ n + 1 \in 0..Len(s) /\ n \in 0..n + 1 /\ n + 1 - 1 = n
  BY DEF Paths
<1>2. Len(SubSeq(s, 1, n + 1)) = n + 1
  BY <1>1, Upto
<1>3. Parent(SubSeq(s, 1, n + 1)) = SubSeq(s, 1, n)
  BY <1>1, <1>2, UptoUpto DEF Parent
<1>4. CASE n + 1 = Len(s)
  BY <1>1, <1>3, <1>4, UptoEnds DEF Above
<1>5. CASE n + 1 # Len(s)
  BY <1>1, <1>3, <1>5, UptoEnds DEF Above
<1> QED
  BY <1>4, <1>5
-----------------------------------------------------------------------------
(***************************************************************************)
(* Types, and what a step leaves alone.                                    *)
(***************************************************************************)

\* A step of the call of process p.
Acts(p) == (\E r \in Requests : Call(p, r)) \/ Step(p) \/ SystemError(p) \/ Die(p)

\* The call of process q is where it was.
CallSame(q) ==
  /\ pc'[q] = pc[q] /\ req'[q] = req[q] /\ ans'[q] = ans[q] /\ tmp'[q] = tmp[q]
  /\ depth'[q] = depth[q] /\ todo'[q] = todo[q] /\ keys'[q] = keys[q] /\ cur'[q] = cur[q]
  /\ prune'[q] = prune[q] /\ got'[q] = got[q] /\ dst'[q] = dst[q]

\* A step changes the variables of its own call only.
LEMMA OthersStay ==
  ASSUME NEW p \in Procs, NEW q \in Procs, p # q, FsTypeOK, Acts(p)
  PROVE  CallSame(q)
<1> USE DEF CallSame, FsTypeOK, DiskTypeOK, CallTypeOK, Goto, Settle, fsVars, callVars
<1>1. CASE \E r \in Requests : Call(p, r)
  BY <1>1 DEF Call, KV!Call
<1>2. CASE SystemError(p)
  BY <1>2 DEF SystemError
<1>3. CASE Die(p)
  BY <1>3 DEF Die, KV!Leave, KV!Answer
<1>4. CASE Return(p) \/ Get(p) \/ Stat(p) \/ MkdirAll(p) \/ createTemp(p)
  BY <1>4 DEF Return, Get, Stat, MkdirAll, createTemp, KV!Leave, KV!Answer
<1>5. CASE withLock(p) \/ Unlock(p) \/ RemoveTemp(p) \/ PutCheck(p) \/ PutRename(p)
  BY <1>5 DEF withLock, Unlock, RemoveTemp, PutCheck, PutRename
<1>6. CASE Remove(p) \/ pruneEmptyDirs(p) \/ WalkDir(p) \/ WalkDone(p) \/ DeleteNext(p)
  BY <1>6 DEF Remove, pruneEmptyDirs, WalkDir, WalkDone, DeleteNext
<1>7. CASE \E i \in 0..Parts - 1 : GetRange(p, i)
  BY <1>7 DEF GetRange
<1> QED
  BY <1>1, <1>2, <1>3, <1>4, <1>5, <1>6, <1>7 DEF Acts, Step

\* The answers that calls give.
LEMMA AnswerFacts ==
  /\ None \notin Answers
  /\ {KV!Ok, KV!NotFound, KV!PreconditionFailed, NotExist, PathConflict, KV!Failed("error")}
       \subseteq Answers
  /\ \A ks \in SUBSET Keys : KV!Listed(ks) \in Answers
  /\ \A k \in Keys : \A b \in BodiesAt(k) : KV!Found(b) \in Answers
<1>1. None \notin Answers
  BY FsAssumption
<1>2. KV!Ok \in Answers /\ KV!NotFound \in Answers /\ KV!PreconditionFailed \in Answers
  BY DEF Answers, KV!Ok, KV!NotFound, KV!PreconditionFailed
<1>3. NotExist \in Answers /\ PathConflict \in Answers /\ KV!Failed("error") \in Answers
  BY DEF Answers, NotExist, PathConflict, KV!Failed
<1>4. \A ks \in SUBSET Keys : KV!Listed(ks) \in Answers
  BY DEF Answers, KV!Listed
<1>5. \A k \in Keys : \A b \in BodiesAt(k) : KV!Found(b) \in Answers
  <2>1. \A k \in Keys : \A b \in BodiesAt(k) : b \in Bodies
    BY DEF Bodies
  <2> QED
    BY <2>1 DEF Answers, KV!Found
<1> QED
  BY <1>1, <1>2, <1>3, <1>4, <1>5

\* The arguments of a call.
LEMMA RequestFacts ==
  ASSUME NEW p \in Procs, FsTypeOK, CallInv(p), pc[p] # "idle"
  PROVE  /\ req[p] \in Requests /\ req[p] # None
         /\ req[p].op \in {"get", "stat", "put", "delete", "list", "deletePrefix", "download"}
         /\ req[p].op \notin Walk =>
              req[p].key \in Keys /\ req[p].key \in Paths /\ req[p].key # <<>>
         /\ req[p].op = "put" =>
              req[p].body # None /\ req[p].body \in BodiesAt(req[p].key)
<1>1. req[p] \in Requests
  BY DEF FsTypeOK, DiskTypeOK, CallTypeOK, CallInv
<1>2. /\ req[p] # None
      /\ req[p].op \in {"get", "stat", "put", "delete", "list", "deletePrefix", "download"}
      /\ req[p].op = "put" => req[p].body # None
      /\ req[p].op \notin Walk => req[p].key \in Keys
  BY <1>1, FsAssumption DEF Walk
<1>3. \A k \in Keys : k \in Paths /\ k # <<>>
  BY FsAssumption DEF Paths
<1>4. req[p].op = "put" => req[p].body \in BodiesAt(req[p].key)
  BY <1>1 DEF BodiesAt
<1> QED
  BY <1>1, <1>2, <1>3, <1>4

\* Every blob is one that was stored at first or put.
LEMMA BlobFacts ==
  ASSUME FsTypeOK, NEW k \in Keys
  PROVE  /\ k \in Paths /\ k # <<>>
         /\ openBlob(k) \in Answers
         /\ Absent(k) \in Answers
<1>1. k \in Paths /\ k # <<>>
  BY FsAssumption DEF Paths
<1>2. Absent(k) \in Answers
  BY AnswerFacts DEF Absent
<1>3. IsFile(k) => KV!Found(file[k]) \in Answers
  BY AnswerFacts DEF IsFile, FsTypeOK, DiskTypeOK, CallTypeOK
<1> QED
  BY <1>1, <1>2, <1>3 DEF openBlob
-----------------------------------------------------------------------------
(***************************************************************************)
(* The parallel download.                                                  *)
(***************************************************************************)

\* The parts of a download lie in the object and cover it.
LEMMA PartsCover ==
  ASSUME NEW size \in Nat \ {0}
  PROVE  /\ \A i \in 0..PartCount(size, Parts) - 1 :
              Start(i, size, Parts)..End(i, size, Parts) \subseteq 0..size - 1
         /\ \A x \in 0..size - 1 : \E i \in 0..PartCount(size, Parts) - 1 :
              x \in Start(i, size, Parts)..End(i, size, Parts)
<1>1. Parts \in Nat \ {0}
  BY FsAssumption
<1> QED
  BY <1>1, RangesPartition

\* There is one body under a key that is downloaded.
LEMMA DownloadFacts ==
  ASSUME NEW r \in Requests, r.op = "download"
  PROVE  /\ r.size \in Nat \ {0}
         /\ \A b \in BodiesAt(r.key) : Len(b) = r.size /\ b = [x \in 1..r.size |-> b[x]]
         /\ \A b, c \in BodiesAt(r.key) : b = c
BY FsAssumption

\* One more range arrives: the bytes fetched so far are those of the object, and once all
\* ranges are there the destination is the object.
LEMMA RangeArrives ==
  ASSUME NEW p \in Procs, FsTypeOK, CallInv(p), DownloadInv(p), NEW i, GetRange(p, i),
         IsFile(req[p].key)
  PROVE  /\ got'[p] = got[p] \cup {i} /\ got'[p] \subseteq 0..PartCount(req[p].size, Parts) - 1
         /\ req' = req
         /\ DOMAIN dst'[p] = Fetched(p)'
         /\ \A x \in Fetched(p)' : \A b \in BodiesAt(req[p].key) : dst'[p][x] = b[x]
         /\ got'[p] = 0..PartCount(req[p].size, Parts) - 1 => dst'[p] = file[req[p].key]
<1> DEFINE size == req[p].size
           n == PartCount(size, Parts)
           range(j) == Start(j, size, Parts)..End(j, size, Parts)
           body == file[req[p].key]
           bytes == Delivered(body, Start(i, size, Parts), End(i, size, Parts))
<1>1. /\ pc[p] = "part" /\ i \in 0..n - 1 /\ req' = req
      /\ got' = [got EXCEPT ![p] = @ \cup {i}]
      /\ dst' = [dst EXCEPT ![p] = [x \in DOMAIN dst[p] \cup {j + 1 : j \in bytes} |->
                    IF x - 1 \in bytes THEN body[x] ELSE dst[p][x]]]
  BY DEF GetRange, At
<1>2. /\ req[p] \in Requests /\ req[p].op = "download" /\ req[p].key \in Keys
  BY <1>1, RequestFacts DEF CallInv, Walk
<1>3. body \in BodiesAt(req[p].key)
  BY <1>2 DEF FsTypeOK, DiskTypeOK, CallTypeOK, IsFile
<1>4. size \in Nat \ {0} /\ Len(body) = size /\ body = [x \in 1..size |-> body[x]]
  BY <1>2, <1>3, DownloadFacts
<1>5. \A b \in BodiesAt(req[p].key) : b = body
  BY <1>2, <1>3, DownloadFacts
<1>6. /\ \A j \in 0..n - 1 : range(j) \subseteq 0..size - 1
      /\ \A x \in 0..size - 1 : \E j \in 0..n - 1 : x \in range(j)
  BY <1>4, PartsCover
<1>7. /\ got[p] \subseteq 0..n - 1 /\ DOMAIN dst[p] = Fetched(p)
      /\ \A x \in Fetched(p) : dst[p][x] = body[x]
  BY <1>1, <1>3 DEF DownloadInv
<1>8. got'[p] = got[p] \cup {i} /\ dst'[p] = [x \in DOMAIN dst[p] \cup {j + 1 : j \in bytes} |->
                    IF x - 1 \in bytes THEN body[x] ELSE dst[p][x]]
  BY <1>1 DEF FsTypeOK, DiskTypeOK, CallTypeOK
<1>9. Fetched(p) = {x \in 1..size : \E j \in got[p] : x - 1 \in range(j)}
  BY DEF Fetched
<1>10. Fetched(p)' = {x \in 1..size : \E j \in got'[p] : x - 1 \in range(j)}
  BY <1>1 DEF Fetched
<1>11. bytes = range(i)
  <2>1. \A j \in range(i) : j \in 0..size - 1
    BY <1>1, <1>6
  <2>2. \A j \in range(i) : j < Len(body)
    BY <1>4, <2>1
  <2> QED
    BY <2>2 DEF Delivered
<1> HIDE DEF size, n, range, body, bytes
<1>12. {j + 1 : j \in bytes} = {x \in 1..size : x - 1 \in range(i)}
  <2>1. \A j \in bytes : j \in 0..size - 1
    BY <1>1, <1>6, <1>11
  <2>2. \A j \in bytes : j + 1 \in 1..size /\ (j + 1) - 1 = j
    BY <1>4, <2>1
  <2>3. \A x \in 1..size : x = (x - 1) + 1
    BY <1>4
  <2> QED
    BY <1>11, <2>2, <2>3
<1>13. DOMAIN dst'[p] = Fetched(p)'
  BY <1>7, <1>8, <1>9, <1>10, <1>12
<1>14. \A x \in Fetched(p)' : dst'[p][x] = body[x]
  <2>1. ASSUME NEW x \in Fetched(p)', x - 1 \notin bytes PROVE x \in Fetched(p)
    BY <1>8, <1>9, <1>10, <1>11, <2>1
  <2> QED
    BY <1>7, <1>8, <1>13, <2>1
<1>15. ASSUME got'[p] = 0..n - 1 PROVE dst'[p] = body
  <2>1. Fetched(p)' = 1..size
    <3>1. ASSUME NEW x \in 1..size PROVE x - 1 \in 0..size - 1
      BY <1>4
    <3> QED
      BY <1>6, <1>10, <1>15, <3>1
  <2>2. dst'[p] = [x \in DOMAIN dst'[p] |-> dst'[p][x]]
    BY <1>8
  <2> QED
    BY <1>4, <1>13, <1>14, <2>1, <2>2
<1> QED
  BY <1>1, <1>5, <1>7, <1>8, <1>13, <1>14, <1>15 DEF n, size, body
-----------------------------------------------------------------------------
(***************************************************************************)
(* Control: the lock, and where a call may be.                             *)
(***************************************************************************)

\* The step of a call takes the lock if it is free, gives it up, or leaves it.
LEMMA OwnControl ==
  ASSUME NEW p \in Procs, FsTypeOK, LockInv(p), CallInv(p), TempInv(p), DownloadInv(p), Acts(p)
  PROVE  LockInv(p)' /\ CallInv(p)'
<1> USE DEF LockInv, CallInv, TempInv, Holding, Working, Walk, Labels, Goto, Settle, At, fsVars,
            callVars
<1>0. /\ pc \in [Procs -> Labels] /\ req \in [Procs -> Requests \cup {None}]
      /\ DOMAIN ans = Procs /\ DOMAIN dst = Procs
      /\ keys \in [Procs -> SUBSET Keys] /\ got \in [Procs -> SUBSET Nat]
      /\ tmp \in [Procs -> Paths \cup {None}]
      /\ p # None
  BY FsAssumption DEF FsTypeOK, DiskTypeOK, CallTypeOK
<1>r. pc[p] # "idle" => req[p] \in Requests /\ req[p] # None
  BY RequestFacts
<1>1. CASE \E r \in Requests : Call(p, r)
  <2>1. PICK r \in Requests : Call(p, r)
    BY <1>1
  <2>2. r # None /\ r.op \in {"get", "stat", "put", "delete", "list", "deletePrefix", "download"}
    BY FsAssumption
  <2>3. pc[p] = "idle" /\ pc'[p] = First(r) /\ req'[p] = r /\ ans'[p] = None /\ lock' = lock
    BY <1>0, <2>1 DEF Call, KV!Call
  <2> QED
    BY <2>2, <2>3 DEF First
<1>2. CASE SystemError(p)
  BY <1>0, <1>r, <1>2, AnswerFacts DEF SystemError
<1>3. CASE Die(p) \/ Return(p)
  BY <1>0, <1>r, <1>3 DEF Die, Return, KV!Leave, KV!Answer
<1>4. CASE Get(p) \/ Stat(p)
  <2>1. openBlob(req[p].key) # None
    BY <1>0, <1>4, RequestFacts, BlobFacts, AnswerFacts DEF Get, Stat, CallInv, Walk
  <2> QED
    BY <1>0, <1>r, <1>4, <2>1 DEF Get, Stat
<1>5. CASE MkdirAll(p)
  BY <1>0, <1>r, <1>5, AnswerFacts DEF MkdirAll
<1>6. CASE createTemp(p)
  BY <1>0, <1>r, <1>6, AnswerFacts DEF createTemp
<1>7. CASE withLock(p) \/ Unlock(p) \/ RemoveTemp(p)
  BY <1>0, <1>r, <1>7 DEF withLock, Unlock, RemoveTemp
<1>8. CASE PutCheck(p) \/ PutRename(p)
  BY <1>0, <1>r, <1>8, AnswerFacts DEF PutCheck, PutRename
<1>9. CASE Remove(p)
  BY <1>0, <1>r, <1>9, AnswerFacts DEF Remove
<1>10. CASE pruneEmptyDirs(p)
  BY <1>0, <1>r, <1>10 DEF pruneEmptyDirs
<1>11. CASE WalkDir(p) \/ WalkDone(p) \/ DeleteNext(p)
  BY <1>0, <1>r, <1>11, AnswerFacts DEF WalkDir, WalkDone, DeleteNext
<1>12. ASSUME NEW i, GetRange(p, i) PROVE LockInv(p)' /\ CallInv(p)'
  <2>1. pc[p] = "part" /\ req[p].key \in Keys
    BY <1>12, RequestFacts DEF GetRange
  <2>2. CASE IsFile(req[p].key)
    <3>1. dst'[p] = file[req[p].key] => KV!Found(dst'[p]) # None
      BY <2>1, <2>2, AnswerFacts DEF IsFile, FsTypeOK, DiskTypeOK, CallTypeOK
    <3>2. /\ got'[p] = 0..PartCount(req[p].size, Parts) - 1 => dst'[p] = file[req[p].key]
          /\ req' = req
      BY <1>12, <2>2, RangeArrives
    <3> QED
      BY <1>0, <1>r, <1>12, <2>1, <2>2, <3>1, <3>2 DEF GetRange
  <2>3. CASE ~IsFile(req[p].key)
    BY <1>0, <1>r, <1>12, <2>1, <2>3, BlobFacts, AnswerFacts DEF GetRange
  <2> QED
    BY <2>2, <2>3
<1> QED
  BY <1>1, <1>2, <1>3, <1>4, <1>5, <1>6, <1>7, <1>8, <1>9, <1>10, <1>11, <1>12 DEF Acts, Step
-----------------------------------------------------------------------------
(***************************************************************************)
(* Types.                                                                  *)
(***************************************************************************)

\* A call answers with one of the answers of blob.go, and with a whole body if it found one.
LEMMA AnswersTyped ==
  ASSUME NEW p \in Procs, FsTypeOK, CallInv(p), DownloadInv(p), Acts(p)
  PROVE  ans' \in [Procs -> Answers \cup {None}]
<1> USE DEF Settle, At, fsVars, callVars
<1>0. ans \in [Procs -> Answers \cup {None}] /\ keys \in [Procs -> SUBSET Keys]
  BY DEF FsTypeOK, CallTypeOK
<1>1. CASE (\E r \in Requests : Call(p, r)) \/ Return(p) \/ Die(p)
  BY <1>0, <1>1 DEF Call, KV!Call, Return, Die, KV!Leave, KV!Answer
<1>2. CASE SystemError(p) \/ MkdirAll(p) \/ createTemp(p) \/ withLock(p) \/ Unlock(p) \/ RemoveTemp(p)
  BY <1>0, <1>2, AnswerFacts DEF SystemError, MkdirAll, createTemp, withLock, Unlock, RemoveTemp
<1>3. CASE Get(p) \/ Stat(p)
  <2>1. pc[p] \in {"get", "stat"}
    BY <1>3 DEF Get, Stat
  <2>2. openBlob(req[p].key) \in Answers
    BY <2>1, RequestFacts, BlobFacts DEF CallInv, Walk
  <2> QED
    BY <1>0, <1>3, <2>2 DEF Get, Stat
<1>4. CASE PutCheck(p) \/ PutRename(p) \/ Remove(p) \/ pruneEmptyDirs(p)
  BY <1>0, <1>4, AnswerFacts DEF PutCheck, PutRename, Remove, pruneEmptyDirs
<1>5. CASE WalkDir(p) \/ WalkDone(p) \/ DeleteNext(p)
  BY <1>0, <1>5, AnswerFacts DEF WalkDir, WalkDone, DeleteNext
<1>6. ASSUME NEW i, GetRange(p, i) PROVE ans' \in [Procs -> Answers \cup {None}]
  <2>1. req[p].key \in Keys
    BY <1>6, RequestFacts DEF GetRange, CallInv, Walk
  <2>2. CASE IsFile(req[p].key)
    <3>1. KV!Found(file[req[p].key]) \in Answers
      BY <2>1, <2>2, AnswerFacts DEF IsFile, FsTypeOK, DiskTypeOK
    <3>2. ans' = ans \/ ans' = [ans EXCEPT ![p] = KV!Found(file[req[p].key])]
      BY <1>6, <2>2, RangeArrives DEF GetRange
    <3> QED
      BY <1>0, <3>1, <3>2
  <2>3. CASE ~IsFile(req[p].key)
    BY <1>0, <1>6, <2>1, <2>3, BlobFacts DEF GetRange
  <2> QED
    BY <2>2, <2>3
<1> QED
  BY <1>1, <1>2, <1>3, <1>4, <1>5, <1>6 DEF Acts, Step

\* Every step keeps the types.
LEMMA StepTyped ==
  ASSUME NEW p \in Procs, FsTypeOK, CallInv(p), EffectInv(p), DownloadInv(p), Acts(p)
  PROVE  FsTypeOK'
<1> USE DEF Goto, Settle, At, fsVars, callVars
<1>0. DiskTypeOK /\ CallTypeOK
  BY DEF FsTypeOK
<1>a. pc \in [Procs -> Labels] /\ req \in [Procs -> Requests \cup {None}]
  BY <1>0 DEF CallTypeOK
<1>b. /\ todo \in [Procs -> SUBSET Paths] /\ keys \in [Procs -> SUBSET Keys]
      /\ cur \in [Procs -> Keys \cup {None}]
  BY <1>0 DEF CallTypeOK
<1>c. prune \in [Procs -> Paths] /\ tmp \in [Procs -> Paths \cup {None}]
  BY <1>0 DEF CallTypeOK
<1>d. depth \in [Procs -> Nat] /\ got \in [Procs -> SUBSET Nat]
  BY <1>0 DEF CallTypeOK
<1>e. <<>> \in Paths
  BY DEF Paths
<1>f. since \in [Procs -> SUBSET Keys] /\ met \in [Procs -> SUBSET Keys]
  BY <1>0 DEF CallTypeOK
<1>g. DOMAIN dst = Procs
  BY <1>0 DEF CallTypeOK
<1>h. ans' \in [Procs -> Answers \cup {None}]
  BY AnswersTyped
<1>1. CASE \E r \in Requests : Call(p, r)
  <2>1. PICK r \in Requests : Call(p, r)
    BY <1>1
  <2>2. First(r) \in Labels
    BY FsAssumption DEF First, Labels, Working
  <2>3. r.op = "delete" => r.key \in Keys
    BY FsAssumption
  <2>4. DiskTypeOK'
    BY <1>0, <2>1 DEF Call, KV!Call, DiskTypeOK
  <2>5. CallTypeOK'
    BY <1>0, <1>e, <2>1, <2>2, <2>3, <1>h DEF Call, KV!Call, KV!Present, CallTypeOK
  <2> QED
    BY <2>4, <2>5 DEF FsTypeOK
<1>2. CASE SystemError(p)
  BY <1>0, <1>2, <1>h DEF SystemError, FsTypeOK, DiskTypeOK, CallTypeOK, Labels, Working
<1>3. CASE Die(p) \/ Return(p)
  <2>1. DiskTypeOK'
    BY <1>0, <1>3 DEF Die, Return, KV!Leave, DiskTypeOK
  <2>2. CallTypeOK'
    <3> USE DEF Die, Return, KV!Leave, KV!Answer
    <3>1. pc' \in [Procs -> Labels] /\ req' \in [Procs -> Requests \cup {None}]
      BY <1>a, <1>3 DEF Labels, Working
    <3>2. /\ todo' \in [Procs -> SUBSET Paths] /\ keys' \in [Procs -> SUBSET Keys]
          /\ cur' \in [Procs -> Keys \cup {None}]
      BY <1>b, <1>3
    <3>3. prune' \in [Procs -> Paths] /\ tmp' \in [Procs -> Paths \cup {None}]
      BY <1>c, <1>e, <1>3
    <3>4. depth' \in [Procs -> Nat] /\ got' \in [Procs -> SUBSET Nat]
      <4>1. depth' = [depth EXCEPT ![p] = 0] /\ got' = [got EXCEPT ![p] = {}]
        BY <1>3
      <4>2. depth' \in [Procs -> Nat]
        BY <1>d, <4>1
      <4>3. got' \in [Procs -> SUBSET Nat]
        BY <1>d, <4>1
      <4> QED
        BY <4>2, <4>3
    <3>5. since' \in [Procs -> SUBSET Keys] /\ met' \in [Procs -> SUBSET Keys]
      BY <1>f, <1>3
    <3>6. DOMAIN dst' = Procs
      BY <1>g, <1>3
    <3> QED
      BY <1>h, <3>1, <3>2, <3>3, <3>4, <3>5, <3>6 DEF CallTypeOK
  <2> QED
    BY <2>1, <2>2 DEF FsTypeOK
<1>4. CASE Get(p) \/ Stat(p) \/ RemoveTemp(p) \/ withLock(p) \/ Unlock(p) \/ PutCheck(p)
  <2>1. DiskTypeOK'
    BY <1>0, <1>4 DEF Get, Stat, RemoveTemp, withLock, Unlock, PutCheck, DiskTypeOK
  <2>2. pc' \in [Procs -> Labels]
    BY <1>a, <1>4 DEF Get, Stat, RemoveTemp, withLock, Unlock, PutCheck, Labels, Working
  <2>3. prune' \in [Procs -> Paths] /\ tmp' \in [Procs -> Paths \cup {None}]
    BY <1>c, <1>4 DEF Get, Stat, RemoveTemp, withLock, Unlock, PutCheck
  <2>4. UNCHANGED <<req, dst, depth, todo, keys, cur, got, since, met>>
    BY <1>4 DEF Get, Stat, RemoveTemp, withLock, Unlock, PutCheck
  <2>5. CallTypeOK'
    BY <1>a, <1>b, <1>d, <1>f, <1>g, <1>h, <2>2, <2>3, <2>4 DEF CallTypeOK
  <2> QED
    BY <2>1, <2>5 DEF FsTypeOK
<1>5. CASE MkdirAll(p)
  <2> DEFINE path == Parent(req[p].key)
             d == SubSeq(path, 1, depth[p] + 1)
  <2>1. path \in Paths /\ depth[p] \in Nat /\ depth[p] < Len(path) /\ Len(path) \in Nat
    <3>1. req[p].key \in Paths /\ req[p].key # <<>>
      BY <1>5, RequestFacts DEF MkdirAll, CallInv, Walk
    <3>2. path \in Paths
      BY <3>1, ParentFacts
    <3>3. Len(path) \in Nat
      BY <3>2 DEF Paths
    <3> QED
      BY <1>0, <1>5, <3>2, <3>3 DEF MkdirAll, CallTypeOK
  <2>2. depth[p] + 1 \in 0..Len(path)
    BY <2>1
  <2>3. d \in Paths /\ Len(d) = depth[p] + 1
    BY <2>1, <2>2, Upto
  <2>4. d \in Paths \ {<<>>}
    <3>1. Len(d) # 0 /\ Len(<<>>) = 0
      BY <2>1, <2>3
    <3> HIDE DEF d
    <3> QED
      BY <2>3, <3>1
  <2>5. dir' \in {dir, dir \cup {d}}
    BY <1>5 DEF MkdirAll
  <2> HIDE DEF d, path
  <2>6. DiskTypeOK'
    BY <1>0, <1>5, <2>4, <2>5 DEF MkdirAll, DiskTypeOK
  <2>7. CallTypeOK'
    <3>1. pc' \in [Procs -> Labels]
      BY <1>a, <1>5 DEF MkdirAll, Labels, Working
    <3>2. depth' \in [Procs -> Nat]
      BY <1>d, <1>5 DEF MkdirAll
    <3>3. UNCHANGED <<req, dst, tmp, todo, keys, cur, prune, got, since, met>>
      BY <1>5 DEF MkdirAll
    <3> QED
      BY <1>a, <1>b, <1>c, <1>d, <1>f, <1>g, <1>h, <3>1, <3>2, <3>3 DEF CallTypeOK
  <2> QED
    BY <2>6, <2>7 DEF FsTypeOK
<1>6. CASE createTemp(p)
  <2>1. Parent(req[p].key) \in Paths
    BY <1>6, RequestFacts, ParentFacts DEF createTemp, CallInv, Walk
  <2>2. DiskTypeOK'
    BY <1>0, <1>6 DEF createTemp, DiskTypeOK
  <2>3. CallTypeOK'
    BY <1>0, <1>6, <2>1, <1>h DEF createTemp, CallTypeOK, Labels, Working
  <2> QED
    BY <2>2, <2>3 DEF FsTypeOK
<1>7. CASE PutRename(p)
  <2>1. req[p].key \in Keys /\ req[p].body \in BodiesAt(req[p].key)
    BY <1>7, RequestFacts DEF PutRename, CallInv, Walk
  <2>2. DiskTypeOK'
    <3>1. req[p].body \in Bodies
      BY <2>1 DEF Bodies
    <3> QED
      BY <1>0, <1>7, <2>1, <3>1 DEF PutRename, DiskTypeOK
  <2>3. CallTypeOK'
    BY <1>0, <1>7, <1>h DEF PutRename, KV!Track, KV!Present, CallTypeOK, Labels, Working
  <2> QED
    BY <2>2, <2>3 DEF FsTypeOK
<1>8. CASE Remove(p)
  <2>1. cur[p] \in Keys
    BY <1>8, RequestFacts DEF Remove, CallInv, EffectInv, Walk
  <2>2. Parent(cur[p]) \in Paths
    BY <2>1, BlobFacts, ParentFacts
  <2>3. DiskTypeOK'
    BY <1>0, <1>8, <2>1 DEF Remove, DiskTypeOK
  <2>4. CallTypeOK'
    BY <1>0, <1>8, <2>2, <1>h DEF Remove, KV!Track, KV!Present, CallTypeOK, Labels, Working
  <2> QED
    BY <2>3, <2>4 DEF FsTypeOK
<1>9. CASE pruneEmptyDirs(p)
  <2>1. prune[p] \in dir => Parent(prune[p]) \in Paths
    BY <1>0, ParentFacts DEF DiskTypeOK
  <2>2. DiskTypeOK'
    BY <1>0, <1>9 DEF pruneEmptyDirs, DiskTypeOK
  <2>3. CallTypeOK'
    <3>1. pc' \in [Procs -> Labels]
      BY <1>a, <1>9 DEF pruneEmptyDirs, Labels, Working
    <3>2. prune' \in [Procs -> Paths]
      BY <1>c, <1>e, <1>9, <2>1 DEF pruneEmptyDirs
    <3>3. UNCHANGED <<req, ans, dst, tmp, depth, todo, keys, cur, got, since, met>>
      BY <1>9 DEF pruneEmptyDirs
    <3> QED
      BY <1>0, <3>1, <3>2, <3>3, <1>h DEF CallTypeOK
  <2> QED
    BY <2>2, <2>3 DEF FsTypeOK
<1>10. CASE WalkDir(p) \/ WalkDone(p) \/ DeleteNext(p)
  <2>1. DiskTypeOK'
    BY <1>0, <1>10 DEF WalkDir, WalkDone, DeleteNext, DiskTypeOK
  <2>2. ASSUME WalkDir(p) PROVE CallTypeOK'
    <3>1. \A d : Children(d) \subseteq Paths /\ Blobs(d) \subseteq Keys
      BY <1>0 DEF Children, Blobs, DiskTypeOK
    <3>2. todo' \in [Procs -> SUBSET Paths] /\ keys' \in [Procs -> SUBSET Keys]
      BY <1>0, <2>2, <3>1 DEF WalkDir, CallTypeOK
    <3>3. pc' \in [Procs -> Labels]
      BY <1>a, <2>2 DEF WalkDir, Labels, Working
    <3>4. UNCHANGED <<req, dst, tmp, depth, cur, prune, got, since, met>>
      BY <2>2 DEF WalkDir
    <3> QED
      BY <1>a, <1>b, <1>c, <1>d, <1>f, <1>g, <1>h, <3>2, <3>3, <3>4 DEF CallTypeOK
  <2>3. ASSUME WalkDone(p) \/ DeleteNext(p) PROVE CallTypeOK'
    <3>1. pc' \in [Procs -> Labels]
      BY <1>a, <2>3 DEF WalkDone, DeleteNext, Labels, Working
    <3>2. keys' \in [Procs -> SUBSET Keys] /\ cur' \in [Procs -> Keys \cup {None}]
      BY <1>b, <2>3 DEF WalkDone, DeleteNext
    <3>3. UNCHANGED <<req, dst, tmp, depth, todo, prune, got, since, met>>
      BY <2>3 DEF WalkDone, DeleteNext
    <3> QED
      BY <1>a, <1>b, <1>c, <1>d, <1>f, <1>g, <1>h, <3>1, <3>2, <3>3 DEF CallTypeOK
  <2> QED
    BY <1>10, <2>1, <2>2, <2>3 DEF FsTypeOK
<1>11. CASE \E i \in 0..Parts - 1 : GetRange(p, i)
  <2>1. Parts \in Nat
    BY FsAssumption
  <2>2. DiskTypeOK'
    BY <1>0, <1>11 DEF GetRange, DiskTypeOK
  <2>3. CallTypeOK'
    <3>1. pc' \in [Procs -> Labels]
      BY <1>a, <1>11 DEF GetRange, Labels, Working
    <3>2. got' \in [Procs -> SUBSET Nat]
      BY <1>d, <1>11, <2>1 DEF GetRange
    <3>3. DOMAIN dst' = Procs
      BY <1>g, <1>11 DEF GetRange
    <3>4. UNCHANGED <<req, tmp, depth, todo, keys, cur, prune, since, met>>
      BY <1>11 DEF GetRange
    <3> QED
      BY <1>a, <1>b, <1>c, <1>d, <1>f, <1>g, <1>h, <3>1, <3>2, <3>3, <3>4 DEF CallTypeOK
  <2> QED
    BY <2>2, <2>3 DEF FsTypeOK
<1> QED
  BY <1>1, <1>2, <1>3, <1>4, <1>5, <1>6, <1>7, <1>8, <1>9, <1>10, <1>11 DEF Acts, Step
-----------------------------------------------------------------------------
(***************************************************************************)
(* The tree of directories.                                                *)
(***************************************************************************)

\* Who may change what is on the disk: blobs change under the lock only.
LEMMA DiskSteps ==
  ASSUME NEW p \in Procs, Acts(p)
  PROVE  /\ file' = file \/ PutRename(p) \/ Remove(p)
         /\ dir' = dir \/ MkdirAll(p) \/ pruneEmptyDirs(p)
         /\ tmp' = tmp \/ createTemp(p) \/ PutRename(p) \/ RemoveTemp(p) \/ Die(p)
<1> USE DEF fsVars, callVars
<1>1. CASE (\E r \in Requests : Call(p, r)) \/ SystemError(p) \/ Die(p)
  BY <1>1 DEF Call, SystemError, Die, KV!Call, KV!Leave
<1>2. CASE Return(p) \/ Get(p) \/ Stat(p) \/ MkdirAll(p) \/ createTemp(p)
  BY <1>2 DEF Return, Get, Stat, MkdirAll, createTemp, KV!Leave
<1>3. CASE withLock(p) \/ Unlock(p) \/ RemoveTemp(p) \/ PutCheck(p) \/ PutRename(p)
  BY <1>3 DEF withLock, Unlock, RemoveTemp, PutCheck, PutRename
<1>4. CASE Remove(p) \/ pruneEmptyDirs(p) \/ WalkDir(p) \/ WalkDone(p) \/ DeleteNext(p)
  BY <1>4 DEF Remove, pruneEmptyDirs, WalkDir, WalkDone, DeleteNext
<1>5. CASE \E i \in 0..Parts - 1 : GetRange(p, i)
  BY <1>5 DEF GetRange
<1> QED
  BY <1>1, <1>2, <1>3, <1>4, <1>5 DEF Acts, Step

\* What has its parent directory has all the directories above it.
LEMMA Reachable ==
  ASSUME TreeInv, NEW s \in Paths, s # <<>>, Exists(Parent(s))
  PROVE  Above(s) \subseteq dir
<1>1. Above(s) = Above(Parent(s)) \cup ({Parent(s)} \ {<<>>})
  BY AboveParent
<1>2. Above(<<>>) = {}
  BY DEF Above
<1> QED
  BY <1>1, <1>2 DEF TreeInv, Exists

\* And the other way round.
LEMMA ParentThere ==
  ASSUME NEW s \in Paths, s # <<>>, Above(s) \subseteq dir
  PROVE  Exists(Parent(s))
BY ParentFacts DEF Exists

\* An empty directory lies above no directory and above no blob.
LEMMA EmptyIsLeaf ==
  ASSUME TreeInv, FsTypeOK, NEW d, Empty(d), NEW s \in Paths, s \in dir \/ (s \in Keys /\ IsFile(s))
  PROVE  d \notin Above(s)
<1> SUFFICES ASSUME d \in Above(s)
             PROVE  FALSE
  OBVIOUS
<1>1. PICK n \in 1..Len(s) - 1 : d = SubSeq(s, 1, n)
  BY DEF Above
<1>2. n \in 0..Len(s) - 1
  BY <1>1
<1> DEFINE c == SubSeq(s, 1, n + 1)
<1>3. Parent(c) = d /\ (c = s \/ c \in Above(s))
  BY <1>1, <1>2, ChildTowards
<1>4. Above(s) \subseteq dir
  BY DEF TreeInv
<1> HIDE DEF c
<1>5. c \in dir \/ (c \in Keys /\ IsFile(c))
  BY <1>3, <1>4
<1> QED
  BY <1>3, <1>5 DEF Empty, Children, Blobs, IsFile

\* The directory that MkdirAll makes next.
LEMMA MkdirAllPath ==
  ASSUME NEW p \in Procs, FsTypeOK, CallInv(p), MkdirAll(p)
  PROVE  LET d == SubSeq(Parent(req[p].key), 1, depth[p] + 1)
         IN /\ d \in Paths /\ d # <<>>
            /\ dir' = dir \/ (dir' = dir \cup {d} /\ Exists(Parent(d)) /\ ~IsFile(d))
<1> DEFINE path == Parent(req[p].key)
           d == SubSeq(path, 1, depth[p] + 1)
<1>1. path \in Paths /\ depth[p] \in Nat /\ depth[p] < Len(path) /\ Len(path) \in Nat
  <2>1. req[p].key \in Paths /\ req[p].key # <<>>
    BY RequestFacts DEF MkdirAll, CallInv, Walk, At
  <2>2. path \in Paths
    BY <2>1, ParentFacts
  <2>3. Len(path) \in Nat
    BY <2>2 DEF Paths
  <2> QED
    BY <2>2, <2>3 DEF MkdirAll, FsTypeOK, CallTypeOK
<1>2. depth[p] + 1 \in 0..Len(path)
  BY <1>1
<1>3. d \in Paths /\ Len(d) = depth[p] + 1
  BY <1>1, <1>2, Upto
<1>4. d # <<>>
  <2>1. Len(d) # 0 /\ Len(<<>>) = 0
    BY <1>1, <1>3
  <2> HIDE DEF d
  <2> QED
    BY <2>1
<1>5. dir' = dir \/ (dir' = dir \cup {d} /\ Exists(Parent(d)) /\ ~IsFile(d))
  BY DEF MkdirAll
<1> QED
  BY <1>3, <1>4, <1>5

\* Every step keeps the tree: a directory is made below one that is there and removed only
\* when it is empty, and a blob is renamed to a place beside its temporary file.
LEMMA StepTree ==
  ASSUME NEW p \in Procs, FsTypeOK, TreeInv, CallInv(p), TempInv(p), EffectInv(p), Acts(p)
  PROVE  TreeInv'
<1>1. dir \subseteq Paths \ {<<>>} /\ \A k \in Keys : k \in Paths /\ k # <<>>
  BY BlobFacts DEF FsTypeOK, DiskTypeOK
<1>f. DOMAIN file = Keys
  BY DEF FsTypeOK, DiskTypeOK
<1>2. CASE MkdirAll(p)
  <2> DEFINE d == SubSeq(Parent(req[p].key), 1, depth[p] + 1)
  <2>1. /\ d \in Paths /\ d # <<>> /\ file' = file
        /\ dir' = dir \/ (dir' = dir \cup {d} /\ Exists(Parent(d)) /\ ~IsFile(d))
    BY <1>2, MkdirAllPath DEF MkdirAll
  <2> HIDE DEF d
  <2>2. dir' = dir \/ (dir' = dir \cup {d} /\ Above(d) \subseteq dir /\ ~IsFile(d))
    BY <2>1, Reachable
  <2> QED
    BY <2>1, <2>2 DEF TreeInv, IsFile
<1>3. CASE pruneEmptyDirs(p)
  <2>1. file' = file /\ (dir' = dir \/ (dir' = dir \ {prune[p]} /\ Empty(prune[p])))
    BY <1>3 DEF pruneEmptyDirs
  <2>2. CASE dir' = dir \ {prune[p]} /\ Empty(prune[p])
    <3>1. \A x \in dir : prune[p] \notin Above(x)
      BY <1>1, <2>2, EmptyIsLeaf
    <3>2. \A k \in Keys : IsFile(k) => prune[p] \notin Above(k)
      BY <1>1, <2>2, EmptyIsLeaf
    <3> QED
      BY <2>1, <2>2, <3>1, <3>2 DEF TreeInv, IsFile
  <2> QED
    BY <2>1, <2>2 DEF TreeInv, IsFile
<1>4. CASE PutRename(p)
  <2> DEFINE k == req[p].key
  <2>1. k \in Keys /\ tmp[p] = Parent(k) /\ Exists(tmp[p]) /\ dir' = dir
    BY <1>4, RequestFacts DEF PutRename, At, CallInv, EffectInv, TempInv, Walk
  <2>2. Above(k) \subseteq dir
    BY <1>1, <2>1, Reachable
  <2>3. file' = file \/ (k \notin dir /\ file' = [file EXCEPT ![k] = req[p].body])
    BY <1>4 DEF PutRename
  <2> HIDE DEF k
  <2> QED
    BY <1>f, <2>1, <2>2, <2>3 DEF TreeInv, IsFile
<1>5. CASE Remove(p)
  <2>1. dir' = dir /\ (file' = file \/ file' = [file EXCEPT ![cur[p]] = None])
    BY <1>5 DEF Remove
  <2> QED
    BY <1>f, <2>1 DEF TreeInv, IsFile
<1>6. CASE file' = file /\ dir' = dir
  BY <1>6 DEF TreeInv, IsFile
<1> QED
  BY <1>2, <1>3, <1>4, <1>5, <1>6, DiskSteps

\* A temporary file keeps its directory: prune spares it, for it is not empty.
LEMMA TempStays ==
  ASSUME NEW p \in Procs, NEW q \in Procs, FsTypeOK, Acts(p), tmp[q] # None, Exists(tmp[q])
  PROVE  Exists(tmp[q])'  \/ tmp'[q] # tmp[q]
<1>1. CASE pruneEmptyDirs(p)
  <2>1. dir' = dir \/ (dir' = dir \ {prune[p]} /\ Empty(prune[p]))
    BY <1>1 DEF pruneEmptyDirs
  <2>2. tmp' = tmp
    BY <1>1 DEF pruneEmptyDirs
  <2> QED
    BY <2>1, <2>2 DEF Exists, Empty
<1>2. CASE dir' = dir \/ MkdirAll(p)
  BY <1>2 DEF Exists, MkdirAll
<1> QED
  BY <1>1, <1>2, DiskSteps

\* The temporary file of a Put lies beside its key from createTemp to the rename or
\* its removal (Put and createTemp in blob_fs.go).
LEMMA OwnTemp ==
  ASSUME NEW p \in Procs, FsTypeOK, CallInv(p), TempInv(p), Acts(p)
  PROVE  TempInv(p)'
<1> USE DEF Goto, Settle, At, fsVars, callVars
<1>0. /\ pc \in [Procs -> Labels] /\ req \in [Procs -> Requests \cup {None}]
      /\ tmp \in [Procs -> Paths \cup {None}]
  BY DEF FsTypeOK, CallTypeOK
<1>1. tmp'[p] # None /\ tmp'[p] = tmp[p] => Exists(tmp[p])'
  BY TempStays DEF TempInv
<1>2. CASE \E r \in Requests : Call(p, r)
  BY <1>0, <1>2 DEF Call, KV!Call, CallInv, TempInv
<1>3. CASE SystemError(p)
  BY <1>0, <1>1, <1>3 DEF SystemError, TempInv
<1>4. CASE Die(p) \/ Return(p)
  BY <1>0, <1>4 DEF Die, Return, KV!Leave, TempInv
<1>5. CASE createTemp(p)
  BY <1>0, <1>1, <1>5 DEF createTemp, TempInv, CallInv, Exists
<1>6. CASE Get(p) \/ Stat(p) \/ MkdirAll(p)
  BY <1>0, <1>6 DEF Get, Stat, MkdirAll, TempInv
<1>7. CASE withLock(p) \/ Unlock(p) \/ RemoveTemp(p)
  BY <1>0, <1>1, <1>7 DEF withLock, Unlock, RemoveTemp, TempInv
<1>8. CASE PutCheck(p) \/ PutRename(p)
  BY <1>0, <1>1, <1>8 DEF PutCheck, PutRename, TempInv
<1>9. CASE Remove(p) \/ pruneEmptyDirs(p) \/ WalkDir(p) \/ WalkDone(p) \/ DeleteNext(p)
  BY <1>0, <1>9 DEF Remove, pruneEmptyDirs, WalkDir, WalkDone, DeleteNext, TempInv
<1>10. CASE \E i \in 0..Parts - 1 : GetRange(p, i)
  BY <1>0, <1>10 DEF GetRange, TempInv
<1> QED
  BY <1>2, <1>3, <1>4, <1>5, <1>6, <1>7, <1>8, <1>9, <1>10 DEF Acts, Step
-----------------------------------------------------------------------------
(***************************************************************************)
(* What a call has still to do, and what it has met.                       *)
(***************************************************************************)

\* Only the holder of the lock changes a blob.
LEMMA LockedOut ==
  ASSUME NEW p \in Procs, NEW q \in Procs, p # q, LockInv(p), LockInv(q),
         pc[q] \in Holding, Acts(p)
  PROVE  file' = file
<1>1. lock = q /\ pc[p] \notin Holding
  BY DEF LockInv
<1>2. ~PutRename(p) /\ ~Remove(p)
  BY <1>1 DEF PutRename, Remove, At, Holding
<1> QED
  BY <1>2, DiskSteps

\* What p is to do under the lock.
LEMMA OwnEffect ==
  ASSUME NEW p \in Procs, FsTypeOK, CallInv(p), TempInv(p), EffectInv(p), WalkInv(p), Acts(p)
  PROVE  EffectInv(p)'
<1> USE DEF Goto, Settle, At, fsVars, callVars
<1>0. /\ pc \in [Procs -> Labels] /\ req \in [Procs -> Requests \cup {None}]
      /\ tmp \in [Procs -> Paths \cup {None}] /\ cur \in [Procs -> Keys \cup {None}]
      /\ keys \in [Procs -> SUBSET Keys]
  BY DEF FsTypeOK, CallTypeOK
<1>2. CASE \E r \in Requests : Call(p, r)
  <2>1. PICK r \in Requests : Call(p, r)
    BY <1>2
  <2>2. r.op \in {"get", "stat", "put", "delete", "list", "deletePrefix", "download"}
    BY FsAssumption
  <2>3. /\ pc'[p] = First(r) /\ req'[p] = r
        /\ cur'[p] = IF r.op = "delete" THEN r.key ELSE None
    BY <1>0, <2>1 DEF Call, KV!Call
  <2> QED
    BY <2>2, <2>3 DEF First, EffectInv
<1>3. CASE SystemError(p)
  BY <1>0, <1>3 DEF SystemError, EffectInv
<1>4. CASE Die(p) \/ Return(p)
  BY <1>0, <1>4 DEF Die, Return, KV!Leave, EffectInv
<1>5. CASE createTemp(p)
  <2>1. Parent(req[p].key) # None
    <3>1. req[p].key \in Paths /\ req[p].key # <<>>
      BY <1>5, RequestFacts DEF createTemp, CallInv, Walk
    <3>2. Parent(req[p].key) \in Paths
      BY <3>1, ParentFacts
    <3> QED
      BY <3>2, FsAssumption
  <2>2. req[p].op = "put" /\ req' = req
    BY <1>5 DEF createTemp, CallInv
  <2> QED
    BY <1>0, <1>5, <2>1, <2>2 DEF createTemp, EffectInv
<1>6. CASE Get(p) \/ Stat(p) \/ MkdirAll(p)
  BY <1>0, <1>6 DEF Get, Stat, MkdirAll, EffectInv, CallInv
<1>7. CASE withLock(p) \/ Unlock(p) \/ RemoveTemp(p)
  BY <1>0, <1>7 DEF withLock, Unlock, RemoveTemp, EffectInv
<1>8. CASE PutCheck(p)
  <2>1. req' = req /\ file' = file /\ tmp' = tmp
    BY <1>8 DEF PutCheck
  <2>2. pc'[p] = "rename" => Matches(req[p])
    BY <1>0, <1>8 DEF PutCheck
  <2>3. Matches(req[p])' <=> Matches(req[p])
    BY <2>1 DEF Matches, IsFile, computeETag
  <2>4. pc'[p] \in {"rename", "unlock"} /\ tmp[p] # None
    BY <1>0, <1>8 DEF PutCheck, EffectInv
  <2> QED
    BY <2>1, <2>2, <2>3, <2>4 DEF EffectInv
<1>9. CASE PutRename(p) \/ Remove(p) \/ pruneEmptyDirs(p) \/ WalkDir(p) \/ WalkDone(p)
  BY <1>0, <1>9 DEF PutRename, Remove, pruneEmptyDirs, WalkDir, WalkDone, EffectInv
<1>10. CASE DeleteNext(p)
  <2>1. req[p].op = "deletePrefix" /\ req' = req /\ req[p] # None /\ pc[p] = "next"
    BY <1>10, RequestFacts DEF DeleteNext, CallInv
  <2>2. \A k \in keys[p] : k \in Keys /\ KV!Under(req[p].prefix, k)
    BY <1>0, <2>1 DEF WalkInv, KV!Walks
  <2>3. pc'[p] = "lock" => cur'[p] \in keys[p]
    BY <1>0, <1>10 DEF DeleteNext
  <2>4. pc'[p] \in {"lock", "return"}
    BY <1>0, <1>10 DEF DeleteNext
  <2> QED
    BY <2>1, <2>2, <2>3, <2>4 DEF EffectInv
<1>11. CASE \E i \in 0..Parts - 1 : GetRange(p, i)
  BY <1>0, <1>11 DEF GetRange, EffectInv
<1> QED
  BY <1>2, <1>3, <1>4, <1>5, <1>6, <1>7, <1>8, <1>9, <1>10, <1>11 DEF Acts, Step

\* The history of a call: the keys that were there since it began only become fewer, those
\* it has met only more.  A call starts with what is present.
LEMMA HistorySteps ==
  ASSUME NEW p \in Procs, NEW q \in Procs, FsTypeOK, HistoryInv(q), Acts(p),
         p = q => ~(\E r \in Requests : Call(p, r)) /\ ~Return(p) /\ ~Die(p)
  PROVE  /\ HistoryInv(q)' /\ since'[q] \subseteq since[q] /\ req'[q] = req[q]
         /\ KV!Walks(q) => met[q] \subseteq met'[q]
         /\ since'[q] \subseteq KV!Present(file)'
<1>0. /\ since \in [Procs -> SUBSET Keys] /\ met \in [Procs -> SUBSET Keys]
      /\ req \in [Procs -> Requests \cup {None}]
  BY DEF FsTypeOK, CallTypeOK
<1> USE DEF fsVars, callVars
<1>1. CASE p # q /\ \E r \in Requests : Call(p, r)
  BY <1>0, <1>1 DEF Call, KV!Call, HistoryInv, KV!Walks, KV!Present
<1>2. CASE p # q /\ (Die(p) \/ Return(p))
  BY <1>0, <1>2 DEF Die, Return, KV!Leave, HistoryInv, KV!Walks, KV!Present
<1>3. CASE PutRename(p) \/ Remove(p)
  <2>1. req' = req /\ ((file' = file /\ since' = since /\ met' = met) \/ KV!Track(file'))
    BY <1>3 DEF PutRename, Remove
  <2>2. CASE KV!Track(file')
    BY <2>1, <2>2 DEF KV!Track, HistoryInv, KV!Walks, KV!Present
  <2>3. CASE file' = file /\ since' = since /\ met' = met
    BY <2>1, <2>3 DEF HistoryInv, KV!Walks, KV!Present
  <2> QED
    BY <2>1, <2>2, <2>3
<1>4. CASE UNCHANGED <<file, req, since, met>>
  BY <1>4 DEF HistoryInv, KV!Walks, KV!Present
<1>5. CASE SystemError(p) \/ Get(p) \/ Stat(p) \/ MkdirAll(p) \/ createTemp(p) \/ withLock(p)
            \/ Unlock(p) \/ RemoveTemp(p) \/ PutCheck(p)
  BY <1>4, <1>5 DEF SystemError, Get, Stat, MkdirAll, createTemp, withLock, Unlock, RemoveTemp,
                    PutCheck
<1>6. CASE pruneEmptyDirs(p) \/ WalkDir(p) \/ WalkDone(p) \/ DeleteNext(p)
            \/ \E i \in 0..Parts - 1 : GetRange(p, i)
  BY <1>4, <1>6 DEF pruneEmptyDirs, WalkDir, WalkDone, DeleteNext, GetRange
<1> QED
  BY <1>1, <1>2, <1>3, <1>5, <1>6 DEF Acts, Step

\* What a List or a DeletePrefix has met includes what is there.
LEMMA OwnHistory ==
  ASSUME NEW p \in Procs, FsTypeOK, HistoryInv(p), Acts(p)
  PROVE  HistoryInv(p)'
<1>0. /\ since \in [Procs -> SUBSET Keys] /\ met \in [Procs -> SUBSET Keys]
      /\ req \in [Procs -> Requests \cup {None}]
  BY DEF FsTypeOK, CallTypeOK
<1>1. CASE \E r \in Requests : Call(p, r)
  <2>1. PICK r \in Requests : Call(p, r)
    BY <1>1
  <2>2. r # None
    BY FsAssumption
  <2> QED
    BY <1>0, <2>1, <2>2 DEF Call, KV!Call, HistoryInv, KV!Walks, KV!Present, fsVars
<1>2. CASE Die(p) \/ Return(p)
  BY <1>0, <1>2 DEF Die, Return, KV!Leave, HistoryInv, KV!Walks, KV!Present
<1> QED
  BY <1>1, <1>2, HistorySteps

\* The walk goes on where it is when another call acts.
LEMMA OthersWalk ==
  ASSUME NEW p \in Procs, NEW q \in Procs, p # q, FsTypeOK, HistoryInv(q), WalkInv(q), Acts(p)
  PROVE  WalkInv(q)'
<1>1. CallSame(q)
  BY OthersStay
<1>2. /\ since'[q] \subseteq since[q] /\ req'[q] = req[q]
      /\ KV!Walks(q) => met[q] \subseteq met'[q]
  BY HistorySteps
<1>3. KV!Walks(q)' <=> KV!Walks(q)
  BY <1>2 DEF KV!Walks
<1>4. \A k : Ahead(q, k)' <=> Ahead(q, k)
  BY <1>1 DEF Ahead, CallSame
<1> QED
  BY <1>1, <1>2, <1>3, <1>4 DEF WalkInv, CallSame

\* Reading a directory that is walked: a blob below it is listed, or a directory that is
\* nearer to it is walked.
LEMMA WalkNearer ==
  ASSUME NEW p \in Procs, FsTypeOK, TreeInv, NEW d \in todo[p],
         ~IsFile(d), ~Blocked(d),
         NEW k \in KV!Present(file), Ahead(p, k)
  PROVE  \/ k \in Blobs(d)
         \/ \E n \in 0..Len(k) - 1 :
              SubSeq(k, 1, n) \in (todo[p] \ {d}) \cup (IF Exists(d) THEN Children(d) ELSE {})
<1>1. k \in Keys /\ k \in Paths /\ k # <<>> /\ IsFile(k) /\ Len(k) \in Nat \ {0}
  BY BlobFacts, ParentFacts DEF KV!Present, IsFile
<1>2. PICK n \in 0..Len(k) - 1 : SubSeq(k, 1, n) \in todo[p]
  BY DEF Ahead
<1>3. CASE SubSeq(k, 1, n) # d
  BY <1>2, <1>3
<1>4. CASE SubSeq(k, 1, n) = d
  <2> DEFINE c == SubSeq(k, 1, n + 1)
  <2>1. /\ Parent(c) = d /\ (d = <<>> \/ d \in Above(k))
        /\ c = k \/ c \in Above(k)
    BY <1>1, <1>4, ChildTowards
  <2>2. Above(k) \subseteq dir
    BY <1>1 DEF TreeInv
  <2>3. Exists(d)
    BY <2>1, <2>2 DEF Exists
  <2>4. CASE n + 1 = Len(k)
    BY <1>1, <2>1, <2>4, UptoEnds DEF Blobs, IsFile
  <2>5. CASE n + 1 # Len(k)
    <3>1. n + 1 \in 1..Len(k) - 1 /\ n + 1 \in 0..Len(k) - 1
      BY <1>1, <2>5
    <3>2. c \in Above(k)
      BY <3>1 DEF Above
    <3>3. c \in Children(d)
      BY <2>1, <2>2, <3>2 DEF Children
    <3> QED
      BY <2>3, <3>1, <3>3
  <2> QED
    BY <2>4, <2>5
<1> QED
  BY <1>3, <1>4

\* No step of a walk loses a key that was there all the time.
LEMMA OwnWalk ==
  ASSUME NEW p \in Procs, FsTypeOK, TreeInv, CallInv(p), TempInv(p), HistoryInv(p), WalkInv(p), Acts(p)
  PROVE  WalkInv(p)'
<1> USE DEF Goto, Settle, At, fsVars, callVars
<1>0. /\ pc \in [Procs -> Labels] /\ req \in [Procs -> Requests \cup {None}]
      /\ todo \in [Procs -> SUBSET Paths] /\ cur \in [Procs -> Keys \cup {None}]
      /\ keys \in [Procs -> SUBSET Keys] /\ DOMAIN ans = Procs
      /\ since \in [Procs -> SUBSET Keys] /\ met \in [Procs -> SUBSET Keys]
  BY DEF FsTypeOK, CallTypeOK
<1>1. CASE \E r \in Requests : Call(p, r)
  <2>1. PICK r \in Requests : Call(p, r)
    BY <1>1
  <2>2. /\ r # None /\ req'[p] = r /\ keys'[p] = {}
        /\ pc'[p] = First(r) /\ todo'[p] = IF First(r) = "walk" THEN {<<>>} ELSE {}
    BY <1>0, <2>1, FsAssumption DEF Call, KV!Call, CallInv
  <2>3. since'[p] \subseteq Keys
    BY <1>0, <2>1 DEF Call, KV!Call, KV!Present
  <2>4. r.op \in Walk => First(r) = "walk"
    BY DEF First, Walk
  <2>5. ASSUME NEW k \in Keys, todo'[p] = {<<>>}
        PROVE  Ahead(p, k)'
    <3>1. k \in Paths /\ k # <<>> /\ 0 \in 0..Len(k) - 1
      <4>1. k \in Paths /\ k # <<>>
        BY BlobFacts
      <4>2. Len(k) \in Nat \ {0}
        BY <4>1, ParentFacts
      <4> QED
        BY <4>1, <4>2
    <3>2. SubSeq(k, 1, 0) = <<>>
      BY <3>1, UptoEnds
    <3> QED
      BY <2>5, <3>1, <3>2 DEF Ahead
  <2> QED
    BY <2>2, <2>3, <2>4, <2>5 DEF WalkInv, KV!Walks, Walk
<1>2. CASE Die(p) \/ Return(p)
  BY <1>0, <1>2 DEF Die, Return, KV!Leave, WalkInv, KV!Walks
<1> SUFFICES ASSUME ~(\E r \in Requests : Call(p, r)), ~Return(p), ~Die(p)
             PROVE  WalkInv(p)'
  BY <1>1, <1>2
<1>h. /\ since'[p] \subseteq since[p] /\ req'[p] = req[p]
      /\ KV!Walks(p) => met[p] \subseteq met'[p]
      /\ since'[p] \subseteq KV!Present(file)'
  BY HistorySteps
<1>w. KV!Walks(p)' <=> KV!Walks(p)
  BY <1>h DEF KV!Walks
<1>3. CASE SystemError(p)
  BY <1>0, <1>3, <1>h, <1>w, AnswerFacts DEF SystemError, WalkInv
<1>4. CASE Get(p) \/ Stat(p) \/ MkdirAll(p) \/ createTemp(p) \/ PutCheck(p) \/ PutRename(p)
  <2>1. ~KV!Walks(p)
    BY <1>4 DEF Get, Stat, MkdirAll, createTemp, PutCheck, PutRename, CallInv, KV!Walks
  <2> QED
    BY <1>w, <2>1 DEF WalkInv
<1>5. CASE withLock(p) \/ Unlock(p) \/ RemoveTemp(p)
  <2>1. UNCHANGED <<keys, todo, cur, ans>>
    BY <1>5 DEF withLock, Unlock, RemoveTemp
  <2>2. /\ pc[p] = "lock" => pc'[p] \in {"check", "remove"}
        /\ pc[p] = "lock" /\ KV!Walks(p) => pc'[p] = "remove"
        /\ pc[p] \in {"lock", "unlock", "untemp"}
        /\ pc[p] # "lock" => pc'[p] \in {"untemp", "next", "return"}
    BY <1>0, <1>5 DEF withLock, Unlock, RemoveTemp, KV!Walks
  <2> QED
    BY <1>w, <2>1, <2>2, <1>h DEF WalkInv
<1>6. CASE Remove(p)
  <2>1. pc[p] = "remove" /\ pc'[p] \in {"prune", "unlock"} /\ keys' = keys
    BY <1>0, <1>6 DEF Remove
  <2>2. CASE KV!Walks(p)
    <3>1. req[p].op = "deletePrefix" /\ ans[p] = None
      BY <2>1, <2>2 DEF CallInv, KV!Walks, Working
    <3>2. ans'[p] = None => cur[p] \notin KV!Present(file)'
      <4>1. ans'[p] = None => (IsFile(cur[p]) /\ file' = [file EXCEPT ![cur[p]] = None])
                                \/ (~IsFile(cur[p]) /\ file' = file)
        BY <1>0, <1>6, AnswerFacts DEF Remove
      <4>2. DOMAIN file = Keys
        BY DEF FsTypeOK, DiskTypeOK
      <4> QED
        BY <4>1, <4>2 DEF KV!Present, IsFile
    <3> QED
      BY <1>w, <2>1, <2>2, <3>1, <3>2, <1>h DEF WalkInv
  <2> QED
    BY <1>w, <2>2 DEF WalkInv
<1>7. CASE pruneEmptyDirs(p)
  <2>1. pc[p] = "prune" /\ UNCHANGED <<keys, ans>>
    BY <1>7 DEF pruneEmptyDirs
  <2> QED
    BY <1>w, <2>1, <1>h DEF WalkInv
<1>8. CASE WalkDir(p)
  <2>1. PICK d \in todo[p] :
       \/ /\ ~IsFile(d) /\ ~Blocked(d)
          /\ todo' = [todo EXCEPT ![p] = (@ \ {d}) \cup (IF Exists(d) THEN Children(d) ELSE {})]
          /\ keys' = [keys EXCEPT ![p] = @ \cup {k \in Blobs(d) : KV!Under(req[p].prefix, k)}]
          /\ UNCHANGED <<ans, pc>>
       \/ pc' = [pc EXCEPT ![p] = "return"]
    BY <1>8 DEF WalkDir
  <2>2. CASE pc' = [pc EXCEPT ![p] = "return"]
    BY <1>0, <2>2 DEF WalkInv
  <2>3. CASE /\ ~IsFile(d) /\ ~Blocked(d)
             /\ todo' = [todo EXCEPT ![p] = (@ \ {d}) \cup (IF Exists(d) THEN Children(d) ELSE {})]
             /\ keys' = [keys EXCEPT ![p] = @ \cup {k \in Blobs(d) : KV!Under(req[p].prefix, k)}]
             /\ UNCHANGED <<ans, pc>>
    <3>1. /\ todo'[p] = (todo[p] \ {d}) \cup (IF Exists(d) THEN Children(d) ELSE {})
          /\ keys'[p] = keys[p] \cup {k \in Blobs(d) : KV!Under(req[p].prefix, k)}
          /\ pc[p] = "walk" /\ pc'[p] = "walk" /\ ans[p] = None
      BY <1>0, <1>8, <2>3 DEF WalkDir, CallInv, Working
    <3>2. \A k \in keys'[p] : KV!Under(req[p].prefix, k) /\ (KV!Walks(p) => k \in met'[p])
      <4>1. KV!Walks(p) => \A k \in Blobs(d) : k \in met[p]
        BY DEF Blobs, HistoryInv, KV!Present
      <4>2. \A k \in keys[p] : KV!Under(req[p].prefix, k) /\ k \in met[p]
        BY <3>1 DEF WalkInv, CallInv, Walk, KV!Walks
      <4> QED
        BY <1>h, <3>1, <4>1, <4>2
    <3>3. ASSUME NEW k \in since[p], KV!Under(req[p].prefix, k), Ahead(p, k)
          PROVE  k \in keys'[p] \/ Ahead(p, k)'
      <4>1. k \in KV!Present(file)
        BY <3>3 DEF HistoryInv
      <4>2. k \in Blobs(d) \/ \E n \in 0..Len(k) - 1 : SubSeq(k, 1, n) \in todo'[p]
        BY <2>3, <3>1, <3>3, <4>1, WalkNearer
      <4> QED
        BY <3>1, <3>3, <4>2 DEF Ahead
    <3>4. KV!Walks(p) => \A k \in since[p] : KV!Under(req[p].prefix, k) => k \in keys[p] \/ Ahead(p, k)
      BY <3>1 DEF WalkInv
    <3> QED
      BY <1>w, <3>1, <3>2, <3>3, <3>4, <1>h DEF WalkInv
  <2> QED
    BY <2>1, <2>2, <2>3
<1>9. CASE WalkDone(p)
  <2>1. \A k : ~Ahead(p, k)
    BY <1>9 DEF WalkDone, Ahead
  <2>2. pc[p] = "walk" /\ pc'[p] \in {"return", "next"} /\ keys' = keys /\ (pc'[p] = "next" => ans' = ans)
    BY <1>0, <1>9 DEF WalkDone
  <2> QED
    BY <1>w, <2>1, <2>2, <1>h DEF WalkInv
<1>10. CASE DeleteNext(p)
  <2>1. pc[p] = "next" /\ ans[p] = None /\ pc'[p] \in {"lock", "return"}
    BY <1>0, <1>10 DEF DeleteNext, CallInv, Working
  <2>2. pc'[p] = "lock" => keys'[p] = keys[p] \ {cur'[p]} /\ ans' = ans
    BY <1>0, <1>10 DEF DeleteNext
  <2> QED
    BY <1>w, <2>1, <2>2, <1>h DEF WalkInv
<1>11. CASE \E i \in 0..Parts - 1 : GetRange(p, i)
  <2>1. ~KV!Walks(p)
    BY <1>11 DEF GetRange, CallInv, KV!Walks
  <2> QED
    BY <1>w, <2>1 DEF WalkInv
<1> QED
  BY <1>3, <1>4, <1>5, <1>6, <1>7, <1>8, <1>9, <1>10, <1>11 DEF Acts, Step

\* The bytes of the ranges that arrived stay what they are.
LEMMA OwnDownload ==
  ASSUME NEW p \in Procs, FsTypeOK, CallInv(p), DownloadInv(p), Acts(p)
  PROVE  DownloadInv(p)'
<1> USE DEF Goto, Settle, At, fsVars, callVars
<1>0. /\ pc \in [Procs -> Labels] /\ req \in [Procs -> Requests \cup {None}]
      /\ DOMAIN ans = Procs /\ got \in [Procs -> SUBSET Nat] /\ DOMAIN dst = Procs
  BY DEF FsTypeOK, CallTypeOK
<1>1. CASE \E r \in Requests : Call(p, r)
  <2>1. got'[p] = {} /\ dst'[p] = <<>>
    BY <1>0, <1>1 DEF Call, KV!Call, CallInv
  <2>2. Fetched(p)' = {} /\ DOMAIN <<>> = {}
    BY <2>1 DEF Fetched
  <2> QED
    BY <2>1, <2>2 DEF DownloadInv
<1>2. ASSUME NEW i \in 0..Parts - 1, GetRange(p, i) PROVE DownloadInv(p)'
  <2>1. CASE IsFile(req[p].key)
    BY <1>2, <2>1, RangeArrives DEF DownloadInv
  <2>2. CASE ~IsFile(req[p].key)
    BY <1>0, <1>2, <2>2 DEF GetRange, DownloadInv
  <2> QED
    BY <2>1, <2>2
<1>3. ASSUME ~(\E r \in Requests : Call(p, r)), ~(\E i \in 0..Parts - 1 : GetRange(p, i))
      PROVE  pc'[p] # "part"
  <2>1. CASE SystemError(p) \/ Die(p) \/ Return(p) \/ Get(p) \/ Stat(p) \/ MkdirAll(p) \/ createTemp(p)
    BY <1>0, <2>1 DEF SystemError, Die, Return, Get, Stat, MkdirAll, createTemp
  <2>2. CASE withLock(p) \/ Unlock(p) \/ RemoveTemp(p) \/ PutCheck(p) \/ PutRename(p) \/ Remove(p)
    BY <1>0, <2>2 DEF withLock, Unlock, RemoveTemp, PutCheck, PutRename, Remove
  <2>3. CASE pruneEmptyDirs(p) \/ WalkDir(p) \/ WalkDone(p) \/ DeleteNext(p)
    BY <1>0, <2>3 DEF pruneEmptyDirs, WalkDir, WalkDone, DeleteNext
  <2> QED
    BY <1>3, <2>1, <2>2, <2>3 DEF Acts, Step
<1> QED
  BY <1>1, <1>2, <1>3 DEF DownloadInv
-----------------------------------------------------------------------------
(***************************************************************************)
(* The invariant.                                                          *)
(***************************************************************************)

\* The invariant holds of a directory with the stored blobs and no calls.
LEMMA InitFsInv ==
  Init => FsInv
<1> SUFFICES ASSUME Init
             PROVE  FsInv
  OBVIOUS
<1> USE DEF Init
<1>k. \A k \in Keys : k \in Paths /\ k # <<>> /\ Above(k) \subseteq Paths \ {<<>>}
  <2>1. \A k \in Keys : k \in Paths /\ k # <<>>
    BY FsAssumption DEF Paths
  <2> QED
    BY <2>1, ParentFacts
<1>1. DiskTypeOK
  BY <1>k, FsAssumption DEF DiskTypeOK, BodiesAt
<1>2. CallTypeOK
  <2>1. <<>> \in Paths
    BY DEF Paths
  <2> QED
    BY <2>1 DEF CallTypeOK, Labels
<1>3. TreeInv
  <2>1. ASSUME NEW d \in dir PROVE Above(d) \subseteq dir
    <3>1. PICK k \in Keys : Stored[k] # None /\ d \in Above(k)
      OBVIOUS
    <3>2. PICK n \in 1..Len(k) - 1 : d = SubSeq(k, 1, n)
      BY <3>1 DEF Above
    <3>3. Len(k) \in Nat /\ n \in 0..Len(k) /\ Len(d) = n
      <4>1. Len(k) \in Nat
        BY <1>k, ParentFacts
      <4>2. n \in 0..Len(k)
        BY <4>1
      <4> QED
        BY <1>k, <3>2, <4>1, <4>2, Upto
    <3>4. ASSUME NEW m \in 1..Len(d) - 1 PROVE SubSeq(d, 1, m) \in Above(k)
      <4>1. m \in 0..n /\ m \in 1..Len(k) - 1
        BY <3>3
      <4>2. SubSeq(d, 1, m) = SubSeq(k, 1, m)
        BY <1>k, <3>2, <3>3, <4>1, UptoUpto
      <4> QED
        BY <4>1, <4>2 DEF Above
    <3> QED
      BY <3>1, <3>4 DEF Above
  <2>2. ASSUME NEW k \in Keys, IsFile(k) PROVE Above(k) \subseteq dir /\ k \notin dir
    <3>1. Stored[k] # None
      BY <2>2 DEF IsFile
    <3>2. \A l \in Keys : Stored[l] # None => k \notin Above(l)
      BY <3>1, FsAssumption
    <3> QED
      BY <3>1, <3>2
  <2> QED
    BY <2>1, <2>2 DEF TreeInv
<1>4. ASSUME NEW p \in Procs
      PROVE  LockInv(p) /\ CallInv(p) /\ TempInv(p) /\ EffectInv(p) /\ HistoryInv(p) /\ WalkInv(p)
             /\ DownloadInv(p)
  <2>1. p # None
    BY FsAssumption
  <2>2. LockInv(p) /\ CallInv(p) /\ TempInv(p) /\ EffectInv(p)
    BY <2>1 DEF LockInv, Holding, CallInv, Working, TempInv, EffectInv
  <2>3. HistoryInv(p) /\ WalkInv(p) /\ DownloadInv(p)
    BY DEF HistoryInv, WalkInv, DownloadInv, KV!Walks
  <2> QED
    BY <2>2, <2>3
<1> QED
  BY <1>1, <1>2, <1>3, <1>4 DEF FsInv, FsTypeOK

\* The invariants of the calls that do not act.
LEMMA OthersKeep ==
  ASSUME NEW p \in Procs, NEW q \in Procs, p # q, FsInv, Acts(p)
  PROVE  /\ LockInv(q)' /\ CallInv(q)' /\ TempInv(q)' /\ EffectInv(q)'
         /\ HistoryInv(q)' /\ WalkInv(q)' /\ DownloadInv(q)'
<1>0. /\ FsTypeOK /\ TreeInv
      /\ LockInv(p) /\ CallInv(p) /\ TempInv(p) /\ DownloadInv(p)
      /\ LockInv(q) /\ CallInv(q) /\ TempInv(q) /\ EffectInv(q)
      /\ HistoryInv(q) /\ WalkInv(q) /\ DownloadInv(q)
  BY DEF FsInv
<1>1. CallSame(q)
  BY <1>0, OthersStay
<1>2. LockInv(q)'
  <2>1. lock' \in {lock, None, p} /\ (lock' # lock => lock \in {p, None})
    <3>1. lock' = lock \/ withLock(p) \/ Unlock(p) \/ Die(p)
      BY DEF Acts, Step, Call, SystemError, Return, Get, Stat, MkdirAll, createTemp, RemoveTemp,
             PutCheck, PutRename, Remove, pruneEmptyDirs, WalkDir, WalkDone, DeleteNext, GetRange,
             fsVars, callVars
    <3>2. Unlock(p) => lock = p
      BY <1>0 DEF Unlock, LockInv, At, Holding
    <3> QED
      BY <3>1, <3>2 DEF withLock, Unlock, Die
  <2>2. q # None /\ p # q
    BY FsAssumption
  <2>3. lock' = q <=> lock = q
    BY <2>1, <2>2
  <2> QED
    BY <1>0, <1>1, <2>3 DEF LockInv, CallSame
<1>3. CallInv(q)'
  BY <1>0, <1>1 DEF CallInv, CallSame
<1>4. TempInv(q)'
  BY <1>0, <1>1, TempStays DEF TempInv, CallSame
<1>5. EffectInv(q)'
  <2>1. pc[q] = "rename" => file' = file
    BY <1>0, LockedOut DEF Holding
  <2>2. Matches(req[q]) /\ file' = file => Matches(req[q])'
    BY <1>1 DEF Matches, IsFile, computeETag, CallSame
  <2> QED
    BY <1>0, <1>1, <2>1, <2>2 DEF EffectInv, CallSame
<1>6. HistoryInv(q)'
  BY <1>0, HistorySteps
<1>7. WalkInv(q)'
  BY <1>0, OthersWalk
<1>8. DownloadInv(q)'
  <2>1. Fetched(q)' = Fetched(q)
    BY <1>1 DEF Fetched, CallSame
  <2> QED
    BY <1>0, <1>1, <2>1 DEF DownloadInv, CallSame
<1> QED
  BY <1>2, <1>3, <1>4, <1>5, <1>6, <1>7, <1>8

\* Every step of every call preserves the invariant.
LEMMA NextFsInv ==
  FsInv /\ [Next]_vars => FsInv'
<1> SUFFICES ASSUME FsInv, [Next]_vars
             PROVE  FsInv'
  OBVIOUS
<1>1. CASE Next
  <2>1. PICK p \in Procs : Acts(p)
    BY <1>1 DEF Next, Acts
  <2>2. /\ FsTypeOK /\ TreeInv
        /\ LockInv(p) /\ CallInv(p) /\ TempInv(p) /\ EffectInv(p)
        /\ HistoryInv(p) /\ WalkInv(p) /\ DownloadInv(p)
    BY DEF FsInv
  <2>3. FsTypeOK' /\ TreeInv'
    BY <2>1, <2>2, StepTyped, StepTree
  <2>4. LockInv(p)' /\ CallInv(p)' /\ TempInv(p)' /\ EffectInv(p)'
    BY <2>1, <2>2, OwnControl, OwnTemp, OwnEffect
  <2>5. HistoryInv(p)' /\ WalkInv(p)' /\ DownloadInv(p)'
    BY <2>1, <2>2, OwnHistory, OwnWalk, OwnDownload
  <2>6. \A q \in Procs \ {p} :
          /\ LockInv(q)' /\ CallInv(q)' /\ TempInv(q)' /\ EffectInv(q)'
          /\ HistoryInv(q)' /\ WalkInv(q)' /\ DownloadInv(q)'
    BY <2>1, OthersKeep
  <2> QED
    BY <2>3, <2>4, <2>5, <2>6 DEF FsInv
<1>2. CASE UNCHANGED vars
  <2> USE <1>2 DEF vars, fsVars, callVars, bounds
  <2>1. FsTypeOK' /\ TreeInv'
    BY DEF FsInv, FsTypeOK, DiskTypeOK, CallTypeOK, TreeInv, IsFile
  <2>2. ASSUME NEW p \in Procs
        PROVE  LockInv(p)' /\ CallInv(p)' /\ TempInv(p)' /\ EffectInv(p)'
    BY DEF FsInv, LockInv, CallInv, TempInv, EffectInv, Exists, Matches, IsFile, computeETag
  <2>3. ASSUME NEW p \in Procs
        PROVE  HistoryInv(p)' /\ WalkInv(p)' /\ DownloadInv(p)'
    BY DEF FsInv, HistoryInv, WalkInv, DownloadInv, KV!Walks, KV!Present, Ahead, Fetched
  <2> QED
    BY <2>1, <2>2, <2>3 DEF FsInv
<1> QED
  BY <1>1, <1>2

\* The invariant of FileSystemBlobStore, for any number of goroutines and processes, any keys,
\* any calls and deaths: the tree is closed upwards, only the holder of the flock is in the
\* locked part of Put and Delete (withLock), a Put renames only while the precondition that
\* it checked holds, and neither a walk loses a key nor a download a byte.
THEOREM FsInvariant ==
  Spec => []FsInv
<1>1. Init => FsInv
  BY InitFsInv
<1>2. FsInv /\ [Next]_vars => FsInv'
  BY NextFsInv
<1> QED
  BY <1>1, <1>2, PTL DEF Spec

\* Put and pruneEmptyDirs never leave a blob or a temporary file without its directory
\* (blob_fs.go:465-466).
THEOREM FsRooted ==
  Spec => []Rooted
<1>1. FsInv => Rooted
  <2> SUFFICES ASSUME FsInv
               PROVE  Rooted
    OBVIOUS
  <2>0. dir \subseteq Paths \ {<<>>} /\ \A k \in Keys : k \in Paths /\ k # <<>>
    BY BlobFacts DEF FsInv, FsTypeOK, DiskTypeOK
  <2>1. \A d \in dir : Exists(Parent(d))
    BY <2>0, ParentThere DEF FsInv, TreeInv
  <2>2. \A k \in Keys : IsFile(k) => Exists(Parent(k)) /\ k \notin dir
    BY <2>0, ParentThere DEF FsInv, TreeInv
  <2>3. \A p \in Procs : tmp[p] # None => Exists(tmp[p])
    BY DEF FsInv, TempInv
  <2> QED
    BY <2>1, <2>2, <2>3 DEF Rooted
<1> QED
  BY <1>1, FsInvariant, PTL
-----------------------------------------------------------------------------
(***************************************************************************)
(* FsStore implements KVStore: what each step of a call is to its client.  *)
(***************************************************************************)

\* The step of a call that gives the answer a from the state of the store.
LEMMA Looks ==
  ASSUME NEW p \in Procs, FsInv, NEW k, k = req[p].key,
         pc[p] \in {"get", "stat", "part"}, UNCHANGED <<file, req, since, met>>,
         ans' = [ans EXCEPT ![p] = openBlob(k)]
  PROVE  KV!Get(p) \/ KV!Fail(p)
<1>1. /\ ans[p] = None /\ req[p] # None /\ req[p].op \in {"get", "stat", "download"}
      /\ k \in Keys
  <2>1. CallInv(p) /\ FsTypeOK
    BY DEF FsInv
  <2>2. req[p].op \in {"get", "stat", "download"} /\ ans[p] = None
    BY <2>1 DEF CallInv, Working
  <2> QED
    BY <2>1, <2>2, RequestFacts DEF Walk
<1>2. openBlob(k) \in {PathConflict, IF file[k] = None THEN KV!NotFound ELSE KV!Found(file[k])}
  BY <1>1 DEF openBlob, Absent, IsFile
<1>3. PathConflict = KV!Failed("path conflict") /\ "path conflict" \in KV!Reasons
  BY DEF PathConflict, KV!Reasons
<1> QED
  BY <1>1, <1>2, <1>3 DEF KV!Get, KV!Fail, KV!Pending, KV!Answer

\* The step of a call that fails.
LEMMA Fails ==
  ASSUME NEW p \in Procs, FsInv, pc[p] \in Working, UNCHANGED <<file, req, since, met>>,
         ans' \in {[ans EXCEPT ![p] = NotExist], [ans EXCEPT ![p] = PathConflict],
                  [ans EXCEPT ![p] = KV!Failed("error")]}
  PROVE  KV!Fail(p)
<1>1. ans[p] = None /\ req[p] # None
  <2>1. CallInv(p) /\ FsTypeOK /\ pc[p] # "idle"
    BY DEF FsInv, Working
  <2> QED
    BY <2>1, RequestFacts DEF CallInv
<1>2. PICK why \in KV!Reasons : ans' = [ans EXCEPT ![p] = KV!Failed(why)]
  BY DEF NotExist, PathConflict, KV!Reasons
<1> QED
  BY <1>1, <1>2 DEF KV!Fail, KV!Answer

\* The preconditions that PutCheck checked are those of the contract.
LEMMA SamePrecondition ==
  ASSUME NEW p \in Procs, FsInv, pc[p] \in {"check", "rename"}
  PROVE  /\ Matches(req[p]) <=> KV!Holds(req[p])
         /\ KV!Pending(p, {"put"}) /\ req[p].key \in Keys
<1>1. CallInv(p) /\ FsTypeOK
  BY DEF FsInv
<1>2. req[p].op = "put" /\ req[p].key \in Keys /\ req[p] # None /\ ans[p] = None
  BY <1>1, RequestFacts DEF CallInv, Working, Walk
<1>3. IsFile(req[p].key) <=> file[req[p].key] # None
  BY <1>2 DEF IsFile
<1> QED
  BY <1>2, <1>3 DEF Matches, KV!Holds, KV!Pending, computeETag

\* The store as the calls know it does not change.
LEMMA TrackSame ==
  ASSUME FsInv, UNCHANGED <<file, since, met>>
  PROVE  KV!Track(file)
<1>1. since \in [Procs -> SUBSET Keys] /\ met \in [Procs -> SUBSET Keys]
  BY DEF FsInv, FsTypeOK, CallTypeOK
<1>2. \A p \in Procs : HistoryInv(p)
  BY DEF FsInv
<1>3. \A p \in Procs : since[p] = since[p] \cap KV!Present(file)
  BY <1>2 DEF HistoryInv
<1>4. \A p \in Procs : met[p] = IF KV!Walks(p) THEN met[p] \cup KV!Present(file) ELSE {}
  BY <1>2 DEF HistoryInv
<1>5. since = [p \in Procs |-> since[p] \cap KV!Present(file)]
  BY <1>1, <1>3
<1>6. met = [p \in Procs |-> IF KV!Walks(p) THEN met[p] \cup KV!Present(file) ELSE {}]
  BY <1>1, <1>4
<1> QED
  BY <1>5, <1>6 DEF KV!Track

\* A Put takes effect with its rename, and is refused by its check.
LEMMA PutSteps ==
  ASSUME NEW p \in Procs, FsInv, PutCheck(p) \/ PutRename(p)
  PROVE  KV!Put(p) \/ KV!PutRefused(p) \/ KV!Fail(p) \/ UNCHANGED KV!kvVars
<1> USE DEF Settle, At, fsVars, callVars
<1>1. CASE PutCheck(p)
  <2>1. pc[p] = "check" /\ UNCHANGED <<file, req, since, met>>
    BY <1>1 DEF PutCheck
  <2>2. \/ ans' = ans \/ ans' = [ans EXCEPT ![p] = PathConflict]
        \/ ~Matches(req[p]) /\ ans' = [ans EXCEPT ![p] = KV!PreconditionFailed]
    BY <1>1 DEF PutCheck
  <2>3. CASE ans' = ans
    BY <2>1, <2>3 DEF KV!kvVars
  <2>4. CASE ans' = [ans EXCEPT ![p] = PathConflict]
    BY <2>1, <2>4, Fails DEF Working
  <2>5. CASE ~Matches(req[p]) /\ ans' = [ans EXCEPT ![p] = KV!PreconditionFailed]
    BY <2>1, <2>5, SamePrecondition DEF KV!PutRefused, KV!Answer
  <2> QED
    BY <2>2, <2>3, <2>4, <2>5
<1>2. CASE PutRename(p)
  <2>1. pc[p] = "rename" /\ req' = req
    BY <1>2 DEF PutRename
  <2>2. \/ /\ file' = [file EXCEPT ![req[p].key] = req[p].body] /\ KV!Track(file')
           /\ ans' = [ans EXCEPT ![p] = KV!Ok]
        \/ UNCHANGED <<file, since, met>> /\ ans' = [ans EXCEPT ![p] = PathConflict]
    BY <1>2 DEF PutRename
  <2>3. CASE UNCHANGED <<file, since, met>> /\ ans' = [ans EXCEPT ![p] = PathConflict]
    BY <2>1, <2>3, Fails DEF Working
  <2>4. CASE /\ file' = [file EXCEPT ![req[p].key] = req[p].body] /\ KV!Track(file')
             /\ ans' = [ans EXCEPT ![p] = KV!Ok]
    <3>1. KV!Holds(req[p]) /\ KV!Pending(p, {"put"})
      BY <2>1, SamePrecondition DEF FsInv, EffectInv
    <3> QED
      BY <2>1, <2>4, <3>1 DEF KV!Put, KV!Answer
  <2> QED
    BY <2>2, <2>3, <2>4
<1> QED
  BY <1>1, <1>2

\* A Delete takes effect with its removal, and so does each removal of a DeletePrefix.
LEMMA RemoveSteps ==
  ASSUME NEW p \in Procs, FsInv, Remove(p)
  PROVE  \/ KV!Delete(p) \/ KV!Fail(p) \/ UNCHANGED KV!kvVars
         \/ \E k \in Keys : KV!DeleteOne(p, k)
<1> USE DEF Settle, At
<1> DEFINE k == cur[p]
           deleted == IF req[p].op = "delete" THEN KV!Ok ELSE None
<1>1. /\ pc[p] = "remove" /\ req' = req /\ CallInv(p) /\ EffectInv(p) /\ FsTypeOK
  BY DEF Remove, FsInv
<1>2. /\ req[p] # None /\ ans[p] = None /\ k \in Keys
      /\ req[p].op = "delete" => k = req[p].key
      /\ req[p].op = "deletePrefix" => KV!Under(req[p].prefix, k)
      /\ req[p].op \in {"delete", "deletePrefix"}
  BY <1>1, RequestFacts DEF CallInv, EffectInv, Working, Walk
<1>3. file \in [Keys -> Bodies \cup {None}] /\ ans \in [Procs -> Answers \cup {None}]
  BY <1>1 DEF FsTypeOK, DiskTypeOK, CallTypeOK
<1>4. \/ /\ file' = [file EXCEPT ![k] = None] /\ KV!Track(file')
         /\ ans' = [ans EXCEPT ![p] = deleted]
      \/ /\ ~IsFile(k) /\ UNCHANGED <<file, since, met>>
         /\ ans' = [ans EXCEPT ![p] = deleted]
      \/ UNCHANGED <<file, since, met>> /\ ans' = [ans EXCEPT ![p] = PathConflict]
  BY DEF Remove
<1>5. CASE UNCHANGED <<file, since, met>> /\ ans' = [ans EXCEPT ![p] = PathConflict]
  BY <1>1, <1>5, Fails DEF Working
<1>6. ans' = [ans EXCEPT ![p] = deleted] /\ req[p].op = "deletePrefix" => ans' = ans
  BY <1>2, <1>3
<1>7. CASE file' = [file EXCEPT ![k] = None] /\ KV!Track(file') /\ ans' = [ans EXCEPT ![p] = deleted]
  <2>1. CASE req[p].op = "delete"
    BY <1>1, <1>2, <1>7, <2>1 DEF KV!Delete, KV!Pending, KV!Answer
  <2>2. CASE req[p].op = "deletePrefix"
    BY <1>1, <1>2, <1>6, <1>7, <2>2 DEF KV!DeleteOne, KV!Pending
  <2> QED
    BY <1>2, <2>1, <2>2
<1>8. CASE ~IsFile(k) /\ UNCHANGED <<file, since, met>> /\ ans' = [ans EXCEPT ![p] = deleted]
  <2>1. file' = [file EXCEPT ![k] = None]
    BY <1>2, <1>3, <1>8 DEF IsFile
  <2>2. KV!Track(file')
    BY <1>8, TrackSame
  <2>3. CASE req[p].op = "delete"
    BY <1>1, <1>2, <1>8, <2>1, <2>2, <2>3 DEF KV!Delete, KV!Pending, KV!Answer
  <2>4. CASE req[p].op = "deletePrefix"
    BY <1>1, <1>6, <1>8, <2>4 DEF KV!kvVars
  <2> QED
    BY <1>2, <2>3, <2>4
<1> QED
  BY <1>4, <1>5, <1>7, <1>8

\* A List answers with what it walked; a DeletePrefix is done when nothing is left of it.
LEMMA WalkSteps ==
  ASSUME NEW p \in Procs, FsInv, WalkDir(p) \/ WalkDone(p) \/ DeleteNext(p)
  PROVE  KV!List(p) \/ KV!DeletePrefixDone(p) \/ KV!Fail(p) \/ UNCHANGED KV!kvVars
<1> USE DEF Settle, At, fsVars, callVars
<1>1. /\ FsTypeOK /\ CallInv(p) /\ WalkInv(p)
      /\ pc[p] \in {"walk", "next"} /\ UNCHANGED <<file, req, since, met>>
  BY DEF WalkDir, WalkDone, DeleteNext, FsInv
<1>2. ans[p] = None /\ req[p] # None /\ req[p].op \in Walk
  BY <1>1, RequestFacts DEF CallInv, Working, Walk
<1>3. /\ KV!Walks(p)
      /\ \A k \in keys[p] : k \in met[p] /\ KV!Under(req[p].prefix, k)
      /\ \A k \in since[p] : KV!Under(req[p].prefix, k) =>
           k \in keys[p] \/ (pc[p] = "walk" /\ Ahead(p, k))
  BY <1>1, <1>2 DEF WalkInv, KV!Walks, Walk
<1>4. CASE WalkDir(p)
  <2>1. ans' = ans \/ ans' = [ans EXCEPT ![p] = PathConflict]
    BY <1>4 DEF WalkDir
  <2> QED
    BY <1>1, <2>1, Fails DEF Working, KV!kvVars
<1>5. CASE WalkDone(p)
  <2>1. \A k \in since[p] : KV!Under(req[p].prefix, k) => k \in keys[p]
    BY <1>3, <1>5 DEF WalkDone, Ahead
  <2>2. CASE req[p].op = "list"
    <3>1. ans' = [ans EXCEPT ![p] = KV!Listed(keys[p])]
      BY <1>5, <2>2 DEF WalkDone
    <3>2. keys[p] \in SUBSET {k \in met[p] : KV!Under(req[p].prefix, k)}
      BY <1>3
    <3>3. {k \in since[p] : KV!Under(req[p].prefix, k)} \subseteq keys[p]
      BY <2>1
    <3> QED
      BY <1>1, <1>2, <2>2, <3>1, <3>2, <3>3 DEF KV!List, KV!Pending, KV!Answer
  <2>3. CASE req[p].op # "list"
    BY <1>1, <1>5, <2>3 DEF WalkDone, KV!kvVars
  <2> QED
    BY <2>2, <2>3
<1>6. CASE DeleteNext(p)
  <2>1. ans' = ans \/ (keys[p] = {} /\ ans' = [ans EXCEPT ![p] = KV!Ok])
    BY <1>6 DEF DeleteNext
  <2>2. pc[p] = "next" /\ req[p].op = "deletePrefix"
    BY <1>1, <1>6 DEF DeleteNext, CallInv
  <2> QED
    BY <1>1, <1>2, <1>3, <2>1, <2>2 DEF KV!DeletePrefixDone, KV!Pending, KV!Answer, KV!kvVars
<1> QED
  BY <1>4, <1>5, <1>6

\* The last range of a download delivers the object as it is then.
LEMMA RangeSteps ==
  ASSUME NEW p \in Procs, FsInv, NEW i, GetRange(p, i)
  PROVE  KV!Get(p) \/ KV!Fail(p) \/ UNCHANGED KV!kvVars
<1> USE DEF Settle, At, fsVars
<1>1. /\ FsTypeOK /\ CallInv(p) /\ DownloadInv(p)
      /\ pc[p] = "part" /\ UNCHANGED <<file, req, since, met>>
  BY DEF GetRange, FsInv
<1>2. CASE IsFile(req[p].key)
  <2>1. ans' = ans \/ ans' = [ans EXCEPT ![p] = KV!Found(file[req[p].key])]
    BY <1>1, <1>2, RangeArrives DEF GetRange
  <2> QED
    BY <1>1, <1>2, <2>1, Looks DEF openBlob, KV!kvVars
<1>3. CASE ~IsFile(req[p].key)
  <2>1. ans' = [ans EXCEPT ![p] = openBlob(req[p].key)]
    BY <1>3 DEF GetRange, openBlob
  <2> QED
    BY <1>1, <2>1, Looks
<1> QED
  BY <1>2, <1>3

\* Every step of the file system store is a step of the contract or none.
LEMMA StepRefines ==
  ASSUME FsInv, [Next]_vars
  PROVE  [KV!Next]_(KV!kvVars)
<1>1. CASE UNCHANGED vars
  BY <1>1 DEF vars, fsVars, KV!kvVars
<1>2. CASE Next
  <2>1. PICK p \in Procs : Acts(p)
    BY <1>2 DEF Next, Acts
  <2> USE DEF Settle, At, fsVars, callVars
  <2>2. CASE \E r \in Requests : Call(p, r)
    BY <2>2 DEF Call, KV!Next
  <2>3. CASE Return(p) \/ Die(p)
    BY <2>3 DEF Return, Die, KV!Next
  <2>4. CASE SystemError(p)
    <3>1. KV!Fail(p)
      BY <2>4, Fails DEF SystemError, Working
    <3> QED
      BY <3>1 DEF KV!Next
  <2>5. CASE Get(p) \/ Stat(p)
    <3>1. KV!Get(p) \/ KV!Fail(p)
      BY <2>5, Looks DEF Get, Stat
    <3> QED
      BY <3>1 DEF KV!Next
  <2>6. CASE MkdirAll(p) \/ createTemp(p)
    <3>1. /\ pc[p] \in Working /\ UNCHANGED <<file, req, since, met>>
          /\ ans' \in {ans, [ans EXCEPT ![p] = NotExist], [ans EXCEPT ![p] = PathConflict]}
      BY <2>6 DEF MkdirAll, createTemp, Working
    <3>2. KV!Fail(p) \/ UNCHANGED KV!kvVars
      BY <3>1, Fails DEF KV!kvVars
    <3> QED
      BY <3>2 DEF KV!Next
  <2>7. CASE withLock(p) \/ Unlock(p) \/ RemoveTemp(p) \/ pruneEmptyDirs(p)
    BY <2>7 DEF withLock, Unlock, RemoveTemp, pruneEmptyDirs, KV!kvVars
  <2>8. CASE PutCheck(p) \/ PutRename(p)
    BY <2>8, PutSteps DEF KV!Next
  <2>9. CASE Remove(p)
    BY <2>9, RemoveSteps DEF KV!Next
  <2>10. CASE WalkDir(p) \/ WalkDone(p) \/ DeleteNext(p)
    BY <2>10, WalkSteps DEF KV!Next
  <2>11. CASE \E i \in 0..Parts - 1 : GetRange(p, i)
    BY <2>11, RangeSteps DEF KV!Next
  <2> QED
    BY <2>1, <2>2, <2>3, <2>4, <2>5, <2>6, <2>7, <2>8, <2>9, <2>10, <2>11 DEF Acts, Step
<1> QED
  BY <1>1, <1>2

\* FileSystemBlobStore, and downloadParallel on top of it, implement the contract of blob.go:
\* Put takes effect in its rename, Delete in its removal, Get in its open, whatever else runs.
THEOREM FsLinearizable ==
  Spec => Linearizable
<1>1. Init => KV!Init
  BY FsAssumption DEF Init, KV!Init
<1>2. FsInv /\ [Next]_vars => [KV!Next]_(KV!kvVars)
  BY StepRefines
<1> QED
  BY <1>1, <1>2, FsInvariant, PTL DEF Spec, Linearizable, KV!Spec
=============================================================================
