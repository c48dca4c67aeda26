------------------------------ MODULE KVStore ------------------------------
(***************************************************************************)
(* What blob.go promises of a store, for clients whose calls overlap: Get, *)
(* Stat, Put and Delete take effect at one instant between the call and    *)
(* its answer.  List and DeletePrefix do not: they are only sure to deal   *)
(* with the keys that were there all the time, and to touch no key that    *)
(* never was.  Any call may also fail, without effect on the keys it had   *)
(* not dealt with.                                                         *)
(*                                                                         *)
(* A key is a path, the sequence of its components.  The ETag of a blob is *)
(* its body: an MD5 without collisions.                                    *)
(***************************************************************************)
EXTENDS Naturals, Sequences

CONSTANTS Procs, Keys, Requests, None

VARIABLES blob,    \* the body under each key, or None
          req,     \* the call of each process, or None
          ans,     \* its answer, or None as long as it has not taken effect
          since,   \* the keys that were present ever since the call
          met      \* the keys that were present at some time since the call

kvVars == <<blob, req, ans, since, met>>

Ok == [is |-> "ok"]
NotFound == [is |-> "not found"]
PreconditionFailed == [is |-> "precondition failed"]
Found(b) == [is |-> "found", body |-> b]
Listed(ks) == [is |-> "listed", keys |-> ks]
Failed(why) == [is |-> "failed", why |-> why]
Reasons == {"error", "not exist", "path conflict"}

Present(b) == {k \in Keys : b[k] # None}
Under(prefix, k) == Len(prefix) <= Len(k) /\ SubSeq(k, 1, Len(prefix)) = prefix

Init ==
  /\ DOMAIN blob = Keys
  /\ req = [p \in Procs |-> None]
  /\ ans = [p \in Procs |-> None]
  /\ since = [p \in Procs |-> {}]
  /\ met = [p \in Procs |-> {}]

Pending(p, ops) == req[p] # None /\ req[p].op \in ops /\ ans[p] = None
Walks(p) == req[p] # None /\ req[p].op \in {"list", "deletePrefix"}

\* The store changes to b: the calls under way take notice.
Track(b) ==
  /\ since' = [p \in Procs |-> since[p] \cap Present(b)]
  /\ met' = [p \in Procs |-> IF Walks(p) THEN met[p] \cup Present(b) ELSE {}]

Answer(p, a) == ans' = [ans EXCEPT ![p] = a]

\* A process calls the store.
Call(p, r) ==
  /\ req[p] = None
  /\ req' = [req EXCEPT ![p] = r]
  /\ LET seen == IF r.op \in {"list", "deletePrefix"} THEN Present(blob) ELSE {}
     IN since' = [since EXCEPT ![p] = seen] /\ met' = [met EXCEPT ![p] = seen]
  /\ UNCHANGED <<blob, ans>>

\* The precondition of a Put.
Holds(r) ==
  /\ r.ifNoneMatch => blob[r.key] = None
  /\ r.ifMatch # None => blob[r.key] = r.ifMatch

Put(p) ==
  /\ Pending(p, {"put"}) /\ Holds(req[p])
  /\ blob' = [blob EXCEPT ![req[p].key] = req[p].body]
  /\ Track(blob')
  /\ Answer(p, Ok) /\ UNCHANGED req

PutRefused(p) ==
  /\ Pending(p, {"put"}) /\ ~Holds(req[p])
  /\ Answer(p, PreconditionFailed) /\ UNCHANGED <<blob, req, since, met>>

\* Also Stat, and a download in parallel ranges.
Get(p) ==
  /\ Pending(p, {"get", "stat", "download"})
  /\ LET b == blob[req[p].key] IN Answer(p, IF b = None THEN NotFound ELSE Found(b))
  /\ UNCHANGED <<blob, req, since, met>>

Delete(p) ==
  /\ Pending(p, {"delete"})
  /\ blob' = [blob EXCEPT ![req[p].key] = None]
  /\ Track(blob')
  /\ Answer(p, Ok) /\ UNCHANGED req

DeleteOne(p, k) ==
  /\ Pending(p, {"deletePrefix"}) /\ Under(req[p].prefix, k)
  /\ blob' = [blob EXCEPT ![k] = None]
  /\ Track(blob')
  /\ UNCHANGED <<req, ans>>

DeletePrefixDone(p) ==
  /\ Pending(p, {"deletePrefix"})
  /\ \A k \in since[p] : ~Under(req[p].prefix, k)
  /\ Answer(p, Ok) /\ UNCHANGED <<blob, req, since, met>>

List(p) ==
  /\ Pending(p, {"list"})
  /\ \E ks \in SUBSET {k \in met[p] : Under(req[p].prefix, k)} :
       /\ {k \in since[p] : Under(req[p].prefix, k)} \subseteq ks
       /\ Answer(p, Listed(ks))
  /\ UNCHANGED <<blob, req, since, met>>

Fail(p) ==
  /\ req[p] # None /\ ans[p] = None
  /\ \E why \in Reasons : Answer(p, Failed(why))
  /\ UNCHANGED <<blob, req, since, met>>

\* The call returns, or its process dies.
Leave(p) ==
  /\ req[p] # None
  /\ req' = [req EXCEPT ![p] = None]
  /\ Answer(p, None)
  /\ since' = [since EXCEPT ![p] = {}] /\ met' = [met EXCEPT ![p] = {}]
  /\ UNCHANGED blob

Next ==
  \E p \in Procs :
    \/ \E r \in Requests : Call(p, r)
    \/ Put(p) \/ PutRefused(p) \/ Get(p) \/ Delete(p) \/ DeletePrefixDone(p) \/ List(p)
    \/ \E k \in Keys : DeleteOne(p, k)
    \/ Fail(p) \/ Leave(p)

Spec == Init /\ [][Next]_kvVars
=============================================================================
