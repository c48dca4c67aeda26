----------------------------- MODULE MCFsStore -----------------------------
(***************************************************************************)
(* Instances of FsStore for TLC: a manifest, written with preconditions,   *)
(* and two snapshots in directories of their own under a common parent,    *)
(* whose path is a key as well.                                            *)
(***************************************************************************)
EXTENDS FsStoreInv

CONSTANTS Ops,      \* the operations that are called
          Busy      \* the processes that make two calls; the others make one (a bound)

manifestKey == <<"m">>
snapA == <<"s", "a", "1">>
snapB == <<"s", "b", "2">>
conflicting == <<"s">>

MCKeys == {manifestKey, snapA, snapB, conflicting}

Write(k, b, match, none) ==
  [op |-> "put", key |-> k, body |-> b, ifMatch |-> match, ifNoneMatch |-> none]

AllRequests ==
  {Write(manifestKey, <<2>>, <<1>>, FALSE), Write(manifestKey, <<3>>, <<1>>, FALSE),
   Write(snapA, <<1, 2, 3>>, None, FALSE), Write(snapB, <<4>>, None, FALSE),
   Write(conflicting, <<5>>, None, TRUE)}
  \cup [op : {"get", "stat"}, key : {manifestKey}]
  \cup [op : {"delete"}, key : {snapB}]
  \cup [op : {"list", "deletePrefix"}, prefix : {<<"s">>}]
  \cup [op : {"download"}, key : {snapA}, size : {3}]

MCRequests == {r \in AllRequests : r.op \in Ops}
MCStored == [k \in MCKeys |-> CASE k = manifestKey -> <<1>> [] k = snapB -> <<4>> [] OTHER -> None]
MCMaxCalls == [p \in Procs |-> IF p \in Busy THEN 2 ELSE 1]
=============================================================================
