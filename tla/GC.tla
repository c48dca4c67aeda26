--------------------------------- MODULE GC ---------------------------------
(***************************************************************************)
(* DB.GC (gc.go): delete the epochs and the snapshots that the manifest it *)
(* loaded does not refer to.                                               *)
(***************************************************************************)
EXTENDS Commit

VARIABLE todo   \* the epochs, then the snapshots, this GC has still to look at

GCTypeOK == todo \in [Clients -> SUBSET Nat]

GCInit == todo = [c \in Clients |-> {}]

\* A GC that trusts the manifest of the last operation.
GCStartCached(c) ==
  Start(c, "gc", "idle", "gc", "gc") /\ UNCHANGED <<updateVars, todo>>

GCStart(c) ==
  Start(c, "gc", "idle", "refresh", "gc") /\ UNCHANGED <<updateVars, todo>>

\* Everything of the handle but pc and todo.
gcFrame == <<connVars, ret, attempt, snapKey, schemaVer, left, began, updateVars>>

\* An age test that any snapshot passes.
anyAge(k) == k \in snapshots

\* The epoch sweep starts from the age of the current snapshot; without an
\* answer from Stat it is skipped.
oldEnough(k) == k \in snapshots \ young

GCStat(c) ==
  /\ At(c, "gc")
  /\ \/ (Grace => oldEnough(epoch(cm[c]))) /\ Goto(c, "gclist")
     \/ /\ Grace /\ (~oldEnough(epoch(cm[c])) \/ "error" \in Faults)
        /\ Goto(c, "gcsnaps")
  /\ UNCHANGED <<storeVars, todo, gcFrame>>

liveChangesets(m) == {m.log[i].key : i \in DOMAIN m.log}

\* groupByEpoch: the keys listed under one epoch.
groupByEpoch(k) == {x \in changesets : x.epoch = k}

\* The epochs, other than the current one, without a live changeset.
deletableEpochs(m) ==
  {k \in {x.epoch : x \in changesets} :
     k # epoch(m) /\ groupByEpoch(k) \cap liveChangesets(m) = {}}

GCList(c) ==
  /\ At(c, "gclist")
  /\ todo' = [todo EXCEPT ![c] = deletableEpochs(cm[c])]
  /\ Goto(c, "gcsweep")
  /\ UNCHANGED <<storeVars, gcFrame>>

\* DeletePrefix of one epoch: whatever it holds by now.
GCSweep(c) ==
  /\ At(c, "gcsweep")
  /\ \E k \in todo[c] :
       /\ DeleteChangesets(groupByEpoch(k))
       /\ todo' = [todo EXCEPT ![c] = @ \ {k}]
  /\ UNCHANGED <<pc, gcFrame>>

GCSwept(c) ==
  /\ At(c, "gcsweep") /\ todo[c] = {}
  /\ Goto(c, "gcsnaps")
  /\ UNCHANGED <<storeVars, todo, gcFrame>>

GCSnaps(c) ==
  /\ At(c, "gcsnaps")
  /\ todo' = [todo EXCEPT ![c] = snapshots]
  /\ Goto(c, "gcdelete")
  /\ UNCHANGED <<storeVars, gcFrame>>

\* Keeps no snapshot but the young ones.
expiredOrCurrent(c, k) == Grace => oldEnough(k)

\* A listed snapshot that is not the current one and, with a grace period,
\* is still there and old.
expired(c, k) == k # epoch(cm[c]) /\ (Grace => oldEnough(k))

\* A loop over the snapshots that never moves on.
GCDeleteForever(c) ==
  /\ At(c, "gcdelete")
  /\ \E k \in todo[c] :
       \/ expired(c, k) /\ DeleteSnapshot(k)
       \/ ~expired(c, k) /\ UNCHANGED storeVars
  /\ UNCHANGED <<pc, todo, gcFrame>>

GCDelete(c) ==
  /\ At(c, "gcdelete")
  /\ \E k \in todo[c] :
       /\ \/ expired(c, k) /\ DeleteSnapshot(k)
          \/ (~expired(c, k) \/ (Grace /\ "error" \in Faults)) /\ UNCHANGED storeVars
       /\ todo' = [todo EXCEPT ![c] = @ \ {k}]
  /\ UNCHANGED <<pc, gcFrame>>

GCDone(c) ==
  /\ At(c, "gcdelete") /\ todo[c] = {}
  /\ Return(c)
  /\ UNCHANGED <<storeVars, todo, updateVars>>

\* A grace period passes while no operation is under way: operations are
\* much shorter than it.
Elapse ==
  /\ young # {}
  /\ \A c \in Clients : pc[c] \in {"idle", "closed"}
  /\ young' = {}
  /\ UNCHANGED <<manifest, snapshots, changesets, csBody, hist, base, clock, sound, pc, todo,
                 gcFrame>>

GCStep(c) ==
  GCStat(c) \/ GCList(c) \/ GCSweep(c) \/ GCSwept(c) \/ GCSnaps(c) \/ GCDelete(c) \/ GCDone(c)
=============================================================================
