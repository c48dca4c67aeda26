---------------------------- MODULE VersionedDB ----------------------------
(***************************************************************************)
(* What s3db promises to an application that calls Update: one database    *)
(* with a sequence number and a schema version, in which a transaction     *)
(* takes effect at one instant between the call and its answer, at most    *)
(* once, and on the contents that the transactions before it have left     *)
(* (DESIGN.md, "Conflict semantics").  There are no snapshots, logs or     *)
(* local files here; compaction does nothing at all.                       *)
(*                                                                         *)
(* Rows of tables without a PRIMARY KEY are promised nothing.              *)
(***************************************************************************)
EXTENDS Changeset, Naturals

CONSTANTS Clients, Txns, Effect, Up, NoTxn,
          Nothing    \* the contents before the database exists

VARIABLES contents, seq, schema,
          asked,     \* the transaction each client has called Update with, or NoTxn
          intact     \* nothing is promised any more once this is FALSE

vars == <<contents, seq, schema, asked, intact>>

Init ==
  /\ contents \in {Nothing, EmptyDB}
  /\ seq = 0 /\ schema = 0
  /\ asked = [c \in Clients |-> NoTxn]
  /\ intact = TRUE

Create ==
  /\ contents = Nothing /\ contents' = EmptyDB
  /\ UNCHANGED <<seq, schema, asked, intact>>

Ask(c, t) ==
  /\ asked[c] = NoTxn
  /\ asked' = [asked EXCEPT ![c] = t]
  /\ UNCHANGED <<contents, seq, schema, intact>>

\* Update returns without having changed anything, or the process dies.
Abandon(c) ==
  /\ asked[c] # NoTxn
  /\ asked' = [asked EXCEPT ![c] = NoTxn]
  /\ UNCHANGED <<contents, seq, schema, intact>>

\* The database holds d from now on.
Becomes(d) ==
  /\ contents # Nothing
  /\ intact' => intact /\ Agree(contents', d)

Commit(c) ==
  /\ asked[c] # NoTxn
  /\ Becomes(Effect[asked[c]][contents])
  /\ seq' = seq + 1
  /\ asked' = [asked EXCEPT ![c] = NoTxn]
  /\ UNCHANGED schema

Migrate ==
  /\ schema + 1 \in DOMAIN Up
  /\ Becomes(Up[schema + 1][contents])
  /\ schema' = schema + 1
  /\ UNCHANGED <<seq, asked>>

\* Compaction: PK-less rows may differ in the new snapshot.
Fold == Becomes(contents) /\ UNCHANGED <<seq, schema, asked>>

Next ==
  \/ Create \/ Migrate \/ Fold
  \/ \E c \in Clients : Commit(c) \/ Abandon(c) \/ \E t \in Txns : Ask(c, t)

Spec == Init /\ [][Next]_vars
=============================================================================
