----------------------------- MODULE Changeset -----------------------------
(***************************************************************************)
(* What s3db relies on of SQLite's session extension: recording what a     *)
(* transaction did to the rows of a database (session.go) and applying     *)
(* such a record to another database, all or nothing (apply.go).           *)
(*                                                                         *)
(* A row is the unit whose before-image SQLite compares: a whole row for   *)
(* an INSERT or a DELETE, the modified columns for an UPDATE.  A missing   *)
(* row has the value Absent, so that all three are changes of value.       *)
(***************************************************************************)
CONSTANTS Rows,    \* the rows of the database, of all tables
          NoPK,    \* the rows of tables without a PRIMARY KEY
          Vals,    \* what a row may hold
          Absent   \* the value of a row that does not exist

ASSUME RowsAssumption == NoPK \subseteq Rows /\ Absent \in Vals

DB == [Rows -> Vals]

\* A database without tables has no row (uploadEmptySQLite).
EmptyDB == [r \in Rows |-> Absent]

\* The rows a session records: it silently skips PK-less tables.
Tracked == Rows \ NoPK

\* A changeset maps every row it touches to its before- and after-image.
Changeset == UNION {[S -> [old : Vals, new : Vals]] : S \in SUBSET Tracked}

NoChange == [r \in {} |-> [old |-> Absent, new |-> Absent]]

\* Two databases that replicate to the same contents.
Agree(d, e) == \A r \in Tracked : d[r] = e[r]

\* A faulty Diff that forgets the before-images, as a patchset would.
DiffWithoutOld(before, after) ==
  [r \in {x \in Tracked : before[x] # after[x]} |->
     [old |-> Absent, new |-> after[r]]]

\* WriteChangeset: the net change of each tracked row; no-op updates vanish.
Diff(before, after) ==
  [r \in {x \in Tracked : before[x] # after[x]} |->
     [old |-> before[r], new |-> after[r]]]

\* A conflict test that ignores the before-image: conflictPolicy OMIT.
NeverConflicts(db, cs) == TRUE

\* No row calls the conflict handler: every before-image still holds.
Applies(db, cs) == \A r \in DOMAIN cs : db[r] = cs[r].old

\* The effect of applyChangeset when it does not abort.
Patch(db, cs) ==
  [r \in Rows |-> IF r \in DOMAIN cs THEN cs[r].new ELSE db[r]]
=============================================================================
