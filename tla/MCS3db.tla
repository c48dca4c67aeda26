------------------------------- MODULE MCS3db -------------------------------
(***************************************************************************)
(* Instances of S3db for TLC.  The clients have roles, the rows are two    *)
(* counters "x" and "y" and, in a table without a PRIMARY KEY, "z".        *)
(***************************************************************************)
EXTENDS S3dbInv, S3dbRefinement, TLC

CONSTANTS Writers, Readers, Compactors, Collectors,   \* roles, subsets of Clients
          Opens, Updates, Compacts, Collects,         \* calls per client (bounds)
          Migrators, Latest,                          \* who knows migrations 1..Latest
          Size                                        \* a row holds 0..Size-1

MCVals == 0..Size - 1

Inc(db, r) == [db EXCEPT ![r] = (@ + 1) % Size]

\* "both" reads and writes two rows; "setX" and "setY" read the row they do
\* not write; "z" writes a PK-less row only; "mixed" one of each; "noop" none.
Run(t, db) ==
  CASE t = "incX" -> Inc(db, "x")
    [] t = "incY" -> Inc(db, "y")
    [] t = "both" -> Inc(Inc(db, "x"), "y")
    [] t = "setX" -> IF db["y"] = 0 THEN [db EXCEPT !["x"] = 1] ELSE db
    [] t = "setY" -> IF db["x"] = 0 THEN [db EXCEPT !["y"] = 1] ELSE db
    [] t = "z" -> Inc(db, "z")
    [] t = "mixed" -> Inc(Inc(db, "x"), "z")
    [] t = "noop" -> db

MCEffect == [t \in Txns |-> [db \in DB |-> Run(t, db)]]

\* A migration that shows if it ran twice.
MCUp == [v \in 1..Latest |-> [db \in DB |-> Inc(db, "y")]]

MCVersion == [c \in Clients |-> IF c \in Migrators THEN Latest ELSE 0]

Calls(c, op) ==
  CASE op = "open" -> Opens
    [] op = "view" -> IF c \in Readers THEN 1 ELSE 0
    [] op = "update" -> IF c \in Writers THEN Updates ELSE 0
    [] op = "compact" -> IF c \in Compactors THEN Compacts ELSE 0
    [] op = "gc" -> IF c \in Collectors THEN Collects ELSE 0

MCBudget == [c \in Clients |-> [op \in OpKinds |-> Calls(c, op)]]

\* Writers are interchangeable if they have no other role, or all know the same
\* migrations.
WriterSymmetry ==
  Permutations(Writers \ (Readers \cup Compactors \cup Collectors
                            \cup IF Writers \subseteq Migrators THEN {} ELSE Migrators))
=============================================================================
