-------------------------- MODULE ChangesetProofs --------------------------
(***************************************************************************)
(* What the commit protocol needs to know about changesets.                *)
(***************************************************************************)
EXTENDS Changeset, TLAPS

\* A changeset touches tracked rows only and holds two values for each.
LEMMA ChangesetElim ==
  ASSUME NEW cs \in Changeset
  PROVE  /\ DOMAIN cs \subseteq Tracked
         /\ \A r \in DOMAIN cs : cs[r].old \in Vals /\ cs[r].new \in Vals
<1>1. PICK S \in SUBSET Tracked : cs \in [S -> [old : Vals, new : Vals]]
  BY DEF Changeset
<1> QED
  BY <1>1

\* What capture records is a changeset.
LEMMA DiffType ==
  ASSUME NEW d \in DB, NEW e \in DB
  PROVE  Diff(d, e) \in Changeset
<1> DEFINE S == {x \in Tracked : d[x] # e[x]}
<1>1. S \in SUBSET Tracked
  OBVIOUS
<1>2. Diff(d, e) \in [S -> [old : Vals, new : Vals]]
  BY DEF Diff, DB, Tracked
<1> QED
  BY <1>1, <1>2 DEF Changeset

\* Applying a changeset to a database yields a database.
LEMMA PatchType ==
  ASSUME NEW d \in DB, NEW cs \in Changeset
  PROVE  Patch(d, cs) \in DB
BY ChangesetElim DEF Patch, DB

\* The changeset that capture records replays the transaction: it applies to
\* the state fn started from, changes every row it names, and yields, on the
\* tracked rows, the state fn left (session.go).
LEMMA DiffReplays ==
  ASSUME NEW d \in DB, NEW e \in DB
  PROVE  /\ \A r \in DOMAIN Diff(d, e) : Diff(d, e)[r].old # Diff(d, e)[r].new
         /\ Applies(d, Diff(d, e))
         /\ Agree(e, Patch(d, Diff(d, e)))
BY DEF Diff, Applies, Agree, Patch, Tracked, DB

\* Databases that agree are told apart by no changeset.
LEMMA AgreeApplies ==
  ASSUME NEW d \in DB, NEW e \in DB, NEW cs \in Changeset, Agree(d, e)
  PROVE  /\ Applies(d, cs) <=> Applies(e, cs)
         /\ Agree(Patch(d, cs), Patch(e, cs))
BY ChangesetElim DEF Applies, Agree, Patch, Tracked

\* A clean rebase is sound (commit.go:241-246).  base is the state before a
\* changeset theirs was committed, conn what our uncommitted changeset mine
\* made of it.  If theirs applies on top of conn, then mine still applies once
\* theirs is committed, and conn patched by theirs holds what that gives.
THEOREM RebaseSound ==
  ASSUME NEW base \in DB, NEW conn \in DB,
         NEW mine \in Changeset, NEW theirs \in Changeset,
         \A r \in DOMAIN mine : mine[r].old # mine[r].new,
         Applies(base, mine), Agree(conn, Patch(base, mine)),
         Applies(base, theirs), Applies(conn, theirs)
  PROVE  /\ DOMAIN mine \cap DOMAIN theirs = {}
         /\ Applies(Patch(base, theirs), mine)
         /\ Agree(Patch(conn, theirs), Patch(Patch(base, theirs), mine))
<1>1. DOMAIN mine \subseteq Tracked /\ DOMAIN theirs \subseteq Tracked
  BY ChangesetElim
<1>2. Tracked \subseteq Rows
  BY DEF Tracked
<1>3. ASSUME NEW r \in DOMAIN mine, r \in DOMAIN theirs PROVE FALSE
  <2>1. conn[r] = mine[r].new
    BY <1>1, <1>2 DEF Agree, Patch
  <2>2. base[r] = mine[r].old /\ base[r] = theirs[r].old /\ conn[r] = theirs[r].old
    BY <1>3 DEF Applies
  <2> QED
    BY <2>1, <2>2
<1>4. Applies(Patch(base, theirs), mine)
  BY <1>1, <1>2, <1>3 DEF Applies, Patch
<1>5. Agree(Patch(conn, theirs), Patch(Patch(base, theirs), mine))
  BY <1>1, <1>2, <1>3 DEF Agree, Patch
<1> QED
  BY <1>3, <1>4, <1>5
=============================================================================
