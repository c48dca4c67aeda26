# A verification project for s3db

s3db keeps a SQLite database in an object store. One small object,
`manifest.json`, names a full snapshot and the ordered log of changesets on top
of it, and is replaced by compare-and-swap (`If-Match` on its ETag). Every
client holds a local SQLite file, brings it up to date from the manifest, and
commits by uploading a changeset and swapping in a manifest with one more log
entry. There is no server and no lock: everything rests on the CAS and on what
each client does when it loses one. This directory models that protocol in
TLA+, checks it with TLC on small instances, and proves its safety with TLAPS for
every instance, but for garbage collection and the file system store.

## Inventory

| part (source) | state | operations | what makes it correct |
|---|---|---|---|
| changesets (`session.go`, `apply.go`) | none | `capture`, `applyChangeset` | a changeset replays the transaction; a patch is all or nothing |
| manifest (`manifest.go`, `internal/etag`) | none | `appendLog`, `withSnapshot`, `validate`, `epoch` | consecutive log, one epoch per snapshot |
| store (`blob.go`, `blob_mem.go`) | objects, ETags, ages | `Get`, `Put` with a condition, `Stat`, `List`, `Delete`, `DeletePrefix` | atomic calls, CAS |
| handle (`s3db.go`) | `commitState`: connection, `localSeq`, `snapshotKey`, manifest, ETag | `Open`, `bootstrap`, `View`, `Close` | a read sees every finished commit; no use of a closed connection |
| sync (`commit.go`, `sync.go`) | the local file | `refreshManifest`, `syncToManifest`, `downloadSnapshot`, `applyLog` | the file holds what `localSeq` says, after every failure |
| commit loop (`commit.go`) | SAVEPOINT, changeset key, orphan | `doUpdate`, `rollbackAndResync` | the log replays; each commit is what its function makes of the state before it |
| compaction (`compact.go`) | uploaded snapshot | `Compact`, automatic compaction | never loses a commit |
| garbage collection (`gc.go`) | lists of epochs and snapshots | `GC` | deletes nothing that the manifest, or a reader under way, needs |
| migrations (`migrate.go`) | `lastAttemptedVer`, the migrated file | `runMigrations`, `applyMigration` | each migration runs once, on committed contents |
| parallel download (`sync.go`) | ranges under way | `downloadParallel` | every byte written once |
| import and export (`pullpush.go`, `cmd/s3db/main.go`) | the user's file and its sidecar `.seq` | `Init`, `Pull`, `Push` and the commands around them | a pull is the database of its manifest; a checked push discards nothing its user has not seen |
| file system store (`blob_fs.go`) | files, directories, a lock, temporary files | the store's calls | each call is atomic for the others, across processes and deaths |
| S3 store (`blob_s3.go`), `examples/` | none | wrappers | not modelled |

The clients, and the users of the command line tool, interact only through the
store. A method of a handle holds
`db.mu` from beginning to end, so one operation of a handle is under way at a
time; a handle calls the store once or more per operation, and the calls of
different handles interleave freely. What is hard: the order of these calls;
a CAS lost at every possible place; calls that fail, or take effect and are
reported as failed; processes that die between an upload and its CAS; epochs
that change under a writer, a reader or a collector; and a local file that a
failed operation leaves half-way. `PROJECT.json` lists these hazards line by
line.

## Modules

| module | models | extends |
|---|---|---|
| `Changeset` | rows, databases, `Diff` (capture), `Applies` and `Patch` (applyChangeset) | - |
| `Manifest` | the manifest and its operations | - |
| `BlobStore` | the bucket under one prefix | `Changeset`, `Manifest` |
| `Client` | a handle: Open, bootstrap, View, Close, the sync, ways to fail | `BlobStore` |
| `Commit` | Update and doUpdate | `Client` |
| `Compact`, `GC`, `Migrate` | these operations | `Commit` |
| `S3db` | the whole system, its fairness, its properties | `Compact`, `GC`, `Migrate` |
| `S3dbInv` | the inductive invariants; what an application has to keep to | `S3db` |
| `VersionedDB` | abstract: one database with a sequence number, to which each Update happens at one instant | `Changeset` |
| `S3dbRefinement` | `S3db` as an implementation of `VersionedDB` | `S3db` |
| `PullPush` | users with files, Init, Pull, Push, the commands, beside the handles | `S3db` |
| `PullPushInv` | the inductive invariant with users | `S3dbInv`, `PullPush` |
| `KVStore` | abstract: the contract of `blob.go` for overlapping calls | - |
| `Ranges` | the arithmetic of downloadParallel | - |
| `FsStore` | the file system store, one system call per step, and a parallel download on it | `Ranges`, instantiates `KVStore` |
| `FsStoreInv` | its inductive invariant | `FsStore` |
| `ChangesetProofs` | theorems about the operators | `Changeset` |
| `StructProofs`, `DataProofs`, `FlowProofs`, `RefinementProofs` | theorems about handles, each module on top of the one before | `S3dbInv`; the last one `S3dbRefinement` too |
| `GCProofs` | theorems about garbage collection | `FlowProofs` |
| `PullPushProofs` | theorems about handles and users | `RefinementProofs`, `PullPushInv` |
| `FsStoreProofs` | theorems about the file system store and the parallel download | `FsStoreInv` |
| `MCS3db` | instances of S3db for TLC: roles, transactions, migrations, budgets | `S3dbInv`, `S3dbRefinement` |
| `MCDisciplined` | those whose transactions and migrations keep to the hypotheses of the theorems | `MCS3db` |
| `MCPullPush`, `MCFsStore` | instances of PullPush and FsStore for TLC | `MCS3db`, `PullPushInv`; `FsStoreInv` |

`FsStore` is not composed with `S3db`: `S3db` uses the store through atomic calls,
and that `FsStore` implements `KVStore` is what makes this legitimate. `KVStore`
promises less than `BlobStore` uses in one respect, List and DeletePrefix; GC
calls them for keys of closed epochs and relies on nothing else.

### State and actions

`pc[c]` says where the operation of client `c` is; each label stands for the
next store call (or local computation) of the Go method, so an action is what
happens from one store call to the next. `ret[c]` is where a sync returns to.
`conn`, `localSeq`, `snapshotKey`, `cm` are the fields of `st`; `st.etag` is the
ETag of `st.manifest` wherever the code sets either, so it is derived from `cm`.
`saved` is what a ROLLBACK of the open SAVEPOINT restores. `csKey`, `orphan`,
`m2`, `reb` are the locals of doUpdate, `todo` those of GC, `lastVer` that of
runMigrations.

The path of an Update: `refresh` (load manifest, check schema) - `download`,
`fetch`, `apply` as needed - `capture` (SAVEPOINT, run fn, draw a key) -
`unorphan` - `upload` - `cas`; after a 412 `reload` - `rebase` entry by entry -
`cas` again, or rollback, sync and `capture` again; `exhausted` at the end.

**Users** (`PullPush`). `upc[u]` is where the command of user `u` is, again one
label per store call; `file` and `sidecar` are on the user's disk and outlive a
command, the rest are locals of the command. `compact` and `gc` on the command
line are handles in `Admin` (WithSchemaUnchecked), `status` only reads. `seen`
and `tracked` are history: the state of the database that the file started from,
and whether the sidecar was written for it.

**Processes** (`FsStore`). `file` maps the path of a key to its contents, `dir` is
the set of directories, `tmp` and `litter` say where temporary files of running and
of dead processes lie, `lock` who holds the flock. A Put is `mkdir` (one directory
per step) - `temp` - `lock` - `check` - `rename` - `unlock` and, if it failed,
`untemp`; a Delete `lock` - `remove` - `prune` (one directory per step) - `unlock`;
List and DeletePrefix `walk` one directory per step, in any order, and
DeletePrefix then deletes key by key. Renaming, removing and opening are atomic;
rmdir removes only an empty directory; these are the operating system's and marked
external. Hashing the body and the rest of a Get happen on an open file, which
does not change, and are part of the open.

### Refinements

`S3dbRefinement` maps `contents` to what the snapshot and the log of the current
manifest amount to, `asked` to the function of the Update under way. Uploads,
lost CAS attempts, rebases, rollbacks, syncs and View are stuttering steps; a CAS
that succeeds is Commit, whoever it is reported to; compaction is Fold, which
changes nothing. After a step that finding 1 spoils (`sound` is FALSE) nothing is
promised. With `retry412` the refinement fails, which is finding 2 seen from
above: the Update commits, conflicts with itself, and commits again.

`FsStore` implements `KVStore` with `blob <- file`: a Put takes effect in the
rename, a Delete in the removal, a Get in the open; the answer is settled (`ans`)
at that step. For the calls that are not atomic `KVStore` keeps, per call, the keys
present ever since it began (`since`: List must return them, DeletePrefix delete
them) and those present at some time (`met`: List may return no other).

### Abstractions

* A row is the unit whose before-image SQLite compares, with one value; an
  absent row has the value `Absent`. Rows of tables without a PRIMARY KEY
  (`NoPK`) can be written, and are not recorded. A transaction is a function from
  databases to databases (`Effect`), and so is a migration (`Up`).
* Keys hold UUIDs in the code: here they are numbers drawn in order. ETags are
  equal only for equal manifests. Sizes, format versions and JSON are left out.
* The bytes of a blob never change under a key, so `csBody` and `hist` keep them
  for ever and the sets `changesets` and `snapshots` say which keys are present.
  `hist[k]` also keeps, as a history variable, the contents after each commit on
  top of snapshot `k`; `base[k]` the sequence number and schema it was built for.
* The concurrent fetches of applyLog are one step: a deleted key never returns,
  so that there is an instant at which all answers are the same.
* Ages are reduced to `young`, the snapshots written less than a grace period
  ago. `Elapse` lets a grace period pass only while no operation is under way:
  an operation is assumed to be shorter than the grace period, which is what the
  option is for.
* A blob upload that takes effect and reports failure equals an upload followed
  by the failure of the next call; a cancelled context, an error of `fn` or of
  `Up`, and a backoff that is cut short equal a failed call: all are
  `StoreError`. Only the manifest Put has lost answers of its own (`...Phantom`,
  and the `retry412` disjuncts, where the S3 SDK repeats a Put that took effect).
* The error return of `validate` in putManifest is not an action: it is never
  taken (`PutNeverInvalid`, proved).
* Not modelled: failures of the local disk, use of a handle after Close, two
  handles sharing one local path (documented as a caller error).

### History variables

`stale` holds the clients that rolled back a SAVEPOINT inside which `localSeq`
had advanced (`commit.go:269`; finding 1 below); `sound` is FALSE once one of
them replaced the manifest. Several properties hold only while `sound`; the
violation runs show that the unconditional versions fail. `began` and `clock`
record when an operation started.

## Runs

The rows are the counters `x` and `y` modulo 3 (so that a second application of
anything shows) and, without a PRIMARY KEY, `z`. A cfg assigns roles (Writers,
Readers, Compactors, Collectors, Migrators) and calls per role; `Warm` clients start
with an open handle on an empty database.

| run | instance | checks | states |
|---|---|---|---|
| `commit` | 2 writers, 2 updates each, 3 attempts, automatic compaction at 2 entries; 1 reader | LogReplays, LocalMatchesReplay, ConflictNeedsContention, OrphanNotLive, ViewFresh, LogInEpoch, ImplementsVersionedDB | 1.1 M |
| `faults` (`MCDisciplined`) | 2 cold writers that know a migration and compact at 1 entry, PK-less rows, all faults | TypeOK, ConnOpen, PutNeverInvalid, LogReplays, SeqSteps, SoundSnapshotExact | 513 k |
| `live` (`MCDisciplined`) | writer of the old schema, and a client that migrates twice, compacts, and collects twice; grace period; lost answers; fairness | IInv, BlobInv, BlobsPresent, GraceKeepsChangesets, LocalMatchesReplay, SoundSnapshotExact, OperationsEnd | 88 k |
| `cli` (`MCPullPush`) | a user with 2 commands out of all 8, a cold writer, an administrator that compacts and collects; errors and lost answers | UserTypeOK, LocalMatchesReplay, PulledMatchesReplay, LogReplays, PushKeepsCommits, SeqSteps, CliInv | 558 k |
| `fs` (`MCFsStore`) | 2 processes, one with 2 calls out of all operations; errors, a death; fairness | Rooted, FsInv, Linearizable, CallsEnd | 335 k |

Bounds: two clients are enough for every pairwise race (a lost CAS, a rebase, a
bootstrap race, a compaction under a writer, two migrators in `faults`, a
migrator and a writer in `live`); two updates per client make a second operation start from
the state a first one left; two or three attempts reach a second loss and
exhaustion. A process that died and starts again has only the store to start from:
in `faults` that is the other client, which may open at any time. In `cli` two
commands give every pair (an edit and a forced push, a pull and a push, a pull that
fails and another); the third and more are in `push`. In `fs` the keys are a
manifest, two snapshots in directories of their own under a common parent, so that a
Delete prunes two levels while a Put makes them, and that parent's path itself as a
key; two tries of createTemp stand for ten; a download of three bytes in two parts
has a remainder. `Budget`, `MaxCommands` and `MaxCalls` bound calls, hence sequence
numbers, keys and time. CHECK_DEADLOCK is FALSE because applications may stop
calling. The writers of `faults` and the users of `push` are symmetric.

Fairness: weak fairness of `Step(c)` in `live` and `Step(p)` in `fs`, i.e. the
process of a client is scheduled, the store answers each call in the end, and who
waits for the lock polls it. Nothing is assumed about calls, failures, deaths or
`Elapse`. The code justifies it: every method is sequential Go code that waits
only for the store, or in the store for the lock, and each wait ends with an answer
or an error; the lock is polled every 5 ms and never held while another one is
awaited.

### Disagreements between code and documentation

| run | what it shows |
|---|---|
| `lostlog` | 1. `localSeq` is advanced by a clean rebase inside the SAVEPOINT (`commit.go:269`); when the attempts run out the ROLLBACK undoes the rebased changesets but not `localSeq`. The next Update commits a changeset that does not replay. (A Compact of the same handle loses the commit it skipped: this is why SoundSnapshotExact is conditional.) |
| `phantom412` | 2. A Put that took effect and is answered with 412 by the SDK's retry: doUpdate deletes its own committed changeset as an orphan. |
| `gcrace` | 3. GC, a compaction and a commit: GC deletes the new epoch, which its older manifest does not know. Without an overlap of this kind BlobsPresent holds: checked in `live`, where one handle compacts, migrates and collects, and proved (GCKeepsBlobs). |
| `schema` | 4. After a 412 the schema version is not checked again: a writer of the old schema commits to the migrated database. |
| `writeskew` | 5. A clean rebase does not look at what a transaction read: write skew is possible, the isolation is snapshot isolation. (`commit` checks ImplementsVersionedDB, which is stronger, for transactions that read only what they write.) |
| `grace` | 6. The grace period is compared with the age of the snapshot, not with the time since it was replaced. |
| `push` | 7. Push does not advance Seq, so that `expectedSeq` does not notice another Push: of two users who pulled at the same Seq the second one to push discards what the first one pushed. With a migration in place of the first push the same happens, and the old contents come back under the new schema version. |

Four more observations from the same models, for which there is no run:

* A pull that fails in applyLog has replaced the file and not the sidecar
  (`pullpush.go:110`, `main.go:234`). If the sidecar of an earlier pull still
  has the current Seq, a push passes the check and discards the commits of the log.
  PushKeepsCommits is therefore stated for a file whose sidecar was written for it
  (`tracked`).
* `push -create` without a sidecar expects Seq 0; the comment at `main.go:284-286`
  says that Push "will fail with seq mismatch" if the database exists, but a database
  at Seq 0 is replaced.
* `blob_fs.go:464` says that retrying in createTemp makes the race with pruning
  "invisible to callers". MkdirAll makes one directory after the other, and a Delete
  that prunes the first before the second is made lets it, and the Put, fail with
  "not exist" (key two levels deep). The contract allows a call to fail.
* KVStore's Put is all or nothing, also when it fails. S3 does not promise that
  (`phantom`), the file system store does.

One remark in the docs turned out to be moot: `gc.go:15-16` and `DESIGN.md:115`
speak of stragglers, changesets of a closed epoch in the current log.
LogInEpoch (checked and proved) says there are none.

## Proofs

`ChangesetProofs` proves, for all databases and changesets, that what capture
records replays the transaction (`DiffReplays`), that databases equal on the
tracked rows are told apart by no changeset (`AgreeApplies`), and
**RebaseSound**: if another writer's changeset applies on top of ours, ours
applies after theirs, and both orders give the same contents. This is the claim
of the comment at `commit.go:240-245`. It needs that every row of our changeset
really changes, which the session extension guarantees by leaving no-op updates
out.

`StructProofs` proves **TypedInvariant**: `Typed = TypeOK /\ StructInv` is an
invariant of `Spec`, for any number of clients, rows, values, transactions,
migrations and retries, any set of faults and any grace option. From it follow
**TypeCorrect** (`[]TypeOK`), **ConnAlwaysOpen** (`[]ConnOpen`), **NoStraggler**
(`[]LogInEpoch`) and **PutsAreValid** (`[]PutNeverInvalid`).

None of these is inductive by itself. `StructInv` (module `S3dbInv`) adds

* `StoreInv`: the manifest in the bucket is `Known` (snapshot key drawn, schema
  and sequence number those of the snapshot, log consecutive and in its epoch)
  and is the newest of its epoch;
* `FlowInv`: which continuation, connection, SAVEPOINT and transaction go with
  which label;
* `PositionInv`: the manifests a client holds are `Known`, its file is between
  the snapshot and the end of the log of `cm`, its changeset is in that epoch;
* `SnapInv`: an uploaded snapshot that waits for its CAS belongs to one client
  and to no manifest.

`Known` is what survives the steps of others: histories only grow, so a manifest
once put stays known. That is lemma `Frame`, which reduces each step to the
client that takes it; then there is one lemma per action. The assumptions are the
ASSUMEs of the modules (sets where the code has types, `NoConn` and `NoManifest`
distinct from values, migrations defined for every known version).

### Contents (`DataProofs`)

First the action property **ManifestSteps** (`Spec => SeqSteps`): a
write to the manifest appends one entry or folds the whole log into a snapshot,
because every Put but bootstrap's matches the ETag of the manifest it was built
from (`IfMatchFacts`), and bootstrap's needs that there is none.

**ContentsInvariant**: `Contents = Typed /\ DataInv /\ OpenInv` is an invariant of
`Spec`. From it follow **LogAlwaysReplays** (`[]LogReplays`) and
**LocalAlwaysMatches** (`[]LocalMatchesReplay`). LogReplays speaks of the manifest in
the bucket only and is far from inductive; `DataInv` adds that

* the log of every manifest held anywhere, also one that a client loaded long ago,
  is `LogOK`: each changeset applies to the contents before it and yields those
  after it;
* a file holds, on the tracked rows, the contents at its position, and `saved` those
  at `savedSeq` (`ContentInv`);
* inside a SAVEPOINT the changeset under way applies at the position the rebase has
  reached, and the connection holds the result. One entry of a rebase keeps this by
  RebaseSound; a CAS that succeeds then makes the changeset the next entry;
* a file on which a migration ran without being committed is `Dirty`, and `OpenInv`
  knows it: either the handle is closed, or the next sync downloads again.

All of it is conditional on `sound` and on the client not being `stale`, which is
finding 1. The argument is in two halves. `Grows`: a step only adds to `hist` and
`csBody`, so whatever was `LogOK` remains so, and what is said of the clients that do
not move (`Untouched`) remains true. Then one lemma per action for the client that
moves.

### Operations (`FlowProofs`)

**OperationsInvariant** adds `ContentionInv`, `FreshInv` and `OwnInv`:

* **ConflictsAreContention** (`[]ConflictNeedsContention`). That `attempt` is bounded by
  the number of replaced manifests is not inductive: between two attempts the loss
  of the next one may already be certain. `Losses` counts those (the manifest held
  is no longer the current one), and `attempt + Losses` is what steps preserve.
* **ViewsAreFresh** (`[]ViewFresh`): sequence numbers of the bucket never fall
  (ManifestSteps), and a View loads its manifest after it was called.
* **OrphansAreDead** (`[]OrphanNotLive`), if `retry412` is not among the faults (with
  it, `phantom412` shows the opposite): a changeset that a client uploaded and has
  not committed is nobody else's and in no log (`OwnInv`). A Put whose answer was
  lost ends the operation, so its changeset is no longer held as an orphan.

### The whole (`RefinementProofs`)

**InductiveInvariant** (`[]IInv`) puts the parts together, with `RecordInv`: the uploaded
changeset is what `fn` did to some database. On top of it, for histories that are
`sound`:

* **SnapshotsAreExact** (SoundSnapshotExact): compaction loses nothing, a migration
  runs once on the contents of the manifest that it replaces. Hypothesis
  `MigratesTracked`.
* **CommitsAreSerializable** (Serializable): a commit is what its function makes of
  the contents at the moment of the CAS. Hypotheses `ReadsWhatItWrites` and no
  `retry412`.
* **VersionedDatabase** (ImplementsVersionedDB), the refinement: the initial states
  map to initial states of `VersionedDB`, and every action to Commit, Fold, a
  migration, the start or end of a call, or a stuttering step. All three hypotheses.

The hypotheses are about applications, not about s3db. `ReadsWhatItWrites`: where
the changeset of a transaction applies, running the transaction again would give the
same; without it there is write skew (`writeskew`). `MigratesTracked`: a migration
does not copy from tables that are not replicated, whose rows differ from client to
client. `MCDisciplined` states both as an ASSUME, which TLC evaluates for the
transactions and the migrations of `faults`, PK-less rows included, and of `live`.
`retry412` is a fault of the SDK's retry (finding 2).

### Garbage collection (`GCProofs`)

**BlobInvariant** (`[]BlobInv`) and, from it, **GCKeepsBlobs** (`[]BlobsPresent`) and, with
a grace period, **GraceProtectsFetches** (`[]GraceKeepsChangesets`). Two hypotheses:

* `OneMaintainer`: whoever may collect is the only one who may compact, migrate or
  compact automatically; others read, update and fail at any time. db.mu keeps the
  operations of one handle apart, so this is the deployment with one maintenance
  process. Without it BlobsPresent is false (`gcrace`).
* no `retry412` among the faults; with it BlobsPresent is false (`phantom412`).

`live` meets both (`MCDisciplined` states the first as an ASSUME). Its writer knows the
old schema and uploads to epochs that the collector closed; that commits to the epoch
of the collector, beside it, are safe too is in the theorem only. BlobsPresent says
nothing of what a collector or a writer is about to do; BlobInv adds

* `RoleInv`: each label is reached by an operation that the client has a budget for.
  It ties the labels of a run to the constants that OneMaintainer speaks of;
* `SweepInv`: the epoch in the manifest of a collector is the current one, and not
  among those it sweeps. Only a compaction or a migration could change the epoch
  (`EpochStep`);
* `HeldInv`: no manifest that anyone holds, however old, refers to a changeset that
  its owner may delete as an orphan. It needs OwnInv above;
* `PendingInv`: a changeset uploaded to the current epoch, and a snapshot that waits
  for its manifest, are in the bucket, so that the next Put of a manifest keeps
  BlobsPresent;
* `GraceInv`: the manifest of a sync under way is of the current epoch, or its epoch
  was replaced by a snapshot that is still young, and then a collector skips the sweep.
  This is where the age of the current snapshot stands for the time since the old
  epoch was closed (`gc.go:47-62`).

`StepDeletes`, `StepPuts`, `StepSweeps` and `StepUploads` sum up what each action does to
the bucket; `ChangesetSpared` and `SnapshotSpared` say what is therefore never
deleted; one lemma for each part of BlobInv concludes.
GraceKeepsSnapshot, the same for snapshots, is false: finding 6.

### Users (`PullPushProofs`)

**CliInvariant** (`[]CliInv`): `Contents` and the invariants of the commands, for
any number of users and handles. The new part is that a handle and a user draw
snapshot keys from one counter: a snapshot that was uploaded and waits for its Put
is nobody else's (`UploadInv` for users, `SnapInv` for handles), so a Put that
succeeds starts an epoch whose contents are those of the file. The lemmas about
handles are used again as they stand; what is added is that a command leaves what
the handles rely on as it is and that a step of a handle leaves the snapshots alone
that commands have uploaded (`HandleEffects`). It yields **UsersTyped**,
**PullsAreExact** (PulledMatchesReplay), **PushedLogReplays**,
**HandlesStillMatch**, **CliManifestSteps** and **PushesKeepCommits**; LogReplays,
LocalMatchesReplay and SeqSteps are here theorems of `CliSpec`, where the contents
may change under the same sequence number.

### The file system store (`FsStoreProofs`)

**RangesPartition**: for every size and every number of parts, the ranges of
downloadParallel lie in the object and every byte is in exactly one of them. The
argument: the chunks fit (`ChunksFit`, from the quotient), a part that is not the last
ends one byte before the next begins (`TimesMonotonic`), and the byte `b` is in part
`b / chunk`, or in the last one. That the goroutines may then run in any order is part
of FsLinearizable below.

**FsInvariant** (`Spec => []FsInv`) holds for any number of processes, any keys and
requests, any number of deaths. `FsInv` is more than Rooted because Rooted is not
inductive: that a directory has a parent now says nothing once prune runs. Its parts:

* `TreeInv`: every blob and every directory has *all* directories above it. A prune
  keeps it because a directory on the path to something has a child on that path
  (`ChildTowards`, hence `EmptyIsLeaf`); MkdirAll because it goes down one component at a
  time (`Reachable`).
* `TempInv`: the temporary file lies beside its key. It makes the directory non-empty,
  which is what keeps prune away between createTemp and the rename (`TempStays`).
* `LockInv`: who is between lock and unlock of Put or Delete holds the flock. So nobody
  else changes a blob (`LockedOut`), and the precondition that Put checked still holds
  when it renames (`EffectInv`).
* `WalkInv`: each key that was there ever since the call began, and that the call has
  to deal with, is listed, or a directory above it is still to be walked, or it is the
  key being deleted. Reading a directory brings the walk nearer to the key
  (`WalkNearer`); that needs TreeInv at that moment, not when the walk began.
* `DownloadInv`: the bytes of the ranges that arrived are those of the object. It rests
  on RangesPartition, and on s3db writing one body only under a key it downloads.

**FsRooted** follows, and **FsLinearizable** (`Spec => Linearizable`): the step lemmas
`PutSteps`, `RemoveSteps`, `WalkSteps`, `RangeSteps` say which step of KVStore each
system call is, if it is one. KVStore says with its history variables what List and
DeletePrefix owe their callers; `HistoryInv` makes a removal of a key that is absent a
Delete like any other. Since `FairSpec` implies `Spec`, the theorems hold of it too.

### What the proofs assume

The ASSUMEs of the modules: sets where the code has types; `NoConn`, `NoManifest`
and `NoTxn` distinct from values (they stand for nil); migrations defined for every
known version. For the file system store: `None` (it stands for nil) is no process,
path, request or answer, the blobs at the start do not lie below one another, and
the requests are of the seven kinds. TLC evaluates them in every run.

### Only model-checked

OperationsEnd and CallsEnd: liveness is out of the prover's reach. Every invariant and
every action property of a run that passes is a theorem.

## Not modelled

* `blob_s3.go`: it translates calls and errors for the AWS SDK and keeps no
  state. What S3 and the SDK may do to a call is modelled by `Faults`.
* `validateKey`, `isReservedKey`, parseTarget, flags and printing: work on strings.
  An explicit `push -seq` is left out; it is `push` with a sidecar edited by hand.
* A power loss after Put in the file system store, which the code documents as
  weaker than S3; file systems shared between machines, documented as unsupported.
* Rows of PK-less tables beyond ErrUnrecordedChanges: the code promises nothing about
  them.
* `examples/`: applications without logic of their own.

## Plan

1. Done: handles, users and stores, two refinements; the proofs of all their safety
   properties, garbage collection included.
2. GCKeepsBlobs beside users: Init and Push put snapshots too, so that OneMaintainer
   would have to speak of them as well.

## Running

    tlc -workers 2 -config commit.cfg MCS3db
    tlc -workers 2 -config live.cfg MCDisciplined     (and faults.cfg)
    tlc -workers 2 -config cli.cfg MCPullPush
    tlc -workers 2 -config fs.cfg MCFsStore
    tlapm StructProofs.tla        (and so on for the other *Proofs modules)

The proofs of StructProofs, DataProofs and PullPushProofs take some minutes each.
