------------------------------ MODULE PullPush ------------------------------
(***************************************************************************)
(* Init, Pull and Push (pullpush.go) as the command line tool calls them   *)
(* (cmd/s3db/main.go), while handles use the same database.                *)
(*                                                                         *)
(* A user has one SQLite file and, next to it, the sidecar <file>.seq with *)
(* the sequence number of the last pull.  Both outlive a command that      *)
(* fails or is killed.  Every step makes at most one call to the store.    *)
(* The commands compact and gc are handles in Admin; status only reads.    *)
(***************************************************************************)
EXTENDS S3db

CONSTANTS Users,
          Owners,      \* the users who have a file of their own to start with
          Commands,    \* the commands and options that are used
          MaxCommands, \* commands and edits per user (a bound)
          NoFile

CommandKinds == {"init", "init -f", "pull", "pull -no-seq", "push", "push -create",
                 "push -force", "edit"}

ASSUME UserAssumption ==
  /\ Owners \subseteq Users /\ Commands \subseteq CommandKinds
  /\ MaxCommands \in Nat /\ NoFile \notin DB

VARIABLES upc,          \* where the command of the user is
          command,      \* and which it is
          file,         \* contents of the SQLite file, or NoFile
          sidecar,      \* the number in <file>.seq, or NoSeq
          um,           \* the manifest that Pull or Push loaded
          replayed,     \* sequence number up to which Pull has replayed the log
          expectedSeq,  \* argument of Push
          upKey,        \* the snapshot that Init or Push uploaded
          uleft         \* what is left of MaxCommands

(***************************************************************************)
(* History.  seen[u] is the state of the database that the file of u       *)
(* started from, its contents and sequence number, and None if it started  *)
(* from none.  tracked[u] says that the sidecar was written for that state.*)
(***************************************************************************)
VARIABLES seen, tracked

userVars == <<upc, command, file, sidecar, um, replayed, expectedSeq, upKey, uleft, seen,
              tracked>>
handleVars == <<connVars, flowVars, updateVars, todo, lastVer>>
cliVars == <<storeVars, handleVars, userVars>>

NoSeq == -2
Unchecked == -1
Unseen == [seq |-> NoSeq, contents |-> EmptyDB]

UserLabels == {"idle", "pulldownload", "pullfetch", "pullapply", "pullsidecar", "pushupload",
               "pushcas", "initstat", "initupload", "initput"}

\* Every variable has its type; in particular a push that goes on has a sequence
\* number to check, or was told not to check: the -2 that stands for "not given"
\* (main.go:262) never reaches Push.
UserTypeOK ==
  /\ upc \in [Users -> UserLabels]
  /\ command \in [Users -> CommandKinds]
  /\ file \in [Users -> DB \cup {NoFile}]
  /\ sidecar \in [Users -> Nat \cup {NoSeq}]
  /\ um \in [Users -> Manifests]
  /\ replayed \in [Users -> Nat]
  /\ expectedSeq \in [Users -> Nat \cup {Unchecked}]
  /\ upKey \in [Users -> Nat]
  /\ uleft \in [Users -> Nat]
  /\ seen \in [Users -> [seq : Nat \cup {NoSeq}, contents : DB]]
  /\ tracked \subseteq Users

UserInit ==
  /\ upc = [u \in Users |-> "idle"]
  /\ command = [u \in Users |-> "edit"]
  /\ file = [u \in Users |-> IF u \in Owners THEN EmptyDB ELSE NoFile]
  /\ sidecar = [u \in Users |-> NoSeq]
  /\ um = [u \in Users |-> InitManifest]
  /\ replayed = [u \in Users |-> 0]
  /\ expectedSeq = [u \in Users |-> 0]
  /\ upKey = [u \in Users |-> NoSnap]
  /\ uleft = [u \in Users |-> MaxCommands]
  /\ seen = [u \in Users |-> Unseen]
  /\ tracked = {}

UserAt(u, l) == upc[u] = l
UserGoto(u, l) == upc' = [upc EXCEPT ![u] = l]

\* A user's file, if there is one, is a sound SQLite database.
validateSQLiteFile(u) == file[u] # NoFile

\* A command starts, with the step that takes it to label l.
Enter(u, cmd, l) ==
  /\ UserAt(u, "idle") /\ uleft[u] > 0 /\ cmd \in Commands
  /\ uleft' = [uleft EXCEPT ![u] = @ - 1]
  /\ command' = [command EXCEPT ![u] = cmd]
  /\ UserGoto(u, l)

\* The command ends; its variables are gone.
Exit(u) ==
  /\ UserGoto(u, "idle")
  /\ command' = [command EXCEPT ![u] = "edit"]
  /\ um' = [um EXCEPT ![u] = InitManifest]
  /\ replayed' = [replayed EXCEPT ![u] = 0]
  /\ expectedSeq' = [expectedSeq EXCEPT ![u] = 0]
  /\ upKey' = [upKey EXCEPT ![u] = NoSnap]
  /\ UNCHANGED uleft

\* The user edits the file with any SQLite tool.
Edit(u) ==
  /\ Enter(u, "edit", "idle") /\ file[u] # NoFile
  /\ \E t \in Txns : file' = [file EXCEPT ![u] = Effect[t][file[u]]]
  /\ UNCHANGED <<storeVars, sidecar, um, replayed, expectedSeq, upKey, seen, tracked>>
-----------------------------------------------------------------------------
(***************************************************************************)
(* cmdPull and Pull.                                                       *)
(***************************************************************************)

\* Loads the manifest; without one the command fails at once.
Pull(u) ==
  /\ manifest # NoManifest
  /\ Enter(u, "pull", "pulldownload") \/ Enter(u, "pull -no-seq", "pulldownload")
  /\ um' = [um EXCEPT ![u] = manifest]
  /\ UNCHANGED <<storeVars, file, sidecar, replayed, expectedSeq, upKey, seen, tracked>>

\* A download of whatever snapshot is current by now.
PullDownloadLatest(u) ==
  LET latest == SnapBody(epoch(manifest))
  IN /\ UserAt(u, "pulldownload") /\ epoch(manifest) \in snapshots
     /\ file' = [file EXCEPT ![u] = latest]
     /\ seen' = [seen EXCEPT ![u] = [seq |-> um[u].snap.seq, contents |-> latest]]
     /\ tracked' = tracked \ {u}
     /\ replayed' = [replayed EXCEPT ![u] = um[u].snap.seq]
     /\ UserGoto(u, IF um[u].log = <<>> THEN "pullsidecar" ELSE "pullfetch")
     /\ UNCHANGED <<storeVars, command, sidecar, um, expectedSeq, upKey, uleft>>

\* downloadSnapshot replaces the file by a rename.  From here on it is not the
\* file that the sidecar belongs to.
PullDownload(u) ==
  /\ UserAt(u, "pulldownload") /\ epoch(um[u]) \in snapshots
  /\ file' = [file EXCEPT ![u] = SnapBody(epoch(um[u]))]
  /\ seen' = [seen EXCEPT ![u] =
                [seq |-> um[u].snap.seq, contents |-> SnapBody(epoch(um[u]))]]
  /\ tracked' = tracked \ {u}
  /\ replayed' = [replayed EXCEPT ![u] = um[u].snap.seq]
  /\ UserGoto(u, IF um[u].log = <<>> THEN "pullsidecar" ELSE "pullfetch")
  /\ UNCHANGED <<storeVars, command, sidecar, um, expectedSeq, upKey, uleft>>

\* applyLog: all changesets are fetched, and then applied one after the other.
PullFetch(u) ==
  /\ UserAt(u, "pullfetch")
  /\ \A i \in Missing(um[u], replayed[u]) : um[u].log[i].key \in changesets
  /\ UserGoto(u, "pullapply")
  /\ UNCHANGED <<storeVars, command, file, sidecar, um, replayed, expectedSeq, upKey, uleft,
                 seen, tracked>>

PullApply(u) ==
  /\ UserAt(u, "pullapply")
  /\ \E i \in DOMAIN um[u].log :
       LET e == um[u].log[i]
           cs == csBody[e.key.id]
       IN /\ FirstMissing(um[u], replayed[u], i)
          /\ Applies(file[u], cs)
          /\ file' = [file EXCEPT ![u] = Patch(file[u], cs)]
          /\ seen' = [seen EXCEPT ![u] = [seq |-> e.seq, contents |-> Patch(file[u], cs)]]
          /\ replayed' = [replayed EXCEPT ![u] = e.seq]
          /\ UserGoto(u, IF Missing(um[u], e.seq) = {} THEN "pullsidecar" ELSE "pullapply")
  /\ UNCHANGED <<storeVars, command, sidecar, um, expectedSeq, upKey, uleft, tracked>>

\* GC deleted a blob, or a changeset does not apply: the file stays as it is.
PullFails(u) ==
  /\ \/ UserAt(u, "pulldownload") /\ epoch(um[u]) \notin snapshots
     \/ /\ UserAt(u, "pullfetch")
        /\ \E i \in Missing(um[u], replayed[u]) : um[u].log[i].key \notin changesets
     \/ /\ UserAt(u, "pullapply")
        /\ \E i \in DOMAIN um[u].log :
             /\ FirstMissing(um[u], replayed[u], i)
             /\ ~Applies(file[u], csBody[um[u].log[i].key.id])
  /\ Exit(u)
  /\ UNCHANGED <<storeVars, file, sidecar, seen, tracked>>

PullSidecar(u) ==
  /\ UserAt(u, "pullsidecar")
  /\ \/ /\ command[u] = "pull"
        /\ sidecar' = [sidecar EXCEPT ![u] = um[u].seq]
        /\ tracked' = tracked \cup {u}
     \/ command[u] = "pull -no-seq" /\ UNCHANGED <<sidecar, tracked>>
  /\ Exit(u)
  /\ UNCHANGED <<storeVars, file, seen>>
-----------------------------------------------------------------------------
(***************************************************************************)
(* cmdPush and Push.                                                       *)
(***************************************************************************)

\* The sequence number that cmdPush expects, given the option.
expected(u, cmd) ==
  CASE cmd = "push -force" -> Unchecked
    [] cmd = "push -create" /\ sidecar[u] = NoSeq -> 0
    [] OTHER -> sidecar[u]

\* A push without a sidecar is not refused.
MayPushAnyway(u, cmd) == TRUE

\* Without a sidecar a plain push is refused.
MayPush(u, cmd) == cmd = "push" => sidecar[u] # NoSeq

\* A check of the sequence number that lets newer states pass.
seqMatchesOrNewer(n, m) == n >= 0 => m.seq >= n

seqMatches(n, m) == n >= 0 => m.seq = n

\* Push up to its first upload: the file is valid and the database is where it
\* is expected; otherwise the command fails at once.
Push(u) ==
  \E cmd \in {"push", "push -create", "push -force"} :
    /\ validateSQLiteFile(u) /\ MayPush(u, cmd)
    /\ manifest # NoManifest /\ seqMatches(expected(u, cmd), manifest)
    /\ Enter(u, cmd, "pushupload")
    /\ expectedSeq' = [expectedSeq EXCEPT ![u] = expected(u, cmd)]
    /\ um' = [um EXCEPT ![u] = manifest]
    /\ UNCHANGED <<storeVars, file, sidecar, replayed, upKey, seen, tracked>>

\* ErrNotFound: push -create goes on with Init.
PushCreate(u) ==
  /\ validateSQLiteFile(u) /\ manifest = NoManifest
  /\ Enter(u, "push -create", "initstat")
  /\ UNCHANGED <<storeVars, file, sidecar, um, replayed, expectedSeq, upKey, seen, tracked>>

PushUpload(u) ==
  /\ UserAt(u, "pushupload")
  /\ PutSnapshot(file[u], um[u].seq, um[u].schema)
  /\ upKey' = [upKey EXCEPT ![u] = NextSnap]
  /\ UserGoto(u, "pushcas")
  /\ UNCHANGED <<command, file, sidecar, um, replayed, expectedSeq, uleft, seen, tracked>>

\* The sidecar keeps its number: Push does not advance Seq.  A Put that takes
\* effect and is reported as an error, or as 412, leaves the same state.
PushCas(u) ==
  /\ UserAt(u, "pushcas") /\ IfMatch(um[u])
  /\ PutManifest(withSnapshot(um[u], [key |-> upKey[u], seq |-> um[u].seq]), TRUE)
  /\ seen' = [seen EXCEPT ![u] = [seq |-> um[u].seq, contents |-> file[u]]]
  /\ tracked' = IF sidecar[u] = um[u].seq THEN tracked \cup {u} ELSE tracked \ {u}
  /\ Exit(u)
  /\ UNCHANGED <<blobVars, hist, base, file, sidecar>>

\* 412: ErrSeqMismatch.
PushLost(u) ==
  /\ UserAt(u, "pushcas") /\ ~IfMatch(um[u])
  /\ Exit(u)
  /\ UNCHANGED <<storeVars, file, sidecar, seen, tracked>>
-----------------------------------------------------------------------------
(***************************************************************************)
(* cmdInit and Init, which push -create calls as well.                     *)
(***************************************************************************)

\* The pre-check of cmdInit: the command fails if there is a manifest.
InitStart(u) ==
  /\ manifest = NoManifest
  /\ \/ Enter(u, "init", "initupload")
     \/ Enter(u, "init -f", "initupload") /\ validateSQLiteFile(u)
  /\ UNCHANGED <<storeVars, file, sidecar, um, replayed, expectedSeq, upKey, seen, tracked>>

\* The same pre-check when push -create calls Init.
InitStat(u) ==
  /\ UserAt(u, "initstat")
  /\ \/ /\ manifest = NoManifest
        /\ UserGoto(u, "initupload")
        /\ UNCHANGED <<command, um, replayed, expectedSeq, upKey, uleft>>
     \/ manifest # NoManifest /\ Exit(u)
  /\ UNCHANGED <<storeVars, file, sidecar, seen, tracked>>

InitUpload(u) ==
  /\ UserAt(u, "initupload")
  /\ \/ /\ command[u] = "init"
        /\ snapshots' = snapshots \cup {InitSnap}
        /\ young' = IF Grace THEN young \cup {InitSnap} ELSE young
        /\ upKey' = [upKey EXCEPT ![u] = InitSnap]
        /\ UNCHANGED <<manifest, changesets, csBody, hist, base, clock, sound>>
     \/ /\ command[u] # "init"
        /\ PutSnapshot(file[u], 0, 0)
        /\ upKey' = [upKey EXCEPT ![u] = NextSnap]
  /\ UserGoto(u, "initput")
  /\ UNCHANGED <<command, file, sidecar, um, replayed, expectedSeq, uleft, seen, tracked>>

\* The manifest is created, and push -create writes a sidecar unless it is told
\* that the Put failed.
InitPut(u) ==
  /\ UserAt(u, "initput") /\ IfNoneMatch
  /\ PutManifest([InitManifest EXCEPT !.snap = [key |-> upKey[u], seq |-> 0]], TRUE)
  /\ \/ /\ command[u] = "push -create"
        /\ sidecar' = [sidecar EXCEPT ![u] = 0]
        /\ seen' = [seen EXCEPT ![u] = [seq |-> 0, contents |-> file[u]]]
        /\ tracked' = tracked \cup {u}
     \/ /\ command[u] # "push -create" \/ Faults \cap {"phantom", "retry412"} # {}
        /\ UNCHANGED <<sidecar, seen, tracked>>
  /\ Exit(u)
  /\ UNCHANGED <<blobVars, hist, base, file>>

\* 412: another init, or the bootstrap of a handle, was first.
InitLost(u) ==
  /\ UserAt(u, "initput") /\ ~IfNoneMatch
  /\ Exit(u)
  /\ UNCHANGED <<storeVars, file, sidecar, seen, tracked>>
-----------------------------------------------------------------------------
\* A call fails without effect, or the tool is killed.
Killed(u) ==
  /\ Faults \cap {"error", "crash"} # {} /\ ~UserAt(u, "idle")
  /\ Exit(u)
  /\ UNCHANGED <<storeVars, file, sidecar, seen, tracked>>

UserStart(u) == Edit(u) \/ Pull(u) \/ Push(u) \/ PushCreate(u) \/ InitStart(u)

UserStep(u) ==
  \/ PullDownload(u) \/ PullFetch(u) \/ PullApply(u) \/ PullFails(u) \/ PullSidecar(u)
  \/ PushUpload(u) \/ PushCas(u) \/ PushLost(u)
  \/ InitStat(u) \/ InitUpload(u) \/ InitPut(u) \/ InitLost(u)

CliInit == Init /\ UserInit

CliNext ==
  \/ Next /\ UNCHANGED userVars
  \/ \E u \in Users : /\ UserStart(u) \/ UserStep(u) \/ Killed(u)
                      /\ UNCHANGED handleVars

CliSpec == CliInit /\ [][CliNext]_cliVars
-----------------------------------------------------------------------------
\* A pull that succeeds leaves the database of the manifest it loaded in the file:
\* whatever is committed, compacted, collected or pushed in the meantime.
PulledMatchesReplay ==
  \A u \in Users :
    sound /\ UserAt(u, "pullsidecar") =>
      Agree(file[u], Content(epoch(um[u]), um[u].seq))

\* A checked push (expectedSeq >= 0) is under way to replace the manifest.
Overwrites(u) ==
  /\ UserAt(u, "pushcas") /\ manifest' # manifest /\ epoch(manifest') = upKey[u]
  /\ expectedSeq[u] # Unchecked

\* A checked push discards no commit, given that the sidecar was written for the
\* file: the file started from all of them ("If the database has advanced since
\* you pulled, Push returns ErrSeqMismatch", pullpush.go:142-143).
PushKeepsCommits ==
  [][ \A u \in Users : Overwrites(u) /\ u \in tracked => seen[u].seq = manifest.seq ]_cliVars

\* A checked push replaces no contents that its user has not seen ("expectedSeq
\* guards against overwriting concurrent writes", pullpush.go:141).
PushKeepsWrites ==
  [][ \A u \in Users :
        Overwrites(u) => Agree(seen[u].contents, Content(epoch(manifest), manifest.seq)) ]_cliVars
=============================================================================
