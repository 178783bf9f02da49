------------------------------- MODULE Backups -------------------------------
(***************************************************************************)
(* Artifacts in one folder of a backup store (internal/server/             *)
(* backup_store.go, backup_artifact.go), written by Backup and             *)
(* WriteStoreFile, deleted and swept by the control plane, and restored,   *)
(* from the store or from a remote copy, over what an app holds            *)
(* (backup.go, restore_preflight.go, backup_project.go,                    *)
(* backup_database.go).                                                    *)
(*                                                                         *)
(* A file is an inode, named by the write that created it; what it holds   *)
(* is the set of the writes whose bytes are in it and whether one of them  *)
(* is there whole.  A write copies into the file it opened, whatever name  *)
(* that has by then.                                                       *)
(***************************************************************************)
EXTENDS Naturals, FiniteSets

CONSTANTS Writes,       \* streamed writes of an artifact
          Restores,     \* restores
          Artifacts,    \* object keys, all in one folder
          KeyOf,        \* KeyOf[w]: the key write w is for
          Overwriting,  \* the writes sent with overwrite
          Overlapping,  \* may two writes of one key run at once
          NoFile,       \* no file, no write
          BackupCrashes \* bound: crashes of the agent

ASSUME BackupsAssumption ==
    /\ KeyOf \in [Writes -> Artifacts] /\ Overwriting \subseteq Writes
    /\ Overlapping \in BOOLEAN /\ NoFile \notin Writes /\ BackupCrashes \in Nat

VARIABLES
    wpc, file,      \* where each write is, and the file it has open
    holding,        \* what each file holds
    idleHour,       \* files nothing was written to for storePartialStaleAfter
    entry, partial, \* the file named <key>, and the one named <key>.partial
    folder,         \* the keys' directory exists
    pruning,        \* a delete is about to prune that directory
    acked,          \* the last write of a key that answered ok, until a delete
    rpc, asked,     \* where each restore is, and what it was asked
    source,         \* what a restore opened: a file, or a local copy
    remote,         \* the write whose bytes the remote copy has
    lost,           \* what replaced an app's data, for the restores that wiped it
    configured,     \* whose configuration a project restore applied
    backupCrashes

writing == <<wpc, file, holding, idleHour, partial, acked>>
restoring == <<rpc, asked, source, lost, configured>>
backupVars == <<writing, entry, folder, pruning, restoring, remote, backupCrashes>>

Whole(w) == [of |-> {w}, whole |-> TRUE]
Holds(f, w) == f # NoFile /\ holding[f] = Whole(w)

Finished == {"idle", "ok", "failed", "gone"}
Asked == [kind : {"project", "redis", "database"}, from : {"store", "remote"}, key : Artifacts,
          expected : Writes \cup {NoFile}, untrusted : BOOLEAN, sent : BOOLEAN]
NotAsked == [kind |-> "none", from |-> "none", key |-> NoFile, expected |-> NoFile,
             untrusted |-> FALSE, sent |-> FALSE]

BackupsInit ==
    /\ wpc = [w \in Writes |-> "idle"]
    /\ file = [w \in Writes |-> NoFile]
    /\ holding = [w \in Writes |-> [of |-> {}, whole |-> FALSE]]
    /\ idleHour = {}
    /\ entry = [k \in Artifacts |-> NoFile]
    /\ partial = [k \in Artifacts |-> NoFile]
    /\ folder = FALSE /\ pruning = FALSE
    /\ acked = [k \in Artifacts |-> NoFile]
    /\ rpc = [r \in Restores |-> "idle"]
    /\ asked = [r \in Restores |-> NotAsked]
    /\ source = [r \in Restores |-> NoFile]
    /\ remote = NoFile
    /\ lost = [r \in Restores |-> [of |-> {}, whole |-> FALSE]]
    /\ configured = [r \in Restores |-> "no"]
    /\ backupCrashes = 0

WGoes(w, p) == wpc' = [wpc EXCEPT ![w] = p]
-----------------------------------------------------------------------------
(* storeWrite.                                                             *)

\* Whether another write of its key may be under way is the caller's affair.
MayBegin(w) ==
    \/ Overlapping
    \/ \A v \in Writes : KeyOf[v] = KeyOf[w] => wpc[v] \in Finished

BeginWrite(w) ==
    /\ wpc[w] = "idle" /\ MayBegin(w)
    /\ IF w \notin Overwriting /\ entry[KeyOf[w]] # NoFile
       THEN WGoes(w, "failed")
       ELSE WGoes(w, "mkdir")
    /\ UNCHANGED <<file, holding, idleHour, entry, partial, folder, pruning, acked, restoring,
                   remote, backupCrashes>>

MakeFolder(w) ==
    /\ wpc[w] = "mkdir"
    /\ \/ WGoes(w, "failed") /\ UNCHANGED folder
       \/ WGoes(w, "open") /\ folder' = TRUE
    /\ UNCHANGED <<file, holding, idleHour, entry, partial, pruning, acked, restoring, remote,
                   backupCrashes>>

\* The writes still copying into file f.
CopyingInto(f) == {v \in Writes : wpc[v] = "copy" /\ file[v] = f}

\* O_CREATE|O_TRUNC of the partial file: a new file, or the one another write left.
OpenPartial(w) ==
    LET k == KeyOf[w]
        f == IF partial[k] = NoFile THEN w ELSE partial[k]
    IN  /\ wpc[w] = "open"
        /\ \/ WGoes(w, "failed") /\ UNCHANGED <<file, holding, idleHour, partial>>
           \/ /\ folder
              /\ WGoes(w, "copy")
              /\ file' = [file EXCEPT ![w] = f]
              /\ partial' = [partial EXCEPT ![k] = f]
              /\ holding' = [holding EXCEPT ![f] = [of |-> {w} \cup CopyingInto(f), whole |-> FALSE]]
              /\ idleHour' = idleHour \ {f}
        /\ UNCHANGED <<entry, folder, pruning, acked, restoring, remote, backupCrashes>>

\* A dump that failed or a sender that broke off closes the pipe with its error.
Breaks(w) == WGoes(w, "abort")

\* io.Copy: the rest of the stream, some of it, or an error of the stream.
Copy(w) ==
    LET f == file[w]
        bytes == holding[f].of \cup {w}
        gets(whole) == [holding EXCEPT ![f] = [of |-> bytes, whole |-> whole]]
    IN  /\ wpc[w] = "copy"
        /\ \/ f \in idleHour /\ UNCHANGED wpc /\ holding' = gets(FALSE)
           \/ WGoes(w, "commit") /\ holding' = gets(bytes = {w})
           \/ Breaks(w) /\ holding' = gets(FALSE)
        /\ idleHour' = idleHour \ {f}
        /\ UNCHANGED <<file, entry, partial, folder, pruning, acked, restoring, remote, backupCrashes>>

\* Bug: a copy that broke off is renamed too.
CommitsAny(w) == wpc[w] \in {"commit", "abort"}
\* Only a write that copied everything renames.
Commits(w) == wpc[w] = "commit"

\* Sync, close and rename: the file that has the partial name by now is committed.
Commit(w) ==
    LET k == KeyOf[w]
    IN  /\ Commits(w)
        /\ partial[k] # NoFile
        /\ WGoes(w, "ok")
        /\ entry' = [entry EXCEPT ![k] = partial[k]]
        /\ partial' = [partial EXCEPT ![k] = NoFile]
        /\ acked' = [acked EXCEPT ![k] = w]
        /\ UNCHANGED <<file, holding, idleHour, folder, pruning, restoring, remote, backupCrashes>>

\* Any of the three fails, the rename for want of a partial file too.
CommitFails(w) ==
    /\ wpc[w] = "commit" /\ WGoes(w, "abort")
    /\ UNCHANGED <<file, holding, idleHour, entry, partial, folder, pruning, acked, restoring,
                   remote, backupCrashes>>

\* The deferred removal of whatever has the partial name.
Abort(w) ==
    /\ wpc[w] = "abort"
    /\ WGoes(w, "failed")
    /\ partial' = [partial EXCEPT ![KeyOf[w]] = NoFile]
    /\ UNCHANGED <<file, holding, idleHour, entry, folder, pruning, acked, restoring, remote,
                   backupCrashes>>
-----------------------------------------------------------------------------
(* Deletes, the sweep, an hour without a byte, a crash.                    *)

DeleteOne(k) ==
    /\ entry[k] # NoFile /\ ~pruning
    /\ entry' = [entry EXCEPT ![k] = NoFile]
    /\ acked' = [acked EXCEPT ![k] = NoFile]
    /\ pruning' = TRUE
    /\ UNCHANGED <<wpc, file, holding, idleHour, partial, folder, restoring, remote, backupCrashes>>

\* os.Remove of a directory fails unless it is empty.
PruneEmptyDirs ==
    /\ pruning /\ pruning' = FALSE
    /\ folder' = (folder /\ \E k \in Artifacts : entry[k] # NoFile \/ partial[k] # NoFile)
    /\ UNCHANGED <<writing, entry, restoring, remote, backupCrashes>>

\* RemoveAll of the folder; a write that puts a file there makes it stop halfway.
DeletePrefix ==
    /\ folder /\ ~pruning
    /\ \E left \in SUBSET Artifacts, parts \in SUBSET Artifacts :
        /\ entry' = [k \in Artifacts |-> IF k \in left THEN entry[k] ELSE NoFile]
        /\ acked' = [k \in Artifacts |-> IF k \in left THEN acked[k] ELSE NoFile]
        /\ partial' = [k \in Artifacts |-> IF k \in parts THEN partial[k] ELSE NoFile]
        /\ folder' = \E k \in Artifacts : entry'[k] # NoFile \/ partial'[k] # NoFile
    /\ UNCHANGED <<wpc, file, holding, idleHour, pruning, restoring, remote, backupCrashes>>

AnHourPasses ==
    /\ \E k \in Artifacts : partial[k] \notin {NoFile} \cup idleHour
    /\ idleHour' = (idleHour \cup {partial[k] : k \in Artifacts}) \ {NoFile}
    /\ UNCHANGED <<wpc, file, holding, entry, partial, folder, pruning, acked, restoring, remote,
                   backupCrashes>>

\* What the sweep removes: a partial file that is an hour old.
Sweeps(f) == f \in idleHour

SweepPartials ==
    /\ \E k \in Artifacts : Sweeps(partial[k])
    /\ partial' = [k \in Artifacts |-> IF Sweeps(partial[k]) THEN NoFile ELSE partial[k]]
    /\ UNCHANGED <<wpc, file, holding, idleHour, entry, folder, pruning, acked, restoring, remote,
                   backupCrashes>>

BackupCrash ==
    /\ backupCrashes < BackupCrashes /\ backupCrashes' = backupCrashes + 1
    /\ wpc' = [w \in Writes |-> IF wpc[w] \in Finished THEN wpc[w] ELSE "gone"]
    /\ rpc' = [r \in Restores |-> IF rpc[r] \in Finished THEN rpc[r] ELSE "gone"]
    /\ pruning' = FALSE
    /\ UNCHANGED <<file, holding, idleHour, entry, partial, folder, acked, asked, source, lost,
                   configured, remote>>
-----------------------------------------------------------------------------
(* Restores.                                                               *)

RGoes(r, p) == rpc' = [rpc EXCEPT ![r] = p]
RestoreOnly == UNCHANGED <<writing, entry, folder, pruning, remote, backupCrashes>>

\* Somebody replaces the remote copy, a bucket's or another host's.
RemoteChanges(w) ==
    /\ remote # w /\ remote' = w
    /\ UNCHANGED <<writing, entry, folder, pruning, restoring, backupCrashes>>

\* Bug: a remote artifact is hashed while it is restored, and not before.
ProvesNothing(r, f) == TRUE
\* digestMismatch: the bytes found have the digest that was sent; with an old
\* backup none is.
Proves(r, f) == asked[r].expected = NoFile \/ f = asked[r].expected

Ask(r) ==
    /\ rpc[r] = "idle"
    /\ \E q \in Asked :
        /\ q.kind # "project" => ~q.untrusted /\ ~q.sent
        /\ asked' = [asked EXCEPT ![r] = q]
    /\ RGoes(r, "check")
    /\ UNCHANGED <<source, lost, configured>> /\ RestoreOnly

\* sourceFromRestore: an artifact of the store is hashed in place.
CheckStore(r) ==
    LET f == entry[asked[r].key]
    IN  /\ asked[r].from = "store"
        /\ asked[r].expected = NoFile \/ Holds(f, asked[r].expected)
        /\ UNCHANGED source

\* spoolToVerify: a remote one is copied here first, and hashed on the way.
CheckRemote(r) ==
    /\ asked[r].from = "remote"
    /\ IF asked[r].expected = NoFile THEN UNCHANGED source
       ELSE /\ remote # NoFile /\ Proves(r, remote)
            /\ source' = [source EXCEPT ![r] = remote]

Check(r) ==
    /\ rpc[r] = "check"
    /\ \/ RGoes(r, "failed") /\ UNCHANGED source
       \/ (CheckStore(r) \/ CheckRemote(r)) /\ RGoes(r, "checked")
    /\ UNCHANGED <<asked, lost, configured>> /\ RestoreOnly

\* The local copy, else the store's file or the remote stream as it is by now;
\* a project's stack has been stopped before.
Open(r) ==
    LET found == IF source[r] # NoFile THEN source[r]
                 ELSE IF asked[r].from = "store" THEN entry[asked[r].key] ELSE remote
    IN  /\ rpc[r] = "checked"
        /\ \/ RGoes(r, "failed") /\ UNCHANGED source
           \/ /\ found # NoFile
              /\ RGoes(r, "opened") /\ source' = [source EXCEPT ![r] = found]
        /\ UNCHANGED <<asked, lost, configured>> /\ RestoreOnly

\* What restore r reads: committed files no longer change, nor does a local copy.
Reads(r) == IF asked[r].from = "store" THEN holding[source[r]] ELSE Whole(source[r])

\* The app's data is gone, also if what follows fails halfway.
Loses(r, next) ==
    /\ lost' = [lost EXCEPT ![r] = Reads(r)]
    /\ \E p \in {"failed", next} : RGoes(r, p)

\* unpackProjectArchive: a volume name is refused, or volumes and files are wiped
\* and unpacked.
ReplaceProject(r) ==
    /\ asked[r].kind = "project"
    /\ (RGoes(r, "failed") /\ UNCHANGED lost) \/ Loses(r, "configure")

\* restoreRedis: saving is turned off, or FLUSHALL comes and the new dump file.
ReplaceRedis(r) ==
    /\ asked[r].kind = "redis"
    /\ (RGoes(r, "failed") /\ UNCHANGED lost) \/ Loses(r, "ok")

\* restoreDatabase: the engine's own tool overwrites as it reads.
ReplaceDatabase(r) == asked[r].kind = "database" /\ Loses(r, "ok")

Replace(r) ==
    /\ rpc[r] = "opened"
    /\ ReplaceProject(r) \/ ReplaceRedis(r) \/ ReplaceDatabase(r)
    /\ UNCHANGED <<asked, source, configured>> /\ RestoreOnly

\* restoreConfig: whose stack file, variables and mounts the reroute applies.
Picked(r) ==
    IF asked[r].expected # NoFile THEN "archive"
    ELSE IF asked[r].sent THEN "sent"
    ELSE IF asked[r].untrusted THEN "no" ELSE "archive"

Configure(r) ==
    /\ rpc[r] = "configure"
    /\ configured' = [configured EXCEPT ![r] = Picked(r)]
    /\ \E p \in {"ok", "failed"} : RGoes(r, p)
    /\ UNCHANGED <<asked, source, lost>> /\ RestoreOnly

StoreNext ==
    \/ \E w \in Writes :
        \/ BeginWrite(w) \/ MakeFolder(w) \/ OpenPartial(w) \/ Copy(w)
        \/ Commit(w) \/ CommitFails(w) \/ Abort(w)
    \/ \E k \in Artifacts : DeleteOne(k)
    \/ PruneEmptyDirs \/ DeletePrefix \/ AnHourPasses \/ SweepPartials \/ BackupCrash

RestoreNext ==
    \/ \E w \in Writes : RemoteChanges(w)
    \/ \E r \in Restores : Ask(r) \/ Check(r) \/ Open(r) \/ Replace(r) \/ Configure(r)

BackupsNext == StoreNext \/ RestoreNext

BackupsSpec == BackupsInit /\ [][BackupsNext]_backupVars
-----------------------------------------------------------------------------
(* The file with a key's name is some write's whole stream, through        *)
(* aborts, crashes, sweeps, prunes and deletes; and the write that last    *)
(* answered ok for the key is the one (storeWrite copies, syncs, renames). *)
ArtifactsAreWhole ==
    \A k \in Artifacts :
        /\ entry[k] # NoFile => \E w \in Writes : Holds(entry[k], w)
        /\ acked[k] # NoFile => Holds(entry[k], acked[k])

(* What replaces an app's data from a bucket or another host has the       *)
(* digest that was sent, even if the copy there changes meanwhile, and an  *)
(* untrusted archive without one configures nothing: "restoreArtifact      *)
(* proves the artifact is the one Deplo wrote BEFORE anything is wiped".   *)
RemoteRestoreIsProven ==
    \A r \in Restores : asked[r].from = "remote" =>
        /\ lost[r].of # {} /\ asked[r].expected # NoFile => lost[r] = Whole(asked[r].expected)
        /\ configured[r] = "archive" /\ asked[r].untrusted => asked[r].expected # NoFile

(* A committed artifact is whole, and one from elsewhere is proven before  *)
(* it replaces anything.                                                   *)
BackupsHold == ArtifactsAreWhole /\ RemoteRestoreIsProven

(* The same of an artifact of this host's store: "restoreArtifact proves   *)
(* the artifact is the one Deplo wrote BEFORE anything is wiped or         *)
(* flushed" (restore_preflight.go:27).                                     *)
StoreRestoreIsProven ==
    \A r \in Restores :
        asked[r].from = "store" /\ lost[r].of # {} /\ asked[r].expected # NoFile =>
            lost[r] = Whole(asked[r].expected)

=============================================================================
