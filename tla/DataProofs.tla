------------------------------ MODULE DataProofs ------------------------------
(***************************************************************************)
(* Proofs about what the agent does with a host's data, as MCServicesSafe  *)
(* checks it, each part under its own specification and for any values of  *)
(* its constants: backups and restores, imports, the working copies of     *)
(* deploys, and what a cleanup takes.                                      *)
(***************************************************************************)
EXTENDS MCServicesSafe, Integers, Sums
-----------------------------------------------------------------------------
(* Backups and restores.  A committed artifact is one write's whole stream *)
(* as long as the control plane orders the writes of a key, and nothing    *)
(* from elsewhere replaces an app's data unproven, whatever it does.       *)

Files == Writes \cup {NoFile}
Streams == [of : SUBSET Writes, whole : BOOLEAN]

BackupsTypeOK ==
    /\ wpc \in [Writes -> Finished \cup {"mkdir", "open", "copy", "commit", "abort"}]
    /\ file \in [Writes -> Files]
    /\ holding \in [Writes -> Streams]
    /\ idleHour \subseteq Writes
    /\ entry \in [Artifacts -> Files] /\ partial \in [Artifacts -> Files]
    /\ acked \in [Artifacts -> Files]
    /\ folder \in BOOLEAN /\ pruning \in BOOLEAN
    /\ rpc \in [Restores -> Finished \cup {"check", "checked", "opened", "configure"}]
    /\ asked \in [Restores -> Asked \cup {NotAsked}]
    /\ source \in [Restores -> Files] /\ remote \in Files
    /\ lost \in [Restores -> Streams]
    /\ configured \in [Restores -> {"no", "sent", "archive"}]
    /\ backupCrashes \in 0..BackupCrashes
    /\ \A r \in Restores : rpc[r] = "opened" => source[r] # NoFile

Active(w) == wpc[w] \notin Finished
Opened(w) == wpc[w] \in {"copy", "commit", "abort"}

\* The writes of a key come one at a time.
OneWriter == \A v, w \in Writes : Active(v) /\ Active(w) /\ KeyOf[v] = KeyOf[w] => v = w

\* A file is named for the key of the write that created it, by a write of that key;
\* a write that has not opened its file has created none.
NamedForKey ==
    /\ \A k \in Artifacts :
          /\ entry[k] # NoFile => KeyOf[entry[k]] = k
          /\ partial[k] # NoFile => KeyOf[partial[k]] = k
    /\ \A w \in Writes : Opened(w) => file[w] # NoFile /\ KeyOf[file[w]] = KeyOf[w]
NotOpened ==
    \A w \in Writes : wpc[w] \in {"idle", "mkdir", "open"} =>
        /\ \A k \in Artifacts : entry[k] # w /\ partial[k] # w
        /\ \A v \in Writes : Opened(v) => file[v] # w

\* What a write copies into has the partial name or none, and is no committed file.
NotCommitted ==
    /\ \A k \in Artifacts : partial[k] # NoFile => entry[k] # partial[k]
    /\ \A w \in Writes : Opened(w) =>
          /\ partial[KeyOf[w]] \in {NoFile, file[w]}
          /\ entry[KeyOf[w]] # file[w]

\* Only its own bytes are in the file a write copies into, all of them at its commit.
HoldsOwn ==
    \A w \in Writes :
        /\ wpc[w] = "copy" => holding[file[w]].of = {w}
        /\ wpc[w] = "commit" => Holds(file[w], w)

NamesInv == OneWriter /\ NamedForKey /\ NotOpened /\ NotCommitted
StoreInv == NamesInv /\ HoldsOwn /\ ArtifactsAreWhole

\* A restore has lost and applied nothing before it is asked, and what it opened of a
\* remote artifact with a digest is what has that digest.
NothingYet == \A r \in Restores : rpc[r] = "idle" => lost[r].of = {} /\ configured[r] = "no"
SourceIsProven ==
    \A r \in Restores :
        rpc[r] \in {"checked", "opened"} /\ asked[r].from = "remote" /\ asked[r].expected # NoFile
            => source[r] = asked[r].expected

RestoreInv == NothingYet /\ SourceIsProven /\ RemoteRestoreIsProven

USE BackupsAssumption DEF writing, restoring, backupVars, Finished, Files, Streams, WGoes, RGoes,
    RestoreOnly

\* A step keeps the types.
LEMMA TypeStep ==
    ASSUME BackupsTypeOK, [BackupsNext]_backupVars
    PROVE  BackupsTypeOK'
<1> USE DEF BackupsTypeOK
<1>1. ASSUME NEW w \in Writes, BeginWrite(w) PROVE BackupsTypeOK'
  BY <1>1, SMTT(20) DEF BeginWrite, MayBegin
<1>2. ASSUME NEW w \in Writes, MakeFolder(w) PROVE BackupsTypeOK'
  BY <1>2 DEF MakeFolder
<1>3. ASSUME NEW w \in Writes, OpenPartial(w) PROVE BackupsTypeOK'
  <2>1. /\ wpc' \in [Writes -> Finished \cup {"mkdir", "open", "copy", "commit", "abort"}]
        /\ UNCHANGED <<entry, folder, pruning, acked, rpc, asked, source, remote, lost,
                       configured, backupCrashes>>
    BY <1>3 DEF OpenPartial
  <2>2. UNCHANGED <<file, partial, holding, idleHour>>
        \/ \E f \in Writes, h \in SUBSET Writes :
              /\ file' = [file EXCEPT ![w] = f]
              /\ partial' = [partial EXCEPT ![KeyOf[w]] = f]
              /\ holding' = [holding EXCEPT ![f] = [of |-> h, whole |-> FALSE]]
              /\ idleHour' = idleHour \ {f}
    <3>1. \A f : {w} \cup CopyingInto(f) \in SUBSET Writes
      BY DEF CopyingInto
    <3>2. partial[KeyOf[w]] = NoFile \/ partial[KeyOf[w]] \in Writes
      OBVIOUS
    <3> DEFINE f == IF partial[KeyOf[w]] = NoFile THEN w ELSE partial[KeyOf[w]]
    <3>3. f \in Writes
      BY <3>2
    <3>4. \/ UNCHANGED <<file, partial, holding, idleHour>>
          \/ /\ file' = [file EXCEPT ![w] = f]
             /\ partial' = [partial EXCEPT ![KeyOf[w]] = f]
             /\ holding' = [holding EXCEPT ![f] = [of |-> {w} \cup CopyingInto(f), whole |-> FALSE]]
             /\ idleHour' = idleHour \ {f}
      BY <1>3 DEF OpenPartial
    <3> HIDE DEF f
    <3> QED
      BY <3>1, <3>3, <3>4
  <2>3. CASE UNCHANGED <<file, partial, holding, idleHour>>
    BY <2>1, <2>3
  <2>4. ASSUME NEW f \in Writes, NEW h \in SUBSET Writes,
               file' = [file EXCEPT ![w] = f],
               partial' = [partial EXCEPT ![KeyOf[w]] = f],
               holding' = [holding EXCEPT ![f] = [of |-> h, whole |-> FALSE]],
               idleHour' = idleHour \ {f}
        PROVE  BackupsTypeOK'
    BY <2>1, <2>4
  <2> QED
    BY <2>2, <2>3, <2>4
<1>4. ASSUME NEW w \in Writes, Copy(w) PROVE BackupsTypeOK'
  <2>1. /\ wpc' \in [Writes -> Finished \cup {"mkdir", "open", "copy", "commit", "abort"}]
        /\ idleHour' \subseteq Writes
        /\ UNCHANGED <<file, entry, partial, folder, pruning, acked, rpc, asked, source, remote,
                       lost, configured, backupCrashes>>
    BY <1>4 DEF Copy, Breaks
  <2>2. \E b \in BOOLEAN :
            holding' = [holding EXCEPT ![file[w]] =
                          [of |-> holding[file[w]].of \cup {w}, whole |-> b]]
    BY <1>4 DEF Copy, Breaks
  <2>3. holding' \in [Writes -> Streams]
    <3>1. PICK b \in BOOLEAN :
              holding' = [holding EXCEPT ![file[w]] =
                          [of |-> holding[file[w]].of \cup {w}, whole |-> b]]
      BY <2>2
    <3>2. CASE file[w] \in Writes
      <4>1. holding[file[w]].of \cup {w} \in SUBSET Writes
        BY <3>2
      <4>2. [of |-> holding[file[w]].of \cup {w}, whole |-> b] \in Streams
        BY <4>1
      <4> QED
        BY <3>1, <4>2
    <3>3. CASE file[w] \notin Writes
      BY <3>1, <3>3
    <3> QED
      BY <3>2, <3>3
  <2> QED
    BY <2>1, <2>3
<1>5. ASSUME NEW w \in Writes, Commit(w) PROVE BackupsTypeOK'
  BY <1>5 DEF Commit, Commits
<1>6. ASSUME NEW w \in Writes, CommitFails(w) PROVE BackupsTypeOK'
  BY <1>6 DEF CommitFails
<1>7. ASSUME NEW w \in Writes, Abort(w) PROVE BackupsTypeOK'
  BY <1>7 DEF Abort
<1>8. ASSUME NEW k \in Artifacts, DeleteOne(k) PROVE BackupsTypeOK'
  BY <1>8 DEF DeleteOne
<1>9. CASE PruneEmptyDirs
  BY <1>9 DEF PruneEmptyDirs
<1>10. CASE DeletePrefix
  BY <1>10 DEF DeletePrefix
<1>11. CASE AnHourPasses
  BY <1>11 DEF AnHourPasses
<1>12. CASE SweepPartials
  BY <1>12 DEF SweepPartials, Sweeps
<1>13. CASE BackupCrash
  <2>1. /\ wpc' \in [Writes -> Finished \cup {"mkdir", "open", "copy", "commit", "abort"}]
        /\ rpc' \in [Restores -> Finished \cup {"check", "checked", "opened", "configure"}]
        /\ pruning' \in BOOLEAN /\ \A r \in Restores : rpc'[r] # "opened"
    BY <1>13 DEF BackupCrash
  <2>2. backupCrashes' \in 0..BackupCrashes
    BY <1>13 DEF BackupCrash
  <2> QED
    BY <1>13, <2>1, <2>2 DEF BackupCrash
<1>14. ASSUME NEW w \in Writes, RemoteChanges(w) PROVE BackupsTypeOK'
  BY <1>14 DEF RemoteChanges
<1>15. ASSUME NEW r \in Restores, Ask(r) PROVE BackupsTypeOK'
  BY <1>15 DEF Ask
<1>16. ASSUME NEW r \in Restores, Check(r) PROVE BackupsTypeOK'
  <2>1. source' \in [Restores -> Files]
    BY <1>16 DEF Check, CheckStore, CheckRemote
  <2>2. rpc' \in [Restores -> Finished \cup {"check", "checked", "opened", "configure"}]
    BY <1>16 DEF Check
  <2>3. /\ rpc[r] = "check" /\ rpc' = [rpc EXCEPT ![r] = rpc'[r]] /\ rpc'[r] # "opened"
        /\ source' = [source EXCEPT ![r] = source'[r]]
    BY <1>16 DEF Check, CheckStore, CheckRemote
  <2>4. \A q \in Restores : rpc'[q] = "opened" => source'[q] # NoFile
    BY <2>3
  <2> QED
    BY <1>16, <2>1, <2>2, <2>4 DEF Check
<1>17. ASSUME NEW r \in Restores, Open(r) PROVE BackupsTypeOK'
  <2>1. \A k : asked[r].from = "store" => asked[r].key \in Artifacts
    BY DEF Asked, NotAsked
  <2>2. source' \in [Restores -> Files]
    BY <1>17, <2>1, SMTT(20) DEF Open
  <2>4. \A q \in Restores : rpc'[q] = "opened" => source'[q] # NoFile
    BY <1>17, <2>1 DEF Open
  <2>3. rpc' \in [Restores -> Finished \cup {"check", "checked", "opened", "configure"}]
    BY <1>17 DEF Open
  <2> QED
    BY <1>17, <2>2, <2>3, <2>4 DEF Open
<1>18. ASSUME NEW r \in Restores, Replace(r) PROVE BackupsTypeOK'
  <2>1. rpc' \in [Restores -> Finished \cup {"check", "checked", "opened", "configure"}]
    BY <1>18 DEF Replace, ReplaceProject, ReplaceRedis, ReplaceDatabase, Loses
  <2>2. lost' = lost \/ lost' = [lost EXCEPT ![r] = Reads(r)]
    BY <1>18 DEF Replace, ReplaceProject, ReplaceRedis, ReplaceDatabase, Loses
  <2>3. rpc[r] = "opened" /\ source[r] \in Writes
    BY <1>18 DEF Replace
  <2>4. Reads(r) \in Streams
    <3>1. Whole(source[r]) \in Streams
      BY <2>3 DEF Whole
    <3> QED
      BY <2>3, <3>1 DEF Reads
  <2>5. lost' \in [Restores -> Streams]
    BY <2>2, <2>4
  <2>6. rpc' = [rpc EXCEPT ![r] = rpc'[r]] /\ rpc'[r] # "opened" /\ UNCHANGED source
    BY <1>18 DEF Replace, ReplaceProject, ReplaceRedis, ReplaceDatabase, Loses
  <2>7. \A q \in Restores : rpc'[q] = "opened" => source'[q] # NoFile
    BY <2>6
  <2> QED
    BY <1>18, <2>1, <2>5, <2>7 DEF Replace
<1>19. ASSUME NEW r \in Restores, Configure(r) PROVE BackupsTypeOK'
  BY <1>19 DEF Configure, Picked
<1>20. CASE UNCHANGED backupVars
  BY <1>20
<1> QED
  BY <1>1, <1>2, <1>3, <1>4, <1>5, <1>6, <1>7, <1>8, <1>9, <1>10, <1>11, <1>12, <1>13,
     <1>14, <1>15, <1>16, <1>17, <1>18, <1>19, <1>20 DEF BackupsNext, StoreNext,
     RestoreNext

\* A step keeps who writes where, and under which name.
LEMMA NamesStep ==
    ASSUME ~Overlapping, BackupsTypeOK, NamesInv, [BackupsNext]_backupVars
    PROVE  NamesInv'
<1> USE DEF NamesInv, OneWriter, NamedForKey, NotOpened, NotCommitted, Active, Opened
<1>a. /\ wpc \in [Writes -> Finished \cup {"mkdir", "open", "copy", "commit", "abort"}]
      /\ file \in [Writes -> Files]
      /\ entry \in [Artifacts -> Files] /\ partial \in [Artifacts -> Files]
  BY DEF BackupsTypeOK
<1> USE <1>a
<1>1. ASSUME NEW w \in Writes, BeginWrite(w) PROVE NamesInv'
  <2>1. /\ wpc[w] = "idle" /\ wpc' = [wpc EXCEPT ![w] = wpc'[w]]
        /\ wpc'[w] \in {"failed", "mkdir"} /\ UNCHANGED <<file, entry, partial>>
        /\ \A v \in Writes : KeyOf[v] = KeyOf[w] => wpc[v] \in Finished
    BY <1>1 DEF BeginWrite, MayBegin
  <2>2. OneWriter'
    <3>1. \A v \in Writes : Active(v)' => Active(v) \/ v = w
      BY <2>1
    <3>2. \A v \in Writes : v # w /\ Active(v) => KeyOf[v] # KeyOf[w]
      BY <2>1
    <3> QED
      BY <3>1, <3>2
  <2>3. NamedForKey' /\ NotCommitted'
    BY <2>1
  <2>4. NotOpened'
    BY <2>1
  <2> QED
    BY <2>2, <2>3, <2>4
<1>2. ASSUME NEW w \in Writes, MakeFolder(w) PROVE NamesInv'
  <2>1. /\ wpc[w] = "mkdir" /\ wpc' = [wpc EXCEPT ![w] = wpc'[w]]
        /\ wpc'[w] \in {"failed", "open"} /\ UNCHANGED <<file, entry, partial>>
    BY <1>2 DEF MakeFolder
  <2>2. OneWriter'
    <3>1. \A v \in Writes : Active(v)' => Active(v) \/ v = w
      BY <2>1
    <3>2. \A v \in Writes : v # w /\ Active(v) => KeyOf[v] # KeyOf[w]
      BY <2>1
    <3> QED
      BY <3>1, <3>2
  <2>3. NamedForKey' /\ NotCommitted'
    BY <2>1
  <2>4. NotOpened'
    BY <2>1
  <2> QED
    BY <2>2, <2>3, <2>4
<1>3. ASSUME NEW w \in Writes, OpenPartial(w) PROVE NamesInv'
  <2>1. CASE wpc'[w] = "failed"
    <3>1. /\ wpc[w] = "open" /\ wpc' = [wpc EXCEPT ![w] = "failed"]
          /\ UNCHANGED <<file, entry, partial>>
      BY <1>3, <2>1 DEF OpenPartial
    <3> QED
      BY <3>1
  <2>2. CASE wpc'[w] # "failed"
    <3> DEFINE k == KeyOf[w]
               f == IF partial[k] = NoFile THEN w ELSE partial[k]
    <3>1. /\ wpc[w] = "open" /\ wpc' = [wpc EXCEPT ![w] = "copy"]
          /\ file' = [file EXCEPT ![w] = f] /\ partial' = [partial EXCEPT ![k] = f]
          /\ entry' = entry
      BY <1>3, <2>2 DEF OpenPartial
    <3>2. /\ k \in Artifacts /\ f \in Writes /\ KeyOf[f] = k /\ entry[k] # f
          /\ f \in {w, partial[k]}
      BY <3>1
    <3> HIDE DEF f
    <3>3. \A v \in Writes : v # w /\ Active(v) => KeyOf[v] # k
      BY <3>1
    <3>4. OneWriter'
      BY <3>1
    <3>5. NamedForKey'
      BY <3>1, <3>2
    <3>6. NotOpened'
      BY <3>1, <3>2
    <3>7. NotCommitted'
      BY <3>1, <3>2, <3>3
    <3> QED
      BY <3>4, <3>5, <3>6, <3>7
  <2> QED
    BY <2>1, <2>2
<1>4. ASSUME NEW w \in Writes, Copy(w) PROVE NamesInv'
  <2>1. /\ wpc[w] = "copy" /\ wpc' = [wpc EXCEPT ![w] = wpc'[w]]
        /\ wpc'[w] \in {"copy", "commit", "abort"} /\ UNCHANGED <<file, entry, partial>>
    BY <1>4 DEF Copy, Breaks
  <2>2. OneWriter'
    <3>1. \A v \in Writes : Active(v)' => Active(v) \/ v = w
      BY <2>1
    <3>2. \A v \in Writes : v # w /\ Active(v) => KeyOf[v] # KeyOf[w]
      BY <2>1
    <3> QED
      BY <3>1, <3>2
  <2>3. NamedForKey' /\ NotCommitted'
    BY <2>1
  <2>4. NotOpened'
    BY <2>1
  <2> QED
    BY <2>2, <2>3, <2>4
<1>5. ASSUME NEW w \in Writes, Commit(w) PROVE NamesInv'
  <2> DEFINE k == KeyOf[w]
  <2>1. /\ wpc[w] = "commit" /\ partial[k] # NoFile /\ wpc' = [wpc EXCEPT ![w] = "ok"]
        /\ entry' = [entry EXCEPT ![k] = partial[k]] /\ partial' = [partial EXCEPT ![k] = NoFile]
        /\ file' = file
    BY <1>5 DEF Commit, Commits
  <2>2. k \in Artifacts /\ \A v \in Writes : v # w /\ Active(v) => KeyOf[v] # k
    BY <2>1
  <2> HIDE DEF k
  <2>3. OneWriter'
    BY <2>1
  <2>4. NamedForKey'
    BY <2>1, <2>2
  <2>5. NotOpened'
    BY <2>1, <2>2
  <2>6. NotCommitted'
    BY <2>1, <2>2
  <2> QED
    BY <2>3, <2>4, <2>5, <2>6
<1>6. ASSUME NEW w \in Writes, CommitFails(w) PROVE NamesInv'
  BY <1>6 DEF CommitFails
<1>7. ASSUME NEW w \in Writes, Abort(w) PROVE NamesInv'
  BY <1>7 DEF Abort
<1>8. ASSUME NEW k \in Artifacts, DeleteOne(k) PROVE NamesInv'
  BY <1>8 DEF DeleteOne
<1>9. CASE PruneEmptyDirs
  BY <1>9 DEF PruneEmptyDirs
<1>10. CASE DeletePrefix
  BY <1>10 DEF DeletePrefix
<1>11. CASE AnHourPasses
  BY <1>11 DEF AnHourPasses
<1>12. CASE SweepPartials
  BY <1>12 DEF SweepPartials, Sweeps
<1>13. CASE BackupCrash
  BY <1>13 DEF BackupCrash
<1>14. ASSUME NEW w \in Writes, RemoteChanges(w) PROVE NamesInv'
  BY <1>14 DEF RemoteChanges
<1>15. ASSUME NEW r \in Restores, Ask(r) PROVE NamesInv'
  BY <1>15 DEF Ask
<1>16. ASSUME NEW r \in Restores, Check(r) PROVE NamesInv'
  BY <1>16 DEF Check, CheckStore, CheckRemote, Proves
<1>17. ASSUME NEW r \in Restores, Open(r) PROVE NamesInv'
  BY <1>17 DEF Open
<1>18. ASSUME NEW r \in Restores, Replace(r) PROVE NamesInv'
  BY <1>18 DEF Replace, ReplaceProject, ReplaceRedis, ReplaceDatabase, Loses, Reads
<1>19. ASSUME NEW r \in Restores, Configure(r) PROVE NamesInv'
  BY <1>19 DEF Configure, Picked
<1>20. CASE UNCHANGED backupVars
  BY <1>20
<1> QED
  BY <1>1, <1>2, <1>3, <1>4, <1>5, <1>6, <1>7, <1>8, <1>9, <1>10, <1>11, <1>12, <1>13,
     <1>14, <1>15, <1>16, <1>17, <1>18, <1>19, <1>20 DEF BackupsNext, StoreNext,
     RestoreNext

\* A step leaves only its own bytes in the file a write copies into.
LEMMA HoldsStep ==
    ASSUME BackupsTypeOK, NamesInv, StoreInv, [BackupsNext]_backupVars
    PROVE  HoldsOwn'
<1> USE DEF StoreInv, NamesInv, OneWriter, NamedForKey, NotOpened, NotCommitted, HoldsOwn,
        Active, Opened, Holds, Whole
<1>a. /\ wpc \in [Writes -> Finished \cup {"mkdir", "open", "copy", "commit", "abort"}]
      /\ file \in [Writes -> Files] /\ holding \in [Writes -> Streams]
      /\ entry \in [Artifacts -> Files] /\ partial \in [Artifacts -> Files]
      /\ acked \in [Artifacts -> Files]
  BY DEF BackupsTypeOK
<1> USE <1>a
<1>1. ASSUME NEW w \in Writes, BeginWrite(w) PROVE HoldsOwn'
  <2>1. wpc' = [wpc EXCEPT ![w] = wpc'[w]] /\ wpc'[w] \in {"failed", "mkdir"}
        /\ UNCHANGED <<file, holding>>
    BY <1>1 DEF BeginWrite
  <2> QED
    BY <2>1
<1>2. ASSUME NEW w \in Writes, MakeFolder(w) PROVE HoldsOwn'
  BY <1>2 DEF MakeFolder
<1>3. ASSUME NEW w \in Writes, OpenPartial(w) PROVE HoldsOwn'
  <2>1. CASE wpc'[w] = "failed"
    BY <1>3, <2>1 DEF OpenPartial
  <2>2. CASE wpc'[w] # "failed"
    <3> DEFINE k == KeyOf[w]
               f == IF partial[k] = NoFile THEN w ELSE partial[k]
    <3>1. /\ wpc[w] = "open" /\ wpc' = [wpc EXCEPT ![w] = "copy"]
          /\ file' = [file EXCEPT ![w] = f]
          /\ holding' = [holding EXCEPT ![f] = [of |-> {w} \cup CopyingInto(f), whole |-> FALSE]]
          /\ UNCHANGED <<entry, acked>>
      BY <1>3, <2>2 DEF OpenPartial
    <3>2. k \in Artifacts /\ f \in Writes /\ KeyOf[f] = k /\ entry[k] # f
      BY <3>1
    <3> HIDE DEF f
    <3>3. \A v \in Writes : v # w /\ Active(v) => KeyOf[v] # k
      BY <3>1
    <3>4. CopyingInto(f) = {}
      <4> SUFFICES ASSUME NEW v \in Writes, wpc[v] = "copy", file[v] = f PROVE FALSE
        BY DEF CopyingInto
      <4>1. KeyOf[v] = k /\ v # w
        BY <3>1, <3>2
      <4> QED
        BY <3>3, <4>1
    <3>5. holding' = [holding EXCEPT ![f] = [of |-> {w}, whole |-> FALSE]]
      BY <3>1, <3>4
    <3>6. \A v \in Writes : v # w /\ Opened(v) => file'[v] = file[v] /\ file[v] # f
      BY <3>1, <3>2, <3>3
    <3>7. file'[w] = f /\ holding'[f].of = {w}
      BY <3>1, <3>2, <3>5
    <3> QED
      BY <3>1, <3>2, <3>5, <3>6, <3>7
  <2> QED
    BY <2>1, <2>2
<1>4. ASSUME NEW w \in Writes, Copy(w) PROVE HoldsOwn'
  <2> DEFINE f == file[w]
  <2>0. wpc[w] = "copy" /\ f \in Writes
    BY <1>4 DEF Copy
  <2>1. holding[f].of \cup {w} = {w}
    BY <2>0
  <2> DEFINE gets(b) == [holding EXCEPT ![f] = [of |-> {w}, whole |-> b]]
  <2>2. /\ file' = file
        /\ \/ wpc' = wpc /\ holding' = gets(FALSE)
           \/ wpc' = [wpc EXCEPT ![w] = "commit"] /\ holding' = gets(TRUE)
           \/ wpc' = [wpc EXCEPT ![w] = "abort"] /\ holding' = gets(FALSE)
    <3> DEFINE bytes == holding[f].of \cup {w}
               has(b) == [holding EXCEPT ![f] = [of |-> bytes, whole |-> b]]
    <3>1. /\ file' = file
          /\ \/ wpc' = wpc /\ holding' = has(FALSE)
             \/ wpc' = [wpc EXCEPT ![w] = "commit"] /\ holding' = has(bytes = {w})
             \/ wpc' = [wpc EXCEPT ![w] = "abort"] /\ holding' = has(FALSE)
      BY <1>4 DEF Copy, Breaks
    <3>2. bytes = {w} /\ (bytes = {w}) = TRUE
      BY <2>1
    <3> HIDE DEF bytes
    <3>3. \A b : has(b) = gets(b)
      BY <3>2
    <3>4. has(bytes = {w}) = gets(TRUE)
      BY <3>2
    <3> HIDE DEF has, gets
    <3> QED
      BY <3>1, <3>3, <3>4
  <2>3. \A v \in Writes : v # w /\ Opened(v) => file[v] # f
    BY <2>0
  <2>4. f \in DOMAIN holding
    BY <2>0
  <2> HIDE DEF f
  <2>5. /\ wpc'[w] = "copy" => holding'[f].of = {w}
        /\ wpc'[w] = "commit" => holding'[f] = [of |-> {w}, whole |-> TRUE]
    <3>1. \A b : gets(b)[f] = [of |-> {w}, whole |-> b] /\ gets(b)[f].of = {w}
      BY <2>4
    <3>2. wpc'[w] = "commit" => holding' = gets(TRUE)
      BY <2>0, <2>2
    <3>3. PICK b : holding' = gets(b)
      BY <2>2
    <3> HIDE DEF gets
    <3>4. holding'[f].of = {w}
      BY <3>1, <3>3
    <3>5. wpc'[w] = "commit" => holding'[f] = [of |-> {w}, whole |-> TRUE]
      <4> SUFFICES ASSUME wpc'[w] = "commit" PROVE holding'[f] = [of |-> {w}, whole |-> TRUE]
        OBVIOUS
      <4>1. holding' = gets(TRUE)
        BY <3>2
      <4> QED
        BY <3>1, <4>1
    <3> QED
      BY <3>4, <3>5
  <2>6. \A v \in Writes : v # w => wpc'[v] = wpc[v] /\ file'[v] = file[v]
    BY <2>2
  <2>7. \A v \in Writes : v # w /\ Opened(v) => holding'[file[v]] = holding[file[v]]
    BY <2>2, <2>3
  <2> QED
    <3>1. ASSUME NEW v \in Writes, v # w
          PROVE  /\ wpc'[v] = "copy" => holding'[file'[v]].of = {v}
                 /\ wpc'[v] = "commit" => file'[v] # NoFile /\ holding'[file'[v]] = Whole(v)
      BY <2>6, <2>7, <3>1
    <3>2. /\ wpc'[w] = "copy" => holding'[file'[w]].of = {w}
          /\ wpc'[w] = "commit" => file'[w] # NoFile /\ holding'[file'[w]] = Whole(w)
      BY <2>0, <2>2, <2>5 DEF f
    <3> QED
      BY <3>1, <3>2
<1>5. ASSUME NEW w \in Writes, Commit(w) PROVE HoldsOwn'
  BY <1>5 DEF Commit, Commits
<1>6. ASSUME NEW w \in Writes, CommitFails(w) PROVE HoldsOwn'
  BY <1>6 DEF CommitFails
<1>7. ASSUME NEW w \in Writes, Abort(w) PROVE HoldsOwn'
  BY <1>7 DEF Abort
<1>8. ASSUME NEW k \in Artifacts, DeleteOne(k) PROVE HoldsOwn'
  BY <1>8 DEF DeleteOne
<1>9. CASE PruneEmptyDirs
  BY <1>9 DEF PruneEmptyDirs
<1>10. CASE DeletePrefix
  BY <1>10 DEF DeletePrefix
<1>11. CASE AnHourPasses
  BY <1>11 DEF AnHourPasses
<1>12. CASE SweepPartials
  BY <1>12 DEF SweepPartials, Sweeps
<1>13. CASE BackupCrash
  BY <1>13 DEF BackupCrash
<1>14. ASSUME NEW w \in Writes, RemoteChanges(w) PROVE HoldsOwn'
  BY <1>14 DEF RemoteChanges
<1>15. ASSUME NEW r \in Restores, Ask(r) PROVE HoldsOwn'
  BY <1>15 DEF Ask
<1>16. ASSUME NEW r \in Restores, Check(r) PROVE HoldsOwn'
  BY <1>16 DEF Check, CheckStore, CheckRemote, Proves
<1>17. ASSUME NEW r \in Restores, Open(r) PROVE HoldsOwn'
  BY <1>17 DEF Open
<1>18. ASSUME NEW r \in Restores, Replace(r) PROVE HoldsOwn'
  BY <1>18 DEF Replace, ReplaceProject, ReplaceRedis, ReplaceDatabase, Loses, Reads
<1>19. ASSUME NEW r \in Restores, Configure(r) PROVE HoldsOwn'
  BY <1>19 DEF Configure, Picked
<1>20. CASE UNCHANGED backupVars
  BY <1>20
<1> QED
  BY <1>1, <1>2, <1>3, <1>4, <1>5, <1>6, <1>7, <1>8, <1>9, <1>10, <1>11, <1>12, <1>13,
     <1>14, <1>15, <1>16, <1>17, <1>18, <1>19, <1>20 DEF BackupsNext, StoreNext,
     RestoreNext

\* A step leaves the committed artifacts whole.
LEMMA WholeStep ==
    ASSUME BackupsTypeOK, NamesInv, StoreInv, [BackupsNext]_backupVars
    PROVE  ArtifactsAreWhole'
<1> USE DEF StoreInv, NamesInv, NamedForKey, NotOpened, NotCommitted, HoldsOwn,
        ArtifactsAreWhole, Opened, Holds
<1>a. /\ wpc \in [Writes -> Finished \cup {"mkdir", "open", "copy", "commit", "abort"}]
      /\ file \in [Writes -> Files] /\ holding \in [Writes -> Streams]
      /\ entry \in [Artifacts -> Files] /\ partial \in [Artifacts -> Files]
      /\ acked \in [Artifacts -> Files]
  BY DEF BackupsTypeOK
<1> USE <1>a
<1>1. ASSUME NEW w \in Writes, BeginWrite(w) PROVE ArtifactsAreWhole'
  BY <1>1 DEF BeginWrite, MayBegin
<1>2. ASSUME NEW w \in Writes, MakeFolder(w) PROVE ArtifactsAreWhole'
  BY <1>2 DEF MakeFolder
<1>3. ASSUME NEW w \in Writes, OpenPartial(w) PROVE ArtifactsAreWhole'
  <2>1. CASE wpc'[w] = "failed"
    BY <1>3, <2>1 DEF OpenPartial
  <2>2. CASE wpc'[w] # "failed"
    <3> DEFINE k == KeyOf[w]
               f == IF partial[k] = NoFile THEN w ELSE partial[k]
    <3>1. /\ wpc[w] = "open" /\ wpc' = [wpc EXCEPT ![w] = "copy"]
          /\ file' = [file EXCEPT ![w] = f]
          /\ holding' = [holding EXCEPT ![f] = [of |-> {w} \cup CopyingInto(f), whole |-> FALSE]]
          /\ UNCHANGED <<entry, acked>>
      BY <1>3, <2>2 DEF OpenPartial
    <3>2. k \in Artifacts /\ f \in Writes /\ KeyOf[f] = k /\ entry[k] # f
      BY <3>1
    <3> HIDE DEF f
    <3>3. \A j \in Artifacts : entry[j] # f
      BY <3>2
    <3>4. \A j \in Artifacts : entry[j] # NoFile => holding'[entry[j]] = holding[entry[j]]
      BY <3>1, <3>2, <3>3
    <3>5. \A j \in Artifacts, v \in Writes : Holds(entry[j], v) => Holds(entry[j], v)'
      BY <3>1, <3>4
    <3> QED
      BY <3>1, <3>5
  <2> QED
    BY <2>1, <2>2
<1>4. ASSUME NEW w \in Writes, Copy(w) PROVE ArtifactsAreWhole'
  BY <1>4 DEF Copy, Breaks
<1>5. ASSUME NEW w \in Writes, Commit(w) PROVE ArtifactsAreWhole'
  BY <1>5 DEF Commit, Commits
<1>6. ASSUME NEW w \in Writes, CommitFails(w) PROVE ArtifactsAreWhole'
  BY <1>6 DEF CommitFails
<1>7. ASSUME NEW w \in Writes, Abort(w) PROVE ArtifactsAreWhole'
  BY <1>7 DEF Abort
<1>8. ASSUME NEW k \in Artifacts, DeleteOne(k) PROVE ArtifactsAreWhole'
  BY <1>8 DEF DeleteOne
<1>9. CASE PruneEmptyDirs
  BY <1>9 DEF PruneEmptyDirs
<1>10. CASE DeletePrefix
  BY <1>10 DEF DeletePrefix
<1>11. CASE AnHourPasses
  BY <1>11 DEF AnHourPasses
<1>12. CASE SweepPartials
  BY <1>12 DEF SweepPartials, Sweeps
<1>13. CASE BackupCrash
  BY <1>13 DEF BackupCrash
<1>14. ASSUME NEW w \in Writes, RemoteChanges(w) PROVE ArtifactsAreWhole'
  BY <1>14 DEF RemoteChanges
<1>15. ASSUME NEW r \in Restores, Ask(r) PROVE ArtifactsAreWhole'
  BY <1>15 DEF Ask
<1>16. ASSUME NEW r \in Restores, Check(r) PROVE ArtifactsAreWhole'
  BY <1>16 DEF Check, CheckStore, CheckRemote, Proves
<1>17. ASSUME NEW r \in Restores, Open(r) PROVE ArtifactsAreWhole'
  BY <1>17 DEF Open
<1>18. ASSUME NEW r \in Restores, Replace(r) PROVE ArtifactsAreWhole'
  BY <1>18 DEF Replace, ReplaceProject, ReplaceRedis, ReplaceDatabase, Loses, Reads
<1>19. ASSUME NEW r \in Restores, Configure(r) PROVE ArtifactsAreWhole'
  BY <1>19 DEF Configure, Picked
<1>20. CASE UNCHANGED backupVars
  BY <1>20
<1> QED
  BY <1>1, <1>2, <1>3, <1>4, <1>5, <1>6, <1>7, <1>8, <1>9, <1>10, <1>11, <1>12, <1>13,
     <1>14, <1>15, <1>16, <1>17, <1>18, <1>19, <1>20 DEF BackupsNext, StoreNext,
     RestoreNext

\* A step of a restore, or of the store under it, leaves it proven.
LEMMA RestoreStep ==
    ASSUME BackupsTypeOK, RestoreInv, [BackupsNext]_backupVars
    PROVE  RestoreInv'
<1> USE DEF RestoreInv, BackupsTypeOK, NothingYet, SourceIsProven,
        RemoteRestoreIsProven, Whole
<1>1. ASSUME NEW w \in Writes, BeginWrite(w) PROVE RestoreInv'
  BY <1>1 DEF BeginWrite, MayBegin
<1>2. ASSUME NEW w \in Writes, MakeFolder(w) PROVE RestoreInv'
  BY <1>2 DEF MakeFolder
<1>3. ASSUME NEW w \in Writes, OpenPartial(w) PROVE RestoreInv'
  BY <1>3 DEF OpenPartial, CopyingInto
<1>4. ASSUME NEW w \in Writes, Copy(w) PROVE RestoreInv'
  BY <1>4 DEF Copy, Breaks
<1>5. ASSUME NEW w \in Writes, Commit(w) PROVE RestoreInv'
  BY <1>5 DEF Commit, Commits
<1>6. ASSUME NEW w \in Writes, CommitFails(w) PROVE RestoreInv'
  BY <1>6 DEF CommitFails
<1>7. ASSUME NEW w \in Writes, Abort(w) PROVE RestoreInv'
  BY <1>7 DEF Abort
<1>8. ASSUME NEW k \in Artifacts, DeleteOne(k) PROVE RestoreInv'
  BY <1>8 DEF DeleteOne
<1>9. CASE PruneEmptyDirs
  BY <1>9 DEF PruneEmptyDirs
<1>10. CASE DeletePrefix
  BY <1>10 DEF DeletePrefix
<1>11. CASE AnHourPasses
  BY <1>11 DEF AnHourPasses
<1>12. CASE SweepPartials
  BY <1>12 DEF SweepPartials, Sweeps
<1>13. CASE BackupCrash
  BY <1>13 DEF BackupCrash
<1>14. ASSUME NEW w \in Writes, RemoteChanges(w) PROVE RestoreInv'
  BY <1>14 DEF RemoteChanges
<1>15. ASSUME NEW r \in Restores, Ask(r) PROVE RestoreInv'
  BY <1>15 DEF Ask
<1>16. ASSUME NEW r \in Restores, Check(r) PROVE RestoreInv'
  BY <1>16 DEF Check, CheckStore, CheckRemote, Proves
<1>17. ASSUME NEW r \in Restores, Open(r) PROVE RestoreInv'
  BY <1>17 DEF Open
<1>18. ASSUME NEW r \in Restores, Replace(r) PROVE RestoreInv'
  <2>1. lost' = lost \/ lost' = [lost EXCEPT ![r] = Reads(r)]
    BY <1>18 DEF Replace, ReplaceProject, ReplaceRedis, ReplaceDatabase, Loses
  <2>2. /\ rpc[r] = "opened" /\ rpc' = [rpc EXCEPT ![r] = rpc'[r]]
        /\ rpc'[r] \in {"failed", "configure", "ok"} /\ UNCHANGED <<asked, source, configured>>
    BY <1>18 DEF Replace, ReplaceProject, ReplaceRedis, ReplaceDatabase, Loses
  <2>3. asked[r].from = "remote" /\ asked[r].expected # NoFile
            => Reads(r) = Whole(asked[r].expected)
    BY <2>2 DEF Reads
  <2>4. \A q \in Restores : q # r => lost'[q] = lost[q] /\ rpc'[q] = rpc[q]
    BY <2>1, <2>2
  <2>5. lost'[r] \in {lost[r], Reads(r)}
    BY <2>1
  <2>6. NothingYet'
    BY <2>2, <2>4
  <2>7. SourceIsProven'
    BY <2>2, <2>4
  <2>8. RemoteRestoreIsProven'
    <3> SUFFICES ASSUME NEW q \in Restores, asked[q].from = "remote"
                 PROVE  /\ lost'[q].of # {} /\ asked[q].expected # NoFile
                               => lost'[q] = Whole(asked[q].expected)
                        /\ configured[q] = "archive" /\ asked[q].untrusted
                               => asked[q].expected # NoFile
      BY <2>2
    <3> HIDE DEF Whole
    <3>1. lost[q].of # {} /\ asked[q].expected # NoFile
              => lost[q] = Whole(asked[q].expected)
      OBVIOUS
    <3>2. CASE q = r
      BY <2>3, <2>5, <3>1, <3>2
    <3>3. CASE q # r
      BY <2>4, <3>1, <3>3
    <3> QED
      BY <3>2, <3>3
  <2> QED
    BY <2>6, <2>7, <2>8
<1>19. ASSUME NEW r \in Restores, Configure(r) PROVE RestoreInv'
  BY <1>19 DEF Configure, Picked
<1>20. CASE UNCHANGED backupVars
  BY <1>20
<1> QED
  BY <1>1, <1>2, <1>3, <1>4, <1>5, <1>6, <1>7, <1>8, <1>9, <1>10, <1>11, <1>12, <1>13,
     <1>14, <1>15, <1>16, <1>17, <1>18, <1>19, <1>20 DEF BackupsNext, StoreNext,
     RestoreNext

\* A step under all the invariants of the store.
LEMMA StoreKeeps ==
    ASSUME ~Overlapping, BackupsTypeOK, StoreInv, [BackupsNext]_backupVars
    PROVE  StoreInv'
BY NamesStep, HoldsStep, WholeStep DEF StoreInv

(* The artifacts, restores and their sources keep their types.             *)
THEOREM BackupTypeCorrect == BackupsSpec => []BackupsTypeOK
<1>1. BackupsInit => BackupsTypeOK
  <2> SUFFICES ASSUME BackupsInit PROVE BackupsTypeOK
    OBVIOUS
  <2>1. [of |-> {}, whole |-> FALSE] \in Streams
    OBVIOUS
  <2>2. holding \in [Writes -> Streams] /\ lost \in [Restores -> Streams]
    <3> HIDE DEF Streams
    <3> QED
      BY <2>1 DEF BackupsInit
  <2>3. backupCrashes \in 0..BackupCrashes
    BY DEF BackupsInit
  <2> QED
    BY <2>2, <2>3 DEF BackupsInit, BackupsTypeOK
<1>2. BackupsTypeOK /\ [BackupsNext]_backupVars => BackupsTypeOK'
  BY TypeStep
<1> QED
  BY <1>1, <1>2, PTL DEF BackupsSpec

(* Whatever the writes of the store do, what replaces an app's data from   *)
(* elsewhere has the digest that was sent (restoreArtifact,                *)
(* restore_preflight.go), and an untrusted archive without one configures  *)
(* nothing.                                                                *)
THEOREM RemoteRestoresAreProven == BackupsSpec => []RemoteRestoreIsProven
<1>1. BackupsInit => RestoreInv
  BY DEF BackupsInit, RestoreInv, NothingYet, SourceIsProven, RemoteRestoreIsProven, NotAsked
<1>2. BackupsTypeOK /\ RestoreInv /\ [BackupsNext]_backupVars => RestoreInv'
  BY RestoreStep
<1>3. RestoreInv => RemoteRestoreIsProven
  BY DEF RestoreInv
<1> QED
  BY <1>1, <1>2, <1>3, BackupTypeCorrect, PTL DEF BackupsSpec

(* When the writes of a key come one at a time, the file with the key's    *)
(* name is some write's whole stream and, until a delete, the one that     *)
(* answered ok last (storeWrite), and restores from elsewhere are proven.  *)
THEOREM BackupsAreSound ==
    ASSUME ~Overlapping
    PROVE  BackupsSpec => []BackupsHold
<1>1. BackupsInit => StoreInv
  BY DEF BackupsInit, StoreInv, NamesInv, OneWriter, NamedForKey, NotOpened, NotCommitted, HoldsOwn,
     ArtifactsAreWhole, Active, Opened
<1>2. BackupsTypeOK /\ StoreInv /\ [BackupsNext]_backupVars => StoreInv'
  BY StoreKeeps
<1>3. StoreInv /\ RemoteRestoreIsProven => BackupsHold
  BY DEF StoreInv, BackupsHold
<1> QED
  BY <1>1, <1>2, <1>3, BackupTypeCorrect, RemoteRestoresAreProven, PTL DEF BackupsSpec

HIDE BackupsAssumption DEF writing, restoring, backupVars, Finished, Files, Streams, WGoes, RGoes,
    RestoreOnly
-----------------------------------------------------------------------------
(* Imports.                                                                *)

Streaming == {"receive", "wipe", "pump"}

\* What is unpacked, and where.
Landed == IF kind = "file" THEN staging ELSE target

CopyTypes ==
    /\ kind \in {"none", "volume", "hostPath", "file", "files"}
    /\ {wipeFirst, wiped, wipeErr, streamErr, stuck} \subseteq BOOLEAN
    /\ cpc \in {"idle", "close", "move", "remove", "empty", "done"} \cup Streaming
    /\ got \in 0..Parts /\ (cpc \in {"wipe", "pump"} => got > 0)
    /\ pipe \subseteq 1..got /\ target \subseteq 0..got /\ staging \subseteq 1..got
    /\ helper \in {"none", "alive", "orphan", "gone"}
    /\ unpacked \in {"no", "ok", "failed"}
    /\ answer \in {"none", "ok", "failed", "emptied", "incomplete"}

(* Nothing reaches a destination that is to be wiped before the wipe.      *)
WipeInv ==
    /\ wipeFirst /\ kind # "file" /\ ~wiped /\ ~wipeErr =>
          pipe = {} /\ target = {Old} /\ (got = 0 \/ (got = 1 /\ cpc = "wipe"))
    /\ wiped => Old \notin target
    /\ cpc \in {"idle"} \cup Streaming => ~wipeErr /\ ~streamErr
    /\ cpc = "wipe" => wipeFirst /\ kind # "file" /\ ~wiped
    /\ cpc \in {"remove", "empty"} => wiped \/ wipeErr
    /\ cpc = "idle" => /\ got = 0 /\ pipe = {} /\ staging = {} /\ target = {Old} /\ ~wiped
                       /\ unpacked = "no" /\ answer = "none"

(* What was received is on its way or unpacked, as long as nothing failed; *)
(* and the stream is whole when nothing has.                               *)
ArrivedInv ==
    /\ cpc = "receive" => 1..got \subseteq pipe \cup Landed
    /\ cpc \in {"wipe", "pump"} => 1..(got - 1) \subseteq pipe \cup Landed
    /\ cpc \in {"close", "move"} /\ ~wipeErr /\ ~streamErr => got = Parts /\ 1..Parts \subseteq pipe \cup Landed
    /\ unpacked = "ok" => pipe = {} /\ cpc \notin {"idle"} \cup Streaming

(* No helper of a finished import is left but one docker did not remove.   *)
HelperInv ==
    /\ unpacked # "no" => helper # "alive"
    /\ cpc \in {"move", "remove", "empty", "done"} => unpacked # "no"
    /\ cpc = "move" => kind = "file" /\ ~wipeErr /\ ~streamErr /\ unpacked = "ok"
    /\ cpc = "empty" \/ answer = "emptied" => stuck \/ helper \notin {"alive", "orphan"}

(* What an answer says, and that no part is still on its way.              *)
AnswerInv ==
    /\ answer # "none" => cpc = "done"
    /\ answer = "ok" => pipe = {}
    /\ answer = "failed" /\ wipeFirst /\ kind \in {"volume", "hostPath"} => pipe = {}
    /\ NothingHalfCopied

CopyInv == CopyTypes /\ WipeInv /\ ArrivedInv /\ HelperInv /\ AnswerInv

(* One import of an image works at a time, and knows every image whose     *)
(* import was answered before it.                                          *)
ImageInv ==
    /\ ipc \in [ImageCopies -> {"idle", "list", "load", "listAfter", "done"}]
    /\ imageReply \in [ImageCopies -> {"none", "ok", "failed", "refused"}]
    /\ before \in [ImageCopies -> SUBSET Tags] /\ tags \subseteq Tags
    /\ \A i \in ImageCopies : ipc[i] \in {"list", "load", "listAfter"} <=> loading = i
    /\ \A i, j \in ImageCopies :
          imageReply[i] = "ok" /\ ipc[j] \in {"load", "listAfter"} => RefOf[i] \in before[j]
    /\ \A i \in ImageCopies : ipc[i] \in {"load", "listAfter"} => before[i] \subseteq tags
    /\ ImportedImageIsThere

USE ImportsAssumption DEF Old, CGoes, Streaming

\* The imports of images leave the copy of a volume, a path or files alone.
LEMMA CopyKept ==
    ASSUME ImageNext \/ UNCHANGED importVars
    PROVE  /\ kind' = kind /\ wipeFirst' = wipeFirst /\ cpc' = cpc /\ got' = got /\ pipe' = pipe
           /\ target' = target /\ staging' = staging /\ helper' = helper /\ unpacked' = unpacked
           /\ wiped' = wiped /\ wipeErr' = wipeErr /\ streamErr' = streamErr /\ stuck' = stuck
           /\ answer' = answer
BY DEF ImageNext, importVars, copying, LockLoad, ListBefore, LoadArchive, ListAfter, BuildTags

\* A stream that ends without an error was received whole.
LEMMA WholeOrBroken ==
    ASSUME CopyTypes, StreamOver
    PROVE  streamErr' = TRUE \/ (streamErr' = FALSE /\ got = Parts)
<1>1. \A b : streamErr' \in {TRUE, b} => streamErr' = TRUE \/ streamErr' = b
  OBVIOUS
<1>2. streamErr' = TRUE \/ streamErr' = (got < Parts)
  BY <1>1, Zenon DEF StreamOver
<1>3. CASE got < Parts
  <2>1. (got < Parts) = TRUE
    BY <1>3, Zenon
  <2> QED
    BY <1>2, <2>1, Zenon
<1>4. CASE ~(got < Parts)
  <2>1. (got < Parts) = FALSE
    <3>1. \A b \in BOOLEAN : ~b => b = FALSE
      OBVIOUS
    <3>2. (got < Parts) \in BOOLEAN
      BY SMT DEF CopyTypes
    <3> QED
      BY <1>4, <3>1, <3>2, Zenon
  <2>2. got = Parts
    BY <1>4 DEF CopyTypes
  <2> QED
    BY <1>2, <2>1, <2>2, Zenon
<1> QED
  BY <1>3, <1>4

\* So what holds of the copy goes on holding.
LEMMA CopyStutters ==
    ASSUME ImageNext \/ UNCHANGED importVars
    PROVE  /\ (CopyTypes => CopyTypes') /\ (WipeInv => WipeInv')
           /\ (ArrivedInv => ArrivedInv') /\ (AnswerInv => AnswerInv')
<1>1. WipeInv => WipeInv'
  BY CopyKept DEF WipeInv
<1>2. AnswerInv => AnswerInv'
  <2>1. NothingHalfCopied => NothingHalfCopied'
    BY CopyKept DEF NothingHalfCopied
  <2> QED
    BY CopyKept, <2>1 DEF AnswerInv
<1>3. ArrivedInv => ArrivedInv'
  BY CopyKept DEF ArrivedInv, Landed
<1>4. CopyTypes => CopyTypes'
  <2> SUFFICES ASSUME CopyTypes PROVE CopyTypes'
    OBVIOUS
  <2>1. /\ kind' \in {"none", "volume", "hostPath", "file", "files"}
        /\ {wipeFirst', wiped', wipeErr', streamErr', stuck'} \subseteq BOOLEAN
        /\ helper' \in {"none", "alive", "orphan", "gone"}
        /\ unpacked' \in {"no", "ok", "failed"}
        /\ answer' \in {"none", "ok", "failed", "emptied", "incomplete"}
    BY CopyKept DEF CopyTypes
  <2>2. /\ cpc' \in {"idle", "close", "move", "remove", "empty", "done"} \cup Streaming
        /\ got' \in 0..Parts /\ (cpc' \in {"wipe", "pump"} => got' > 0)
        /\ pipe' \subseteq 1..got' /\ target' \subseteq 0..got' /\ staging' \subseteq 1..got'
    BY CopyKept DEF CopyTypes
  <2> QED
    BY <2>1, <2>2 DEF CopyTypes
<1> QED
  BY <1>1, <1>2, <1>3, <1>4

(* The stream, the destination and the helper keep their types.            *)
LEMMA CopyTypesStep ==
    ASSUME CopyTypes, [ImportsNext]_importVars
    PROVE  CopyTypes'
<1> USE DEF CopyTypes, copying, imaging
<1>1. CASE BeginImport
  BY <1>1 DEF BeginImport
<1>2. CASE ReceivePart
  BY <1>2 DEF ReceivePart, MustWipe
<1>3. CASE Wipe
  BY <1>3 DEF Wipe
<1>4. CASE Pump
  <2>1. got \in 1..got /\ got \in Nat
    BY <1>4 DEF Pump
  <2> QED
    BY <1>4, <2>1 DEF Pump
<1>5. CASE StreamOver
  <2>1. streamErr' = TRUE \/ (streamErr' = FALSE /\ got = Parts)
    BY <1>5, WholeOrBroken
  <2> QED
    BY <1>5, <2>1 DEF StreamOver
<1>6. CASE Unpack
  <2>1. 1..got \subseteq 0..got
    OBVIOUS
  <2>2. PICK p \in pipe : /\ pipe' = pipe \ {p} /\ target' \in {target, target \cup {p}}
                          /\ staging' \in {staging, staging \cup {p}}
    BY <1>6 DEF Unpack
  <2>3. p \in 1..got /\ p \in 0..got
    BY <2>1
  <2>4. pipe' \subseteq 1..got /\ target' \subseteq 0..got /\ staging' \subseteq 1..got
    BY <2>2, <2>3
  <2> QED
    BY <1>6, <2>4 DEF Unpack
<1>7. CASE Unpacked
  BY <1>7 DEF Unpacked
<1>8. CASE Judge
  BY <1>8 DEF Judge, ImportFailed, MustEmpty
<1>9. CASE MoveStaged
  <2>1. 1..got \subseteq 0..got
    OBVIOUS
  <2>2. target' \subseteq 0..got /\ staging' \subseteq 1..got
    BY <1>9, <2>1 DEF MoveStaged
  <2> QED
    BY <1>9, <2>2 DEF MoveStaged
<1>10. CASE RemoveHelper
  BY <1>10 DEF RemoveHelper, HelperRemoved
<1>11. CASE EmptyTarget
  BY <1>11 DEF EmptyTarget
<1>12. CASE ImageNext \/ UNCHANGED importVars
  BY <1>12, CopyStutters
<1> QED
  BY <1>1, <1>2, <1>3, <1>4, <1>5, <1>6, <1>7, <1>8, <1>9, <1>10, <1>11, <1>12
     DEF ImportsNext, CopyNext

(* The wipe comes first.                                                   *)
LEMMA WipeStep ==
    ASSUME CopyTypes, WipeInv, HelperInv, [ImportsNext]_importVars
    PROVE  WipeInv'
<1> USE DEF CopyTypes, WipeInv, copying, imaging
<1>1. CASE BeginImport
  BY <1>1 DEF BeginImport
<1>2. CASE ReceivePart
  BY <1>2 DEF ReceivePart, MustWipe
<1>3. CASE Wipe
  BY <1>3 DEF Wipe
<1>4. CASE Pump
  BY <1>4 DEF Pump
<1>5. CASE StreamOver
  BY <1>5 DEF StreamOver
<1>6. CASE Unpack
  BY <1>6 DEF Unpack
<1>7. CASE Unpacked
  BY <1>7 DEF Unpacked
<1>8. CASE Judge
  BY <1>8 DEF Judge, ImportFailed, MustEmpty
<1>9. CASE MoveStaged
  BY <1>9 DEF MoveStaged, HelperInv
<1>10. CASE RemoveHelper
  BY <1>10 DEF RemoveHelper, HelperRemoved
<1>11. CASE EmptyTarget
  BY <1>11 DEF EmptyTarget
<1>12. CASE ImageNext \/ UNCHANGED importVars
  BY <1>12, CopyStutters
<1> QED
  BY <1>1, <1>2, <1>3, <1>4, <1>5, <1>6, <1>7, <1>8, <1>9, <1>10, <1>11, <1>12
     DEF ImportsNext, CopyNext

(* No part is lost on its way.                                             *)
LEMMA ArrivedStep ==
    ASSUME CopyTypes, WipeInv, ArrivedInv, [ImportsNext]_importVars
    PROVE  ArrivedInv'
<1> USE DEF CopyTypes, ArrivedInv, Landed, copying, imaging
<1>1. CASE BeginImport
  BY <1>1 DEF BeginImport, WipeInv
<1>2. CASE ReceivePart
  BY <1>2 DEF ReceivePart, MustWipe, WipeInv
<1>3. CASE Wipe
  BY <1>3 DEF Wipe, WipeInv
<1>4. CASE Pump
  BY <1>4 DEF Pump
<1>5. CASE StreamOver
  <2>1. streamErr' = TRUE \/ (streamErr' = FALSE /\ got = Parts)
    BY <1>5, WholeOrBroken
  <2> QED
    BY <1>5, <2>1 DEF StreamOver
<1>6. CASE Unpack
  BY <1>6 DEF Unpack
<1>7. CASE Unpacked
  BY <1>7 DEF Unpacked
<1>8. CASE Judge
  BY <1>8 DEF Judge, ImportFailed, MustEmpty
<1>9. CASE MoveStaged
  BY <1>9 DEF MoveStaged
<1>10. CASE RemoveHelper
  BY <1>10 DEF RemoveHelper, HelperRemoved
<1>11. CASE EmptyTarget
  BY <1>11 DEF EmptyTarget
<1>12. CASE ImageNext \/ UNCHANGED importVars
  BY <1>12, CopyStutters
<1> QED
  BY <1>1, <1>2, <1>3, <1>4, <1>5, <1>6, <1>7, <1>8, <1>9, <1>10, <1>11, <1>12
     DEF ImportsNext, CopyNext

(* Helpers end or are removed.                                             *)
LEMMA HelperStep ==
    ASSUME CopyTypes, WipeInv, HelperInv, AnswerInv, [ImportsNext]_importVars
    PROVE  HelperInv'
<1> USE DEF CopyTypes, HelperInv, copying, imaging
<1>1. CASE BeginImport
  BY <1>1 DEF BeginImport, AnswerInv, WipeInv
<1>2. CASE ReceivePart
  BY <1>2 DEF ReceivePart, MustWipe, AnswerInv
<1>3. CASE Wipe
  BY <1>3 DEF Wipe, AnswerInv
<1>4. CASE Pump
  BY <1>4 DEF Pump, AnswerInv
<1>5. CASE StreamOver
  BY <1>5 DEF StreamOver, AnswerInv
<1>6. CASE Unpack
  BY <1>6 DEF Unpack, AnswerInv
<1>7. CASE Unpacked
  BY <1>7 DEF Unpacked, AnswerInv
<1>8. CASE Judge
  BY <1>8 DEF Judge, ImportFailed, MustEmpty, AnswerInv
<1>9. CASE MoveStaged
  BY <1>9 DEF MoveStaged, AnswerInv
<1>10. CASE RemoveHelper
  BY <1>10 DEF RemoveHelper, HelperRemoved, AnswerInv
<1>11. CASE EmptyTarget
  BY <1>11 DEF EmptyTarget, AnswerInv
<1>12. CASE ImageNext \/ UNCHANGED importVars
  BY <1>12, CopyKept
<1> QED
  BY <1>1, <1>2, <1>3, <1>4, <1>5, <1>6, <1>7, <1>8, <1>9, <1>10, <1>11, <1>12
     DEF ImportsNext, CopyNext

(* The answer fits what is there, then and later.                          *)
LEMMA AnswerStep ==
    ASSUME CopyInv, [ImportsNext]_importVars
    PROVE  AnswerInv'
<1> USE DEF CopyInv, CopyTypes, AnswerInv, NothingHalfCopied, copying, imaging
<1>1. CASE BeginImport
  BY <1>1 DEF BeginImport, WipeInv
<1>2. CASE ReceivePart
  BY <1>2 DEF ReceivePart, MustWipe
<1>3. CASE Wipe
  BY <1>3 DEF Wipe
<1>4. CASE Pump
  BY <1>4 DEF Pump
<1>5. CASE StreamOver
  BY <1>5 DEF StreamOver
<1>6. CASE Unpack
  BY <1>6 DEF Unpack, HelperInv
<1>7. CASE Unpacked
  BY <1>7 DEF Unpacked, HelperInv
<1>8. CASE Judge
  BY <1>8 DEF Judge, ImportFailed, MustEmpty, WipeInv, ArrivedInv, Landed
<1>9. CASE MoveStaged
  BY <1>9 DEF MoveStaged, WipeInv, ArrivedInv, HelperInv, Landed
<1>10. CASE RemoveHelper
  BY <1>10 DEF RemoveHelper, HelperRemoved, HelperInv
<1>11. CASE EmptyTarget
  BY <1>11 DEF EmptyTarget, HelperInv
<1>12. CASE ImageNext \/ UNCHANGED importVars
  BY <1>12, CopyStutters DEF AnswerInv
<1> QED
  BY <1>1, <1>2, <1>3, <1>4, <1>5, <1>6, <1>7, <1>8, <1>9, <1>10, <1>11, <1>12
     DEF ImportsNext, CopyNext

(* The images.                                                             *)
LEMMA ImageStep ==
    ASSUME ImageInv, [ImportsNext]_importVars
    PROVE  ImageInv'
<1> USE DEF ImageInv, ImportedImageIsThere, IGoes
<1>1. ASSUME NEW i \in ImageCopies, LockLoad(i) PROVE ImageInv'
  BY <1>1 DEF LockLoad, MayLoad
<1>2. ASSUME NEW i \in ImageCopies, ListBefore(i) PROVE ImageInv'
  BY <1>2 DEF ListBefore, Replies
<1>3. ASSUME NEW i \in ImageCopies, LoadArchive(i) PROVE ImageInv'
  BY <1>3 DEF LoadArchive, Replies
<1>4. ASSUME NEW i \in ImageCopies, ListAfter(i) PROVE ImageInv'
  BY <1>4 DEF ListAfter, Replies, Unexpected
<1>5. ASSUME NEW t \in Tags, BuildTags(t) PROVE ImageInv'
  BY <1>5 DEF BuildTags
<1>6. ASSUME CopyNext \/ UNCHANGED importVars PROVE UNCHANGED imaging
  BY <1>6 DEF CopyNext, importVars, BeginImport, ReceivePart, Wipe, Pump, StreamOver, Unpack, Unpacked,
              Judge, MoveStaged, RemoveHelper, EmptyTarget
<1>7. CASE UNCHANGED imaging
  BY <1>7 DEF imaging
<1> QED
  BY <1>1, <1>2, <1>3, <1>4, <1>5, <1>6, <1>7 DEF ImportsNext, ImageNext

\* Before an import nothing is received, and no image is being loaded.
LEMMA ImportsStart == ASSUME ImportsInit PROVE CopyInv /\ ImageInv
<1>1. CopyInv
  <2>1. CopyTypes
    <3>1. got \in 0..Parts /\ target \subseteq 0..got
      BY DEF ImportsInit
    <3> QED
      BY <3>1 DEF ImportsInit, CopyTypes
  <2>2. WipeInv
    BY DEF ImportsInit, WipeInv
  <2>3. ArrivedInv /\ HelperInv
    BY DEF ImportsInit, ArrivedInv, HelperInv, Landed
  <2>4. AnswerInv
    BY DEF ImportsInit, AnswerInv, NothingHalfCopied
  <2> QED
    BY <2>1, <2>2, <2>3, <2>4 DEF CopyInv
<1>2. ImageInv
  BY DEF ImportsInit, ImageInv, ImportedImageIsThere
<1> QED
  BY <1>1, <1>2

(* The answer of an import says what is there: all of the stream and, if   *)
(* it was to be wiped, nothing else; nothing; or what was there before.    *)
(* An image whose import was answered ok stays.  For a stream of any       *)
(* length and any number of images.                                        *)
THEOREM ImportsStayWhole == ImportsSpec => []ImportsAreWhole
<1>1. CopyInv /\ ImageInv /\ [ImportsNext]_importVars => (CopyInv /\ ImageInv)'
  BY CopyTypesStep, WipeStep, ArrivedStep, HelperStep, AnswerStep, ImageStep DEF CopyInv
<1>2. CopyInv /\ ImageInv => ImportsAreWhole
  BY DEF CopyInv, AnswerInv, ImageInv, ImportsAreWhole
<1> QED
  BY ImportsStart, <1>1, <1>2, PTL DEF ImportsSpec

HIDE ImportsAssumption DEF Old, CGoes, Streaming
-----------------------------------------------------------------------------
(* Working copies.                                                         *)

Syncing == syncAt \in {"walk", "prune", "list", "strip"}

\* What the walk has passed.
Passed(n) == {Walk[i] : i \in 1..n}

(* What the walk has passed is as in the source, but for what the services *)
(* did; the prune is of what the list then says; and the list holds what   *)
(* is in a source.                                                         *)
SyncInv ==
    /\ syncAt # "idle" => ~copied
    /\ Syncing =>
          /\ walked \in 0..3 /\ (syncAt # "walk" => walked = 3)
          /\ \A p \in Passed(walked) \ touched : src[p] # "none" => copy[p] = src[p]
          /\ synced = {p \in Passed(walked) : IsFile(src[p]) \/ IsLink(src[p])}
          /\ syncAt \in {"walk", "prune", "list"} => srcList = wasListed
    /\ syncAt \in {"list", "strip"} /\ git =>
          \A p \in wasListed \ touched : src[p] = "none" => copy[p] \in {"none", "dir"}

(* What services made is in no source, so that no list has it and no walk  *)
(* comes by.                                                               *)
OwnInv ==
    /\ data \cap srcList = {}
    /\ Syncing => \A p \in data : src[p] = "none"
    /\ syncAt = "unlist" => ~running /\ data = {}

WorkTypes ==
    /\ copy \in [Paths -> Contents \cup {"none", "dir", "in", "out", "data", "cut"}]
    /\ src \in [Paths -> Contents \cup {"none", "dir", "in", "out"}]
    /\ {srcList, synced, wasListed, touched, data} \subseteq SUBSET Paths
    /\ syncAt \in {"idle", "walk", "prune", "list", "strip", "unlist"} /\ walked \in 0..3
    /\ running \in BOOLEAN /\ git \in BOOLEAN /\ copied \in BOOLEAN

WorkInv == WorkTypes /\ SyncInv /\ OwnInv /\ SourceIsCopied

USE WorkingCopyAssumption DEF order, walk, services, counts, Syncing

(* The walk's order.                                                       *)
LEMMA WalkSteps ==
    /\ Len(Walk) = 3 /\ Walk[1] = "d" /\ Walk[2] = "d/f" /\ Walk[3] = "g"
    /\ Passed(0) = {} /\ Passed(1) = {"d"} /\ Passed(2) = {"d", "d/f"} /\ Passed(3) = Paths
<1>1. Walk[1] = "d" /\ Walk[2] = "d/f" /\ Walk[3] = "g" /\ Len(Walk) = 3
  BY DEF Walk
<1>2. 1..0 = {} /\ 1..1 = {1} /\ 1..2 = {1, 2} /\ 1..3 = {1, 2, 3}
  OBVIOUS
<1> QED
  BY <1>1, <1>2 DEF Passed, Paths

\* The entry at hand, of the three.
LEMMA AtHand ==
    ASSUME walked \in 0..3, walked < Len(Walk)
    PROVE  /\ Here \in Paths /\ Here \notin Passed(walked)
           /\ walked + 1 \in 0..3 /\ Passed(walked + 1) = Passed(walked) \cup {Here}
<1>1. walked = 0 \/ walked = 1 \/ walked = 2
  BY WalkSteps
<1>2. 0 + 1 = 1 /\ 1 + 1 = 2 /\ 2 + 1 = 3
  OBVIOUS
<1>3. CASE walked = 0
  BY <1>2, <1>3, WalkSteps DEF Here, Paths
<1>4. CASE walked = 1
  BY <1>2, <1>4, WalkSteps DEF Here, Paths
<1>5. CASE walked = 2
  BY <1>2, <1>5, WalkSteps DEF Here, Paths
<1> QED
  BY <1>1, <1>3, <1>4, <1>5

(* The working copy, the lists and the deploy keep their types.            *)
LEMMA WorkTypesStep ==
    ASSUME WorkTypes, [WorkNext]_workVars
    PROVE  WorkTypes'
<1> USE DEF WorkTypes
<1>1. ASSUME NEW t \in SourceTrees, BeginSync(t) PROVE WorkTypes'
  <2>1. /\ git' \in BOOLEAN /\ src' = t /\ t \in [Paths -> Contents \cup {"none", "dir", "in", "out"}]
        /\ syncAt' = "walk" /\ walked' = 0 /\ synced' = {} /\ copied' = FALSE /\ touched' = {}
        /\ wasListed' = srcList /\ data' \subseteq data
        /\ copy' = copy /\ srcList' = srcList /\ running' = running
    BY <1>1 DEF BeginSync
  <2>2. {srcList', synced', wasListed', touched', data'} \subseteq SUBSET Paths
    BY <2>1
  <2>3. src' \in [Paths -> Contents \cup {"none", "dir", "in", "out"}]
    BY <2>1
  <2>4. syncAt' \in {"idle", "walk", "prune", "list", "strip", "unlist"} /\ walked' \in 0..3
    BY <2>1
  <2>5. git' \in BOOLEAN /\ copied' \in BOOLEAN
    BY <2>1
  <2> QED
    BY <2>1, <2>2, <2>3, <2>4, <2>5
<1>2. CASE SyncEntry
  BY <1>2, AtHand DEF SyncEntry, Takes
<1>3. CASE EntryFails
  BY <1>3, AtHand DEF EntryFails, Takes, Leftover
<1>4. CASE EndWalk
  BY <1>4 DEF EndWalk
<1>5. CASE Prune
  BY <1>5 DEF Prune
<1>6. CASE WriteList
  BY <1>6 DEF WriteList
<1>7. CASE StripLinks
  BY <1>7 DEF StripLinks
<1>8. CASE RemoveCopy
  BY <1>8 DEF RemoveCopy
<1>9. CASE RemoveSrcList
  BY <1>9 DEF RemoveSrcList
<1>10. CASE CopyCrash
  BY <1>10, AtHand DEF CopyCrash, Leftover
<1>11. ASSUME NEW p \in Paths, ServiceDoes(p) PROVE WorkTypes'
  BY <1>11 DEF ServiceDoes, Under, Paths
<1>12. CASE UNCHANGED workVars
  BY <1>12 DEF workVars
<1> QED
  BY <1>1, <1>2, <1>3, <1>4, <1>5, <1>6, <1>7, <1>8, <1>9, <1>10, <1>11, <1>12
     DEF WorkNext

(* The walk, the prune and the list go forward.                            *)
LEMMA SyncStep ==
    ASSUME WorkTypes, SyncInv, [WorkNext]_workVars
    PROVE  SyncInv'
<1> USE DEF WorkTypes, SyncInv
<1>1. ASSUME NEW t \in SourceTrees, BeginSync(t) PROVE SyncInv'
  <2>1. /\ git' \in BOOLEAN /\ src' = t /\ t \in [Paths -> Contents \cup {"none", "dir", "in", "out"}]
        /\ syncAt' = "walk" /\ walked' = 0 /\ synced' = {} /\ copied' = FALSE /\ touched' = {}
        /\ wasListed' = srcList /\ data' \subseteq data
        /\ copy' = copy /\ srcList' = srcList /\ running' = running
    BY <1>1 DEF BeginSync
  <2>2. Passed(walked') = {}
    BY <2>1, WalkSteps
  <2>3. synced' = {p \in Passed(walked') : IsFile(src'[p]) \/ IsLink(src'[p])}
    BY <2>1, <2>2
  <2> QED
    BY <2>1, <2>2, <2>3
<1>2. CASE SyncEntry
  BY <1>2, AtHand DEF SyncEntry, Takes
<1>3. CASE EntryFails
  BY <1>3, AtHand DEF EntryFails
<1>4. CASE EndWalk
  BY <1>4, WalkSteps DEF EndWalk
<1>5. CASE Prune
  BY <1>5, WalkSteps DEF Prune, Pruned, IsFile, IsLink
<1>6. CASE WriteList
  BY <1>6 DEF WriteList
<1>7. CASE StripLinks
  BY <1>7 DEF StripLinks
<1>8. CASE RemoveCopy
  BY <1>8 DEF RemoveCopy
<1>9. CASE RemoveSrcList
  BY <1>9 DEF RemoveSrcList
<1>10. CASE CopyCrash
  BY <1>10, AtHand DEF CopyCrash
<1>11. ASSUME NEW p \in Paths, ServiceDoes(p) PROVE SyncInv'
  <2>1. /\ \A q \in Paths \ touched' : q \notin touched /\ copy'[q] = copy[q]
        /\ touched \subseteq touched' /\ touched' \subseteq Paths
    BY <1>11 DEF ServiceDoes, Under, Paths
  <2>2. UNCHANGED <<srcList, src, git, wasListed, syncAt, walked, synced, copied>>
    BY <1>11 DEF ServiceDoes
  <2>3. walked \in 0..3 => Passed(walked) \subseteq Paths
    BY WalkSteps DEF Paths
  <2> QED
    BY <2>1, <2>2, <2>3
<1>12. CASE UNCHANGED workVars
  BY <1>12 DEF workVars
<1> QED
  BY <1>1, <1>2, <1>3, <1>4, <1>5, <1>6, <1>7, <1>8, <1>9, <1>10, <1>11, <1>12
     DEF WorkNext

(* A service's own file is in nobody's way.                                *)
LEMMA OwnStep ==
    ASSUME WorkTypes, SyncInv, OwnInv, [WorkNext]_workVars
    PROVE  OwnInv'
<1> USE DEF WorkTypes, OwnInv
<1>1. ASSUME NEW t \in SourceTrees, BeginSync(t) PROVE OwnInv'
  BY <1>1 DEF BeginSync
<1>2. CASE SyncEntry
  BY <1>2 DEF SyncEntry
<1>3. CASE EntryFails
  BY <1>3 DEF EntryFails
<1>4. CASE EndWalk
  BY <1>4 DEF EndWalk
<1>5. CASE Prune
  BY <1>5 DEF Prune
<1>6. CASE WriteList
  BY <1>6 DEF WriteList, SyncInv, IsFile, IsLink
<1>7. CASE StripLinks
  BY <1>7 DEF StripLinks
<1>8. CASE RemoveCopy
  BY <1>8 DEF RemoveCopy
<1>9. CASE RemoveSrcList
  BY <1>9 DEF RemoveSrcList
<1>10. CASE CopyCrash
  BY <1>10 DEF CopyCrash
<1>11. ASSUME NEW p \in Paths, ServiceDoes(p) PROVE OwnInv'
  BY <1>11 DEF ServiceDoes
<1>12. CASE UNCHANGED workVars
  BY <1>12 DEF workVars
<1> QED
  BY <1>1, <1>2, <1>3, <1>4, <1>5, <1>6, <1>7, <1>8, <1>9, <1>10, <1>11, <1>12
     DEF WorkNext

(* A sync is reported whole when its list has been written and its links   *)
(* are stripped, and the source is in the copy by then.                    *)
LEMMA CopiedStep ==
    ASSUME WorkInv, [WorkNext]_workVars
    PROVE  SourceIsCopied'
<1> USE DEF WorkInv, WorkTypes, OwnInv, SourceIsCopied
<1>1. ASSUME NEW t \in SourceTrees, BeginSync(t) PROVE SourceIsCopied'
  BY <1>1 DEF BeginSync
<1>2. CASE SyncEntry
  BY <1>2, AtHand DEF SyncEntry, SyncInv
<1>3. CASE EntryFails
  BY <1>3, AtHand DEF EntryFails, SyncInv
<1>4. CASE EndWalk
  BY <1>4 DEF EndWalk, SyncInv
<1>5. CASE Prune
  BY <1>5 DEF Prune, Pruned, SyncInv
<1>6. CASE WriteList
  BY <1>6 DEF WriteList, SyncInv
<1>7. CASE StripLinks
  BY <1>7, WalkSteps DEF StripLinks, SyncInv, Escaping
<1>8. CASE RemoveCopy
  BY <1>8 DEF RemoveCopy
<1>9. CASE RemoveSrcList
  BY <1>9 DEF RemoveSrcList, SyncInv
<1>10. CASE CopyCrash
  BY <1>10, AtHand DEF CopyCrash, SyncInv
<1>11. ASSUME NEW p \in Paths, ServiceDoes(p) PROVE SourceIsCopied'
  BY <1>11 DEF ServiceDoes, Under, SyncInv
<1>12. CASE UNCHANGED workVars
  BY <1>12 DEF workVars
<1> QED
  BY <1>1, <1>2, <1>3, <1>4, <1>5, <1>6, <1>7, <1>8, <1>9, <1>10, <1>11, <1>12
     DEF WorkNext

\* Before the first deploy there is no working copy to speak of.
LEMMA WorkStart == ASSUME WorkInit PROVE WorkInv
<1>1. WorkTypes
  <2>1. copy \in [Paths -> Contents \cup {"none", "dir", "in", "out", "data", "cut"}]
    BY DEF WorkInit
  <2>2. src \in [Paths -> Contents \cup {"none", "dir", "in", "out"}]
    BY DEF WorkInit
  <2>3. {srcList, synced, wasListed, touched, data} \subseteq SUBSET Paths
    BY DEF WorkInit
  <2>4. syncAt \in {"idle", "walk", "prune", "list", "strip", "unlist"} /\ walked \in 0..3
    <3>1. syncAt = "idle" /\ walked = 0
      BY DEF WorkInit
    <3> QED
      BY <3>1
  <2>5. running \in BOOLEAN /\ git \in BOOLEAN /\ copied \in BOOLEAN
    BY DEF WorkInit
  <2> QED
    BY <2>1, <2>2, <2>3, <2>4, <2>5 DEF WorkTypes
<1> QED
  BY <1>1 DEF WorkInit, WorkInv, SyncInv, OwnInv, SourceIsCopied

(* A sync that is reported whole left the source in the working copy, and  *)
(* no file that only the services have is lost, whatever an earlier sync   *)
(* left, what the services do meanwhile and whenever the agent is killed:  *)
(* for any contents and any number of syncs, on the tree of WorkingCopy.   *)
THEOREM SourceStaysCopied == WorkSpec => []SourceIsCopied
<1>1. WorkInv /\ [WorkNext]_workVars => WorkInv'
  BY WorkTypesStep, SyncStep, OwnStep, CopiedStep DEF WorkInv
<1> QED
  BY WorkStart, <1>1, PTL DEF WorkSpec, WorkInv

HIDE WorkingCopyAssumption DEF order, walk, services, counts, Syncing
-----------------------------------------------------------------------------
(* Cleanup.                                                                *)

CleanupTypes ==
    /\ image \in [1..Images -> {"absent", "fresh", "old"}]
    /\ deploying \in 0..Images
    /\ files \in [Apps -> {"none", "fresh", "old"}] /\ app \subseteq Apps
    /\ chosen \in [images : SUBSET (1..Images), dirs : SUBSET Apps, volume : BOOLEAN]

(* An image that was picked was old, and what a deploy has just built is   *)
(* not; a volume that was proven is empty until a container has it; and an *)
(* app that the list does not know is fresh.                               *)
ChosenInv ==
    /\ deploying # 0 => image[deploying] = "fresh"
    /\ \A i \in chosen.images : image[i] = "old"
    /\ chosen.volume => \/ mounts = 0 /\ ~mounted /\ volume = "empty"
                        \/ mounts = 1 /\ mounted
    /\ cleaning => \A a \in app \ live : files[a] = "fresh"
    /\ \A a \in chosen.dirs : a \notin app /\ files[a] # "none"

CleanupInv == CleanupTypes /\ ChosenInv /\ CleanupLosesNothing

-----------------------------------------------------------------------------

USE CleanupAssumption DEF cleanup

(* Images, files and what a cleanup has chosen keep their types.           *)
LEMMA CleanupTypesStep ==
    ASSUME CleanupTypes, [CleanupNext]_cleanupVars
    PROVE  CleanupTypes'
<1> USE DEF CleanupTypes
<1>1. ASSUME NEW i \in 1..Images, BuildImage(i) PROVE CleanupTypes'
  BY <1>1 DEF BuildImage, AppsOnly
<1>2. ASSUME NEW i \in 1..Images, RemoveImage(i) PROVE CleanupTypes'
  BY <1>2 DEF RemoveImage, CleanupOnly
<1>3. ASSUME NEW a \in Apps, MakeApp(a) PROVE CleanupTypes'
  BY <1>3 DEF MakeApp, AppsOnly
<1>4. ASSUME NEW a \in Apps, DeleteApp(a) PROVE CleanupTypes'
  BY <1>4 DEF DeleteApp, AppsOnly
<1>5. ASSUME NEW a \in Apps, LookAtFiles(a) PROVE CleanupTypes'
  BY <1>5 DEF LookAtFiles, CleanupOnly, PastGrace
<1>6. ASSUME NEW a \in Apps, RemoveFiles(a) PROVE CleanupTypes'
  BY <1>6 DEF RemoveFiles, CleanupOnly
<1>7. CASE DeployUp
  BY <1>7 DEF DeployUp, AppsOnly
<1>8. CASE RemoveContainers
  BY <1>8 DEF RemoveContainers, AppsOnly
<1>9. CASE MountVolume
  BY <1>9 DEF MountVolume, AppsOnly
<1>10. CASE FillVolume
  BY <1>10 DEF FillVolume, AppsOnly
<1>11. CASE UnmountVolume
  BY <1>11 DEF UnmountVolume, AppsOnly
<1>12. CASE AnHour
  BY <1>12 DEF AnHour, AppsOnly
<1>13. CASE BeginCleanup
  BY <1>13 DEF BeginCleanup, CleanupOnly
<1>14. CASE BuildIndex
  BY <1>14 DEF BuildIndex, CleanupOnly
<1>15. CASE ListImages
  BY <1>15 DEF ListImages, CleanupOnly, PastGrace
<1>16. CASE ProveVolume
  BY <1>16 DEF ProveVolume, CleanupOnly, Proof
<1>17. CASE RemoveVolume
  BY <1>17 DEF RemoveVolume, CleanupOnly
<1>18. CASE EndCleanup
  BY <1>18 DEF EndCleanup, CleanupOnly, NothingChosen
<1>19. CASE UNCHANGED cleanupVars
  BY <1>19 DEF cleanupVars, apps
<1> QED
  BY <1>1, <1>2, <1>3, <1>4, <1>5, <1>6, <1>7, <1>8, <1>9, <1>10, <1>11, <1>12, <1>13, <1>14, <1>15, <1>16, <1>17, <1>18, <1>19
     DEF CleanupNext

(* What is chosen stays what it was chosen for.                            *)
LEMMA ChosenStep ==
    ASSUME ~Reusing, CleanupInv, [CleanupNext]_cleanupVars
    PROVE  ChosenInv'
<1> USE DEF CleanupInv, CleanupTypes, ChosenInv
<1>1. ASSUME NEW i \in 1..Images, BuildImage(i) PROVE ChosenInv'
  BY <1>1 DEF BuildImage, AppsOnly
<1>2. ASSUME NEW i \in 1..Images, RemoveImage(i) PROVE ChosenInv'
  BY <1>2 DEF RemoveImage, CleanupOnly
<1>3. ASSUME NEW a \in Apps, MakeApp(a) PROVE ChosenInv'
  BY <1>3 DEF MakeApp, AppsOnly, CleanupLosesNothing
<1>4. ASSUME NEW a \in Apps, DeleteApp(a) PROVE ChosenInv'
  BY <1>4 DEF DeleteApp, AppsOnly
<1>5. ASSUME NEW a \in Apps, LookAtFiles(a) PROVE ChosenInv'
  BY <1>5 DEF LookAtFiles, CleanupOnly, PastGrace
<1>6. ASSUME NEW a \in Apps, RemoveFiles(a) PROVE ChosenInv'
  BY <1>6 DEF RemoveFiles, CleanupOnly
<1>7. CASE DeployUp
  BY <1>7 DEF DeployUp, AppsOnly
<1>8. CASE RemoveContainers
  BY <1>8 DEF RemoveContainers, AppsOnly
<1>9. CASE MountVolume
  BY <1>9 DEF MountVolume, AppsOnly
<1>10. CASE FillVolume
  BY <1>10 DEF FillVolume, AppsOnly
<1>11. CASE UnmountVolume
  BY <1>11 DEF UnmountVolume, AppsOnly
<1>12. CASE AnHour
  BY <1>12 DEF AnHour, AppsOnly
<1>13. CASE BeginCleanup
  BY <1>13 DEF BeginCleanup, CleanupOnly
<1>14. CASE BuildIndex
  BY <1>14 DEF BuildIndex, CleanupOnly
<1>15. CASE ListImages
  BY <1>15 DEF ListImages, CleanupOnly, PastGrace
<1>16. CASE ProveVolume
  BY <1>16 DEF ProveVolume, CleanupOnly, Proof
<1>17. CASE RemoveVolume
  BY <1>17 DEF RemoveVolume, CleanupOnly
<1>18. CASE EndCleanup
  BY <1>18 DEF EndCleanup, CleanupOnly, NothingChosen
<1>19. CASE UNCHANGED cleanupVars
  BY <1>19 DEF cleanupVars, apps
<1> QED
  BY <1>1, <1>2, <1>3, <1>4, <1>5, <1>6, <1>7, <1>8, <1>9, <1>10, <1>11, <1>12, <1>13, <1>14, <1>15, <1>16, <1>17, <1>18, <1>19
     DEF CleanupNext

(* Nothing is lost in a step.                                              *)
LEMMA LosesNothingStep ==
    ASSUME CleanupInv, [CleanupNext]_cleanupVars
    PROVE  CleanupLosesNothing'
<1> USE DEF CleanupInv, CleanupTypes, CleanupLosesNothing
<1>1. ASSUME NEW i \in 1..Images, BuildImage(i) PROVE CleanupLosesNothing'
  BY <1>1 DEF BuildImage, AppsOnly
<1>2. ASSUME NEW i \in 1..Images, RemoveImage(i) PROVE CleanupLosesNothing'
  BY <1>2 DEF RemoveImage, CleanupOnly, ChosenInv
<1>3. ASSUME NEW a \in Apps, MakeApp(a) PROVE CleanupLosesNothing'
  BY <1>3 DEF MakeApp, AppsOnly
<1>4. ASSUME NEW a \in Apps, DeleteApp(a) PROVE CleanupLosesNothing'
  BY <1>4 DEF DeleteApp, AppsOnly
<1>5. ASSUME NEW a \in Apps, LookAtFiles(a) PROVE CleanupLosesNothing'
  BY <1>5 DEF LookAtFiles, CleanupOnly, PastGrace
<1>6. ASSUME NEW a \in Apps, RemoveFiles(a) PROVE CleanupLosesNothing'
  BY <1>6 DEF RemoveFiles, CleanupOnly, ChosenInv
<1>7. CASE DeployUp
  BY <1>7 DEF DeployUp, AppsOnly
<1>8. CASE RemoveContainers
  BY <1>8 DEF RemoveContainers, AppsOnly
<1>9. CASE MountVolume
  BY <1>9 DEF MountVolume, AppsOnly
<1>10. CASE FillVolume
  BY <1>10 DEF FillVolume, AppsOnly
<1>11. CASE UnmountVolume
  BY <1>11 DEF UnmountVolume, AppsOnly
<1>12. CASE AnHour
  BY <1>12 DEF AnHour, AppsOnly
<1>13. CASE BeginCleanup
  BY <1>13 DEF BeginCleanup, CleanupOnly
<1>14. CASE BuildIndex
  BY <1>14 DEF BuildIndex, CleanupOnly
<1>15. CASE ListImages
  BY <1>15 DEF ListImages, CleanupOnly, PastGrace
<1>16. CASE ProveVolume
  BY <1>16 DEF ProveVolume, CleanupOnly, Proof
<1>17. CASE RemoveVolume
  <2>1. volume = "empty" \/ mounted
    BY <1>17 DEF RemoveVolume, ChosenInv
  <2>2. volume # "full" \/ mounted
    BY <2>1
  <2>3. ~lostData'
    BY <1>17, <2>2, Zenon DEF RemoveVolume, CleanupLosesNothing
  <2> QED
    BY <1>17, <2>3 DEF RemoveVolume, CleanupOnly
<1>18. CASE EndCleanup
  BY <1>18 DEF EndCleanup, CleanupOnly, NothingChosen
<1>19. CASE UNCHANGED cleanupVars
  BY <1>19 DEF cleanupVars, apps
<1> QED
  BY <1>1, <1>2, <1>3, <1>4, <1>5, <1>6, <1>7, <1>8, <1>9, <1>10, <1>11, <1>12, <1>13, <1>14, <1>15, <1>16, <1>17, <1>18, <1>19
     DEF CleanupNext

\* Before the first cleanup nothing is chosen.
LEMMA CleanupStart == ASSUME CleanupInit PROVE CleanupInv
BY DEF CleanupInit, CleanupInv, CleanupTypes, ChosenInv, CleanupLosesNothing, NothingChosen

(* A cleanup decides on a snapshot, and still takes no image of a deploy   *)
(* on its way, no volume with data and no files of an app, as long as no   *)
(* new app has the slug of one whose files are left: for any number of     *)
(* apps, images, deploys and cleanups.                                     *)
THEOREM CleanupStaysSafe ==
    ASSUME ~Reusing
    PROVE  CleanupSpec => []CleanupLosesNothing
<1>1. CleanupInv /\ [CleanupNext]_cleanupVars => CleanupInv'
  BY CleanupTypesStep, ChosenStep, LosesNothingStep DEF CleanupInv
<1> QED
  BY CleanupStart, <1>1, PTL DEF CleanupSpec, CleanupInv

HIDE CleanupAssumption DEF cleanup
-----------------------------------------------------------------------------
(* Pulled images.                                                          *)

\* A registry has what the name stands for, in the name's repository.
Pullable(n) == <<RepoOf[n], local[n]>> \in pushed

(* A name that a scan has seen stands for the image it saw, for none, or   *)
(* for one that was pulled meanwhile; what a scan is to remove, it has     *)
(* asked for, or will.                                                     *)
ScanInv ==
    /\ local \in [Names -> Layers \cup {NoLayer}] /\ upstream \in [Names -> Layers \cup {NoLayer}]
    /\ names \in [Layers -> SUBSET Names] /\ toRemove \subseteq Names
    /\ \A n \in Names : upstream[n] # NoLayer => <<RepoOf[n], upstream[n]>> \in pushed
    /\ \A i \in Layers : \A n \in names[i] : local[n] \in {i, NoLayer} \/ Pullable(n)
    /\ \A n \in toRemove : local[n] \in {looking, NoLayer} \/ Pullable(n)
    /\ scan = "ask" => \A n \in toRemove : <<RepoOf[n], "digest">> \in ask \/ <<RepoOf[n], looking>> \in pushed
    /\ scan = "remove" => \A n \in toRemove : <<RepoOf[n], looking>> \in pushed
    /\ scan \notin {"ask", "remove"} => toRemove = {}
    /\ unrecoverable = {}

USE PulledImagesAssumption DEF hostImages, registry, scope

(* Names move between images as they are pulled, built and removed; what a *)
(* scan holds against them stays true.                                     *)
LEMMA ScanStep ==
    ASSUME ~Renaming, ScanInv, [PulledNext]_pulledVars
    PROVE  ScanInv'
<1> USE DEF ScanInv, Pullable
<1>1. ASSUME NEW n \in Names, PullImage(n) PROVE ScanInv'
  BY <1>1 DEF PullImage, Tagged, Others
<1>2. ASSUME NEW n \in Names, StartImage(n) PROVE ScanInv'
  BY <1>2 DEF StartImage, Others
<1>3. ASSUME NEW n \in Names, RemoveName(n) PROVE ScanInv'
  BY <1>3 DEF RemoveName, ScopeOnly
<1>4. ASSUME NEW n \in Names, NEW i \in Layers, BuildHere(n, i) PROVE ScanInv'
  BY <1>4 DEF BuildHere, Tagged, Others
<1>5. ASSUME NEW n \in Names, NEW i \in Layers, Publish(n, i) PROVE ScanInv'
  BY <1>5 DEF Publish, Others
<1>6. CASE StopImages
  BY <1>6 DEF StopImages, Others
<1>7. CASE ImagesAge
  BY <1>7 DEF ImagesAge, Others
<1>8. CASE BeginScan
  BY <1>8 DEF BeginScan, ScopeOnly
<1>9. CASE ListPulled
  BY <1>9 DEF ListPulled, ScopeOnly, NamesOf
<1>10. CASE EndScan
  BY <1>10 DEF EndScan, ScopeOnly
<1>11. ASSUME NEW i \in Layers, LookAtPulled(i) PROVE ScanInv'
  BY <1>11 DEF LookAtPulled, ScopeOnly, Proofs
<1>12. ASSUME NEW p \in Questions, AskRegistry(p) PROVE ScanInv'
  <2>1. ASSUME NEW n \in toRemove, RegistryHas(p), <<RepoOf[n], "digest">> \in ask
        PROVE  <<RepoOf[n], "digest">> \in ask \ {p} \/ <<RepoOf[n], looking>> \in pushed
    <3>1. CASE p = <<RepoOf[n], "digest">>
      <4>1. p[1] = RepoOf[n] /\ p[2] = "digest"
        BY <3>1
      <4> QED
        BY <2>1, <4>1 DEF RegistryHas
    <3> QED
      BY <2>1, <3>1
  <2>2. UNCHANGED <<local, names, looking, upstream, pushed, unrecoverable>> /\ scan = "ask"
    BY <1>12 DEF AskRegistry, ScopeOnly
  <2>3. \/ /\ RegistryHas(p) /\ ask' = ask \ {p} /\ toRemove' = toRemove
           /\ scan' = IF ask' = {} THEN "remove" ELSE "ask"
        \/ scan' = "next" /\ toRemove' = {}
    BY <1>12 DEF AskRegistry
  <2>4. CASE RegistryHas(p) /\ ask' = ask \ {p} /\ toRemove' = toRemove
             /\ scan' = IF ask' = {} THEN "remove" ELSE "ask"
    <3>1. \A n \in toRemove : <<RepoOf[n], "digest">> \in ask' \/ <<RepoOf[n], looking>> \in pushed
      BY <2>1, <2>2, <2>4
    <3> QED
      BY <2>2, <2>4, <3>1
  <2> QED
    BY <2>2, <2>3, <2>4
<1>13. CASE UNCHANGED pulledVars
  BY <1>13 DEF pulledVars
<1> QED
  BY <1>1, <1>2, <1>3, <1>4, <1>5, <1>6, <1>7, <1>8, <1>9, <1>10, <1>11, <1>12, <1>13
     DEF PulledNext

(* Every name this scope removes stands for an image that its registry     *)
(* has, however names move here and there while it asks, as long as no     *)
(* build takes a name it is about to remove: for any images and names.     *)
THEOREM RemovedComeBack ==
    ASSUME ~Renaming
    PROVE  PulledSpec => []PulledComeBack
<1>1. PulledInit => ScanInv
  BY DEF PulledInit, ScanInv, Pullable
<1>2. ScanInv /\ [PulledNext]_pulledVars => ScanInv'
  BY ScanStep
<1>3. ScanInv => PulledComeBack
  BY DEF ScanInv, PulledComeBack
<1> QED
  BY <1>1, <1>2, <1>3, PTL DEF PulledSpec

HIDE PulledImagesAssumption DEF hostImages, registry, scope
-----------------------------------------------------------------------------
(* The build cache.                                                        *)

\* What is left when everything of h hours is gone, no record of it in use.
Younger(h) == {r \in kept \ busy : lastUse[r] < OneHour * h}

\* What listing, eviction and a build's use of a record keep between them: the
\* hours the agent settled on leave no more than the ceiling, or are the least it
\* may name.
EvictInv ==
    cachePhase = "evict" =>
        hours >= 1 /\ (hours = 1 \/ TotalOf(size, Younger(hours)) <= ceiling)
KeptInv ==
    cachePhase = "kept" =>
        TotalOf(size, kept \ busy) <= ceiling \/ \A r \in kept \ busy : lastUse[r] < OneHour
CacheTypes ==
    /\ size \in [CacheRecords -> Nat] /\ lastUse \in [CacheRecords -> Nat]
    /\ busy \in SUBSET CacheRecords /\ kept \in SUBSET CacheRecords
    /\ ceiling \in Nat /\ hours \in Nat
    /\ \A r \in CacheRecords : evictedAt[r] \in Nat /\ evictedAt[r] >= OneHour
    /\ evictedAt \in [CacheRecords -> Nat]
BuildCacheInv == CacheTypes /\ EvictInv /\ KeptInv

\* The model's total is the sum of the sizes.
LEMMA TotalIsOfSizes == ASSUME NEW S PROVE Total(S) = TotalOf(size, S)
BY DEF Total, TotalOf

\* Fewer records take no more room.
LEMMA FewerTakeLess ==
    ASSUME CacheTypes, NEW S \in SUBSET CacheRecords, NEW T \in SUBSET S
    PROVE  /\ TotalOf(size, T) \in Nat /\ TotalOf(size, S) \in Nat
           /\ TotalOf(size, T) <= TotalOf(size, S)
           /\ TotalOf(size, S) = TotalOf(size, T) + TotalOf(size, S \ T)
           /\ TotalOf(size, S \ T) \in Nat
<1>1. IsFiniteSet(S)
  BY FS_Subset, BuildCacheAssumption
<1>2. \A r \in S : size[r] \in Nat
  BY DEF CacheTypes
<1> QED
  BY <1>1, <1>2, TotalSplits

\* Before a cleanup nothing is evicted.
LEMMA CacheStarts == BuildCacheInit => BuildCacheInv
BY BuildCacheAssumption DEF BuildCacheInit, BuildCacheInv, CacheTypes, EvictInv, KeptInv, OneHour

\* A build that takes a record up leaves less to evict.
LEMMA UseKeepsCeiling ==
    ASSUME BuildCacheInv, NEW r \in CacheRecords, BuildUses(r)
    PROVE  BuildCacheInv'
<1>1. /\ kept' = kept /\ size' = size /\ ceiling' = ceiling /\ hours' = hours
      /\ cachePhase' = cachePhase /\ busy' = busy \cup {r} /\ evictedAt' = evictedAt
      /\ lastUse' = [lastUse EXCEPT ![r] = 0] /\ r \in kept \ busy
  BY DEF BuildUses
<1>2. CacheTypes'
  BY <1>1 DEF CacheTypes, BuildCacheInv
<1>3. Younger(hours)' \in SUBSET Younger(hours) /\ Younger(hours) \in SUBSET CacheRecords
  BY <1>1 DEF Younger, BuildCacheInv, CacheTypes
<1>4. TotalOf(size, Younger(hours)') <= TotalOf(size, Younger(hours))
      /\ TotalOf(size, Younger(hours)') \in Nat /\ TotalOf(size, Younger(hours)) \in Nat
  BY <1>3, FewerTakeLess DEF BuildCacheInv
<1>5. ceiling \in Nat
  BY DEF BuildCacheInv, CacheTypes
<1>6. EvictInv'
  BY <1>1, <1>4, <1>5 DEF EvictInv, BuildCacheInv
<1>7. (kept \ busy)' \in SUBSET (kept \ busy) /\ kept \ busy \in SUBSET CacheRecords
  BY <1>1 DEF BuildCacheInv, CacheTypes
<1>8. TotalOf(size, (kept \ busy)') <= TotalOf(size, kept \ busy)
      /\ TotalOf(size, (kept \ busy)') \in Nat /\ TotalOf(size, kept \ busy) \in Nat
  BY <1>7, FewerTakeLess DEF BuildCacheInv
<1>9. \A s \in (kept \ busy)' : lastUse'[s] = lastUse[s]
  BY <1>1 DEF BuildCacheInv, CacheTypes
<1>10. KeptInv'
  BY <1>1, <1>5, <1>7, <1>8, <1>9 DEF KeptInv, BuildCacheInv
<1> QED
  BY <1>2, <1>6, <1>10 DEF BuildCacheInv

\* The hours the agent settles on, rounded down to whole ones, are enough: what is
\* younger than them is a part of what is left without the records it summed up.
LEMMA HoursAreEnough ==
    ASSUME CacheTypes, Total(kept) > ceiling
    PROVE  /\ EvictionHours \in Nat /\ EvictionHours >= 1
           /\ EvictionHours = 1 \/ TotalOf(size, Younger(EvictionHours)) <= ceiling
<1> DEFINE enough == {lastUse[r] : r \in {d \in kept \cap dated : Frees(lastUse[d])}}
<1>1. EvictionHours = IF enough = {} THEN 1 ELSE HoursOf(Max(enough))
  BY DEF EvictionHours
<1>2. CASE enough = {}
  BY <1>1, <1>2
<1>3. CASE enough # {}
  <2> DEFINE M == Max(enough)
             S == {r \in kept \cap dated : lastUse[r] >= M}
  <2> DEFINE D == {d \in kept \cap dated : Frees(lastUse[d])}
             f == [d \in D |-> lastUse[d]]
  <2>1. IsFiniteSet(D)
    BY FS_Subset, BuildCacheAssumption DEF CacheTypes
  <2>2. IsFiniteSet(enough)
    <3>1. f \in Surjection(D, enough)
      BY DEF Surjection
    <3> QED
      BY <2>1, <3>1, FS_Surjection
  <2>3. enough \in SUBSET Nat
    BY DEF CacheTypes
  <2>4. M \in enough
    BY <1>3, <2>2, <2>3, GreatestOf
  <2>5. M \in Nat /\ Frees(M)
    BY <2>3, <2>4
  <2> HIDE DEF M, enough
  <2>6. TotalOf(size, S) >= TotalOf(size, kept) - ceiling
    BY <2>5, TotalIsOfSizes DEF Frees
  <2>7. S \in SUBSET kept /\ kept \in SUBSET CacheRecords
    BY DEF CacheTypes
  <2> DEFINE R == kept \ S
  <2>8. /\ TotalOf(size, kept) = TotalOf(size, S) + TotalOf(size, R) /\ TotalOf(size, R) \in Nat
        /\ TotalOf(size, kept) \in Nat /\ TotalOf(size, S) \in Nat
    BY <2>7, FewerTakeLess
  <2>9. ceiling \in Nat
    BY DEF CacheTypes
  <2>10. TotalOf(size, R) <= ceiling
    BY <2>6, <2>8, <2>9
  <2> DEFINE H == HoursOf(M)
  <2>11. H \in Nat /\ H >= 1 /\ (H = 1 \/ OneHour * H <= M)
    BY <2>5 DEF HoursOf, OneHour
  <2> HIDE DEF H
  <2>12. CASE H # 1
    <3>1. \A r \in kept : lastUse[r] \in Nat
      BY DEF CacheTypes
    <3>2. OneHour * H \in Nat /\ OneHour * H <= M
      BY <2>11, <2>12 DEF OneHour
    <3>3. Younger(H) \in SUBSET R
      BY <2>5, <3>1, <3>2 DEF Younger
    <3>4. R \in SUBSET CacheRecords
      BY <2>7
    <3>5. TotalOf(size, Younger(H)) <= TotalOf(size, R) /\ TotalOf(size, Younger(H)) \in Nat
      BY <3>3, <3>4, FewerTakeLess
    <3>6. TotalOf(size, Younger(H)) <= ceiling
      BY <3>5, <2>8, <2>9, <2>10
    <3>7. EvictionHours = H
      BY <1>1, <1>3 DEF H, M
    <3> QED
      BY <2>11, <3>6, <3>7
  <2>13. EvictionHours = H
    BY <1>1, <1>3 DEF H, M
  <2> QED
    BY <2>11, <2>12, <2>13
<1> QED
  BY <1>2, <1>3

\* PruneCache only takes records before anything was summed up.
LEMMA PruneKeepsCeiling ==
    ASSUME BuildCacheInv, PruneCache
    PROVE  BuildCacheInv'
<1>1. kept' \in SUBSET kept
  BY DEF PruneCache
<1>2. cachePhase' \in {"read", "done"}
  BY DEF PruneCache
<1>3. UNCHANGED <<size, lastUse, busy, ceiling, hours, evictedAt>>
  BY DEF PruneCache
<1>4. kept \in SUBSET CacheRecords
  BY DEF BuildCacheInv, CacheTypes
<1>5. kept' \in SUBSET CacheRecords
  BY <1>1, <1>4
<1>6. CacheTypes'
  BY <1>3, <1>5 DEF BuildCacheInv, CacheTypes
<1>7. EvictInv' /\ KeptInv'
  BY <1>2 DEF EvictInv, KeptInv
<1> QED
  BY <1>6, <1>7 DEF BuildCacheInv

\* ReadCache goes on to evict with hours that are enough, or is under the ceiling.
LEMMA ReadKeepsCeiling ==
    ASSUME BuildCacheInv, ReadCache
    PROVE  BuildCacheInv'
<1>1. UNCHANGED <<size, lastUse, busy, kept, ceiling, evictedAt>>
  BY DEF ReadCache
<1>2. CacheTypes
  BY DEF BuildCacheInv
<1>3. \/ cachePhase' = "done" /\ hours' = hours
      \/ Total(kept) > ceiling /\ hours' = EvictionHours /\ cachePhase' = "evict"
      \/ ~(Total(kept) > ceiling) /\ hours' = 0 /\ cachePhase' = "kept"
  BY DEF ReadCache
<1>4. CASE cachePhase' = "done" /\ hours' = hours
  BY <1>1, <1>2, <1>4 DEF BuildCacheInv, CacheTypes, EvictInv, KeptInv
<1>5. CASE Total(kept) > ceiling /\ hours' = EvictionHours /\ cachePhase' = "evict"
  <2>1. /\ EvictionHours \in Nat /\ EvictionHours >= 1
        /\ EvictionHours = 1 \/ TotalOf(size, Younger(EvictionHours)) <= ceiling
    BY <1>2, <1>5, HoursAreEnough
  <2>2. Younger(hours)' = Younger(EvictionHours)
    BY <1>1, <1>5 DEF Younger
  <2>3. EvictInv'
    BY <1>1, <1>5, <2>1, <2>2 DEF EvictInv
  <2>4. CacheTypes'
    BY <1>1, <1>2, <1>5, <2>1 DEF CacheTypes
  <2>5. KeptInv'
    BY <1>5 DEF KeptInv
  <2> QED
    BY <2>3, <2>4, <2>5 DEF BuildCacheInv
<1>6. CASE ~(Total(kept) > ceiling) /\ hours' = 0 /\ cachePhase' = "kept"
  <2>1. kept \in SUBSET CacheRecords /\ kept \ busy \in SUBSET kept /\ ceiling \in Nat
    BY <1>2 DEF CacheTypes
  <2>2. /\ TotalOf(size, kept \ busy) <= TotalOf(size, kept)
        /\ TotalOf(size, kept \ busy) \in Nat /\ TotalOf(size, kept) \in Nat
    BY <1>2, <2>1, FewerTakeLess
  <2>3. TotalOf(size, kept \ busy) <= ceiling
    BY <1>6, <2>1, <2>2, TotalIsOfSizes
  <2>4. KeptInv'
    BY <1>1, <2>3 DEF KeptInv
  <2>5. EvictInv'
    BY <1>6 DEF EvictInv
  <2>6. CacheTypes'
    BY <1>1, <1>2, <1>6 DEF CacheTypes
  <2> QED
    BY <2>4, <2>5, <2>6 DEF BuildCacheInv
<1> QED
  BY <1>3, <1>4, <1>5, <1>6

\* EvictOldest leaves of what no build uses what is younger, and takes nothing
\* that was used within an hour.
LEMMA EvictKeepsCeiling ==
    ASSUME BuildCacheInv, EvictOldest
    PROVE  BuildCacheInv'
<1>1. UNCHANGED <<size, lastUse, busy, ceiling, hours>> /\ cachePhase = "evict"
  BY DEF EvictOldest
<1>2. hours \in Nat /\ hours >= 1 /\ (hours = 1 \/ TotalOf(size, Younger(hours)) <= ceiling)
  BY <1>1 DEF BuildCacheInv, CacheTypes, EvictInv
<1>3. CASE cachePhase' = "done" /\ UNCHANGED <<kept, evictedAt>>
  BY <1>1, <1>3 DEF BuildCacheInv, CacheTypes, EvictInv, KeptInv
<1>4. CASE /\ cachePhase' = "kept" /\ kept' = kept \ OlderThan(hours)
           /\ evictedAt' = [r \in CacheRecords |-> IF r \in OlderThan(hours) THEN lastUse[r] ELSE evictedAt[r]]
  <2>1. /\ kept \in SUBSET CacheRecords
        /\ \A r \in CacheRecords : lastUse[r] \in Nat
        /\ \A r \in CacheRecords : evictedAt[r] \in Nat /\ evictedAt[r] >= OneHour
    BY DEF BuildCacheInv, CacheTypes
  <2>2. OneHour * hours \in Nat /\ OneHour * hours >= OneHour
    BY <1>2 DEF OneHour
  <2>3. \A r \in OlderThan(hours) : r \in CacheRecords /\ lastUse[r] >= OneHour
    BY <2>1, <2>2 DEF OlderThan, OneHour
  <2>4. \A r \in CacheRecords : evictedAt'[r] \in Nat /\ evictedAt'[r] >= OneHour
    BY <1>4, <2>1, <2>3
  <2>5. evictedAt' \in [CacheRecords -> Nat]
    BY <1>4, <2>1
  <2>6. kept' \in SUBSET CacheRecords
    BY <1>4, <2>1
  <2>7. CacheTypes'
    BY <1>1, <2>4, <2>5, <2>6 DEF BuildCacheInv, CacheTypes, OneHour
  <2>8. (kept \ busy)' = Younger(hours)
    BY <1>1, <1>4, <2>1, <2>2 DEF OlderThan, Younger
  <2>9. hours = 1 => \A r \in Younger(hours) : lastUse[r] < OneHour
    BY DEF Younger, OneHour
  <2>10. KeptInv'
    BY <1>1, <1>2, <2>8, <2>9 DEF KeptInv
  <2>11. EvictInv'
    BY <1>4 DEF EvictInv
  <2> QED
    BY <2>7, <2>10, <2>11 DEF BuildCacheInv
<1> QED
  BY <1>3, <1>4 DEF EvictOldest

\* A cleanup that saw to the ceiling has what no build is using under it, or took
\* all that had rested for an hour; and it took nothing else (buildCacheCap,
\* ceilingEvictionHours), whatever builds take up meanwhile.
THEOREM CeilingStaysKept == BuildCacheSpec => []CeilingIsKept
<1>1. BuildCacheInit => BuildCacheInv
  BY CacheStarts
<1>2. BuildCacheInv /\ [BuildCacheNext]_cacheVars => BuildCacheInv'
  <2> SUFFICES ASSUME BuildCacheInv, [BuildCacheNext]_cacheVars PROVE BuildCacheInv'
    OBVIOUS
  <2>1. CASE UNCHANGED cacheVars
    BY <2>1 DEF cacheVars, BuildCacheInv, CacheTypes, EvictInv, KeptInv, Younger
  <2>2. CASE \E r \in CacheRecords : BuildUses(r)
    BY <2>2, UseKeepsCeiling
  <2>3. CASE PruneCache
    BY <2>3, PruneKeepsCeiling
  <2>4. CASE ReadCache
    BY <2>4, ReadKeepsCeiling
  <2>5. CASE EvictOldest
    BY <2>5, EvictKeepsCeiling
  <2> QED
    BY <2>1, <2>2, <2>3, <2>4, <2>5 DEF BuildCacheNext
<1>3. BuildCacheInv => CeilingIsKept
  BY TotalIsOfSizes DEF BuildCacheInv, KeptInv, CacheTypes, CeilingIsKept
<1> QED
  BY <1>1, <1>2, <1>3, PTL DEF BuildCacheSpec

-----------------------------------------------------------------------------
(* All of them, as the run has them.                                       *)

\* A step of the run is one of one component, by a part of that component's own
\* next-state relation, and changes nothing of the others.
LEMMA SafeStepData ==
    ASSUME [SafeNext]_safes
    PROVE  /\ [BackupsNext]_backupVars /\ [ImportsNext]_importVars /\ [WorkNext]_workVars
           /\ [CleanupNext]_cleanupVars /\ [PulledNext]_pulledVars /\ [BuildCacheNext]_cacheVars
<1> DEFINE Data ==
      /\ [BackupsNext]_backupVars /\ [ImportsNext]_importVars /\ [WorkNext]_workVars
      /\ [CleanupNext]_cleanupVars /\ [PulledNext]_pulledVars /\ [BuildCacheNext]_cacheVars
<1>1. CASE UNCHANGED safes
  BY <1>1 DEF safes
<1>2. CASE focus \in {"identity", "ready", "traefik", "shells", "metrics", "networks"} /\ Only(focus)
  BY <1>2 DEF Only
<1>3. CASE Only("store") /\ StoreNext
  BY <1>3 DEF Only, BackupsNext
<1>4. CASE Only("restores") /\ BackupsNext
  BY <1>4 DEF Only
<1>5. CASE Only("copies") /\ CopyNext
  BY <1>5 DEF Only, ImportsNext
<1>6. CASE Only("images") /\ ImageNext
  BY <1>6 DEF Only, ImportsNext
<1>7. CASE Only("cleanup") /\ CleanupNext
  BY <1>7 DEF Only
<1>8. CASE Only("cache") /\ BuildCacheNext
  BY <1>8 DEF Only
<1>9. CASE Only("source") /\ WorkNext
  BY <1>9 DEF Only
<1>10. CASE Only("pulled") /\ PulledNext
  BY <1>10 DEF Only
<1> QED
  BY <1>1, <1>2, <1>3, <1>4, <1>5, <1>6, <1>7, <1>8, <1>9, <1>10 DEF SafeNext

\* And it begins in the components' own initial states.
LEMMA SafeSpecData ==
    SafeSpec => /\ BackupsSpec /\ ImportsSpec /\ WorkSpec
                /\ CleanupSpec /\ PulledSpec /\ BuildCacheSpec
<1>1. SafeInit => /\ BackupsInit /\ ImportsInit /\ WorkInit
                  /\ CleanupInit /\ PulledInit /\ BuildCacheInit
  BY DEF SafeInit
<1> QED
  BY <1>1, SafeStepData, PTL
  DEF SafeSpec, BackupsSpec, ImportsSpec, WorkSpec, CleanupSpec, PulledSpec, BuildCacheSpec

(* What the run checks of the two kinds of copies.                         *)
THEOREM CopiesStayWhole == SafeSpec => []CopiesAreWhole
<1>1. ImportsAreWhole /\ SourceIsCopied => CopiesAreWhole
  BY DEF CopiesAreWhole
<1> QED
  BY <1>1, SafeSpecData, ImportsStayWhole, SourceStaysCopied, PTL

(* What the run checks of the three parts of a cleanup.                    *)
THEOREM CleanupTakesNoMore ==
    ASSUME ~Reusing, ~Renaming
    PROVE  SafeSpec => []CleanupIsSafe
<1>1. CleanupSpec => []CleanupLosesNothing
  BY CleanupStaysSafe
<1>2. PulledSpec => []PulledComeBack
  BY RemovedComeBack
<1>3. CleanupLosesNothing /\ PulledComeBack /\ CeilingIsKept => CleanupIsSafe
  BY DEF CleanupIsSafe
<1> QED
  BY <1>1, <1>2, <1>3, SafeSpecData, CeilingStaysKept, PTL

(* The data of the run: backups and restores, copies, and what cleanup     *)
(* leaves, all at once.                                                    *)
THEOREM DataStaysSafe ==
    ASSUME ~Overlapping, ~Reusing, ~Renaming
    PROVE  SafeSpec => [](BackupsHold /\ CopiesAreWhole /\ CleanupIsSafe)
<1>1. BackupsSpec => []BackupsHold
  BY BackupsAreSound
<1>2. SafeSpec => []CleanupIsSafe
  BY CleanupTakesNoMore
<1> QED
  BY <1>1, <1>2, SafeSpecData, CopiesStayWhole, PTL

================================================================================
