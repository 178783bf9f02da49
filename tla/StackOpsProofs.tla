---------------------------- MODULE StackOpsProofs ----------------------------
(***************************************************************************)
(* Proofs about StackOps, for any set of deploys, of calls and of requests *)
(* and any number of crashes: the operations on a stack exclude each       *)
(* other, containers keep the files they are found by, credentials are on  *)
(* disk exactly while they are needed, a deploy sends one result, and it   *)
(* brings up its own stack.                                                *)
(***************************************************************************)
EXTENDS StackOps, TLAPS

\* The tables have an entry for every operation.
Wellformed ==
    /\ req = [o \in Ops |-> req[o]]
    /\ waits \in [{Stack} -> SUBSET Ops] /\ holds \in [{Stack} -> SUBSET Ops]

\* A deploy is never where only a call goes, and only a deploy of a stack of services
\* where its files are written first; it has run its stack only when it waits for it, or
\* has returned.
DeployPlace(d) ==
    /\ pc[d] \notin {"wantCall", "act", "files", "copy", "rewrite", "rewriteEnv", "relist"}
    /\ pc[d] \in {"write", "writeEnv", "pull", "list", "againEnv", "strip"} => IsStack(req[d])
    /\ pc[d] = "strip" => req[d].build = "compose"
    /\ pc[d] \notin {"wait", "unwind", "done", "gone"} => ran[d].stack = None

CallPlace(c) ==
    pc[c] \in {"idle", "wantCall", "act", "files", "copy", "rewrite", "rewriteEnv",
               "relist", "up", "done", "gone"}

PlacesInv == (\A d \in Deploys : DeployPlace(d)) /\ (\A c \in Controls : CallPlace(c))

\* Who holds the mutex is inside, who waits for it is at a wait, and no two are inside.
LockedInside ==
    \A o \in Ops :
        /\ pc[o] \in Inside <=> o \in holds[Stack]
        /\ pc[o] \in Waiting <=> o \in waits[Stack]
OneInside == \A o, p \in Ops : pc[o] \in Inside /\ pc[p] \in Inside => o = p

\* An operation past its write finds a stack file; a destroy removes files only when
\* the containers are gone.
WrittenIsThere ==
    \A o \in Ops : pc[o] \in {"againEnv", "strip", "up", "rewriteEnv", "relist"} => stackFile # None
ContainersGoFirst == \A o \in Ops : pc[o] \in {"files", "copy"} => made = None

\* A stack from a source that was brought up has its working copy, for as long as its
\* stack file or its containers are there.
RanFromSource(d) == ran[d].stack = d /\ req[d].build = "compose"
CopyIsKept ==
    \A d \in Deploys :
        /\ pc[d] = "up" /\ req[d].build = "compose" => workCopy # None
        /\ RanFromSource(d) /\ workCopy = None => stackFile # d /\ made # d
FilesGoBeforeCopy ==
    \A o \in Ops : pc[o] = "copy" => \A d \in Deploys : ran[d].stack = d => stackFile # d

\* A deploy has answered when it returns, and not before.
AnswersInTime ==
    \A d \in Deploys :
        /\ pc[d] \in {"unwind", "done"} => Len(answers[d]) = 1
        /\ pc[d] \notin {"unwind", "done", "gone"} => answers[d] = <<>>
        /\ Len(answers[d]) <= 1

FilesInv ==
    /\ WrittenIsThere /\ ContainersGoFirst /\ CopyIsKept /\ FilesGoBeforeCopy
    /\ ContainersKeepTheirFiles

\* One deploy's part of CredentialsWhileNeeded.
CredentialsOf(d) ==
    /\ pc[d] \in {"idle", "done", "gone"} => "auth" \notin temp[d]
    /\ pc[d] \notin {"idle", "unwind", "done", "gone"} /\ req[d].creds => "auth" \in temp[d]

StackInv ==
    /\ TypeOK /\ Wellformed /\ PlacesInv /\ LockedInside /\ OneInside
    /\ FilesInv /\ AnswersInTime /\ CredentialsWhileNeeded

\* No deploy of a stack of services runs beside another deploy of the same stack: the
\* first writes of one take no lock.
StackDeploysAlone ==
    \A d, e \in Deploys : d # e => \A r \in Kinds[e] : ~IsStack(r)

-----------------------------------------------------------------------------
USE StackOpsAssumption DEF Ops, Writers, Inside, Waiting, Places, disk, lock, history, vars,
    Goes, Answers, Continues, Ends, Fails, StaysInside, Returns, Leaves

\* How an operation moves: it asks for the mutex on its way to a wait, is granted it on
\* its way inside, and gives it back on its way out.
Moves(o) ==
    /\ pc'[o] \in Places /\ pc' = [pc EXCEPT ![o] = pc'[o]]
    /\ \/ /\ pc[o] \notin Waiting /\ pc'[o] \notin Waiting
          /\ pc[o] \in Inside <=> pc'[o] \in Inside
          /\ UNCHANGED lock
       \/ /\ pc[o] \notin Waiting \cup Inside /\ pc'[o] \in Waiting
          /\ Mutex!Ask(o, Stack)
       \/ /\ pc[o] \in Waiting /\ pc'[o] \in Inside
          /\ Mutex!Grant(o, Stack)
       \/ /\ pc[o] \in Inside /\ pc'[o] \notin Waiting \cup Inside
          /\ Mutex!GiveBack(o, Stack)

\* How a deploy answers: once, on its way to its deferred calls.
AnswersOnce(d) ==
    \/ /\ pc'[d] \notin {"unwind", "done"} /\ pc[d] \notin {"unwind", "done", "gone"}
       /\ UNCHANGED answers
    \/ /\ pc'[d] = "unwind" /\ pc[d] \notin {"unwind", "done", "gone"}
       /\ \E a \in {"ok", "failed", "compose"} : Answers(d, a)
    \/ pc[d] = "unwind" /\ pc'[d] = "done" /\ UNCHANGED answers

\* It leaves the rest of the tables alone.
OthersStay(o) ==
    /\ \A p \in Ops \ {o} : pc'[p] = pc[p] /\ req'[p] = req[p] /\ ran'[p] = ran[p]
    /\ \A e \in Deploys \ {o} : temp'[e] = temp[e]

(* Every step of a deploy is one of these moves.                            *)
LEMMA DeployMoves ==
    ASSUME TypeOK, NEW d \in Deploys, DeploySteps(d)
    PROVE  Moves(d)
<1> USE DEF TypeOK, Moves
<1>1. ASSUME Begin(d) PROVE Moves(d)
  BY <1>1 DEF Begin, Keeps
<1>2. ASSUME Source(d) PROVE Moves(d)
  BY <1>2 DEF Source, Unpacks, Clones, Keeps
<1>3. ASSUME FromSource(d) PROVE Moves(d)
  BY <1>3 DEF FromSource, Redirects, Detected, ReadsCompose
<1>4. ASSUME Prepare(d) PROVE Moves(d)
  BY <1>4 DEF Prepare
<1>5. ASSUME Build(d) PROVE Moves(d)
  BY <1>5 DEF Build
<1>6. ASSUME Sync(d) PROVE Moves(d)
  BY <1>6 DEF Sync
<1>7. ASSUME Starting(d) PROVE Moves(d)
  BY <1>7 DEF Starting
<1>8. ASSUME WriteFirst(d) PROVE Moves(d)
  BY <1>8 DEF WriteFirst, WriteStack, WriteEnv
<1>9. ASSUME PullStack(d) PROVE Moves(d)
  BY <1>9 DEF PullStack
<1>10. ASSUME ListImages(d) PROVE Moves(d)
  BY <1>10 DEF ListImages
<1>11. ASSUME Admit(d) PROVE Moves(d)
  BY <1>11 DEF Admit
<1>12. ASSUME WriteAgain(d) PROVE Moves(d)
  BY <1>12 DEF WriteAgain, WriteStack, WriteEnv, GivesBackIfFailed, AfterStack
<1>13. ASSUME Strip(d) PROVE Moves(d)
  BY <1>13 DEF Strip, GivesBackIfFailed, CopyIsThere
<1>14. ASSUME BringUp(d) PROVE Moves(d)
  BY <1>14 DEF BringUp, Up, Reads
<1>15. ASSUME Wait(d) PROVE Moves(d)
  BY <1>15 DEF Wait
<1>16. ASSUME Unwind(d) PROVE Moves(d)
  BY <1>16 DEF Unwind, Dropped
<1> QED
  BY <1>1, <1>2, <1>3, <1>4, <1>5, <1>6, <1>7, <1>8, <1>9, <1>10, <1>11, <1>12, <1>13,
     <1>14, <1>15, <1>16 DEF DeploySteps

(* Every step of a deploy sends nothing, or its one result.                 *)
LEMMA DeployAnswers ==
    ASSUME TypeOK, NEW d \in Deploys, DeploySteps(d)
    PROVE  AnswersOnce(d)
<1> USE DEF TypeOK, AnswersOnce
<1>1. ASSUME Begin(d) PROVE AnswersOnce(d)
  BY <1>1 DEF Begin, Keeps
<1>2. ASSUME Source(d) PROVE AnswersOnce(d)
  BY <1>2 DEF Source, Unpacks, Clones, Keeps
<1>3. ASSUME FromSource(d) PROVE AnswersOnce(d)
  BY <1>3 DEF FromSource, Redirects, Detected, ReadsCompose
<1>4. ASSUME Prepare(d) PROVE AnswersOnce(d)
  BY <1>4 DEF Prepare
<1>5. ASSUME Build(d) PROVE AnswersOnce(d)
  BY <1>5 DEF Build
<1>6. ASSUME Sync(d) PROVE AnswersOnce(d)
  BY <1>6 DEF Sync
<1>7. ASSUME Starting(d) PROVE AnswersOnce(d)
  BY <1>7 DEF Starting
<1>8. ASSUME WriteFirst(d) PROVE AnswersOnce(d)
  BY <1>8 DEF WriteFirst, WriteStack, WriteEnv
<1>9. ASSUME PullStack(d) PROVE AnswersOnce(d)
  BY <1>9 DEF PullStack
<1>10. ASSUME ListImages(d) PROVE AnswersOnce(d)
  BY <1>10 DEF ListImages
<1>11. ASSUME Admit(d) PROVE AnswersOnce(d)
  BY <1>11 DEF Admit
<1>12. ASSUME WriteAgain(d) PROVE AnswersOnce(d)
  BY <1>12 DEF WriteAgain, WriteStack, WriteEnv, GivesBackIfFailed, AfterStack
<1>13. ASSUME Strip(d) PROVE AnswersOnce(d)
  BY <1>13 DEF Strip, GivesBackIfFailed, CopyIsThere
<1>14. ASSUME BringUp(d) PROVE AnswersOnce(d)
  BY <1>14 DEF BringUp, Up, Reads
<1>15. ASSUME Wait(d) PROVE AnswersOnce(d)
  BY <1>15 DEF Wait
<1>16. ASSUME Unwind(d) PROVE AnswersOnce(d)
  BY <1>16 DEF Unwind, Dropped
<1> QED
  BY <1>1, <1>2, <1>3, <1>4, <1>5, <1>6, <1>7, <1>8, <1>9, <1>10, <1>11, <1>12, <1>13,
     <1>14, <1>15, <1>16 DEF DeploySteps

(* A call moves the same way.                                               *)
LEMMA CallMoves ==
    ASSUME TypeOK, PlacesInv, NEW c \in Controls, CallSteps(c)
    PROVE  Moves(c)
<1> USE DEF TypeOK, PlacesInv, CallPlace, Moves
<1>1. ASSUME Call(c) PROVE Moves(c)
  BY <1>1 DEF Call
<1>2. ASSUME StopOrStart(c) PROVE Moves(c)
  BY <1>2 DEF StopOrStart
<1>3. ASSUME Destroy(c) PROVE Moves(c)
  BY <1>3 DEF Destroy, Removed, NotRemoved, FilesGo
<1>4. ASSUME RemoveFiles(c) PROVE Moves(c)
  BY <1>4 DEF RemoveFiles
<1>5. ASSUME RemoveWorkingCopy(c) PROVE Moves(c)
  BY <1>5 DEF RemoveWorkingCopy
<1>6. ASSUME Rewrite(c) PROVE Moves(c)
  BY <1>6 DEF Rewrite
<1>7. ASSUME RewriteEnv(c) PROVE Moves(c)
  BY <1>7 DEF RewriteEnv
<1>8. ASSUME Relist(c) PROVE Moves(c)
  BY <1>8 DEF Relist
<1>9. ASSUME RerouteUp(c) PROVE Moves(c)
  BY <1>9 DEF RerouteUp, Up, Reads
<1> QED
  BY <1>1, <1>2, <1>3, <1>4, <1>5, <1>6, <1>7, <1>8, <1>9 DEF CallSteps

\* The tables of TypeOK a deploy or a call writes besides its place.
DataTyped ==
    /\ req = [o \in Ops |-> req[o]]
    /\ \A d \in Deploys : req[d] \in Kinds[d] \cup {NoRequest}
    /\ \A c \in Controls : req[c] \in Calls \cup {None}
    /\ temp \in [Deploys -> SUBSET {"auth", "dir"}]
    /\ listed \in [Ops -> Writers \cup {None}]
    /\ ran \in [Ops -> [stack : Writers \cup {None}, env : Writers \cup {None}]]
    /\ stackFile \in Writers \cup {None} /\ envFile \in Writers \cup {None}
    /\ workCopy \in Writers \cup {None, "torn"}
    /\ made \in Writers \cup {None}
    /\ crashes \in 0..MaxCrashes

(* A deploy writes its tables, the files and the containers with what they hold. *)
LEMMA DeployTypes ==
    ASSUME DataTyped, NEW d \in Deploys, DeploySteps(d)
    PROVE  DataTyped'
<1> USE DEF DataTyped
<1>1. ASSUME Begin(d) PROVE DataTyped'
  <2>1. PICK r \in Kinds[d] : req' = [req EXCEPT ![d] = r]
    BY <1>1 DEF Begin
  <2>2. temp' \in [Deploys -> SUBSET {"auth", "dir"}]
    BY <1>1 DEF Begin, Keeps
  <2>3. UNCHANGED <<listed, ran, stackFile, envFile, workCopy, made, crashes>>
    BY <1>1 DEF Begin
  <2>4. /\ req' = [o \in Ops |-> req'[o]]
        /\ \A e \in Deploys : req'[e] \in Kinds[e] \cup {NoRequest}
        /\ \A c \in Controls : req'[c] \in Calls \cup {None}
    BY <2>1
  <2> QED
    BY <2>2, <2>3, <2>4
<1>2. ASSUME Source(d) PROVE DataTyped'
  BY <1>2 DEF Source, Unpacks, Clones, Keeps
<1>3. ASSUME FromSource(d) PROVE DataTyped'
  BY <1>3 DEF FromSource, Redirects, Detected, ReadsCompose
<1>4. ASSUME Prepare(d) PROVE DataTyped'
  BY <1>4 DEF Prepare
<1>5. ASSUME Build(d) PROVE DataTyped'
  BY <1>5 DEF Build
<1>6. ASSUME Sync(d) PROVE DataTyped'
  BY <1>6 DEF Sync
<1>7. ASSUME Starting(d) PROVE DataTyped'
  BY <1>7 DEF Starting
<1>8. ASSUME WriteFirst(d) PROVE DataTyped'
  BY <1>8 DEF WriteFirst, WriteStack, WriteEnv
<1>9. ASSUME PullStack(d) PROVE DataTyped'
  BY <1>9 DEF PullStack
<1>10. ASSUME ListImages(d) PROVE DataTyped'
  BY <1>10 DEF ListImages
<1>11. ASSUME Admit(d) PROVE DataTyped'
  BY <1>11 DEF Admit
<1>12. ASSUME WriteAgain(d) PROVE DataTyped'
  BY <1>12 DEF WriteAgain, WriteStack, WriteEnv, GivesBackIfFailed, AfterStack
<1>13. ASSUME Strip(d) PROVE DataTyped'
  BY <1>13 DEF Strip, GivesBackIfFailed, CopyIsThere
<1>14. ASSUME BringUp(d) PROVE DataTyped'
  BY <1>14 DEF BringUp, Up, Reads
<1>15. ASSUME Wait(d) PROVE DataTyped'
  BY <1>15 DEF Wait
<1>16. ASSUME Unwind(d) PROVE DataTyped'
  BY <1>16 DEF Unwind, Dropped
<1> QED
  BY <1>1, <1>2, <1>3, <1>4, <1>5, <1>6, <1>7, <1>8, <1>9, <1>10, <1>11, <1>12, <1>13,
     <1>14, <1>15, <1>16 DEF DeploySteps

(* So does a call, which has no temporary files.                            *)
LEMMA CallTypes ==
    ASSUME DataTyped, NEW c \in Controls, CallSteps(c)
    PROVE  DataTyped' /\ temp' = temp
<1> USE DEF DataTyped
<1>1. ASSUME Call(c) PROVE DataTyped' /\ temp' = temp
  BY <1>1 DEF Call
<1>2. ASSUME StopOrStart(c) PROVE DataTyped' /\ temp' = temp
  BY <1>2 DEF StopOrStart
<1>3. ASSUME Destroy(c) PROVE DataTyped' /\ temp' = temp
  BY <1>3 DEF Destroy, Removed, NotRemoved, FilesGo
<1>4. ASSUME RemoveFiles(c) PROVE DataTyped' /\ temp' = temp
  BY <1>4 DEF RemoveFiles
<1>5. ASSUME RemoveWorkingCopy(c) PROVE DataTyped' /\ temp' = temp
  BY <1>5 DEF RemoveWorkingCopy
<1>6. ASSUME Rewrite(c) PROVE DataTyped' /\ temp' = temp
  BY <1>6 DEF Rewrite
<1>7. ASSUME RewriteEnv(c) PROVE DataTyped' /\ temp' = temp
  BY <1>7 DEF RewriteEnv
<1>8. ASSUME Relist(c) PROVE DataTyped' /\ temp' = temp
  BY <1>8 DEF Relist
<1>9. ASSUME RerouteUp(c) PROVE DataTyped' /\ temp' = temp
  BY <1>9 DEF RerouteUp, Up, Reads
<1> QED
  BY <1>1, <1>2, <1>3, <1>4, <1>5, <1>6, <1>7, <1>8, <1>9 DEF CallSteps

(* A move keeps the mutex and the places in step, and lets nobody in beside another. *)
LEMMA LockStep ==
    ASSUME TypeOK, Wellformed, LockedInside, OneInside, NEW o \in Ops, Moves(o)
    PROVE  /\ waits' \in [{Stack} -> SUBSET Ops] /\ holds' \in [{Stack} -> SUBSET Ops]
           /\ LockedInside' /\ OneInside' /\ pc' \in [Ops -> Places]
<1>a. Inside \cap Waiting = {}
  OBVIOUS
<1> HIDE DEF Inside, Waiting, Places
<1>b. pc \in [Ops -> Places]
  BY DEF TypeOK
<1>1. /\ pc' \in [Ops -> Places]
      /\ \A p \in Ops \ {o} : pc'[p] = pc[p]
  BY <1>b DEF Moves
<1> USE DEF Wellformed, LockedInside, OneInside
<1>2. CASE UNCHANGED lock /\ pc[o] \notin Waiting /\ pc'[o] \notin Waiting
           /\ (pc[o] \in Inside <=> pc'[o] \in Inside)
  BY <1>1, <1>2
<1>3. CASE Mutex!Ask(o, Stack) /\ pc[o] \notin Waiting \cup Inside /\ pc'[o] \in Waiting
  BY <1>a, <1>1, <1>3 DEF Mutex!Ask
<1>4. CASE Mutex!Grant(o, Stack) /\ pc[o] \in Waiting /\ pc'[o] \in Inside
  BY <1>a, <1>1, <1>4 DEF Mutex!Grant
<1>5. CASE Mutex!GiveBack(o, Stack) /\ pc[o] \in Inside /\ pc'[o] \notin Waiting \cup Inside
  BY <1>a, <1>1, <1>5 DEF Mutex!GiveBack
<1> QED
  BY <1>2, <1>3, <1>4, <1>5 DEF Moves

(* A deploy leaves what is another operation's alone.                       *)
LEMMA DeployTouches ==
    ASSUME StackInv, NEW d \in Deploys, DeploySteps(d)
    PROVE  OthersStay(d)
<1>a. /\ pc \in [Ops -> Places] /\ req = [o \in Ops |-> req[o]]
      /\ ran = [o \in Ops |-> ran[o]] /\ temp = [e \in Deploys |-> temp[e]]
  BY DEF StackInv, TypeOK, Wellformed
<1>b. Deploys \cap Controls = {}
  BY DEF StackInv
<1> HIDE DEF IsStack
<1> USE DEF OthersStay
<1>1. ASSUME Begin(d) PROVE OthersStay(d)
  BY <1>1, <1>a DEF Begin, Keeps
<1>2. ASSUME Source(d) PROVE OthersStay(d)
  BY <1>2, <1>a DEF Source, Unpacks, Clones, Keeps
<1>3. ASSUME FromSource(d) PROVE OthersStay(d)
  BY <1>3, <1>a DEF FromSource, Redirects, Detected, ReadsCompose
<1>4. ASSUME Prepare(d) PROVE OthersStay(d)
  BY <1>4, <1>a DEF Prepare
<1>5. ASSUME Build(d) PROVE OthersStay(d)
  BY <1>5, <1>a DEF Build
<1>6. ASSUME Sync(d) PROVE OthersStay(d)
  BY <1>6, <1>a DEF Sync
<1>7. ASSUME Starting(d) PROVE OthersStay(d)
  BY <1>7, <1>a DEF Starting
<1>8. ASSUME WriteFirst(d) PROVE OthersStay(d)
  BY <1>8, <1>a DEF WriteFirst, WriteStack, WriteEnv
<1>9. ASSUME PullStack(d) PROVE OthersStay(d)
  BY <1>9, <1>a DEF PullStack
<1>10. ASSUME ListImages(d) PROVE OthersStay(d)
  BY <1>10, <1>a DEF ListImages
<1>11. ASSUME Admit(d) PROVE OthersStay(d)
  BY <1>11, <1>a DEF Admit
<1>12. ASSUME WriteAgain(d) PROVE OthersStay(d)
  BY <1>12, <1>a DEF WriteAgain, WriteStack, WriteEnv, GivesBackIfFailed, AfterStack
<1>13. ASSUME Strip(d) PROVE OthersStay(d)
  BY <1>13, <1>a DEF Strip, GivesBackIfFailed, CopyIsThere
<1>14. ASSUME BringUp(d) PROVE OthersStay(d)
  BY <1>14, <1>a DEF BringUp, Up, Reads
<1>15. ASSUME Wait(d) PROVE OthersStay(d)
  BY <1>15, <1>a DEF Wait
<1>16. ASSUME Unwind(d) PROVE OthersStay(d)
  BY <1>16, <1>a DEF Unwind, Dropped
<1> QED
  BY <1>1, <1>2, <1>3, <1>4, <1>5, <1>6, <1>7, <1>8, <1>9, <1>10, <1>11, <1>12, <1>13,
     <1>14, <1>15, <1>16 DEF DeploySteps

(* So does a call.                                                          *)
LEMMA CallTouches ==
    ASSUME StackInv, NEW c \in Controls, CallSteps(c)
    PROVE  OthersStay(c)
<1>a. /\ pc \in [Ops -> Places] /\ req = [o \in Ops |-> req[o]]
      /\ ran = [o \in Ops |-> ran[o]] /\ temp = [e \in Deploys |-> temp[e]]
  BY DEF StackInv, TypeOK, Wellformed
<1>b. Deploys \cap Controls = {}
  BY DEF StackInv
<1> HIDE DEF IsStack
<1> USE DEF OthersStay
<1>1. ASSUME Call(c) PROVE OthersStay(c)
  BY <1>1, <1>a, <1>b DEF Call
<1>2. ASSUME StopOrStart(c) PROVE OthersStay(c)
  BY <1>2, <1>a, <1>b DEF StopOrStart
<1>3. ASSUME Destroy(c) PROVE OthersStay(c)
  BY <1>3, <1>a, <1>b DEF Destroy, Removed, NotRemoved, FilesGo
<1>4. ASSUME RemoveFiles(c) PROVE OthersStay(c)
  BY <1>4, <1>a, <1>b DEF RemoveFiles
<1>5. ASSUME RemoveWorkingCopy(c) PROVE OthersStay(c)
  BY <1>5, <1>a, <1>b DEF RemoveWorkingCopy
<1>6. ASSUME Rewrite(c) PROVE OthersStay(c)
  BY <1>6, <1>a, <1>b DEF Rewrite
<1>7. ASSUME RewriteEnv(c) PROVE OthersStay(c)
  BY <1>7, <1>a, <1>b DEF RewriteEnv
<1>8. ASSUME Relist(c) PROVE OthersStay(c)
  BY <1>8, <1>a, <1>b DEF Relist
<1>9. ASSUME RerouteUp(c) PROVE OthersStay(c)
  BY <1>9, <1>a, <1>b DEF RerouteUp, Up, Reads
<1> QED
  BY <1>1, <1>2, <1>3, <1>4, <1>5, <1>6, <1>7, <1>8, <1>9 DEF CallSteps

(* A deploy goes where its request sends it, and runs its stack last.       *)
LEMMA DeployPlaces ==
    ASSUME StackInv, NEW d \in Deploys, DeploySteps(d)
    PROVE  DeployPlace(d)'
<1>a. /\ pc \in [Ops -> Places] /\ req = [o \in Ops |-> req[o]]
      /\ ran = [o \in Ops |-> ran[o]] /\ temp = [e \in Deploys |-> temp[e]]
  BY DEF StackInv, TypeOK, Wellformed
<1>b. DeployPlace(d)
  BY DEF StackInv, PlacesInv
<1>c. Deploys \cap Controls = {}
  BY DEF StackInv
<1> HIDE DEF IsStack
<1> USE DEF DeployPlace
<1>1. ASSUME Begin(d) PROVE DeployPlace(d)'
  BY <1>1, <1>a, <1>b DEF Begin, Keeps
<1>2. ASSUME Source(d) PROVE DeployPlace(d)'
  BY <1>2, <1>a, <1>b DEF Source, Unpacks, Clones, Keeps
<1>3. ASSUME FromSource(d) PROVE DeployPlace(d)'
  BY <1>3, <1>a, <1>b DEF FromSource, Redirects, Detected, ReadsCompose
<1>4. ASSUME Prepare(d) PROVE DeployPlace(d)'
  BY <1>4, <1>a, <1>b DEF Prepare
<1>5. ASSUME Build(d) PROVE DeployPlace(d)'
  BY <1>5, <1>a, <1>b DEF Build
<1>6. ASSUME Sync(d) PROVE DeployPlace(d)'
  BY <1>6, <1>a, <1>b DEF Sync
<1>7. ASSUME Starting(d) PROVE DeployPlace(d)'
  BY <1>7, <1>a, <1>b DEF Starting
<1>8. ASSUME WriteFirst(d) PROVE DeployPlace(d)'
  BY <1>8, <1>a, <1>b DEF WriteFirst, WriteStack, WriteEnv
<1>9. ASSUME PullStack(d) PROVE DeployPlace(d)'
  BY <1>9, <1>a, <1>b DEF PullStack
<1>10. ASSUME ListImages(d) PROVE DeployPlace(d)'
  BY <1>10, <1>a, <1>b DEF ListImages
<1>11. ASSUME Admit(d) PROVE DeployPlace(d)'
  BY <1>11, <1>a, <1>b DEF Admit
<1>12. ASSUME WriteAgain(d) PROVE DeployPlace(d)'
  BY <1>12, <1>a, <1>b DEF WriteAgain, WriteStack, WriteEnv, GivesBackIfFailed, AfterStack
<1>13. ASSUME Strip(d) PROVE DeployPlace(d)'
  BY <1>13, <1>a, <1>b DEF Strip, GivesBackIfFailed, CopyIsThere
<1>14. ASSUME BringUp(d) PROVE DeployPlace(d)'
  BY <1>14, <1>a, <1>b DEF BringUp, Up, Reads
<1>15. ASSUME Wait(d) PROVE DeployPlace(d)'
  BY <1>15, <1>a, <1>b DEF Wait
<1>16. ASSUME Unwind(d) PROVE DeployPlace(d)'
  BY <1>16, <1>a, <1>b DEF Unwind, Dropped
<1> QED
  BY <1>1, <1>2, <1>3, <1>4, <1>5, <1>6, <1>7, <1>8, <1>9, <1>10, <1>11, <1>12, <1>13,
     <1>14, <1>15, <1>16 DEF DeploySteps

(* A call goes where only calls go.                                         *)
LEMMA CallPlaces ==
    ASSUME StackInv, NEW c \in Controls, CallSteps(c)
    PROVE  CallPlace(c)'
<1>a. /\ pc \in [Ops -> Places] /\ req = [o \in Ops |-> req[o]]
      /\ ran = [o \in Ops |-> ran[o]] /\ temp = [e \in Deploys |-> temp[e]]
  BY DEF StackInv, TypeOK, Wellformed
<1>b. CallPlace(c)
  BY DEF StackInv, PlacesInv
<1>c. Deploys \cap Controls = {}
  BY DEF StackInv
<1> HIDE DEF IsStack
<1> USE DEF CallPlace
<1>1. ASSUME Call(c) PROVE CallPlace(c)'
  BY <1>1, <1>a, <1>b DEF Call
<1>2. ASSUME StopOrStart(c) PROVE CallPlace(c)'
  BY <1>2, <1>a, <1>b DEF StopOrStart
<1>3. ASSUME Destroy(c) PROVE CallPlace(c)'
  BY <1>3, <1>a, <1>b DEF Destroy, Removed, NotRemoved, FilesGo
<1>4. ASSUME RemoveFiles(c) PROVE CallPlace(c)'
  BY <1>4, <1>a, <1>b DEF RemoveFiles
<1>5. ASSUME RemoveWorkingCopy(c) PROVE CallPlace(c)'
  BY <1>5, <1>a, <1>b DEF RemoveWorkingCopy
<1>6. ASSUME Rewrite(c) PROVE CallPlace(c)'
  BY <1>6, <1>a, <1>b DEF Rewrite
<1>7. ASSUME RewriteEnv(c) PROVE CallPlace(c)'
  BY <1>7, <1>a, <1>b DEF RewriteEnv
<1>8. ASSUME Relist(c) PROVE CallPlace(c)'
  BY <1>8, <1>a, <1>b DEF Relist
<1>9. ASSUME RerouteUp(c) PROVE CallPlace(c)'
  BY <1>9, <1>a, <1>b DEF RerouteUp, Up, Reads
<1> QED
  BY <1>1, <1>2, <1>3, <1>4, <1>5, <1>6, <1>7, <1>8, <1>9 DEF CallSteps

(* Credentials are written as a deploy begins and dropped as it returns.    *)
LEMMA DeployCredentials ==
    ASSUME StackInv, NEW d \in Deploys, DeploySteps(d)
    PROVE  CredentialsOf(d)'
<1>a. /\ pc \in [Ops -> Places] /\ req = [o \in Ops |-> req[o]]
      /\ ran = [o \in Ops |-> ran[o]] /\ temp = [e \in Deploys |-> temp[e]]
  BY DEF StackInv, TypeOK, Wellformed
<1>b. CredentialsOf(d)
  BY DEF StackInv, CredentialsWhileNeeded, CredentialsOf
<1>c. Deploys \cap Controls = {}
  BY DEF StackInv
<1> HIDE DEF IsStack
<1> USE DEF CredentialsOf
<1>1. ASSUME Begin(d) PROVE CredentialsOf(d)'
  BY <1>1, <1>a, <1>b DEF Begin, Keeps
<1>2. ASSUME Source(d) PROVE CredentialsOf(d)'
  BY <1>2, <1>a, <1>b DEF Source, Unpacks, Clones, Keeps
<1>3. ASSUME FromSource(d) PROVE CredentialsOf(d)'
  BY <1>3, <1>a, <1>b DEF FromSource, Redirects, Detected, ReadsCompose
<1>4. ASSUME Prepare(d) PROVE CredentialsOf(d)'
  BY <1>4, <1>a, <1>b DEF Prepare
<1>5. ASSUME Build(d) PROVE CredentialsOf(d)'
  BY <1>5, <1>a, <1>b DEF Build
<1>6. ASSUME Sync(d) PROVE CredentialsOf(d)'
  BY <1>6, <1>a, <1>b DEF Sync
<1>7. ASSUME Starting(d) PROVE CredentialsOf(d)'
  BY <1>7, <1>a, <1>b DEF Starting
<1>8. ASSUME WriteFirst(d) PROVE CredentialsOf(d)'
  BY <1>8, <1>a, <1>b DEF WriteFirst, WriteStack, WriteEnv
<1>9. ASSUME PullStack(d) PROVE CredentialsOf(d)'
  BY <1>9, <1>a, <1>b DEF PullStack
<1>10. ASSUME ListImages(d) PROVE CredentialsOf(d)'
  BY <1>10, <1>a, <1>b DEF ListImages
<1>11. ASSUME Admit(d) PROVE CredentialsOf(d)'
  BY <1>11, <1>a, <1>b DEF Admit
<1>12. ASSUME WriteAgain(d) PROVE CredentialsOf(d)'
  BY <1>12, <1>a, <1>b DEF WriteAgain, WriteStack, WriteEnv, GivesBackIfFailed, AfterStack
<1>13. ASSUME Strip(d) PROVE CredentialsOf(d)'
  BY <1>13, <1>a, <1>b DEF Strip, GivesBackIfFailed, CopyIsThere
<1>14. ASSUME BringUp(d) PROVE CredentialsOf(d)'
  BY <1>14, <1>a, <1>b DEF BringUp, Up, Reads
<1>15. ASSUME Wait(d) PROVE CredentialsOf(d)'
  BY <1>15, <1>a, <1>b DEF Wait
<1>16. ASSUME Unwind(d) PROVE CredentialsOf(d)'
  BY <1>16, <1>a, <1>b DEF Unwind, Dropped
<1> QED
  BY <1>1, <1>2, <1>3, <1>4, <1>5, <1>6, <1>7, <1>8, <1>9, <1>10, <1>11, <1>12, <1>13,
     <1>14, <1>15, <1>16 DEF DeploySteps

(* A deploy writes files that stay until its containers go.                 *)
LEMMA DeployFiles ==
    ASSUME StackInv, NEW d \in Deploys, DeploySteps(d)
    PROVE  FilesInv'
<1>a. /\ pc \in [Ops -> Places] /\ req = [o \in Ops |-> req[o]]
      /\ ran \in [Ops -> [stack : Writers \cup {None}, env : Writers \cup {None}]]
      /\ stackFile \in Writers \cup {None} /\ made \in Writers \cup {None}
  BY DEF StackInv, TypeOK, Wellformed
<1>b. FilesInv /\ LockedInside /\ OneInside /\ PlacesInv
  BY DEF StackInv
<1> HIDE DEF IsStack
<1> USE DEF FilesInv, PlacesInv, DeployPlace, CallPlace, LockedInside, OneInside,
        RanFromSource, WrittenIsThere, ContainersGoFirst, CopyIsKept, FilesGoBeforeCopy,
        ContainersKeepTheirFiles
<1>1. ASSUME Begin(d) PROVE FilesInv'
  BY <1>1, <1>a, <1>b DEF Begin, Keeps
<1>2. ASSUME Source(d) PROVE FilesInv'
  BY <1>2, <1>a, <1>b DEF Source, Unpacks, Clones, Keeps
<1>3. ASSUME FromSource(d) PROVE FilesInv'
  BY <1>3, <1>a, <1>b DEF FromSource, Redirects, Detected, ReadsCompose
<1>4. ASSUME Prepare(d) PROVE FilesInv'
  BY <1>4, <1>a, <1>b DEF Prepare
<1>5. ASSUME Build(d) PROVE FilesInv'
  BY <1>5, <1>a, <1>b DEF Build
<1>6. ASSUME Sync(d) PROVE FilesInv'
  BY <1>6, <1>a, <1>b DEF Sync
<1>7. ASSUME Starting(d) PROVE FilesInv'
  BY <1>7, <1>a, <1>b DEF Starting
<1>8. ASSUME WriteFirst(d) PROVE FilesInv'
  BY <1>8, <1>a, <1>b DEF WriteFirst, WriteStack, WriteEnv
<1>9. ASSUME PullStack(d) PROVE FilesInv'
  BY <1>9, <1>a, <1>b DEF PullStack
<1>10. ASSUME ListImages(d) PROVE FilesInv'
  BY <1>10, <1>a, <1>b DEF ListImages
<1>11. ASSUME Admit(d) PROVE FilesInv'
  BY <1>11, <1>a, <1>b DEF Admit
<1>12. ASSUME WriteAgain(d) PROVE FilesInv'
  <2>0. req[d].build = "compose" => IsStack(req[d])
    BY DEF IsStack
  <2>1. CASE WriteStack(d, "again", AfterStack(d))
    BY <1>12, <2>0, <2>1, <1>a, <1>b DEF WriteAgain, WriteStack, GivesBackIfFailed,
       AfterStack
  <2>2. CASE WriteEnv(d, "againEnv", IF req[d].build = "compose" THEN "strip" ELSE "up")
    BY <1>12, <2>2, <1>a, <1>b DEF WriteAgain, WriteEnv, GivesBackIfFailed
  <2> QED
    BY <1>12, <2>1, <2>2 DEF WriteAgain
<1>13. ASSUME Strip(d) PROVE FilesInv'
  BY <1>13, <1>a, <1>b DEF Strip, GivesBackIfFailed, CopyIsThere
<1>14. ASSUME BringUp(d) PROVE FilesInv'
  BY <1>14, <1>a, <1>b DEF BringUp, Up, Reads
<1>15. ASSUME Wait(d) PROVE FilesInv'
  BY <1>15, <1>a, <1>b DEF Wait
<1>16. ASSUME Unwind(d) PROVE FilesInv'
  BY <1>16, <1>a, <1>b DEF Unwind, Dropped
<1> QED
  BY <1>1, <1>2, <1>3, <1>4, <1>5, <1>6, <1>7, <1>8, <1>9, <1>10, <1>11, <1>12, <1>13,
     <1>14, <1>15, <1>16 DEF DeploySteps

(* A call removes files only behind the containers.                         *)
LEMMA CallFiles ==
    ASSUME StackInv, NEW c \in Controls, CallSteps(c)
    PROVE  FilesInv'
<1>a. /\ pc \in [Ops -> Places] /\ req = [o \in Ops |-> req[o]]
      /\ ran \in [Ops -> [stack : Writers \cup {None}, env : Writers \cup {None}]]
      /\ stackFile \in Writers \cup {None} /\ made \in Writers \cup {None}
  BY DEF StackInv, TypeOK, Wellformed
<1>b. FilesInv /\ LockedInside /\ OneInside /\ PlacesInv
  BY DEF StackInv
<1> HIDE DEF IsStack
<1> USE DEF FilesInv, PlacesInv, DeployPlace, CallPlace, LockedInside, OneInside,
        RanFromSource, WrittenIsThere, ContainersGoFirst, CopyIsKept, FilesGoBeforeCopy,
        ContainersKeepTheirFiles
<1>1. ASSUME Call(c) PROVE FilesInv'
  BY <1>1, <1>a, <1>b DEF Call
<1>2. ASSUME StopOrStart(c) PROVE FilesInv'
  BY <1>2, <1>a, <1>b DEF StopOrStart
<1>3. ASSUME Destroy(c) PROVE FilesInv'
  BY <1>3, <1>a, <1>b DEF Destroy, Removed, NotRemoved, FilesGo
<1>4. ASSUME RemoveFiles(c) PROVE FilesInv'
  BY <1>4, <1>a, <1>b DEF RemoveFiles
<1>5. ASSUME RemoveWorkingCopy(c) PROVE FilesInv'
  BY <1>5, <1>a, <1>b DEF RemoveWorkingCopy
<1>6. ASSUME Rewrite(c) PROVE FilesInv'
  BY <1>6, <1>a, <1>b DEF Rewrite
<1>7. ASSUME RewriteEnv(c) PROVE FilesInv'
  BY <1>7, <1>a, <1>b DEF RewriteEnv
<1>8. ASSUME Relist(c) PROVE FilesInv'
  BY <1>8, <1>a, <1>b DEF Relist
<1>9. ASSUME RerouteUp(c) PROVE FilesInv'
  BY <1>9, <1>a, <1>b DEF RerouteUp, Up, Reads
<1> QED
  BY <1>1, <1>2, <1>3, <1>4, <1>5, <1>6, <1>7, <1>8, <1>9 DEF CallSteps

(* A deploy answers once (emitter.result, on every path of runDeployFrom).  *)
LEMMA AnswersStep ==
    ASSUME TypeOK, AnswersInTime, NEW d \in Deploys, Moves(d), AnswersOnce(d)
    PROVE  AnswersInTime' /\ answers' \in [Ops -> Seq({"ok", "failed", "compose"})]
<1>1. /\ pc \in [Ops -> Places] /\ pc' = [pc EXCEPT ![d] = pc'[d]]
      /\ answers \in [Ops -> Seq({"ok", "failed", "compose"})]
  BY DEF TypeOK, Moves
<1>2. CASE UNCHANGED answers
  BY <1>1, <1>2 DEF AnswersInTime, AnswersOnce
<1>3. ASSUME NEW a \in {"ok", "failed", "compose"}, Answers(d, a),
             pc'[d] = "unwind", pc[d] \notin {"unwind", "done", "gone"}
      PROVE  AnswersInTime' /\ answers' \in [Ops -> Seq({"ok", "failed", "compose"})]
  <2>1. answers[d] = <<>> /\ answers' = [answers EXCEPT ![d] = Append(<<>>, a)]
    BY <1>1, <1>3 DEF AnswersInTime
  <2>2. /\ Append(<<>>, a) \in Seq({"ok", "failed", "compose"})
        /\ Len(Append(<<>>, a)) = 1
    OBVIOUS
  <2> QED
    BY <1>1, <1>3, <2>1, <2>2 DEF AnswersInTime
<1> QED
  BY <1>2, <1>3 DEF AnswersOnce

(* A call answers as it returns, and no deploy with it.                     *)
LEMMA CallAnswers ==
    ASSUME TypeOK, AnswersInTime, CredentialsWhileNeeded, PlacesInv,
           NEW c \in Controls, CallSteps(c), Moves(c), OthersStay(c), temp' = temp
    PROVE  /\ AnswersInTime' /\ CredentialsWhileNeeded'
           /\ answers' \in [Ops -> Seq({"ok", "failed", "compose"})]
<1>1. UNCHANGED answers \/ \E a \in {"ok", "failed"} : Answers(c, a)
  BY DEF CallSteps, Call, StopOrStart, Destroy, RemoveFiles, RemoveWorkingCopy, Rewrite,
         RewriteEnv, Relist, RerouteUp
<1>2. answers \in [Ops -> Seq({"ok", "failed", "compose"})]
  BY DEF TypeOK
<1>3. /\ answers' \in [Ops -> Seq({"ok", "failed", "compose"})]
      /\ \A d \in Deploys : answers'[d] = answers[d]
  <2>1. ASSUME NEW a \in {"ok", "failed"}, Answers(c, a)
        PROVE  /\ answers' \in [Ops -> Seq({"ok", "failed", "compose"})]
               /\ \A d \in Deploys : answers'[d] = answers[d]
    <3>1. Append(answers[c], a) \in Seq({"ok", "failed", "compose"})
      BY <1>2
    <3> QED
      BY <1>2, <2>1, <3>1
  <2> QED
    BY <1>1, <1>2, <2>1
<1>4. \A d \in Deploys : pc'[d] = pc[d] /\ temp'[d] = temp[d] /\ req'[d] = req[d]
  BY DEF OthersStay
<1> QED
  BY <1>3, <1>4 DEF AnswersInTime, CredentialsWhileNeeded

(* A step of a deploy keeps the invariant.                                  *)
LEMMA DeployKeepsInv == ASSUME StackInv, NEW d \in Deploys, DeploySteps(d) PROVE StackInv'
<1>1. TypeOK /\ Wellformed /\ LockedInside /\ OneInside /\ AnswersInTime /\ PlacesInv
      /\ CredentialsWhileNeeded /\ DataTyped
  BY DEF StackInv, TypeOK, Wellformed, DataTyped
<1>2. Moves(d) /\ AnswersOnce(d) /\ DataTyped' /\ OthersStay(d)
  BY <1>1, DeployMoves, DeployAnswers, DeployTypes, DeployTouches
<1>3. /\ waits' \in [{Stack} -> SUBSET Ops] /\ holds' \in [{Stack} -> SUBSET Ops]
      /\ LockedInside' /\ OneInside' /\ pc' \in [Ops -> Places]
  BY <1>1, <1>2, LockStep
<1>4. AnswersInTime' /\ answers' \in [Ops -> Seq({"ok", "failed", "compose"})]
  BY <1>1, <1>2, AnswersStep
<1>5. TypeOK' /\ Wellformed'
  <2>1. waits'[Stack] \subseteq Ops /\ holds'[Stack] \subseteq Ops
    BY <1>3
  <2> QED
    BY <1>2, <1>3, <1>4, <2>1 DEF DataTyped, TypeOK, Wellformed
<1>6. PlacesInv'
  BY <1>1, <1>2, DeployPlaces DEF PlacesInv, DeployPlace, CallPlace, OthersStay
<1>7. CredentialsWhileNeeded'
  BY <1>1, <1>2, DeployCredentials DEF CredentialsWhileNeeded, CredentialsOf, OthersStay
<1>8. FilesInv'
  BY DeployFiles
<1> QED
  BY <1>3, <1>4, <1>5, <1>6, <1>7, <1>8 DEF StackInv

(* A step of a call keeps it.                                               *)
LEMMA CallKeepsInv == ASSUME StackInv, NEW c \in Controls, CallSteps(c) PROVE StackInv'
<1>1. TypeOK /\ Wellformed /\ LockedInside /\ OneInside /\ AnswersInTime /\ PlacesInv
      /\ CredentialsWhileNeeded /\ DataTyped
  BY DEF StackInv, TypeOK, Wellformed, DataTyped
<1>2. Moves(c) /\ DataTyped' /\ OthersStay(c) /\ temp' = temp
  BY <1>1, CallMoves, CallTypes, CallTouches
<1>3. /\ waits' \in [{Stack} -> SUBSET Ops] /\ holds' \in [{Stack} -> SUBSET Ops]
      /\ LockedInside' /\ OneInside' /\ pc' \in [Ops -> Places]
  BY <1>1, <1>2, LockStep
<1>4. /\ AnswersInTime' /\ CredentialsWhileNeeded'
      /\ answers' \in [Ops -> Seq({"ok", "failed", "compose"})]
  BY <1>1, <1>2, CallAnswers
<1>5. TypeOK' /\ Wellformed'
  <2>1. waits'[Stack] \subseteq Ops /\ holds'[Stack] \subseteq Ops
    BY <1>3
  <2> QED
    BY <1>2, <1>3, <1>4, <2>1 DEF DataTyped, TypeOK, Wellformed
<1>6. PlacesInv'
  BY <1>1, <1>2, CallPlaces DEF PlacesInv, DeployPlace, CallPlace, OthersStay
<1>8. FilesInv'
  BY CallFiles
<1> QED
  BY <1>3, <1>4, <1>5, <1>6, <1>8 DEF StackInv

(* A waiter is let in when nobody is inside.                                *)
LEMMA EntersKeepsInv == ASSUME StackInv, NEW o \in Ops, Enters(o) PROVE StackInv'
<1>1. TypeOK /\ Wellformed /\ LockedInside /\ OneInside /\ AnswersInTime /\ PlacesInv
      /\ CredentialsWhileNeeded /\ FilesInv
  BY DEF StackInv
<1>2. pc \in [Ops -> Places]
  BY <1>1 DEF TypeOK
<1>3. /\ pc[o] \in Waiting /\ pc'[o] \in {"sync", "again", "rewrite", "act"}
      /\ pc' = [pc EXCEPT ![o] = pc'[o]]
      /\ pc[o] = "wantCall" <=> pc'[o] \in {"rewrite", "act"}
  BY <1>2 DEF Enters
<1>4. Moves(o)
  BY <1>3 DEF Enters, Moves
<1>5. /\ waits' \in [{Stack} -> SUBSET Ops] /\ holds' \in [{Stack} -> SUBSET Ops]
      /\ LockedInside' /\ OneInside' /\ pc' \in [Ops -> Places]
  BY <1>1, <1>4, LockStep
<1>6. UNCHANGED <<req, answers, temp, history, disk, made, crashes>>
  BY DEF Enters
<1>7. TypeOK' /\ Wellformed'
  <2>1. waits'[Stack] \subseteq Ops /\ holds'[Stack] \subseteq Ops
    BY <1>5
  <2> QED
    BY <1>1, <1>5, <1>6, <2>1 DEF TypeOK, Wellformed
<1>8. PlacesInv'
  BY <1>1, <1>2, <1>3, <1>6 DEF PlacesInv, DeployPlace, CallPlace
<1>9. FilesInv'
  BY <1>1, <1>2, <1>3, <1>6 DEF FilesInv, WrittenIsThere, ContainersGoFirst, CopyIsKept,
     FilesGoBeforeCopy, ContainersKeepTheirFiles, RanFromSource
<1>10. AnswersInTime' /\ CredentialsWhileNeeded'
  BY <1>1, <1>2, <1>3, <1>6 DEF AnswersInTime, CredentialsWhileNeeded
<1> QED
  BY <1>5, <1>7, <1>8, <1>9, <1>10 DEF StackInv

(* Nobody is inside after a crash, and the containers are those of before   *)
(* or of the stack file the operation inside had written.                   *)
LEMMA CrashKeepsInv == ASSUME StackInv, Crash PROVE StackInv'
<1>1. TypeOK /\ Wellformed /\ LockedInside /\ OneInside /\ AnswersInTime /\ PlacesInv
      /\ CredentialsWhileNeeded /\ FilesInv
  BY DEF StackInv
<1>2. /\ pc' \in [Ops -> {"idle", "done", "gone"}]
      /\ \A o \in Ops : pc'[o] # "gone" => pc'[o] = pc[o]
      /\ \A o \in Ops : pc'[o] = "gone" => pc[o] # "idle"
  BY <1>1 DEF TypeOK, Crash
<1>3. /\ temp' \in [Deploys -> SUBSET {"auth", "dir"}]
      /\ \A d \in Deploys : "auth" \notin temp'[d]
  BY <1>1 DEF TypeOK, Crash, Swept
<1>4. /\ waits' \in [{Stack} -> SUBSET Ops] /\ holds' \in [{Stack} -> SUBSET Ops]
      /\ waits'[Stack] = {} /\ holds'[Stack] = {}
  BY DEF Crash
<1>5. made' \in {made, stackFile} /\ crashes' \in 0..MaxCrashes
      /\ UNCHANGED <<req, answers, history, disk>>
  BY <1>1 DEF Crash, TypeOK
<1>6. TypeOK' /\ Wellformed'
  <2>1. pc' \in [Ops -> Places]
    BY <1>2
  <2> QED
    BY <1>1, <1>3, <1>4, <1>5, <2>1 DEF TypeOK, Wellformed
<1>7. LockedInside' /\ OneInside' /\ PlacesInv'
  BY <1>1, <1>2, <1>4, <1>5 DEF LockedInside, OneInside, PlacesInv, DeployPlace, CallPlace
<1>8. FilesInv'
  BY <1>1, <1>2, <1>5 DEF FilesInv, WrittenIsThere, ContainersGoFirst, CopyIsKept,
     FilesGoBeforeCopy, ContainersKeepTheirFiles, RanFromSource
<1>9. AnswersInTime' /\ CredentialsWhileNeeded'
  BY <1>1, <1>2, <1>3, <1>5 DEF AnswersInTime, CredentialsWhileNeeded
<1> QED
  BY <1>6, <1>7, <1>8, <1>9 DEF StackInv

(* Every step keeps it, and it holds at first.                              *)
LEMMA StackStepInv == StackInv /\ [Next]_vars => StackInv'
<1> SUFFICES ASSUME StackInv, [Next]_vars PROVE StackInv'
  OBVIOUS
<1>1. CASE UNCHANGED vars
  <2>1. UNCHANGED <<pc, req, answers, temp, listed, ran, stackFile, envFile, workCopy, made,
                    waits, holds, crashes>>
    BY <1>1
  <2> QED
    BY <2>1 DEF StackInv, TypeOK, Wellformed, LockedInside, OneInside, AnswersInTime,
       PlacesInv,
       DeployPlace, CallPlace, CredentialsWhileNeeded, FilesInv, WrittenIsThere, ContainersGoFirst,
       CopyIsKept, FilesGoBeforeCopy, ContainersKeepTheirFiles, RanFromSource
<1> QED
  BY <1>1, DeployKeepsInv, CallKeepsInv, EntersKeepsInv, CrashKeepsInv DEF Next

LEMMA StackInitInv == Init => StackInv
<1> SUFFICES ASSUME Init PROVE StackInv
  OBVIOUS
<1>1. /\ waits = [s \in {Stack} |-> {}] /\ holds = [s \in {Stack} |-> {}]
  BY DEF Init, Mutex!Init
<1>2. /\ pc = [o \in Ops |-> "idle"] /\ answers = [o \in Ops |-> <<>>]
      /\ temp = [d \in Deploys |-> {}] /\ listed = [o \in Ops |-> None]
      /\ ran = [o \in Ops |-> [stack |-> None, env |-> None]]
      /\ req = [o \in Ops |-> IF o \in Deploys THEN NoRequest ELSE None]
      /\ crashes = 0
  BY DEF Init
<1>3. PICK w \in {Before, None} : stackFile = w /\ envFile = w /\ workCopy = w /\ made = w
  BY DEF Init
<1>4. TypeOK /\ Wellformed
  BY <1>1, <1>2, <1>3 DEF TypeOK, Wellformed
<1>5. LockedInside /\ OneInside /\ PlacesInv
  BY <1>1, <1>2 DEF LockedInside, OneInside, PlacesInv, DeployPlace, CallPlace
<1>6. FilesInv
  BY <1>2, <1>3 DEF FilesInv, WrittenIsThere, ContainersGoFirst, CopyIsKept,
     FilesGoBeforeCopy, ContainersKeepTheirFiles, RanFromSource
<1>7. AnswersInTime /\ CredentialsWhileNeeded
  BY <1>2 DEF AnswersInTime, CredentialsWhileNeeded
<1> QED
  BY <1>4, <1>5, <1>6, <1>7 DEF StackInv

LEMMA StackInvHolds == Spec => []StackInv
  BY StackInitInv, StackStepInv, PTL DEF Spec

-----------------------------------------------------------------------------
(* The places, the requests, the files and the mutex keep their types.      *)
THEOREM StackTypeCorrect == Spec => []TypeOK
<1>1. StackInv => TypeOK
  BY DEF StackInv
<1> QED
  BY <1>1, StackInvHolds, PTL

(* No two operations are inside the stack's section at once, whatever       *)
(* paths they leave it on (lockStack and its deferred unlocks).             *)
THEOREM OneOperationInside == Spec => []OneInside
<1>1. StackInv => OneInside
  BY DEF StackInv
<1> QED
  BY <1>1, StackInvHolds, PTL

(* Containers never outlive the stack file they are found by, nor the       *)
(* working copy their folders are in (DestroyStack, removeStackFiles).      *)
THEOREM FilesOutliveContainers == Spec => []ContainersKeepTheirFiles
<1>1. StackInv => ContainersKeepTheirFiles
  BY DEF StackInv, FilesInv
<1> QED
  BY <1>1, StackInvHolds, PTL

(* Registry credentials are on disk exactly while a deploy may need them    *)
(* (dropAuth, sweepTempSecrets).                                            *)
THEOREM CredentialsAreDropped == Spec => []CredentialsWhileNeeded
<1>1. StackInv => CredentialsWhileNeeded
  BY DEF StackInv
<1> QED
  BY <1>1, StackInvHolds, PTL

(* A deploy that ends has sent one result, and none sends two               *)
(* (runDeployFrom, emitter.result).                                         *)
THEOREM DeploysSendOneResult == Spec => []OneResult
<1>1. StackInv => OneResult
  BY DEF StackInv, AnswersInTime, OneResult
<1> QED
  BY <1>1, StackInvHolds, PTL

-----------------------------------------------------------------------------
\* One deploy's part of DeployRunsItsStack and of what makes it hold.
RunsOf(d) ==
    /\ pc[d] \in {"againEnv", "strip", "up"} => stackFile = d
    /\ pc[d] \in {"strip", "up"} /\ IsStack(req[d]) => envFile = d
    /\ ran[d].stack # None => ran[d].stack = d /\ (IsStack(req[d]) => ran[d].env = d)

\* The files change at the first writes, or inside the lock.
DeployWrites(d) ==
    /\ stackFile' # stackFile => pc[d] \in {"write", "again"}
    /\ envFile' # envFile => pc[d] \in {"writeEnv", "againEnv"}
    /\ IsStack(req'[d]) => req'[d] \in Kinds[d]

(* A deploy brings up what it wrote inside the lock.                        *)
LEMMA DeployRuns ==
    ASSUME StackInv, NEW d \in Deploys, RunsOf(d), DeploySteps(d)
    PROVE  RunsOf(d)' /\ DeployWrites(d)
<1>a. /\ pc \in [Ops -> Places] /\ req = [o \in Ops |-> req[o]]
      /\ ran = [o \in Ops |-> ran[o]] /\ req[d] \in Kinds[d] \cup {NoRequest}
      /\ ~IsStack(NoRequest)
  BY DEF StackInv, TypeOK, Wellformed, IsStack, NoRequest
<1>b. DeployPlace(d)
  BY DEF StackInv, PlacesInv
<1> HIDE DEF IsStack
<1> USE DEF RunsOf, DeployWrites, DeployPlace
<1>1. ASSUME Begin(d) PROVE RunsOf(d)' /\ DeployWrites(d)
  BY <1>1, <1>a, <1>b DEF Begin, Keeps
<1>2. ASSUME Source(d) PROVE RunsOf(d)' /\ DeployWrites(d)
  BY <1>2, <1>a, <1>b DEF Source, Unpacks, Clones, Keeps
<1>3. ASSUME FromSource(d) PROVE RunsOf(d)' /\ DeployWrites(d)
  BY <1>3, <1>a, <1>b DEF FromSource, Redirects, Detected, ReadsCompose
<1>4. ASSUME Prepare(d) PROVE RunsOf(d)' /\ DeployWrites(d)
  BY <1>4, <1>a, <1>b DEF Prepare
<1>5. ASSUME Build(d) PROVE RunsOf(d)' /\ DeployWrites(d)
  BY <1>5, <1>a, <1>b DEF Build
<1>6. ASSUME Sync(d) PROVE RunsOf(d)' /\ DeployWrites(d)
  BY <1>6, <1>a, <1>b DEF Sync
<1>7. ASSUME Starting(d) PROVE RunsOf(d)' /\ DeployWrites(d)
  BY <1>7, <1>a, <1>b DEF Starting
<1>8. ASSUME WriteFirst(d) PROVE RunsOf(d)' /\ DeployWrites(d)
  BY <1>8, <1>a, <1>b DEF WriteFirst, WriteStack, WriteEnv
<1>9. ASSUME PullStack(d) PROVE RunsOf(d)' /\ DeployWrites(d)
  BY <1>9, <1>a, <1>b DEF PullStack
<1>10. ASSUME ListImages(d) PROVE RunsOf(d)' /\ DeployWrites(d)
  BY <1>10, <1>a, <1>b DEF ListImages
<1>11. ASSUME Admit(d) PROVE RunsOf(d)' /\ DeployWrites(d)
  BY <1>11, <1>a, <1>b DEF Admit
<1>12. ASSUME WriteAgain(d) PROVE RunsOf(d)' /\ DeployWrites(d)
  BY <1>12, <1>a, <1>b DEF WriteAgain, WriteStack, WriteEnv, GivesBackIfFailed, AfterStack
<1>13. ASSUME Strip(d) PROVE RunsOf(d)' /\ DeployWrites(d)
  BY <1>13, <1>a, <1>b DEF Strip, GivesBackIfFailed, CopyIsThere
<1>14. ASSUME BringUp(d) PROVE RunsOf(d)' /\ DeployWrites(d)
  BY <1>14, <1>a, <1>b DEF BringUp, Up, Reads
<1>15. ASSUME Wait(d) PROVE RunsOf(d)' /\ DeployWrites(d)
  BY <1>15, <1>a, <1>b DEF Wait
<1>16. ASSUME Unwind(d) PROVE RunsOf(d)' /\ DeployWrites(d)
  BY <1>16, <1>a, <1>b DEF Unwind, Dropped
<1> QED
  BY <1>1, <1>2, <1>3, <1>4, <1>5, <1>6, <1>7, <1>8, <1>9, <1>10, <1>11, <1>12, <1>13,
     <1>14, <1>15, <1>16 DEF DeploySteps

(* A call changes the files inside the lock only.                           *)
LEMMA CallWrites ==
    ASSUME NEW c \in Controls, CallSteps(c)
    PROVE  stackFile' # stackFile \/ envFile' # envFile => pc[c] \in Inside
BY DEF CallSteps, Call, StopOrStart, Destroy, RemoveFiles, RemoveWorkingCopy, Rewrite,
       RewriteEnv, Relist, RerouteUp

(* Nobody else writes between a deploy's writes inside the lock and its compose up. *)
LEMMA OwnStep ==
    ASSUME StackDeploysAlone, StackInv, \A d \in Deploys : RunsOf(d), [Next]_vars
    PROVE  \A d \in Deploys : RunsOf(d)'
<1> HIDE DEF Inside
<1>0. OneInside /\ DataTyped /\ \A d \in Deploys : DeployPlace(d)
  BY DEF StackInv, PlacesInv, TypeOK, Wellformed, DataTyped
<1>a. {"againEnv", "strip", "up", "again", "rewrite", "rewriteEnv", "files"} \subseteq Inside
  BY DEF Inside
<1>1. ASSUME NEW e \in Deploys, DeploySteps(e), NEW d \in Deploys PROVE RunsOf(d)'
  <2>1. RunsOf(e)' /\ DeployWrites(e) /\ OthersStay(e)
    BY <1>1, DeployRuns, DeployTouches
  <2>2. CASE d # e
    <3>1. pc'[d] = pc[d] /\ req'[d] = req[d] /\ ran'[d] = ran[d]
      BY <2>1, <2>2 DEF OthersStay
    <3>2. pc[e] \notin {"write", "writeEnv"}
      BY <1>0, <2>2 DEF DeployPlace, StackDeploysAlone, DataTyped, IsStack, NoRequest
    <3>3. pc[d] \in {"againEnv", "strip", "up"} => stackFile' = stackFile /\ envFile' = envFile
      BY <1>0, <1>a, <2>1, <2>2, <3>2 DEF OneInside, DeployWrites
    <3> QED
      BY <3>1, <3>3 DEF RunsOf
  <2> QED
    BY <2>1, <2>2
<1>2. ASSUME NEW c \in Controls, CallSteps(c), NEW d \in Deploys PROVE RunsOf(d)'
  <2>1. pc'[d] = pc[d] /\ req'[d] = req[d] /\ ran'[d] = ran[d] /\ c # d
    BY <1>2, CallTouches DEF OthersStay
  <2>2. pc[d] \in {"againEnv", "strip", "up"} => stackFile' = stackFile /\ envFile' = envFile
    BY <1>0, <1>a, <1>2, <2>1, CallWrites DEF OneInside
  <2> QED
    BY <2>1, <2>2 DEF RunsOf
<1>3. ASSUME NEW o \in Ops, Enters(o), NEW d \in Deploys PROVE RunsOf(d)'
  <2>1. pc'[d] \notin {"againEnv", "strip", "up"} \/ pc'[d] = pc[d]
    BY <1>3 DEF Enters, StackInv, TypeOK
  <2>2. UNCHANGED <<req, history, disk>>
    BY <1>3 DEF Enters
  <2> QED
    BY <2>1, <2>2 DEF RunsOf
<1>4. ASSUME Crash, NEW d \in Deploys PROVE RunsOf(d)'
  BY <1>4 DEF Crash, RunsOf
<1>5. ASSUME UNCHANGED vars, NEW d \in Deploys PROVE RunsOf(d)'
  BY <1>5 DEF RunsOf
<1> QED
  BY <1>1, <1>2, <1>3, <1>4, <1>5 DEF Next

(* A deploy brings up its own stack with its own variables, whatever calls, *)
(* crashes and deploys of a single container come while it builds           *)
(* (startStack writes the files again under the lock).                      *)
THEOREM DeploysRunTheirStack ==
    ASSUME StackDeploysAlone
    PROVE  Spec => []DeployRunsItsStack
<1> DEFINE Own == \A d \in Deploys : RunsOf(d)
<1>1. Init => Own
  BY DEF Init, RunsOf
<1>2. StackInv /\ Own /\ [Next]_vars => Own'
  BY OwnStep
<1>3. Own => DeployRunsItsStack
  BY DEF RunsOf, DeployRunsItsStack
<1> HIDE DEF Own
<1> QED
  BY <1>1, <1>2, <1>3, StackInvHolds, PTL DEF Spec

=============================================================================
