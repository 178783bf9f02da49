------------------------------ MODULE StackOps ------------------------------
(***************************************************************************)
(* What the operations on one stack do to its files, its working copy and  *)
(* its containers (internal/server/deploy.go, compose_source.go,           *)
(* image_labels.go, server.go), under the lock of StackMutex.              *)
(*                                                                         *)
(* A deploy fetches and builds outside the lock, for as long as it takes.  *)
(* For a stack of services it also writes the stack and env files there,   *)
(* because docker compose reads them; inside the lock it writes them again *)
(* and brings the stack up.  Stop, start, destroy and reroute run inside   *)
(* the lock.  Every docker command and every write of a file may fail.     *)
(* A file is known by the operation whose content it has; containers,       *)
(* running or stopped, by the operation that wrote their stack file.       *)
(***************************************************************************)
EXTENDS Naturals, Sequences, FiniteSets

CONSTANTS Deploys,     \* deploys of the stack
          Controls,    \* stop, start, destroy and reroute calls
          Kinds,       \* Kinds[o]: the requests operation o may be sent
          Before,      \* the deploy before all of these
          None,        \* no file, no container
          Stack,       \* the stack's slug
          MaxCrashes   \* bound: crashes of the agent

Ops == Deploys \cup Controls
Writers == Ops \cup {Before}

Sources == {"image", "upload", "git", "compose", "unknown"}
Builds == {"none", "dockerfile", "railpack", "auto", "compose"}
Requests == [source : Sources, build : Builds, rendered : BOOLEAN, buildOnly : BOOLEAN,
             creds : BOOLEAN, reuse : BOOLEAN]
Calls == {"stop", "stopSome", "start", "destroy", "destroyVolumes", "reroute", "rerouteEnv"}

ASSUME StackOpsAssumption ==
    /\ Deploys \cap Controls = {}
    /\ Before \notin Ops /\ None \notin Writers \cup {"torn"}
    /\ \A d \in Deploys : Kinds[d] \subseteq Requests
    /\ \A c \in Controls : Kinds[c] \subseteq Calls
    /\ MaxCrashes \in Nat

VARIABLES pc,          \* where each operation is
          req,         \* what it was asked
          answers,     \* the results a deploy has sent, the answer of a call
          temp,        \* a deploy's temporary directories
          listed,      \* whose images its admission looked at
          ran,         \* whose stack and env files its compose up read
          stackFile, envFile, workCopy,
          made,        \* whose containers there are, running or stopped
          waits, holds,    \* the stack's mutex
          crashes

disk == <<stackFile, envFile, workCopy>>
lock == <<waits, holds>>
history == <<listed, ran>>
vars == <<pc, req, answers, temp, history, disk, made, lock, crashes>>

Mutex == INSTANCE StackMutex WITH Procs <- Ops, Slugs <- {Stack}

IsStack(r) == r.source = "compose" \/ r.build = "compose"
ReadsCompose(r) == r.build = "compose" /\ ~r.rendered

NoRequest == [source |-> "unknown", build |-> "none", rendered |-> FALSE,
              buildOnly |-> FALSE, creds |-> FALSE, reuse |-> FALSE]

Inside == {"sync", "again", "againEnv", "strip", "up", "act", "files", "copy",
           "rewrite", "rewriteEnv", "relist"}
Waiting == {"wantSync", "wantStart", "wantCall"}
Places == {"idle", "source", "from", "build", "building", "starting", "write", "writeEnv",
           "pull", "list", "admit", "wait", "unwind", "done", "gone"} \cup Inside \cup Waiting

TypeOK ==
    /\ pc \in [Ops -> Places]
    /\ \A d \in Deploys : req[d] \in Kinds[d] \cup {NoRequest}
    /\ \A c \in Controls : req[c] \in Calls \cup {None}
    /\ answers \in [Ops -> Seq({"ok", "failed", "compose"})]
    /\ temp \in [Deploys -> SUBSET {"auth", "dir"}]
    /\ listed \in [Ops -> Writers \cup {None}]
    /\ ran \in [Ops -> [stack : Writers \cup {None}, env : Writers \cup {None}]]
    /\ stackFile \in Writers \cup {None} /\ envFile \in Writers \cup {None}
    /\ workCopy \in Writers \cup {None, "torn"}
    /\ made \in Writers \cup {None}
    /\ waits[Stack] \subseteq Ops /\ holds[Stack] \subseteq Ops
    /\ crashes \in 0..MaxCrashes

\* A stack that was never deployed, or the one Before left, built from a source.
Init ==
    /\ pc = [o \in Ops |-> "idle"]
    /\ req = [o \in Ops |-> IF o \in Deploys THEN NoRequest ELSE None]
    /\ answers = [o \in Ops |-> <<>>]
    /\ temp = [d \in Deploys |-> {}]
    /\ listed = [o \in Ops |-> None]
    /\ ran = [o \in Ops |-> [stack |-> None, env |-> None]]
    /\ \E w \in {Before, None} :
        stackFile = w /\ envFile = w /\ workCopy = w /\ made = w
    /\ Mutex!Init
    /\ crashes = 0

Goes(o, p) == pc' = [pc EXCEPT ![o] = p]
Answers(o, a) == answers' = [answers EXCEPT ![o] = Append(@, a)]

\* A deploy goes on, with nothing sent.
Continues(d, p) == Goes(d, p) /\ UNCHANGED answers
\* A deploy sends its result and returns; its deferred calls are left.
Ends(d, a) == Goes(d, "unwind") /\ Answers(d, a)

Fails(d) == Ends(d, "failed")

Keeps(d, t) == temp' = [temp EXCEPT ![d] = @ \cup {t}]
-----------------------------------------------------------------------------
(* The deploy up to its image.                                             *)

\* The checks of a request that no state decides.
Refused(r) ==
    \/ r.build = "compose" /\ r.source \notin {"git", "upload"}
    \/ r.buildOnly /\ (IsStack(r) \/ r.build = "none")

\* Checks, the network, and the registry credentials, each of which may fail.
Begin(d) ==
    /\ pc[d] = "idle"
    /\ \E r \in Kinds[d] :
        /\ req' = [req EXCEPT ![d] = r]
        /\ \/ Fails(d) /\ UNCHANGED temp
           \/ /\ ~Refused(r)
              /\ Continues(d, "source")
              /\ IF r.creds THEN Keeps(d, "auth") ELSE UNCHANGED temp
    /\ UNCHANGED <<history, disk, made, lock, crashes>>

\* reuseBuiltImage: the image of an earlier deployment is tagged as this one's.
MayReuse(r) == r.source = "git" /\ r.reuse /\ ~r.buildOnly /\ ~IsStack(r)

\* materializeUploadFrom and materializeGit, into a directory of the deploy's own.
Unpacks(d) == req[d].source = "upload" /\ Continues(d, "from") /\ Keeps(d, "dir")
Clones(d) == req[d].source = "git" /\ Continues(d, "from") /\ Keeps(d, "dir")

\* The switch over the source: a pull, an upload, a clone, or the mount files of
\* a compose app.
Source(d) ==
    LET r == req[d]
    IN  /\ pc[d] = "source"
        /\ \/ Fails(d) /\ UNCHANGED temp
           \/ /\ r.source \in {"image", "compose"} \/ MayReuse(r)
              /\ Continues(d, "starting") /\ UNCHANGED temp
           \/ Unpacks(d)
           \/ Clones(d)
        /\ UNCHANGED <<req, history, disk, made, lock, crashes>>

\* redirectToCompose answers with the compose file it found, or that none is.
Redirects(d) == \E a \in {"compose", "failed"} : Ends(d, a)

\* buildDetected: a compose file, or a Dockerfile or what railpack can build.
Detected(d) == req[d].build = "auto" /\ (Redirects(d) \/ Continues(d, "build"))

\* fromSource: what the source is for.
FromSource(d) ==
    LET r == req[d]
    IN  /\ pc[d] = "from"
        /\ IF ReadsCompose(r) THEN Redirects(d) /\ UNCHANGED lock
           ELSE IF r.build = "compose"
                THEN Continues(d, "wantSync") /\ Mutex!Ask(d, Stack)
           ELSE /\ UNCHANGED lock
                /\ \/ Detected(d)
                   \/ r.build \in {"dockerfile", "railpack"} /\ Continues(d, "build")
                   \/ r.build = "none" /\ Fails(d)
        /\ UNCHANGED <<req, temp, history, disk, made, crashes>>

\* buildDockerfile and buildRailpack up to the build: paths that leave the
\* context, links, the plan.
Prepare(d) ==
    /\ pc[d] = "build"
    /\ \/ Fails(d)
       \/ Continues(d, "building")
    /\ UNCHANGED <<req, temp, history, disk, made, lock, crashes>>

\* streamBuild.
Build(d) ==
    /\ pc[d] = "building"
    /\ Fails(d) \/ Continues(d, "starting")
    /\ UNCHANGED <<req, temp, history, disk, made, lock, crashes>>

Leaves(o) == Mutex!GiveBack(o, Stack)

\* updateWorkingCopy, whole, inside the lock: files of the new source are
\* written one by one, so a failure leaves some of each.
Sync(d) ==
    /\ pc[d] = "sync"
    /\ \/ Fails(d) /\ workCopy' \in {workCopy, "torn", d}
       \/ Continues(d, "starting") /\ workCopy' = d
    /\ Leaves(d)
    /\ UNCHANGED <<req, temp, history, stackFile, envFile, made, crashes>>
-----------------------------------------------------------------------------
(* The deploy from its image to its result.                                *)

Starting(d) ==
    LET r == req[d]
    IN  /\ pc[d] = "starting"
        /\ IF r.buildOnly THEN Ends(d, "ok")
           ELSE \/ Fails(d)
                \/ Continues(d, IF IsStack(r) THEN "write" ELSE "admit")
        /\ UNCHANGED <<req, temp, history, disk, made, lock, crashes>>

\* writeStackFiles, the stack first and then its env file; with a lock or not.
WriteStack(d, here, next) ==
    /\ pc[d] = here
    /\ stackFile' \in {stackFile, d}
    /\ \/ Fails(d)
       \/ stackFile' = d /\ Continues(d, next)
    /\ UNCHANGED <<req, temp, history, envFile, workCopy, made, crashes>>

WriteEnv(d, here, next) ==
    /\ pc[d] = here
    /\ envFile' \in {envFile, d}
    /\ \/ Fails(d)
       \/ envFile' = d /\ Continues(d, next)
    /\ UNCHANGED <<req, temp, history, stackFile, workCopy, made, crashes>>

\* Outside the lock, for docker compose to read.
WriteFirst(d) ==
    /\ \/ WriteStack(d, "write", "writeEnv")
       \/ WriteEnv(d, "writeEnv", "pull")
    /\ UNCHANGED lock

\* checkSourceStack, compose pull and compose build, of the stack on disk.
PullStack(d) ==
    /\ pc[d] = "pull"
    /\ \/ Fails(d)
       \/ stackFile # None /\ Continues(d, "list")
    /\ UNCHANGED <<req, temp, history, disk, made, lock, crashes>>

\* composeImages, of the stack on disk.
ListImages(d) ==
    /\ pc[d] = "list"
    /\ \/ Fails(d) /\ UNCHANGED listed
       \/ /\ stackFile # None
          /\ Continues(d, "admit")
          /\ listed' = [listed EXCEPT ![d] = stackFile]
    /\ UNCHANGED <<req, temp, ran, disk, made, lock, crashes>>

\* admitImages: of the list, or of the one image of the request.
Admit(d) ==
    /\ pc[d] = "admit"
    /\ \/ Fails(d) /\ UNCHANGED <<listed, lock>>
       \/ /\ Continues(d, "wantStart")
          /\ Mutex!Ask(d, Stack)
          /\ listed' = IF IsStack(req[d]) THEN listed ELSE [listed EXCEPT ![d] = d]
    /\ UNCHANGED <<req, temp, ran, disk, made, crashes>>

Enters(o) ==
    /\ pc[o] \in Waiting
    /\ Mutex!Grant(o, Stack)
    /\ Goes(o, CASE pc[o] = "wantSync" -> "sync"
                 [] pc[o] = "wantStart" -> "again"
                 [] pc[o] = "wantCall" ->
                        IF req[o] \in {"reroute", "rerouteEnv"} THEN "rewrite" ELSE "act")
    /\ UNCHANGED <<req, answers, temp, history, disk, made, crashes>>

\* Bug: startStack trusts the env file written before the lock.
AfterLockUp(d) == "up"
\* Where startStack goes once the stack file is written.
AfterStack(d) == IF IsStack(req[d]) THEN "againEnv" ELSE "up"

\* Bug: only an up that was tried gives the lock back.
KeepsIfFailed(d) == UNCHANGED lock
\* A failure of startStack before its compose up returns, and gives the lock back.
GivesBackIfFailed(d) == IF pc'[d] = "unwind" THEN Leaves(d) ELSE UNCHANGED lock

WriteAgain(d) ==
    /\ \/ WriteStack(d, "again", AfterStack(d))
       \/ WriteEnv(d, "againEnv", IF req[d].build = "compose" THEN "strip" ELSE "up")
    /\ GivesBackIfFailed(d)

\* stripEscapingSymlinks opens the working copy.
CopyIsThere == workCopy # None

\* stripWorkingCopyLinks.
Strip(d) ==
    /\ pc[d] = "strip"
    /\ \/ Fails(d)
       \/ CopyIsThere /\ Continues(d, "up")
    /\ GivesBackIfFailed(d)
    /\ UNCHANGED <<req, temp, history, disk, made, crashes>>

\* docker compose up: the containers become those of the stack on disk, or, when
\* it fails, stay or became them.
Up(worked) == IF worked THEN made' = stackFile ELSE made' \in {made, stackFile}

Reads(o) == ran' = [ran EXCEPT ![o] = [stack |-> stackFile, env |-> envFile]]

BringUp(d) ==
    /\ pc[d] = "up"
    /\ Reads(d)
    /\ \/ Up(TRUE) /\ Continues(d, "wait")
       \/ Up(FALSE) /\ Fails(d)
    /\ Leaves(d)
    /\ UNCHANGED <<req, temp, listed, disk, crashes>>

\* waitReady, waitStackRunning or waitRunning: some verdict, within a timeout.
Wait(d) ==
    /\ pc[d] = "wait"
    /\ \E a \in {"ok", "failed"} : Ends(d, a)
    /\ UNCHANGED <<req, temp, history, disk, made, lock, crashes>>

\* Bug: the credentials are dropped only by a deploy that ends well.
DroppedIfOk(d) == IF answers[d] = <<"ok">> THEN {} ELSE temp[d] \cap {"auth"}
\* What is left after the deferred calls: cleanup() and dropAuth().
Dropped(d) == {}

Unwind(d) ==
    /\ pc[d] = "unwind"
    /\ Goes(d, "done")
    /\ temp' = [temp EXCEPT ![d] = Dropped(d)]
    /\ UNCHANGED <<req, answers, history, disk, made, lock, crashes>>
-----------------------------------------------------------------------------
(* Stop, start, destroy and reroute.                                       *)

Call(c) ==
    /\ pc[c] = "idle"
    /\ \E k \in Kinds[c] : req' = [req EXCEPT ![c] = k]
    /\ Goes(c, "wantCall")
    /\ Mutex!Ask(c, Stack)
    /\ UNCHANGED <<answers, temp, history, disk, made, crashes>>

Returns(c, a) == Goes(c, "done") /\ Answers(c, a) /\ Leaves(c)
StaysInside(c, p) == Goes(c, p) /\ UNCHANGED <<answers, lock>>

\* compose stop or start of the whole stack, and of its one container when that
\* fails: no container comes or goes.
StopOrStart(c) ==
    /\ pc[c] = "act" /\ req[c] \in {"stop", "stopSome", "start"}
    /\ \/ Returns(c, "failed")
       \/ /\ stackFile # None \/ (made # None /\ req[c] # "stopSome")
          /\ Returns(c, "ok")
    /\ UNCHANGED <<req, temp, history, disk, made, crashes>>

Removed == made' = None
NotRemoved == UNCHANGED made

\* Bug: the files go even if the containers did not.
FilesGoAlways == TRUE
\* The stack's files go only when compose down worked.
FilesGo == made' = None

\* DestroyStack's docker part, with removeStackContainers when there is no stack
\* file or compose down failed; after the latter the files stay, and volumes
\* asked for were not removed.
Destroy(c) ==
    /\ pc[c] = "act" /\ req[c] \in {"destroy", "destroyVolumes"}
    /\ \/ stackFile = None /\ Removed /\ StaysInside(c, "copy")
       \/ stackFile # None /\ (Removed \/ NotRemoved) /\ FilesGo /\ StaysInside(c, "files")
       \/ /\ stackFile # None /\ Removed
          /\ Returns(c, IF req[c] = "destroy" THEN "ok" ELSE "failed")
       \/ NotRemoved /\ Returns(c, "failed")
    /\ UNCHANGED <<req, temp, history, disk, crashes>>

\* removeStackFiles: the stack and env files, then the working copy.
RemoveFiles(c) ==
    /\ pc[c] = "files"
    /\ stackFile' = None /\ envFile' = None
    /\ StaysInside(c, "copy")
    /\ UNCHANGED <<req, temp, history, workCopy, made, crashes>>

RemoveWorkingCopy(c) ==
    /\ pc[c] = "copy"
    /\ workCopy' = None
    /\ Returns(c, "ok")
    /\ UNCHANGED <<req, temp, history, stackFile, envFile, made, crashes>>

\* Reroute, after its checks: the stack and mount files, the env file when one
\* is sent, the admission of the images, and up.
Rewrite(c) ==
    /\ pc[c] = "rewrite"
    /\ stackFile' \in {stackFile, c}
    /\ \/ Returns(c, "failed")
       \/ /\ stackFile' = c
          /\ StaysInside(c, IF req[c] = "rerouteEnv" THEN "rewriteEnv" ELSE "relist")
    /\ UNCHANGED <<req, temp, history, envFile, workCopy, made, crashes>>

RewriteEnv(c) ==
    /\ pc[c] = "rewriteEnv"
    /\ envFile' \in {envFile, c}
    /\ \/ Returns(c, "failed")
       \/ envFile' = c /\ StaysInside(c, "relist")
    /\ UNCHANGED <<req, temp, history, stackFile, workCopy, made, crashes>>

\* admitStackImages, and stripSourceLinks.
Relist(c) ==
    /\ pc[c] = "relist"
    /\ \/ Returns(c, "failed") /\ UNCHANGED listed
       \/ /\ StaysInside(c, "up")
          /\ listed' = [listed EXCEPT ![c] = stackFile]
    /\ UNCHANGED <<req, temp, ran, disk, made, crashes>>

RerouteUp(c) ==
    /\ pc[c] = "up"
    /\ Reads(c)
    /\ \/ Up(TRUE) /\ Returns(c, "ok")
       \/ Up(FALSE) /\ Returns(c, "failed")
    /\ UNCHANGED <<req, temp, listed, disk, crashes>>
-----------------------------------------------------------------------------
\* The agent dies and starts again: operations and the lock are gone, a
\* compose up may have got anywhere, and sweepTempSecrets takes the credentials,
\* but not the directories.
Swept(ts) == ts \ {"auth"}

Crash ==
    /\ crashes < MaxCrashes
    /\ crashes' = crashes + 1
    /\ pc' = [o \in Ops |-> IF pc[o] \in {"idle", "done"} THEN pc[o] ELSE "gone"]
    /\ temp' = [d \in Deploys |-> Swept(temp[d])]
    /\ waits' = [s \in {Stack} |-> {}] /\ holds' = [s \in {Stack} |-> {}]
    /\ \/ UNCHANGED made
       \/ (\E o \in Ops : pc[o] = "up") /\ made' = stackFile
    /\ UNCHANGED <<req, answers, history, disk>>

DeploySteps(d) ==
    \/ Begin(d) \/ Source(d) \/ FromSource(d) \/ Prepare(d) \/ Build(d) \/ Sync(d)
    \/ Starting(d) \/ WriteFirst(d) \/ PullStack(d) \/ ListImages(d) \/ Admit(d)
    \/ WriteAgain(d) \/ Strip(d) \/ BringUp(d) \/ Wait(d) \/ Unwind(d)

CallSteps(c) ==
    \/ Call(c) \/ StopOrStart(c) \/ Destroy(c) \/ RemoveFiles(c)
    \/ RemoveWorkingCopy(c) \/ Rewrite(c) \/ RewriteEnv(c) \/ Relist(c) \/ RerouteUp(c)

Next ==
    \/ \E d \in Deploys : DeploySteps(d)
    \/ \E c \in Controls : CallSteps(c)
    \/ \E o \in Ops : Enters(o)
    \/ Crash

Spec == Init /\ [][Next]_vars

\* Every command has a timeout, so a started operation goes on; the mutex lets
\* each waiter in some day (StackLock).
FairSpec ==
    /\ Spec
    /\ \A d \in Deploys : WF_vars(pc[d] # "idle" /\ DeploySteps(d))
    /\ \A c \in Controls : WF_vars(pc[c] # "idle" /\ CallSteps(c))
    /\ \A o \in Ops : SF_vars(Enters(o))
-----------------------------------------------------------------------------
\* A deploy that ends has sent one result, on whatever path it returned, and none
\* sends two.
OneResult ==
    \A d \in Deploys :
        /\ Len(answers[d]) <= 1
        /\ pc[d] = "done" => Len(answers[d]) = 1

(* What a deploy brings up is its own stack with its own variables,        *)
(* whatever reroute, stop or destroy came while it was building            *)
(* (startStack writes the files again under the lock).  Of deploys of the  *)
(* stack this is asked of one at a time: another's first write takes no    *)
(* lock, see CheckedIsWhatStarts.                                          *)
DeployRunsItsStack ==
    \A d \in Deploys :
        ran[d].stack # None =>
            /\ ran[d].stack = d
            /\ IsStack(req[d]) => ran[d].env = d

(* Containers never outlive the stack file that stop, start and destroy    *)
(* find them by, nor, brought up by a deploy from a source, the working    *)
(* copy their folders are in (DestroyStack removes files last).            *)
ContainersKeepTheirFiles ==
    made # None =>
        /\ stackFile # None
        /\ /\ made \in Deploys
           /\ ran[made].stack = made
           /\ req[made].build = "compose"
           => workCopy # None

(* Registry credentials are on disk for as long as a deploy that was sent  *)
(* some may run docker, and no longer, also across a crash (dropAuth,      *)
(* sweepTempSecrets).                                                      *)
CredentialsWhileNeeded ==
    \A d \in Deploys :
        /\ pc[d] \in {"idle", "done", "gone"} => "auth" \notin temp[d]
        /\ pc[d] \notin {"idle", "unwind", "done", "gone"} /\ req[d].creds => "auth" \in temp[d]

(* Every operation that began answers, in spite of the lock, unless the    *)
(* agent dies under it (lockStack and the deferred unlocks); and a deploy  *)
(* answers once, on whatever path it returns: a client waits for it        *)
(* (runDeployFrom and every helper that "sent the result").                *)
EveryOperationAnswers ==
    /\ []OneResult
    /\ \A o \in Ops : pc[o] # "idle" ~> pc[o] \in {"done", "gone"}

(* What compose up starts is what the operation's admission looked at:     *)
(* "startStack writes the admitted stack and brings it up under the stack  *)
(* lock, so a Reroute [...] cannot interleave with it" (deploy.go:263).    *)
CheckedIsWhatStarts == \A o \in Ops : ran[o].stack # None => ran[o].stack = listed[o]

=============================================================================
