---------------------------- MODULE DeployRegistry ----------------------------
(***************************************************************************)
(* Service.deploys (internal/server/server.go, inflight.go): which run a   *)
(* deploy id means.  Deploy and DeployStream start a run or join the one   *)
(* registered, ReattachDeploy only joins; a finished run is kept for a     *)
(* while so a control plane that lost its stream can reattach, and is      *)
(* forgotten by a timer, or earlier when finished runs together hold too   *)
(* much log.  A streamed build context is spooled to a file that belongs   *)
(* first to the call and then to the run.                                  *)
(*                                                                         *)
(* Every critical section of s.mu is one step: none of them blocks.        *)
(***************************************************************************)
EXTENDS Naturals, FiniteSets, FiniteSetsExt

CONSTANTS Ids,        \* deploy ids
          Calls,      \* Deploy, DeployStream and ReattachDeploy calls, each made once
          Runs,       \* *inflight records, each used for one run
          NoRun,      \* no record
          NoCall,     \* no spool file
          LogBytes,   \* sizes a finished run's retained log may have
          Budget      \* maxFinishedLogBytes

ASSUME DeployRegistryAssumption ==
    /\ NoRun \notin Runs
    /\ NoCall \notin Calls
    /\ LogBytes \subseteq Nat
    /\ Budget \in Nat

VARIABLES deploys,    \* Service.deploys
          stage,      \* how far each run's driver goroutine is
          id,         \* the deploy id a run was started for
          context,    \* the call whose spool file the run owns (contextFile)
          held,      \* the run's logBytes
          finishedAt, \* the rank of the run's result among all results
          timer,      \* the runs whose retention timer is armed
          clock,      \* results so far
          call,       \* where each call is
          asked,      \* the deploy id of each call
          joined,     \* the run a call follows
          files       \* calls whose spool file exists on disk

runVars == <<stage, id, context, held, finishedAt, timer, clock>>
callVars == <<call, asked, joined>>
registryVars == <<deploys, runVars, callVars, files>>

\* free -> running -> done (result appended) -> trimmed -> over
Stages == {"free", "running", "done", "trimmed", "over"}

RegistryTypeOK ==
    /\ deploys \in [Ids -> Runs \cup {NoRun}]
    /\ stage \in [Runs -> Stages]
    /\ id \in [Runs -> Ids]
    /\ context \in [Runs -> Calls \cup {NoCall}]
    /\ held \in [Runs -> Nat]
    /\ finishedAt \in [Runs -> Nat]
    /\ timer \subseteq Runs
    /\ clock \in Nat
    /\ call \in [Calls -> {"idle", "spooling", "following", "refused", "returned"}]
    /\ asked \in [Calls -> Ids]
    /\ joined \in [Calls -> Runs \cup {NoRun}]
    /\ \A c \in Calls : call[c] = "following" => joined[c] \in Runs
    /\ files \subseteq Calls

RegistryInit ==
    /\ deploys = [i \in Ids |-> NoRun]
    /\ stage = [r \in Runs |-> "free"]
    /\ id \in [Runs -> Ids]
    /\ context = [r \in Runs |-> NoCall]
    /\ held = [r \in Runs |-> 0]
    /\ finishedAt = [r \in Runs |-> 0]
    /\ timer = {}
    /\ clock = 0
    /\ call = [c \in Calls |-> "idle"]
    /\ asked \in [Calls -> Ids]
    /\ joined = [c \in Calls |-> NoRun]
    /\ files = {}

Finished(r) == stage[r] \in {"done", "trimmed", "over"}
Registered(r) == deploys[id[r]] = r
-----------------------------------------------------------------------------
\* Calls.

Join(c, r) ==
    /\ call' = [call EXCEPT ![c] = "following"]
    /\ joined' = [joined EXCEPT ![c] = r]

\* newInflight, s.deploys[id] = f and go s.driveDeploy: one section of s.mu.
Start(c, i, spool) ==
    \E r \in Runs :
        /\ stage[r] = "free"
        /\ stage' = [stage EXCEPT ![r] = "running"]
        /\ id' = [id EXCEPT ![r] = i]
        /\ context' = [context EXCEPT ![r] = spool]
        /\ deploys' = [deploys EXCEPT ![i] = r]
        /\ Join(c, r)

\* Deploy: join the registered run, or start one.
Deploy(c, i) ==
    /\ call[c] = "idle"
    /\ asked' = [asked EXCEPT ![c] = i]
    /\ \/ /\ deploys[i] # NoRun
          /\ Join(c, deploys[i])
          /\ UNCHANGED <<deploys, stage, id, context>>
       \/ /\ deploys[i] = NoRun
          /\ Start(c, i, NoCall)
    /\ UNCHANGED <<held, finishedAt, timer, clock, files>>

\* DeployStream's first frame: join, or begin spooling outside s.mu.
DeployStream(c, i) ==
    /\ call[c] = "idle"
    /\ asked' = [asked EXCEPT ![c] = i]
    /\ \/ /\ deploys[i] # NoRun
          /\ Join(c, deploys[i])
          /\ UNCHANGED files
       \/ /\ deploys[i] = NoRun
          /\ call' = [call EXCEPT ![c] = "spooling"]
          /\ files' = files \cup {c}
          /\ UNCHANGED joined
    /\ UNCHANGED <<deploys, runVars>>

\* Bug: the half-received file stays.
FilesAfterFailureKept(c) == files

\* fail: os.Remove(f.Name()).
FilesAfterFailure(c) == files \ {c}

\* The stream broke, the context is too large or the disk is full.
SpoolFails(c) ==
    /\ call[c] = "spooling"
    /\ call' = [call EXCEPT ![c] = "refused"]
    /\ files' = FilesAfterFailure(c)
    /\ UNCHANGED <<deploys, runVars, asked, joined>>

\* Bug: the registry is not read again after the context is spooled.
LostRaceNever(c) == FALSE

\* Another call registered the same id while this one was spooling.
LostRace(c) == deploys[asked[c]] # NoRun

\* The context is on disk: join a run registered meanwhile and drop the file, or
\* start the run that owns it.
Spooled(c) ==
    /\ call[c] = "spooling"
    /\ \/ /\ LostRace(c)
          /\ Join(c, deploys[asked[c]])
          /\ files' = files \ {c}
          /\ UNCHANGED <<deploys, stage, id, context>>
       \/ /\ ~LostRace(c)
          /\ Start(c, asked[c], c)
          /\ UNCHANGED files
    /\ UNCHANGED <<held, finishedAt, timer, clock, asked>>

\* Bug: a missing record is followed.
KnownDeployAny(i) == TRUE
KnownDeploy(i) == deploys[i] # NoRun

\* ReattachDeploy: NotFound, or follow from the caller's cursor.
Reattach(c, i) ==
    /\ call[c] = "idle"
    /\ asked' = [asked EXCEPT ![c] = i]
    /\ \/ /\ KnownDeploy(i)
          /\ Join(c, deploys[i])
       \/ /\ ~KnownDeploy(i)
          /\ call' = [call EXCEPT ![c] = "refused"]
          /\ UNCHANGED joined
    /\ UNCHANGED <<deploys, runVars, files>>

\* Bugs: the stream needs its run to be registered still; the call takes its spool
\* file with it.
HasResultIfRegistered(c) == Finished(joined[c]) /\ Registered(joined[c])
FilesAfterHangUpDropped(c) == files \ {c}

\* The subscription has f.done, registered or not.
HasResult(c) == Finished(joined[c])

\* The spool file is the run's by now.
FilesAfterHangUp(c) == files

\* The stream follows its run to the result, or its client hangs up before.
FollowedToEnd(c) ==
    /\ call[c] = "following"
    /\ HasResult(c)
    /\ call' = [call EXCEPT ![c] = "returned"]
    /\ UNCHANGED <<deploys, runVars, asked, joined, files>>

HangUp(c) ==
    /\ call[c] = "following"
    /\ call' = [call EXCEPT ![c] = "returned"]
    /\ files' = FilesAfterHangUp(c)
    /\ UNCHANGED <<deploys, runVars, asked, joined>>
-----------------------------------------------------------------------------
\* driveDeploy.

\* runDeployFrom, or its recover, appended the result.
Finish(r, n) ==
    /\ stage[r] = "running"
    /\ stage' = [stage EXCEPT ![r] = "done"]
    /\ held' = [held EXCEPT ![r] = n]
    /\ clock' = clock + 1
    /\ finishedAt' = [finishedAt EXCEPT ![r] = clock + 1]
    /\ UNCHANGED <<deploys, id, context, timer, callVars, files>>

\* Bug: the run that has just finished is not counted.
TrimmableBefore == {r \in Runs : stage[r] \in {"trimmed", "over"} /\ Registered(r)}

\* The registered runs whose result is in.
Trimmable == {r \in Runs : Finished(r) /\ Registered(r)}

Total(S) == MapThenSumSet(LAMBDA r : held[r], S)

OlderFirst(q, r) == finishedAt[q] < finishedAt[r]

\* trimFinished: oldest first, until what is left fits the budget.
Trimmed ==
    {r \in Trimmable : Total({q \in Trimmable : ~OlderFirst(q, r)}) > Budget}

\* trimFinished, then time.AfterFunc(retainFinished, ...).
Trim(r) ==
    /\ stage[r] = "done"
    /\ deploys' = [i \in Ids |-> IF deploys[i] \in Trimmed THEN NoRun ELSE deploys[i]]
    /\ stage' = [stage EXCEPT ![r] = "trimmed"]
    /\ timer' = timer \cup {r}
    /\ UNCHANGED <<id, context, held, finishedAt, clock, callVars, files>>

\* driveDeploy's deferred os.Remove(contextFile).
DropContext(r) ==
    /\ stage[r] = "trimmed"
    /\ stage' = [stage EXCEPT ![r] = "over"]
    /\ files' = files \ {context[r]}
    /\ context' = [context EXCEPT ![r] = NoCall]
    /\ UNCHANGED <<deploys, id, held, finishedAt, timer, clock, callVars>>

\* Bugs: the timer deletes whatever the id means by now, or spares finished runs.
TimerStillOwnsAny(r) == TRUE
TimerStillOwnsRunning(r) == deploys[id[r]] = r /\ stage[r] = "running"
TimerStillOwns(r) == deploys[id[r]] = r

\* The retention timer: if s.deploys[id] == f { delete(s.deploys, id) }.
Expire(r) ==
    /\ r \in timer
    /\ timer' = timer \ {r}
    /\ deploys' = IF TimerStillOwns(r) THEN [deploys EXCEPT ![id[r]] = NoRun] ELSE deploys
    /\ UNCHANGED <<stage, id, context, held, finishedAt, clock, callVars, files>>

RegistryNext ==
    \/ \E c \in Calls :
        \/ \E i \in Ids : Deploy(c, i) \/ DeployStream(c, i) \/ Reattach(c, i)
        \/ SpoolFails(c) \/ Spooled(c) \/ FollowedToEnd(c) \/ HangUp(c)
    \/ \E r \in Runs :
        \/ \E n \in LogBytes : Finish(r, n)
        \/ Trim(r) \/ DropContext(r) \/ Expire(r)

RegistrySpec == RegistryInit /\ [][RegistryNext]_registryVars

\* A driver goroutine runs to its end, since every docker command it waits for
\* has a deadline; its timer fires; a stream that has its result returns, and a
\* client sends its context or breaks the stream.
RegistryFairness ==
    /\ \A r \in Runs :
        /\ WF_registryVars(\E n \in LogBytes : Finish(r, n))
        /\ WF_registryVars(Trim(r)) /\ WF_registryVars(DropContext(r)) /\ WF_registryVars(Expire(r))
    /\ \A c \in Calls :
        /\ WF_registryVars(FollowedToEnd(c))
        /\ WF_registryVars(Spooled(c) \/ SpoolFails(c))

RegistryFairSpec == RegistrySpec /\ RegistryFairness
-----------------------------------------------------------------------------
\* A running deploy is what its id means in the registry: a retry or a reattach
\* joins it, so one id never has two runs at once, and neither another run's
\* retention timer nor the trimming of finished runs drops it ("a running deploy
\* is never dropped").
RunningIsRegistered == \A r \in Runs : stage[r] = "running" => Registered(r)

\* A run's build context is on disk for as long as the run may read it, and no
\* spooled one outlives the call that receives it and the run that owns it.
ContextsAreOwned ==
    /\ \A r \in Runs : stage[r] = "running" /\ context[r] # NoCall => context[r] \in files
    /\ \A c \in files : call[c] = "spooling" \/ \E r \in Runs : context[r] = c /\ stage[r] # "over"

\* The logs of the finished runs that have been through trimFinished fit the budget.
RetainedFits ==
    Total({r \in Runs : stage[r] \in {"trimmed", "over"} /\ Registered(r)}) <= Budget

\* The registry keeps what it must and no more: every running deploy, and of the
\* finished ones at most the budget, though runs that end together trim each other.
RegistryKeeps == RunningIsRegistered /\ RetainedFits

\* The registry and the files of its runs go together.
RunsAreKept == RegistryKeeps /\ ContextsAreOwned

\* Every run is forgotten in the end.
EveryRunIsForgotten == \A r \in Runs : stage[r] = "running" ~> ~Registered(r)

\* Every call that reaches a run, or spools for one, is answered.
EveryCallReturns ==
    \A c \in Calls : call[c] \in {"spooling", "following"} ~> call[c] \in {"refused", "returned"}

=============================================================================
