------------------------------- MODULE CronJobs -------------------------------
(***************************************************************************)
(* Cron jobs (internal/server/job.go, internal/dockercli/marker.go): a     *)
(* docker exec the agent owns from StartJob on.  A driver goroutine checks *)
(* the container, writes the job's variables to a file, runs the docker    *)
(* client and records how it ended; PollJob reads the record, KillJob      *)
(* cancels the job's context.  Stopping the client leaves the processes    *)
(* inside the container alone, so a stopped job's driver looks its         *)
(* processes up in /proc and signals them, SIGTERM and then SIGKILL.       *)
(*                                                                         *)
(* The docker daemon, the processes of the command and the clock are the   *)
(* environment.  A job id is random and never drawn twice, so one element  *)
(* of Jobs is one job for ever; the table lives in memory only, and an     *)
(* agent that restarts knows none of the jobs it had.                      *)
(***************************************************************************)
EXTENDS Naturals, FiniteSets

CONSTANTS Jobs,         \* job ids
          MaxLive,      \* maxLiveJobs
          MaxProcs,     \* bound: processes one command ever consists of
          MaxCrashes    \* bound: times the agent is killed

ASSUME CronJobsAssumption ==
    /\ IsFiniteSet(Jobs)
    /\ MaxLive \in Nat \ {0}
    /\ MaxProcs \in Nat \ {0}
    /\ MaxCrashes \in Nat

VARIABLES up,          \* the agent runs
          crashes,     \* times it was killed
          jobs,        \* the keys of Service.jobs
          phase,       \* where each job's driver goroutine is
          ended,       \* a code or an error from StreamPipes, then the switch's verdict
          done,        \* jobs whose done flag is set
          outcome,     \* the exit code, timedOut and stderr of the record
          cancelled,   \* jobs whose context is cancelled
          late,        \* jobs whose timeout has passed since execStart
          stopping,    \* KillJob calls between the look at the table and cancel
          envFile,     \* jobs whose variables are in a file of os.TempDir
          asked,       \* jobs whose exec the daemon was asked for and has not begun
          born, procs, \* processes the command ever had, those alive
          pids,        \* what the last find() of KillMarked returned
          polled       \* what the control plane was last told of each job

record == <<done, outcome>>
driver == <<phase, ended, pids>>
world == <<asked, born, procs>>
cronVars == <<up, crashes, jobs, driver, record, cancelled, late, stopping,
          envFile, world, polled>>

Before == {"owner", "shell", "env", "exec"}
Killing == {"term", "grace", "swept"}
Phases == {"none", "running", "ended", "unwinding", "over"} \cup Before \cup Killing
Outcomes == {"none", "failed", "exited", "stopped", "timedOut"}
Answers == {"nothing", "running", "notFound"} \cup Outcomes

CronTypeOK ==
    /\ up \in BOOLEAN
    /\ crashes \in 0..MaxCrashes
    /\ jobs \subseteq Jobs
    /\ phase \in [Jobs -> Phases]
    /\ ended \in [Jobs -> {"none", "code", "error", "stopped", "timedOut"}]
    /\ done \subseteq jobs
    /\ outcome \in [Jobs -> Outcomes]
    /\ cancelled \subseteq Jobs /\ late \subseteq Jobs /\ stopping \subseteq Jobs
    /\ envFile \subseteq Jobs /\ asked \subseteq Jobs
    /\ born \in [Jobs -> 0..MaxProcs]
    /\ procs \in [Jobs -> SUBSET (1..MaxProcs)]
    /\ pids \in [Jobs -> SUBSET (1..MaxProcs)]
    /\ polled \in [Jobs -> Answers]

CronInit ==
    /\ up = TRUE /\ crashes = 0
    /\ jobs = {} /\ done = {}
    /\ phase = [j \in Jobs |-> "none"]
    /\ ended = [j \in Jobs |-> "none"]
    /\ outcome = [j \in Jobs |-> "none"]
    /\ cancelled = {} /\ late = {} /\ stopping = {}
    /\ envFile = {} /\ asked = {}
    /\ born = [j \in Jobs |-> 0]
    /\ procs = [j \in Jobs |-> {}]
    /\ pids = [j \in Jobs |-> {}]
    /\ polled = [j \in Jobs |-> "nothing"]

-----------------------------------------------------------------------------
(* Helpers, each after the forms of it that a mistake would give.           *)

At(j, p) == up /\ phase[j] = p
GoTo(j, p) == phase' = [phase EXCEPT ![j] = p]

\* The cap of StartJob over the jobs not done.
HasSlot(live) == Cardinality(live) < MaxLive

\* finishJob without its write-once test.
RecordedAgain(j, o) == [outcome EXCEPT ![j] = o]
\* finishJob keeps the first record of a job.
Recorded(j, o) == IF j \in done THEN outcome ELSE [outcome EXCEPT ![j] = o]

FinishJob(j, o) == outcome' = Recorded(j, o) /\ done' = done \cup {j}

\* The result taken when the deadline passes, without Wait.
ClientOverOrLate(j) == phase[j] = "ended" \/ (phase[j] = "running" /\ j \in late)
\* StreamPipes returned: the client was waited for and its output copied.
ClientOver(j) == phase[j] = "ended"

\* A grace that ends only once every process is gone.
GraceIsOverWhenGone(j) == pids[j] = {}
\* KillMarked's loop ends when nothing was found, or at its deadline, which
\* may come at any time.
GraceIsOver(j) == TRUE

\* A restart that leaves the temporary directory as it was.
SweptUnswept(files) == files
\* sweepTempSecrets, called by New, removes every file of that prefix.
Swept(files) == {}

\* A timer armed before the command runs.
ForgottenAnyTime(j) == phase[j] \in {"running", "over"}
\* The retention timer is armed when the driver is over.
Forgotten(j) == phase[j] = "over"

-----------------------------------------------------------------------------
(* StartJob: under s.mu, so the count and the entry are one step.           *)
StartJob(j) ==
    /\ up
    /\ phase[j] = "none"
    /\ HasSlot(jobs \ done)
    /\ jobs' = jobs \cup {j}
    /\ GoTo(j, "owner")
    /\ UNCHANGED <<up, crashes, ended, pids, record, cancelled, late, stopping,
                   envFile, world, polled>>

\* Every failure before the command has begun: finishJob and return.
Refused(j) == FinishJob(j, "failed") /\ GoTo(j, "unwinding")

\* assertOwned asks docker under the job's context: it fails once that is
\* cancelled, when there is no such container and when it is another project's.
AssertOwned(j) ==
    /\ At(j, "owner")
    /\ \/ j \notin cancelled /\ GoTo(j, "shell") /\ UNCHANGED record
       \/ Refused(j)
    /\ UNCHANGED <<up, crashes, jobs, ended, pids, cancelled, late, stopping,
                   envFile, world, polled>>

\* The shell the job asked for, or the plan resolveShellPlan may have cached,
\* which does not look at the context.
FindShell(j) ==
    /\ At(j, "shell")
    /\ \/ GoTo(j, "env") /\ UNCHANGED record
       \/ Refused(j)
    /\ UNCHANGED <<up, crashes, jobs, ended, pids, cancelled, late, stopping,
                   envFile, world, polled>>

\* writeJobEnvFile: no file for a job without variables, none left by a failed write.
WriteEnvFile(j) ==
    /\ At(j, "env")
    /\ \/ GoTo(j, "exec") /\ envFile' \in {envFile, envFile \cup {j}} /\ UNCHANGED record
       \/ Refused(j) /\ UNCHANGED envFile
    /\ UNCHANGED <<up, crashes, jobs, ended, pids, cancelled, late, stopping, world, polled>>

\* StreamPipes starts the client, unless the context is cancelled or there is
\* no docker; the client asks the daemon for the exec.
Exec(j) ==
    /\ At(j, "exec")
    /\ \/ /\ j \notin cancelled
          /\ GoTo(j, "running")
          /\ asked' = asked \cup {j}
          /\ UNCHANGED ended
       \/ /\ GoTo(j, "ended")
          /\ ended' = [ended EXCEPT ![j] = "error"]
          /\ UNCHANGED asked
    /\ UNCHANGED <<up, crashes, jobs, pids, record, cancelled, late, stopping,
                   envFile, born, procs, polled>>

\* exitStatus: an error once the context ended, or when the client did not end
\* by itself; a code when the command's first process is gone.  Either way the
\* client is gone when Wait returns, the command need not be.
ClientEnds(j) ==
    /\ At(j, "running")
    /\ \E r \in {"code", "error"} :
          /\ r = "code" => j \notin asked /\ 1 \notin procs[j]
          /\ ended' = [ended EXCEPT ![j] = r]
    /\ GoTo(j, "ended")
    /\ UNCHANGED <<up, crashes, jobs, pids, record, cancelled, late, stopping,
                   envFile, world, polled>>

\* The timeout of the command passes: its context ends.
Deadline(j) ==
    /\ up /\ phase[j] \in {"running", "ended"}
    /\ late' = late \cup {j}
    /\ UNCHANGED <<up, crashes, jobs, driver, record, cancelled, stopping, envFile, world, polled>>

\* The switch of runJob on what StreamPipes returned: a cancelled context
\* before a timeout, before any other error.
Settle(j) ==
    /\ up
    /\ ClientOver(j)
    /\ IF ended[j] = "error" /\ j \in cancelled \cup late
       THEN /\ ended' = [ended EXCEPT ![j] = IF j \in cancelled THEN "stopped" ELSE "timedOut"]
            /\ GoTo(j, "term")
            /\ UNCHANGED record
       ELSE /\ FinishJob(j, IF ended[j] = "code" THEN "exited" ELSE "failed")
            /\ GoTo(j, "unwinding")
            /\ UNCHANGED ended
    /\ UNCHANGED <<up, crashes, jobs, pids, cancelled, late, stopping,
                   envFile, world, polled>>

\* KillMarked: SIGTERM to every process it finds.  A process may take its time
\* to end, or not end at all: Exit.
Terminate(j) ==
    /\ At(j, "term")
    /\ pids' = [pids EXCEPT ![j] = procs[j]]
    /\ GoTo(j, "grace")
    /\ UNCHANGED <<up, crashes, jobs, ended, record, cancelled, late, stopping,
                   envFile, world, polled>>

\* Another look, 100 ms later.
LookAgain(j) ==
    /\ At(j, "grace")
    /\ pids[j] # {}
    /\ pids' = [pids EXCEPT ![j] = procs[j]]
    /\ UNCHANGED <<up, crashes, jobs, phase, ended, record, cancelled, late, stopping,
                   envFile, world, polled>>

\* SIGKILL to those of the last look.
KillTheRest(j) ==
    /\ At(j, "grace")
    /\ GraceIsOver(j)
    /\ procs' = [procs EXCEPT ![j] = @ \ pids[j]]
    /\ GoTo(j, "swept")
    /\ UNCHANGED <<up, crashes, jobs, ended, pids, record, cancelled, late, stopping,
                   envFile, asked, born, polled>>

FinishKilled(j) ==
    /\ At(j, "swept")
    /\ FinishJob(j, ended[j])
    /\ GoTo(j, "unwinding")
    /\ UNCHANGED <<up, crashes, jobs, ended, pids, cancelled, late, stopping,
                   envFile, world, polled>>

\* A panic anywhere in the driver but under Wait: the file goes with the stack
\* frame, the handler records the job, if it has no record yet.
Panic(j) ==
    /\ up /\ phase[j] \in Before \cup Killing \cup {"ended", "unwinding"}
    /\ envFile' = envFile \ {j}
    /\ FinishJob(j, "failed")
    /\ GoTo(j, "over")
    /\ cancelled' = cancelled \cup {j}
    /\ UNCHANGED <<up, crashes, jobs, ended, pids, late, stopping, world, polled>>

\* runJob returns: the deferred Remove, the retention timer, the deferred cancel.
RemoveEnvFile(j) ==
    /\ At(j, "unwinding")
    /\ envFile' = envFile \ {j}
    /\ GoTo(j, "over")
    /\ cancelled' = cancelled \cup {j}
    /\ UNCHANGED <<up, crashes, jobs, ended, pids, record, late, stopping, world, polled>>

\* cronRetainFinished later.
Forget(j) ==
    /\ up
    /\ j \in jobs
    /\ Forgotten(j)
    /\ jobs' = jobs \ {j}
    /\ done' = done \ {j}
    /\ UNCHANGED <<up, crashes, driver, outcome, cancelled, late, stopping,
                   envFile, world, polled>>

-----------------------------------------------------------------------------
PollJob(j) ==
    /\ up
    /\ phase[j] # "none"
    /\ polled' = [polled EXCEPT ![j] = IF j \notin jobs THEN "notFound"
                                       ELSE IF j \in done THEN outcome[j] ELSE "running"]
    /\ UNCHANGED <<up, crashes, jobs, driver, record, cancelled, late, stopping, envFile, world>>

\* KillJob looks under s.mu and cancels outside it.
KillJob(j) ==
    /\ up
    /\ j \in jobs \ done
    /\ stopping' = stopping \cup {j}
    /\ UNCHANGED <<up, crashes, jobs, driver, record, cancelled, late, envFile, world, polled>>

Cancel(j) ==
    /\ j \in stopping
    /\ stopping' = stopping \ {j}
    /\ cancelled' = cancelled \cup {j}
    /\ UNCHANGED <<up, crashes, jobs, driver, record, late, envFile, world, polled>>

-----------------------------------------------------------------------------
(* The environment.                                                         *)

\* The daemon begins the command.  The client that asked may be gone by then.
Begin(j) ==
    /\ j \in asked
    /\ asked' = asked \ {j}
    /\ born' = [born EXCEPT ![j] = 1]
    /\ procs' = [procs EXCEPT ![j] = {1}]
    /\ UNCHANGED <<up, crashes, jobs, driver, record, cancelled, late, stopping, envFile, polled>>

\* A process of the command starts another, which inherits the marker.
Fork(j) ==
    /\ procs[j] # {}
    /\ born[j] < MaxProcs
    /\ born' = [born EXCEPT ![j] = @ + 1]
    /\ procs' = [procs EXCEPT ![j] = @ \cup {born[j] + 1}]
    /\ UNCHANGED <<up, crashes, jobs, driver, record, cancelled, late, stopping,
                   envFile, asked, polled>>

\* A process ends, by itself or because of SIGTERM.
Exit(j) ==
    /\ \E p \in procs[j] : procs' = [procs EXCEPT ![j] = @ \ {p}]
    /\ UNCHANGED <<up, crashes, jobs, driver, record, cancelled, late, stopping,
                   envFile, asked, born, polled>>

\* The agent dies: its memory and its docker clients go, the files and the
\* processes in the containers stay.
Crash ==
    /\ up
    /\ crashes < MaxCrashes
    /\ up' = FALSE
    /\ crashes' = crashes + 1
    /\ jobs' = {} /\ done' = {} /\ stopping' = {}
    /\ phase' = [j \in Jobs |-> IF phase[j] = "none" THEN "none" ELSE "over"]
    /\ UNCHANGED <<ended, pids, outcome, cancelled, late, envFile, world, polled>>

\* New: the boot sweep.
Boot ==
    /\ ~up
    /\ up' = TRUE
    /\ envFile' = Swept(envFile)
    /\ UNCHANGED <<crashes, jobs, driver, record, cancelled, late, stopping, world, polled>>

-----------------------------------------------------------------------------
Drive(j) ==
    \/ AssertOwned(j) \/ FindShell(j) \/ WriteEnvFile(j) \/ Exec(j) \/ Settle(j)
    \/ Terminate(j) \/ KillTheRest(j) \/ FinishKilled(j) \/ RemoveEnvFile(j)
    \/ Forget(j)

\* The end of a client whose context ended: cmd.Cancel killed its group.
ClientKilled(j) == (j \in cancelled \cup late) /\ ClientEnds(j)

CronNext ==
    \/ \E j \in Jobs :
          \/ StartJob(j) \/ Drive(j) \/ ClientEnds(j) \/ Deadline(j) \/ LookAgain(j)
          \/ Panic(j) \/ PollJob(j) \/ KillJob(j) \/ Cancel(j)
          \/ Begin(j) \/ Fork(j) \/ Exit(j)
    \/ Crash
    \/ Boot

CronSpec == CronInit /\ [][CronNext]_cronVars

\* The driver goroutine runs, timers fire, a killed client is reaped and the
\* grace of KillMarked ends.  Nothing is assumed of the command.
CronFairSpec ==
    /\ CronSpec
    /\ \A j \in Jobs : WF_cronVars(Drive(j)) /\ WF_cronVars(Deadline(j)) /\ WF_cronVars(ClientKilled(j))

-----------------------------------------------------------------------------
(* PollJob reads the output buffers of a job that is done under s.mu only, *)
(* while the client's copying goroutines write them without it: once a job *)
(* is done, a client that got as far as the daemon has been waited for.    *)
OutputIsSettled == \A j \in done : j \in asked \/ born[j] > 0 => ended[j] # "none"

(* The variables of a job are on disk only while its driver is at work: no *)
(* refusal, panic, kill or restart of the agent leaves a file with secrets *)
(* behind (the deferred Remove, sweepTempSecrets).                         *)
EnvFilesAreOwned ==
    up => \A j \in envFile : phase[j] \in {"exec", "running", "ended", "unwinding"} \cup Killing

(* The record of a job is settled and its secrets are owned.               *)
JobsAreClean == OutputIsSettled /\ EnvFilesAreOwned

(* What the control plane is told of a job only moves forward: running,    *)
(* then one final answer that never changes, then that the job is unknown. *)
AnswersMoveForward ==
    [][\A j \in Jobs :
          /\ polled'[j] = "running" => polled[j] \in {"nothing", "running"}
          /\ polled[j] = "notFound" => polled'[j] = "notFound"
          /\ polled[j] \in Outcomes => polled'[j] \in {polled[j], "notFound"}]_cronVars

(* Every job ends and is forgotten, whatever its command does: the timeout *)
(* ends the client, SIGKILL ends the grace, the timer drops the record.    *)
EveryJobIsForgotten == \A j \in Jobs : j \in jobs ~> j \notin jobs

=============================================================================
