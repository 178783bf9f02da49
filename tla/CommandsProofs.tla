---------------------------- MODULE CommandsProofs ----------------------------
(***************************************************************************)
(* Proofs about commands in containers and what goes through their pipes,  *)
(* each under its own specification: cron jobs, for any set of jobs, any   *)
(* cap of live jobs and any number of processes and crashes; an attach     *)
(* session, a docker command, a backup and a restore, for any number of    *)
(* chunks, lines and volumes; and at the end as MCPipes runs them.         *)
(***************************************************************************)
EXTENDS CronJobs, MCPipes, TLAPS
-----------------------------------------------------------------------------
(* Cron jobs: a finished job's output is settled, no file with a job's     *)
(* variables outlives its driver, and what the control plane is told of a  *)
(* job never goes back.                                                    *)

\* A driver at work has an entry in the table, and only a process that runs
\* has either; a job without a driver has none yet.
DriverHasEntry ==
    /\ \A j \in Jobs : phase[j] \notin {"none", "over"} => j \in jobs
    /\ \A j \in jobs : phase[j] # "none"
    /\ ~up => jobs = {} /\ \A j \in Jobs : phase[j] \in {"none", "over"}

\* A job is recorded when its driver is done with it.
RecordedLast == \A j \in done : phase[j] \in {"unwinding", "over"}

\* How a command ended, by how far its driver has come.
VerdictByPhase ==
    \A j \in Jobs :
        /\ phase[j] \in Before \cup {"none", "running"} => ended[j] = "none"
        /\ phase[j] = "ended" => ended[j] \in {"code", "error"}
        /\ phase[j] \in Killing => ended[j] \in {"stopped", "timedOut"}

\* The daemon is asked by a driver that runs a client; one with no verdict
\* still runs, or went with the agent.
AskedByClient ==
    \A j \in Jobs :
        /\ procs[j] # {} => born[j] > 0
        /\ phase[j] \in Before \cup {"none"} => j \notin asked /\ born[j] = 0
        /\ (j \in asked \/ born[j] > 0) /\ ended[j] = "none" => phase[j] \in {"running", "over"}

\* What the control plane was told is what the table says, or was said of an
\* entry that is gone.
ToldOfEntry ==
    \A j \in Jobs :
        /\ phase[j] = "none" => polled[j] = "nothing"
        /\ polled[j] = "notFound" => j \notin jobs
        /\ polled[j] \in Outcomes /\ j \in jobs => j \in done /\ outcome[j] = polled[j]

CronInv ==
    /\ CronTypeOK /\ DriverHasEntry /\ RecordedLast /\ VerdictByPhase
    /\ AskedByClient /\ ToldOfEntry /\ JobsAreClean

(* finishJob writes a record of the right kind, and never a second one.     *)
LEMMA RecordOnce ==
    ASSUME CronTypeOK, NEW j \in Jobs, NEW o \in Outcomes
    PROVE  /\ Recorded(j, o) \in [Jobs -> Outcomes]
           /\ \A k \in done : Recorded(j, o)[k] = outcome[k]
           /\ \A k \in Jobs \ {j} : Recorded(j, o)[k] = outcome[k]
  BY DEF CronTypeOK, Recorded

USE CronJobsAssumption DEF Before, Killing, Phases, Outcomes, Answers, record, driver, world,
    cronVars, At, GoTo, Forgotten, ClientOver, GraceIsOver, HasSlot

(* A driver that records its job, on whichever path, keeps the invariant:   *)
(* it has no client running, and drops the file if it returns at once.      *)
LEMMA FinishKeepsInv ==
    ASSUME CronInv, NEW j \in Jobs, NEW o \in Outcomes, FinishJob(j, o),
           up, phase[j] \notin {"none", "running", "over"},
           \/ GoTo(j, "unwinding") /\ UNCHANGED <<envFile, cancelled>>
           \/ GoTo(j, "over") /\ envFile' = envFile \ {j} /\ cancelled' = cancelled \cup {j},
           UNCHANGED <<up, crashes, jobs, ended, pids, late, stopping, world, polled>>
    PROVE  CronInv'
<1>1. /\ outcome' \in [Jobs -> Outcomes]
      /\ \A k \in done : outcome'[k] = outcome[k]
      /\ done' = done \cup {j}
  BY RecordOnce DEF CronInv, FinishJob
<1>2. CronTypeOK' /\ DriverHasEntry' /\ RecordedLast' /\ VerdictByPhase'
  BY <1>1 DEF CronInv, CronTypeOK, DriverHasEntry, RecordedLast, VerdictByPhase
<1>3. AskedByClient' /\ ToldOfEntry'
  BY <1>1 DEF CronInv, CronTypeOK, AskedByClient, ToldOfEntry
<1>4. JobsAreClean'
  BY <1>1 DEF CronInv, CronTypeOK, AskedByClient, JobsAreClean, OutputIsSettled, EnvFilesAreOwned
<1> QED
  BY <1>2, <1>3, <1>4 DEF CronInv

(* Every step keeps the invariant.                                          *)
LEMMA StepKeepsInv == CronInv /\ [CronNext]_cronVars => CronInv'
<1> SUFFICES ASSUME CronInv, [CronNext]_cronVars PROVE CronInv'
  OBVIOUS
<1> USE DEF CronInv, CronTypeOK, DriverHasEntry, RecordedLast, VerdictByPhase, AskedByClient,
        ToldOfEntry, JobsAreClean, OutputIsSettled, EnvFilesAreOwned
<1>1. ASSUME NEW j \in Jobs, StartJob(j) PROVE CronInv'
  BY <1>1 DEF StartJob
<1>2. ASSUME NEW j \in Jobs, AssertOwned(j) PROVE CronInv'
  <2>1. CASE Refused(j)
    <3>1. FinishJob(j, "failed") /\ GoTo(j, "unwinding") /\ up
          /\ phase[j] \in {"owner", "shell", "env"}
          /\ UNCHANGED <<up, crashes, jobs, ended, pids, cancelled, late, stopping,
                         envFile, world, polled>>
      BY <1>2, <2>1 DEF AssertOwned, Refused
    <3> HIDE DEF CronInv
    <3> QED
      BY <3>1, FinishKeepsInv
  <2>2. CASE ~Refused(j)
    BY <1>2, <2>2 DEF AssertOwned
  <2> QED
    BY <2>1, <2>2
<1>3. ASSUME NEW j \in Jobs, FindShell(j) PROVE CronInv'
  <2>1. CASE Refused(j)
    <3>1. FinishJob(j, "failed") /\ GoTo(j, "unwinding") /\ up
          /\ phase[j] \in {"owner", "shell", "env"}
          /\ UNCHANGED <<up, crashes, jobs, ended, pids, cancelled, late, stopping,
                         envFile, world, polled>>
      BY <1>3, <2>1 DEF FindShell, Refused
    <3> HIDE DEF CronInv
    <3> QED
      BY <3>1, FinishKeepsInv
  <2>2. CASE ~Refused(j)
    BY <1>3, <2>2 DEF FindShell
  <2> QED
    BY <2>1, <2>2
<1>4. ASSUME NEW j \in Jobs, WriteEnvFile(j) PROVE CronInv'
  <2>1. CASE Refused(j)
    <3>1. FinishJob(j, "failed") /\ GoTo(j, "unwinding") /\ up
          /\ phase[j] \in {"owner", "shell", "env"}
          /\ UNCHANGED <<up, crashes, jobs, ended, pids, cancelled, late, stopping,
                         envFile, world, polled>>
      BY <1>4, <2>1 DEF WriteEnvFile, Refused
    <3> HIDE DEF CronInv
    <3> QED
      BY <3>1, FinishKeepsInv
  <2>2. CASE ~Refused(j)
    BY <1>4, <2>2 DEF WriteEnvFile
  <2> QED
    BY <2>1, <2>2
<1>5. ASSUME NEW j \in Jobs, Exec(j) PROVE CronInv'
  BY <1>5 DEF Exec
<1>6. ASSUME NEW j \in Jobs, ClientEnds(j) PROVE CronInv'
  BY <1>6 DEF ClientEnds
<1>7. ASSUME NEW j \in Jobs, Deadline(j) PROVE CronInv'
  BY <1>7 DEF Deadline
<1>8. ASSUME NEW j \in Jobs, Settle(j) PROVE CronInv'
  <2> DEFINE stops == ended[j] = "error" /\ j \in cancelled \cup late
  <2>1. CASE stops
    BY <1>8, <2>1 DEF Settle
  <2>2. CASE ~stops
    <3>1. /\ FinishJob(j, IF ended[j] = "code" THEN "exited" ELSE "failed")
          /\ GoTo(j, "unwinding") /\ up /\ phase[j] = "ended"
          /\ UNCHANGED <<up, crashes, jobs, ended, pids, cancelled, late, stopping,
                         envFile, world, polled>>
      BY <1>8, <2>2 DEF Settle
    <3> HIDE DEF CronInv
    <3> QED
      BY <3>1, FinishKeepsInv
  <2> QED
    BY <2>1, <2>2
<1>9. ASSUME NEW j \in Jobs, Terminate(j) PROVE CronInv'
  BY <1>9 DEF Terminate
<1>10. ASSUME NEW j \in Jobs, LookAgain(j) PROVE CronInv'
  BY <1>10 DEF LookAgain
<1>11. ASSUME NEW j \in Jobs, KillTheRest(j) PROVE CronInv'
  BY <1>11 DEF KillTheRest
<1>12. ASSUME NEW j \in Jobs, FinishKilled(j) PROVE CronInv'
  <2>1. /\ FinishJob(j, ended[j]) /\ ended[j] \in Outcomes
        /\ GoTo(j, "unwinding") /\ up /\ phase[j] = "swept"
        /\ UNCHANGED <<up, crashes, jobs, ended, pids, cancelled, late, stopping,
                       envFile, world, polled>>
    BY <1>12 DEF FinishKilled
  <2> HIDE DEF CronInv
  <2> QED
    BY <2>1, FinishKeepsInv
<1>13. ASSUME NEW j \in Jobs, Panic(j) PROVE CronInv'
  <2>1. /\ FinishJob(j, "failed") /\ GoTo(j, "over") /\ up
        /\ phase[j] \notin {"none", "running", "over"}
        /\ envFile' = envFile \ {j} /\ cancelled' = cancelled \cup {j}
        /\ UNCHANGED <<up, crashes, jobs, ended, pids, late, stopping, world, polled>>
    BY <1>13 DEF Panic
  <2> HIDE DEF CronInv
  <2> QED
    BY <2>1, FinishKeepsInv
<1>14. ASSUME NEW j \in Jobs, RemoveEnvFile(j) PROVE CronInv'
  BY <1>14 DEF RemoveEnvFile
<1>15. ASSUME NEW j \in Jobs, Forget(j) PROVE CronInv'
  BY <1>15 DEF Forget
<1>16. ASSUME NEW j \in Jobs, PollJob(j) PROVE CronInv'
  BY <1>16 DEF PollJob
<1>17. ASSUME NEW j \in Jobs, KillJob(j) PROVE CronInv'
  BY <1>17 DEF KillJob
<1>18. ASSUME NEW j \in Jobs, Cancel(j) PROVE CronInv'
  BY <1>18 DEF Cancel
<1>19. ASSUME NEW j \in Jobs, Begin(j) PROVE CronInv'
  BY <1>19 DEF Begin
<1>20. ASSUME NEW j \in Jobs, Fork(j) PROVE CronInv'
  BY <1>20 DEF Fork
<1>21. ASSUME NEW j \in Jobs, Exit(j) PROVE CronInv'
  BY <1>21 DEF Exit
<1>22. CASE Crash
  <2>1. /\ ~up' /\ jobs' = {} /\ done' = {} /\ stopping' = {}
        /\ crashes' \in 0..MaxCrashes
        /\ phase' \in [Jobs -> {"none", "over"}]
        /\ \A j \in Jobs : phase'[j] = "none" <=> phase[j] = "none"
        /\ UNCHANGED <<ended, pids, outcome, cancelled, late, envFile, asked, born, procs, polled>>
    BY <1>22 DEF Crash
  <2>2. CronTypeOK'
    <3>1. up' \in BOOLEAN /\ phase' \in [Jobs -> Phases]
      BY <1>22 DEF Crash
    <3>2. /\ jobs' \subseteq Jobs /\ done' \subseteq jobs' /\ stopping' \subseteq Jobs
          /\ crashes' \in 0..MaxCrashes
      BY <2>1
    <3> QED
      BY <2>1, <3>1, <3>2
  <2>3. DriverHasEntry' /\ RecordedLast' /\ VerdictByPhase'
    BY <2>1
  <2>4. AskedByClient' /\ ToldOfEntry' /\ JobsAreClean'
    BY <2>1
  <2> QED
    BY <2>2, <2>3, <2>4
<1>23. CASE Boot
  BY <1>23 DEF Boot, Swept
<1>24. CASE UNCHANGED cronVars
  BY <1>24
<1> QED
  BY <1>1, <1>2, <1>3, <1>4, <1>5, <1>6, <1>7, <1>8, <1>9, <1>10, <1>11, <1>12,
     <1>13, <1>14, <1>15, <1>16, <1>17, <1>18, <1>19, <1>20, <1>21, <1>22, <1>23,
     <1>24 DEF CronNext, Drive

LEMMA InvHolds == CronSpec => []CronInv
<1>1. CronInit => CronInv
  BY DEF CronInit, CronInv, CronTypeOK, DriverHasEntry, RecordedLast, VerdictByPhase,
         AskedByClient, ToldOfEntry, JobsAreClean, OutputIsSettled, EnvFilesAreOwned
<1> QED
  BY <1>1, StepKeepsInv, PTL DEF CronSpec

(* The table, the drivers, the records and the answers keep their types;    *)
(* in particular a recorded job is one of the table (Service.jobs).         *)
THEOREM CronTypeCorrect == CronSpec => []CronTypeOK
<1>1. CronInv => CronTypeOK
  BY DEF CronInv
<1> QED
  BY <1>1, InvHolds, PTL

(* PollJob reads no buffer a copying goroutine still writes, and no file    *)
(* with a job's variables outlives its driver, crashes included (runJob,    *)
(* sweepTempSecrets).                                                       *)
THEOREM JobsStayClean == CronSpec => []JobsAreClean
<1>1. CronInv => JobsAreClean
  BY DEF CronInv
<1> QED
  BY <1>1, InvHolds, PTL

(* No step tells the control plane less of a job than it was told before    *)
(* (PollJob, finishJob's write-once record, the retention timer).           *)
THEOREM AnswersOnlyMoveForward == CronSpec => AnswersMoveForward
<1> DEFINE Forward == \A j \in Jobs :
          /\ polled'[j] = "running" => polled[j] \in {"nothing", "running"}
          /\ polled[j] = "notFound" => polled'[j] = "notFound"
          /\ polled[j] \in Outcomes => polled'[j] \in {polled[j], "notFound"}
<1>1. CronInv /\ [CronNext]_cronVars => [Forward]_cronVars
  <2> SUFFICES ASSUME CronInv, CronNext PROVE Forward
    OBVIOUS
  <2>1. ASSUME NEW j \in Jobs, PollJob(j) PROVE Forward
    BY <2>1 DEF PollJob, CronInv, CronTypeOK, ToldOfEntry
  <2>2. CASE polled' = polled
    BY <2>2 DEF CronInv, CronTypeOK
  <2>3. polled' = polled \/ \E j \in Jobs : PollJob(j)
    BY DEF CronNext, Drive, StartJob, AssertOwned, FindShell, WriteEnvFile, Exec, ClientEnds,
           Deadline, Settle, Terminate, LookAgain, KillTheRest, FinishKilled, Panic,
           RemoveEnvFile, Forget, KillJob, Cancel, Begin, Fork, Exit, Crash, Boot
  <2> QED
    BY <2>1, <2>2, <2>3
<1> QED
  BY <1>1, InvHolds, PTL DEF CronSpec, AnswersMoveForward
-----------------------------------------------------------------------------
(* An attach session.                                                      *)

\* The chunk that a pump holds, and the one that is being sent.
Held(s) == IF pump[s] = "put" THEN 1 ELSE 0
Sending == IF outG = "send" THEN 1 ELSE 0

AttachTypes ==
    /\ printed \in [Streams -> Nat] /\ piped \in [Streams -> Nat]
    /\ merged \in Nat /\ toldOut \in Nat
    /\ pump \in [Streams -> {"read", "put", "over"}] /\ outG \in {"read", "send", "exit", "over"}
    /\ process \in {"running", "exited"}
    /\ mergedClosed \in BOOLEAN /\ closing \in BOOLEAN /\ exitTold \in BOOLEAN

\* Until the caller goes or the handler returns every chunk that was printed is
\* in a pipe, with a pump, in the channel, with the sender or at the caller.
NoneLost ==
    ~CallOver =>
        printed["stdout"] + printed["stderr"] =
            piped["stdout"] + piped["stderr"] + Held("stdout") + Held("stderr")
            + merged + Sending + toldOut

\* A pump is over at the end of what the process printed, the channel is closed
\* after both, and the exit frame is next when the channel is empty then.
EndsInOrder ==
    /\ closing <=> handler = "returned"
    /\ ~closing => \A s \in Streams : pump[s] = "over" => piped[s] = 0 /\ process = "exited"
    /\ mergedClosed => PumpsOver /\ process = "exited"
    /\ outG = "exit" /\ ~closing => merged = 0 /\ mergedClosed
    /\ exitTold => outG = "over"

AttachInv == AttachTypes /\ NoneLost /\ EndsInOrder /\ ExitComesLast

\* Every chunk a step takes from one place is in the next.
LEMMA AttachTypesStep ==
    ASSUME AttachTypes, [AttachNext]_attachVars
    PROVE  AttachTypes'
<1> USE DEF AttachTypes
<1>1. ASSUME NEW s \in Streams, PumpReads(s) PROVE AttachTypes'
  BY <1>1 DEF PumpReads, input
<1>2. ASSUME NEW s \in Streams, PumpPuts(s) PROVE AttachTypes'
  BY <1>2 DEF PumpPuts, input
<1>3. CASE CloseMerged
  BY <1>3 DEF CloseMerged
<1>4. CASE OutReads
  BY <1>4 DEF OutReads
<1>5. CASE OutSends
  <2>1. toldOut' = toldOut \/ toldOut' = toldOut + 1
    BY <1>5 DEF OutSends
  <2>2. exitTold' = exitTold \/ exitTold' = ~CallOver
    BY <1>5 DEF OutSends
  <2>3. exitTold' \in BOOLEAN
    BY <2>2, Zenon DEF CallOver
  <2>4. outG' \in {"read", "send", "exit", "over"}
    BY <1>5 DEF OutSends
  <2> QED
    BY <1>5, <2>1, <2>3, <2>4 DEF OutSends
<1>6. CASE Receive \/ HandOver \/ Select \/ Write \/ Drain
  BY <1>6 DEF Receive, HandOver, Select, Write, Drain, Returns, Stays, output
<1>7. ASSUME NEW s \in Streams, Prints(s) PROVE AttachTypes'
  BY <1>7 DEF Prints
<1>8. CASE ReadsStdin \/ ContainerEnds \/ ClientSends \/ ClientTurns
  BY <1>8 DEF ReadsStdin, ContainerEnds, ClientSends, ClientTurns, output
<1>9. CASE UNCHANGED attachVars
  BY <1>9 DEF attachVars, output
<1> QED
  BY <1>1, <1>2, <1>3, <1>4, <1>5, <1>6, <1>7, <1>8, <1>9 DEF AttachNext, Goroutines

\* The order in which a session ends.
LEMMA EndsStep ==
    ASSUME AttachTypes, EndsInOrder, [AttachNext]_attachVars
    PROVE  EndsInOrder'
<1> USE DEF AttachTypes, EndsInOrder, PumpsOver
<1>1. ASSUME NEW s \in Streams, PumpReads(s) PROVE EndsInOrder'
  BY <1>1 DEF PumpReads, input
<1>2. ASSUME NEW s \in Streams, PumpPuts(s) PROVE EndsInOrder'
  BY <1>2 DEF PumpPuts, input, GivesUp
<1>3. CASE CloseMerged
  BY <1>3 DEF CloseMerged
<1>4. CASE OutReads
  BY <1>4 DEF OutReads
<1>5. CASE OutSends
  BY <1>5 DEF OutSends
<1>6. CASE Receive \/ HandOver \/ Select \/ Write \/ Drain
  BY <1>6 DEF Receive, HandOver, Select, Write, Drain, Returns, Stays, output
<1>7. ASSUME NEW s \in Streams, Prints(s) PROVE EndsInOrder'
  BY <1>7 DEF Prints
<1>8. CASE ReadsStdin \/ ContainerEnds \/ ClientSends \/ ClientTurns
  BY <1>8 DEF ReadsStdin, ContainerEnds, ClientSends, ClientTurns, output
<1>9. CASE UNCHANGED attachVars
  BY <1>9 DEF attachVars, output
<1> QED
  BY <1>1, <1>2, <1>3, <1>4, <1>5, <1>6, <1>7, <1>8, <1>9 DEF AttachNext, Goroutines

\* Every chunk that leaves one place is in the next.
LEMMA NoneLostStep ==
    ASSUME AttachTypes, EndsInOrder, NoneLost, [AttachNext]_attachVars
    PROVE  NoneLost'
<1> USE DEF AttachTypes, NoneLost, CallOver, Held, Sending, Streams
<1>1. ASSUME NEW s \in Streams, PumpReads(s) PROVE NoneLost'
  BY <1>1 DEF PumpReads, input
<1>2. ASSUME NEW s \in Streams, PumpPuts(s) PROVE NoneLost'
  BY <1>2 DEF PumpPuts, input, GivesUp, EndsInOrder
<1>3. CASE CloseMerged
  BY <1>3 DEF CloseMerged
<1>4. CASE OutReads
  BY <1>4 DEF OutReads
<1>5. CASE OutSends
  BY <1>5 DEF OutSends
<1>6. CASE Receive \/ HandOver \/ Select \/ Write \/ Drain
  BY <1>6 DEF Receive, HandOver, Select, Write, Drain, Returns, Stays, output
<1>7. ASSUME NEW s \in Streams, Prints(s) PROVE NoneLost'
  BY <1>7 DEF Prints
<1>8. CASE ReadsStdin \/ ContainerEnds \/ ClientSends \/ ClientTurns
  BY <1>8 DEF ReadsStdin, ContainerEnds, ClientSends, ClientTurns, output
<1>9. CASE UNCHANGED attachVars
  BY <1>9 DEF attachVars, output
<1> QED
  BY <1>1, <1>2, <1>3, <1>4, <1>5, <1>6, <1>7, <1>8, <1>9 DEF AttachNext, Goroutines

\* The exit code is told when everything was.
LEMMA ExitStep ==
    ASSUME AttachInv, [AttachNext]_attachVars
    PROVE  ExitComesLast'
<1> USE DEF AttachInv, AttachTypes, EndsInOrder, ExitComesLast, PumpsOver
<1>1. ASSUME NEW s \in Streams, PumpReads(s) PROVE ExitComesLast'
  BY <1>1 DEF PumpReads, input
<1>2. ASSUME NEW s \in Streams, PumpPuts(s) PROVE ExitComesLast'
  BY <1>2 DEF PumpPuts, input
<1>3. CASE CloseMerged
  BY <1>3 DEF CloseMerged
<1>4. CASE OutReads
  BY <1>4 DEF OutReads
<1>5. CASE OutSends
  <2>1. CASE outG = "send"
    BY <1>5, <2>1 DEF OutSends
  <2>2. CASE outG = "exit" /\ CallOver
    BY <1>5, <2>2 DEF OutSends
  <2>3. CASE outG = "exit" /\ ~CallOver
    <3>1. /\ piped["stdout"] = 0 /\ piped["stderr"] = 0 /\ merged = 0 /\ process = "exited"
          /\ pump["stdout"] = "over" /\ pump["stderr"] = "over"
      BY <2>3 DEF CallOver, Streams
    <3>2. Held("stdout") = 0 /\ Held("stderr") = 0 /\ Sending = 0
      BY <2>3, <3>1 DEF Held, Sending
    <3>3. printed["stdout"] + printed["stderr"] = toldOut
      BY <2>3, <3>1, <3>2 DEF NoneLost
    <3> QED
      BY <1>5, <2>3, <3>1, <3>3 DEF OutSends
  <2> QED
    BY <1>5, <2>1, <2>2, <2>3 DEF OutSends
<1>6. CASE Receive \/ HandOver \/ Select \/ Write \/ Drain
  BY <1>6 DEF Receive, HandOver, Select, Write, Drain, Returns, Stays, output
<1>7. ASSUME NEW s \in Streams, Prints(s) PROVE ExitComesLast'
  BY <1>7 DEF Prints
<1>8. CASE ReadsStdin \/ ContainerEnds \/ ClientSends \/ ClientTurns
  BY <1>8 DEF ReadsStdin, ContainerEnds, ClientSends, ClientTurns, output
<1>9. CASE UNCHANGED attachVars
  BY <1>9 DEF attachVars, output
<1> QED
  BY <1>1, <1>2, <1>3, <1>4, <1>5, <1>6, <1>7, <1>8, <1>9 DEF AttachNext, Goroutines

\* The caller of an attach session that is told an exit code was sent everything
\* the process printed before: for any number of chunks and any channel.
THEOREM ExitStaysLast == AttachSpec => []ExitComesLast
<1>1. AttachInit => AttachInv
  <2> SUFFICES ASSUME AttachInit PROVE AttachInv
    OBVIOUS
  <2>1. AttachTypes /\ EndsInOrder /\ ExitComesLast
    BY DEF AttachInit, AttachTypes, EndsInOrder, ExitComesLast
  <2>2. NoneLost
    <3>1. /\ printed["stdout"] = 0 /\ printed["stderr"] = 0 /\ merged = 0 /\ toldOut = 0
          /\ piped["stdout"] = 0 /\ piped["stderr"] = 0
      BY DEF AttachInit, Streams
    <3>2. Held("stdout") = 0 /\ Held("stderr") = 0 /\ Sending = 0
      BY DEF AttachInit, Streams, Held, Sending
    <3> QED
      BY <3>1, <3>2 DEF NoneLost
  <2> QED
    BY <2>1, <2>2 DEF AttachInv
<1>2. AttachInv /\ [AttachNext]_attachVars => AttachInv'
  BY AttachTypesStep, EndsStep, NoneLostStep, ExitStep DEF AttachInv
<1>3. AttachInv => ExitComesLast
  BY DEF AttachInv
<1> QED
  BY <1>1, <1>2, <1>3, PTL DEF AttachSpec
-----------------------------------------------------------------------------
(* A backup on its way out.                                                *)

\* Chunks of the parts before p, of the part that is packed, at the chain's end
\* and in the pipes.
PackedBefore(p) == (p - 1) * Chunks
Packed == IF producer = "pack" THEN made ELSE 0
Trailer == IF producer = "over" THEN 1 ELSE 0
Carrying == IF carried THEN 1 ELSE 0

PipeTypes ==
    /\ source \in {"project", "database"} /\ part \in Nat \ {0} /\ made \in Nat
    /\ producer \in {"idle", "start", "pack", "close", "over"} /\ perr \in BOOLEAN
    /\ tool \in {"none", "running", "ok", "failed"} /\ pipe \in {"open", "eof", "error"}
    /\ carried \in BOOLEAN /\ readerGone \in BOOLEAN /\ taken \in Nat
    /\ ends \in [1..Volumes + 1 -> {"none", "ok", "failed"}]

\* A tool runs for the part that is packed; a part without an error is behind the
\* producer when all of it is packed and its tool, if it was no volume's, ended well.
PartsInv ==
    /\ part <= Parts + 1
    /\ tool # "none" => producer = "pack"
    /\ producer = "pack" => part <= Parts
    /\ tool = "ok" => made = Chunks
    /\ perr => producer \in {"close", "over"}
    /\ producer \in {"close", "over"} /\ ~perr => part = Parts + 1
    /\ made <= Chunks
    /\ \A p \in 1..Parts : p < part /\ Kind(p) # "volume" => ends[p] = "ok"

\* How the pipe was closed says whether there was an error, and the reader that
\* left has failed.
SenderInv ==
    /\ readerGone => sender = "returned" /\ reply = "failed"
    /\ pipe # "open" <=> producer = "over"
    /\ pipe = "eof" => ~perr
    /\ sender = "commit" => pipe = "eof" /\ ~carried
    /\ reply # "none" => sender = "returned"
    /\ producer = "idle" => sender = "idle"

\* As long as the reader reads and nothing failed, what was packed was taken or
\* is in the pipes.
ChunksInv ==
    ~readerGone /\ ~perr => taken + Carrying = PackedBefore(part) + Packed + Trailer

BackupInv ==
    /\ PipeTypes /\ PartsInv /\ SenderInv /\ ChunksInv
    /\ reply = "ok" => producer = "over" /\ ~perr /\ uploaded = AllChunks

\* A part more is its chunks more.
LEMMA PartCounts ==
    ASSUME NEW p \in Nat \ {0}
    PROVE  PackedBefore(p) \in Nat /\ PackedBefore(p + 1) = PackedBefore(p) + Chunks
<1>1. \A x, y \in Nat : x * y \in Nat /\ (x + 1) * y = x * y + y
  OBVIOUS
<1>2. p - 1 \in Nat /\ (p + 1) - 1 = (p - 1) + 1 /\ Chunks \in Nat
  BY BackupPipeAssumption
<1> QED
  BY <1>1, <1>2 DEF PackedBefore

\* There is a part at least, and an end of its tool to note for each.
LEMMA PartsCount == Parts \in Nat \ {0} /\ (source \in {"project", "database"} => 1..Parts \subseteq 1..Volumes + 1)
BY BackupPipeAssumption DEF Parts

\* The pipe's types.
LEMMA PipeTypesStep ==
    ASSUME PipeTypes, PartsInv, [BackupPipeNext]_pipeVars
    PROVE  PipeTypes'
<1> USE BackupPipeAssumption DEF PipeTypes
<1>1. CASE BeginBackup
  BY <1>1 DEF BeginBackup
<1>2. CASE StartPart
  <2>1. /\ perr' = perr \/ perr' = TRUE
        /\ made' = made \/ made' = 0
        /\ tool' = tool \/ tool' = "running"
        /\ producer' \in {"close", "pack"}
    BY <1>2 DEF StartPart
  <2>2. made' \in Nat
    BY <2>1
  <2>3. perr' \in BOOLEAN /\ tool' \in {"none", "running", "ok", "failed"}
    BY <2>1, Zenon
  <2> QED
    BY <1>2, <2>1, <2>2, <2>3 DEF StartPart
<1>3. CASE PartOver
  <2>1. perr' \in BOOLEAN
    <3>1. PartFails \in BOOLEAN
      BY Zenon DEF PartFails
    <3> QED
      BY <1>3, <3>1, Zenon DEF PartOver
  <2>2. ends' \in [1..Volumes + 1 -> {"none", "ok", "failed"}]
    BY <1>3 DEF PartOver
  <2>3. part' \in Nat \ {0} /\ producer' \in {"idle", "start", "pack", "close", "over"} /\ tool' = "none"
    BY <1>3 DEF PartOver
  <2> QED
    BY <1>3, <2>1, <2>2, <2>3 DEF PartOver
<1>4. CASE CloseChain
  <2>1. carried' = ~readerGone
    BY <1>4, Zenon DEF CloseChain
  <2>2. pipe' \in {"error", "eof"}
    BY <1>4 DEF CloseChain
  <2> QED
    BY <1>4, <2>1, <2>2 DEF CloseChain
<1>5. CASE WriteFails
  BY <1>5 DEF WriteFails
<1>6. CASE ToolWrites
  BY <1>6 DEF ToolWrites
<1>7. CASE ToolEnds
  BY <1>7 DEF ToolEnds
<1>8. CASE ReadPipe
  <2>1. /\ taken' = taken \/ taken' = taken + 1
        /\ carried' = carried \/ carried' = FALSE
        /\ readerGone' = readerGone \/ readerGone' = TRUE
    BY <1>8 DEF ReadPipe, FailBackup, ReaderLeft
  <2>2. taken' \in Nat
    BY <2>1
  <2>3. carried' \in BOOLEAN /\ readerGone' \in BOOLEAN
    BY <2>1, Zenon
  <2> QED
    BY <1>8, <2>2, <2>3 DEF ReadPipe
<1>9. CASE SendChunk
  BY <1>9 DEF SendChunk, FailBackup, ReaderLeft
<1>10. CASE CommitBackup
  BY <1>10 DEF CommitBackup, FailBackup, ReaderLeft
<1>11. CASE CallCanceled
  BY <1>11 DEF CallCanceled
<1>12. CASE UNCHANGED pipeVars
  BY <1>12 DEF pipeVars
<1> QED
  BY <1>1, <1>2, <1>3, <1>4, <1>5, <1>6, <1>7, <1>8, <1>9, <1>10, <1>11, <1>12
     DEF BackupPipeNext, Produces, Handles

\* The producer goes from part to part, and stops at the first that fails.
LEMMA PartsStep ==
    ASSUME PipeTypes, PartsInv, [BackupPipeNext]_pipeVars
    PROVE  PartsInv'
<1> USE BackupPipeAssumption DEF PipeTypes, PartsInv, Parts, Kind
<1>1. CASE BeginBackup
  BY <1>1 DEF BeginBackup
<1>2. CASE StartPart
  BY <1>2 DEF StartPart
<1>3. CASE PartOver
  BY <1>3 DEF PartOver, PartFails
<1>4. CASE CloseChain
  BY <1>4 DEF CloseChain
<1>5. CASE WriteFails
  BY <1>5 DEF WriteFails
<1>6. CASE ToolWrites
  BY <1>6 DEF ToolWrites
<1>7. CASE ToolEnds
  BY <1>7 DEF ToolEnds
<1>8. CASE ReadPipe
  BY <1>8 DEF ReadPipe
<1>9. CASE SendChunk
  BY <1>9 DEF SendChunk
<1>10. CASE CommitBackup
  BY <1>10 DEF CommitBackup
<1>11. CASE CallCanceled
  BY <1>11 DEF CallCanceled
<1>12. CASE UNCHANGED pipeVars
  BY <1>12 DEF pipeVars
<1> QED
  BY <1>1, <1>2, <1>3, <1>4, <1>5, <1>6, <1>7, <1>8, <1>9, <1>10, <1>11, <1>12
     DEF BackupPipeNext, Produces, Handles

\* The sender commits at the end of a stream that was closed without an error.
LEMMA SenderStep ==
    ASSUME PipeTypes, PartsInv, SenderInv, [BackupPipeNext]_pipeVars
    PROVE  SenderInv'
<1> USE DEF PipeTypes, PartsInv, SenderInv
<1>1. CASE BeginBackup
  BY <1>1 DEF BeginBackup
<1>2. CASE StartPart
  BY <1>2 DEF StartPart
<1>3. CASE PartOver
  BY <1>3 DEF PartOver
<1>4. CASE CloseChain
  BY <1>4 DEF CloseChain, ClosedWith
<1>5. CASE WriteFails
  BY <1>5 DEF WriteFails
<1>6. CASE ToolWrites
  BY <1>6 DEF ToolWrites
<1>7. CASE ToolEnds
  BY <1>7 DEF ToolEnds
<1>8. CASE ReadPipe
  BY <1>8 DEF ReadPipe, FailBackup
<1>9. CASE SendChunk
  BY <1>9 DEF SendChunk, FailBackup
<1>10. CASE CommitBackup
  BY <1>10 DEF CommitBackup, FailBackup
<1>11. CASE CallCanceled
  BY <1>11 DEF CallCanceled
<1>12. CASE UNCHANGED pipeVars
  BY <1>12 DEF pipeVars
<1> QED
  BY <1>1, <1>2, <1>3, <1>4, <1>5, <1>6, <1>7, <1>8, <1>9, <1>10, <1>11, <1>12
     DEF BackupPipeNext, Produces, Handles

\* A chunk that was packed is taken.
LEMMA ChunksStep ==
    ASSUME PipeTypes, PartsInv, SenderInv, ChunksInv, [BackupPipeNext]_pipeVars
    PROVE  ChunksInv'
<1> USE DEF PipeTypes, PartsInv, SenderInv, ChunksInv, Carrying, Packed, Trailer
<1>0. PackedBefore(part) \in Nat /\ PackedBefore(part + 1) = PackedBefore(part) + Chunks
  BY PartCounts
<1>1. CASE BeginBackup
  BY <1>1 DEF BeginBackup
<1>2. CASE StartPart
  BY <1>2 DEF StartPart
<1>3. CASE PartOver
  <2>1. CASE PartFails
    BY <1>3, <2>1 DEF PartOver
  <2>2. CASE ~PartFails
    <3>1. made = Chunks
      BY <1>3, <2>2, <1>0, BackupPipeAssumption DEF PartOver, PartFails
    <3>2. part' = part + 1 /\ producer' = "start" /\ PackedBefore(part + 1) = PackedBefore(part) + Chunks
      BY <1>0, <1>3, <2>2 DEF PartOver
    <3> QED
      BY <1>0, <1>3, <3>1, <3>2, BackupPipeAssumption DEF PartOver
  <2> QED
    BY <2>1, <2>2
<1>4. CASE CloseChain
  <2>1. CASE readerGone
    BY <1>4, <2>1 DEF CloseChain
  <2>2. CASE ~readerGone
    <3>1. carried' /\ ~carried /\ producer = "close" /\ producer' = "over"
      BY <1>4, <2>2 DEF CloseChain
    <3>2. UNCHANGED <<part, made, perr, readerGone, taken>>
      BY <1>4 DEF CloseChain
    <3> QED
      BY <1>0, <3>1, <3>2
  <2> QED
    BY <2>1, <2>2
<1>5. CASE WriteFails
  BY <1>5 DEF WriteFails
<1>6. CASE ToolWrites
  BY <1>0, <1>6 DEF ToolWrites
<1>7. CASE ToolEnds
  BY <1>7 DEF ToolEnds
<1>8. CASE ReadPipe
  BY <1>0, <1>8 DEF ReadPipe, FailBackup, ReaderLeft
<1>9. CASE SendChunk
  BY <1>9 DEF SendChunk, FailBackup, ReaderLeft
<1>10. CASE CommitBackup
  BY <1>10 DEF CommitBackup, FailBackup, ReaderLeft
<1>11. CASE CallCanceled
  BY <1>11 DEF CallCanceled
<1>12. CASE UNCHANGED pipeVars
  BY <1>12 DEF pipeVars
<1> QED
  BY <1>1, <1>2, <1>3, <1>4, <1>5, <1>6, <1>7, <1>8, <1>9, <1>10, <1>11, <1>12
     DEF BackupPipeNext, Produces, Handles

\* What is committed is all that was packed.
LEMMA AnsweredStep ==
    ASSUME BackupInv, [BackupPipeNext]_pipeVars
    PROVE  (reply = "ok" => producer = "over" /\ ~perr /\ uploaded = AllChunks)'
<1> DEFINE Whole == reply = "ok" => producer = "over" /\ ~perr /\ uploaded = AllChunks
<1> SUFFICES Whole'
  OBVIOUS
<1> USE DEF BackupInv, PipeTypes, SenderInv, AllChunks, Parts
<1>1. CASE BeginBackup
  BY <1>1 DEF BeginBackup
<1>2. CASE StartPart
  BY <1>2 DEF StartPart
<1>3. CASE PartOver
  BY <1>3 DEF PartOver
<1>4. CASE CloseChain
  BY <1>4 DEF CloseChain
<1>5. CASE WriteFails
  BY <1>5 DEF WriteFails
<1>6. CASE ToolWrites
  BY <1>6 DEF ToolWrites
<1>7. CASE ToolEnds
  BY <1>7 DEF ToolEnds
<1>8. CASE ReadPipe
  BY <1>8 DEF ReadPipe, FailBackup
<1>9. CASE SendChunk
  BY <1>9 DEF SendChunk, FailBackup
<1>10. CASE CommitBackup
  <2>1. CASE reply' = "ok"
    <3>1. sender = "commit" /\ ~readerGone /\ reply # "ok"
      BY <1>10 DEF CommitBackup
    <3>2. producer = "over" /\ ~perr /\ ~carried
      BY <3>1
    <3>3. part = Parts + 1 /\ taken = PackedBefore(part) + 1
      BY <3>1, <3>2, PartCounts DEF PartsInv, ChunksInv, Carrying, Packed, Trailer
    <3>4. PackedBefore(part) = Parts * Chunks
      <4>1. part - 1 = Parts
        BY <3>3, PartsCount
      <4> QED
        BY <4>1, Zenon DEF PackedBefore
    <3>5. taken = AllChunks
      BY <3>3, <3>4, Zenon DEF AllChunks
    <3>6. uploaded' = taken
      BY <1>10, <2>1, <3>1 DEF CommitBackup, FailBackup
    <3>7. AllChunks' = AllChunks
      BY <1>10 DEF CommitBackup
    <3> QED
      BY <1>10, <3>2, <3>5, <3>6, <3>7, Zenon DEF CommitBackup
  <2> QED
    BY <2>1
<1>11. CASE CallCanceled
  BY <1>11 DEF CallCanceled
<1>12. CASE UNCHANGED pipeVars
  BY <1>12 DEF pipeVars
<1> QED
  BY <1>1, <1>2, <1>3, <1>4, <1>5, <1>6, <1>7, <1>8, <1>9, <1>10, <1>11, <1>12
     DEF BackupPipeNext, Produces, Handles

\* From any state a backup begins in, whether or not its goroutines are scheduled.
LEMMA BackupHolds == BackupPipeInit /\ [][BackupPipeNext]_pipeVars => []BackupIsWhole
<1>1. BackupPipeInit => BackupInv
  <2> SUFFICES ASSUME BackupPipeInit PROVE BackupInv
    OBVIOUS
  <2>1. PipeTypes
    <3>1. /\ part = 1 /\ made = 0 /\ taken = 0 /\ perr = FALSE /\ carried = FALSE /\ readerGone = FALSE
          /\ source \in {"project", "database"} /\ producer = "idle" /\ tool = "none" /\ pipe = "open"
      BY DEF BackupPipeInit
    <3>2. ends \in [1..Volumes + 1 -> {"none", "ok", "failed"}]
      BY DEF BackupPipeInit
    <3>3. perr \in BOOLEAN /\ carried \in BOOLEAN /\ readerGone \in BOOLEAN
      BY <3>1
    <3>4. part \in Nat \ {0} /\ made \in Nat /\ taken \in Nat
      BY <3>1
    <3> QED
      BY <3>1, <3>2, <3>3, <3>4 DEF PipeTypes
  <2>2. PartsInv
    BY PartsCount, BackupPipeAssumption DEF BackupPipeInit, PartsInv
  <2>3. SenderInv
    BY DEF BackupPipeInit, SenderInv
  <2>4. ChunksInv
    <3>1. PackedBefore(1) = 0 /\ part = 1
      <4>1. \A y \in Nat : (1 - 1) * y = 0
        OBVIOUS
      <4> QED
        BY <4>1, BackupPipeAssumption DEF PackedBefore, BackupPipeInit
    <3> QED
      BY <3>1 DEF BackupPipeInit, ChunksInv, Carrying, Packed, Trailer
  <2> QED
    BY <2>1, <2>2, <2>3, <2>4 DEF BackupInv, BackupPipeInit
<1>2. BackupInv /\ [BackupPipeNext]_pipeVars => BackupInv'
  BY PipeTypesStep, PartsStep, SenderStep, ChunksStep, AnsweredStep DEF BackupInv
<1>3. BackupInv => BackupIsWhole
  BY PartsCount DEF BackupInv, PipeTypes, PartsInv, BackupIsWhole
<1> QED
  BY <1>1, <1>2, <1>3, PTL

\* A backup that is answered ok has every chunk of every part at its destination,
\* and every tool but a volume's ended well (writeArtifact): for any number of
\* volumes and chunks, wherever the backup goes.
THEOREM BackupStaysWhole == BackupPipeSpec => []BackupIsWhole
  BY BackupHolds, PTL DEF BackupPipeSpec
-----------------------------------------------------------------------------
(* A project's restore on its way in.                                      *)

AtWork == {"wipe", "next", "write"}

RestoreTypes ==
    /\ loop \in AtWork \cup {"finish", "mark", "join", "returned"}
    /\ left \in 0..Entries /\ entry \in RestoreVolumes \cup Here
    /\ slot \in [RestoreVolumes -> {"empty", "entry", "mark"}]
    /\ writerEnd \in [RestoreVolumes -> {"open", "eof", "error"}]
    /\ sentTo \in [RestoreVolumes -> Nat]
    /\ took \in [RestoreVolumes -> [entries : Nat, mark : BOOLEAN]]
    /\ extractor \in [RestoreVolumes -> {"none", "running", "ok", "failed"}]
    /\ joined \in [RestoreVolumes -> {"none", "ok", "failed"}]
    /\ unpacked \in {"none", "ok", "failed"} /\ firstErr \in BOOLEAN

\* The handler offers one volume's pipe something at a time, and after the last
\* entry is only at end marks.
LoopInv ==
    /\ loop = "returned" <=> unpacked # "none"
    /\ loop \in {"finish", "mark", "join"} \/ unpacked = "ok" => left = 0
    /\ loop \in {"write", "mark", "join"} => entry \in RestoreVolumes
    /\ \A v \in RestoreVolumes : slot[v] # "empty" =>
          entry = v /\ (\/ loop = "write" /\ slot[v] = "entry"
                        \/ loop = "mark" /\ slot[v] = "mark")
    /\ loop \in AtWork \cup {"finish", "mark"} => \A v \in RestoreVolumes :
          (loop \in AtWork \/ (loop = "mark" /\ entry = v)) => writerEnd[v] = "open"
    /\ loop # "returned" => \A v \in RestoreVolumes : writerEnd[v] # "error"

\* tar ends well only behind its mark, and the mark comes behind every entry; as
\* long as it did not fail, an entry that was read is with it or in the pipe.
Offered(v) == IF slot[v] = "entry" THEN 1 ELSE 0
HelperInv ==
    \A v \in RestoreVolumes :
        /\ extractor[v] = "ok" => took[v].mark
        /\ took[v].mark => loop \notin AtWork
        /\ loop = "wipe" => extractor[v] = "none" /\ joined[v] = "none"
        /\ extractor[v] = "none" => loop \in {"wipe", "returned"}
        /\ joined[v] = "ok" => extractor[v] = "ok"
        /\ extractor[v] # "failed" /\ unpacked # "failed" => sentTo[v] = took[v].entries + Offered(v)

\* Without an error every volume that is finished was joined, and had ended well.
JoinInv ==
    /\ ~firstErr => \A v \in RestoreVolumes :
          writerEnd[v] = "eof" => joined[v] = "ok" \/ (loop = "join" /\ entry = v)
    /\ unpacked = "ok" => ~firstErr /\ \A v \in RestoreVolumes : writerEnd[v] = "eof"

RestoreInv == RestoreTypes /\ LoopInv /\ HelperInv /\ JoinInv

\* exec's copying hands tar an entry or the end mark, or drops it when tar is gone.
LEMMA CopyGoes ==
    ASSUME RestoreTypes, NEW v \in RestoreVolumes, Copies(v)
    PROVE  /\ UNCHANGED <<loop, entry, left, sentTo, firstErr, unpacked, writerEnd, extractor, joined>>
           /\ took' \in [RestoreVolumes -> [entries : Nat, mark : BOOLEAN]]
           /\ slot' \in [RestoreVolumes -> {"empty", "entry", "mark"}]
           /\ \A w \in RestoreVolumes \ {v} : slot'[w] = slot[w] /\ took'[w] = took[w]
           /\ \/ slot'[v] = slot[v] /\ took'[v] = took[v]
              \/ slot'[v] = "empty" /\ extractor[v] # "running" /\ took'[v] = took[v]
              \/ /\ slot'[v] = "empty" /\ extractor[v] = "running" /\ slot[v] = "mark"
                 /\ took'[v].entries = took[v].entries /\ took'[v].mark
              \/ /\ slot'[v] = "empty" /\ extractor[v] = "running" /\ slot[v] = "entry"
                 /\ took'[v].entries = took[v].entries + 1 /\ took'[v].mark = took[v].mark
<1>1. UNCHANGED <<loop, entry, left, sentTo, firstErr, unpacked, writerEnd, extractor, joined>>
  BY DEF Copies, handling
<1>2. /\ slot[v] \in {"empty", "entry", "mark"} /\ took[v] \in [entries : Nat, mark : BOOLEAN]
      /\ slot \in [RestoreVolumes -> {"empty", "entry", "mark"}]
      /\ took \in [RestoreVolumes -> [entries : Nat, mark : BOOLEAN]]
  BY DEF RestoreTypes
<1>3. CASE slot[v] = "empty"
  <2>1. slot' = slot /\ took' = took
    BY <1>3 DEF Copies
  <2> QED
    BY <1>1, <1>2, <2>1
<1>4. CASE slot[v] # "empty" /\ extractor[v] # "running"
  <2>1. slot' = [slot EXCEPT ![v] = "empty"] /\ took' = took
    BY <1>4 DEF Copies
  <2> QED
    BY <1>1, <1>2, <1>4, <2>1
<1>5. CASE slot[v] = "mark" /\ extractor[v] = "running"
  <2>1. slot' = [slot EXCEPT ![v] = "empty"] /\ took' = [took EXCEPT ![v].mark = TRUE]
    BY <1>5 DEF Copies
  <2>2. took' \in [RestoreVolumes -> [entries : Nat, mark : BOOLEAN]]
    BY <1>2, <2>1
  <2>3. took'[v].entries = took[v].entries /\ took'[v].mark
    BY <1>2, <2>1
  <2> QED
    BY <1>1, <1>2, <1>5, <2>1, <2>2, <2>3
<1>6. CASE slot[v] = "entry" /\ extractor[v] = "running"
  <2>1. slot' = [slot EXCEPT ![v] = "empty"] /\ took' = [took EXCEPT ![v].entries = @ + 1]
    BY <1>6 DEF Copies
  <2>2. took' \in [RestoreVolumes -> [entries : Nat, mark : BOOLEAN]]
    BY <1>2, <2>1
  <2>3. took'[v].entries = took[v].entries + 1 /\ took'[v].mark = took[v].mark
    BY <1>2, <2>1
  <2> QED
    BY <1>1, <1>2, <1>6, <2>1, <2>2, <2>3
<1> QED
  BY <1>2, <1>3, <1>4, <1>5, <1>6

\* The handler's, the pipes' and the helpers' types.
LEMMA RestoreTypesStep ==
    ASSUME RestoreTypes, [RestorePipeNext]_restoreVars
    PROVE  RestoreTypes'
<1> USE RestorePipeAssumption DEF RestoreTypes, AtWork, handling, piping, helping, incoming
<1>1. CASE Pumps
  BY <1>1 DEF Pumps, PumpReceives, PumpWrote
<1>2. CASE WipeAll
  BY <1>2 DEF WipeAll, ReturnWith, All
<1>3. CASE NextEntry
  BY <1>3 DEF NextEntry, ReturnWith
<1>4. CASE EntryWritten
  BY <1>4 DEF EntryWritten, ReturnWith
<1>5. CASE FinishNext
  BY <1>5 DEF FinishNext, ReturnWith
<1>6. CASE MarkWritten
  BY <1>6 DEF MarkWritten
<1>7. CASE HelperJoined
  BY <1>7 DEF HelperJoined
<1>8. ASSUME NEW v \in RestoreVolumes, Copies(v) PROVE RestoreTypes'
  BY <1>8, CopyGoes
<1>9. ASSUME NEW v \in RestoreVolumes, PipeInReturns(v) PROVE RestoreTypes'
  BY <1>9 DEF PipeInReturns
<1>10. ASSUME NEW v \in RestoreVolumes, HelperEnds(v) PROVE RestoreTypes'
  BY <1>10 DEF HelperEnds
<1>11. CASE UNCHANGED restoreVars
  BY <1>11 DEF restoreVars
<1> QED
  BY <1>1, <1>2, <1>3, <1>4, <1>5, <1>6, <1>7, <1>8, <1>9, <1>10, <1>11
     DEF RestorePipeNext, Unpacks, Helps

\* The handler goes from entry to entry, then from volume to volume.
LEMMA LoopStep ==
    ASSUME RestoreTypes, LoopInv, [RestorePipeNext]_restoreVars
    PROVE  LoopInv'
<1> USE RestorePipeAssumption DEF RestoreTypes, LoopInv, AtWork, handling, piping, helping, incoming
<1>1. CASE Pumps
  BY <1>1 DEF Pumps, PumpReceives, PumpWrote
<1>2. CASE WipeAll
  BY <1>2 DEF WipeAll, ReturnWith
<1>3. CASE NextEntry
  BY <1>3 DEF NextEntry, ReturnWith
<1>4. CASE EntryWritten
  BY <1>4 DEF EntryWritten, ReturnWith
<1>5. CASE FinishNext
  BY <1>5 DEF FinishNext, ReturnWith
<1>6. CASE MarkWritten
  BY <1>6 DEF MarkWritten
<1>7. CASE HelperJoined
  BY <1>7 DEF HelperJoined
<1>8. ASSUME NEW v \in RestoreVolumes, Copies(v) PROVE LoopInv'
  BY <1>8 DEF Copies
<1>9. ASSUME NEW v \in RestoreVolumes, PipeInReturns(v) PROVE LoopInv'
  BY <1>9 DEF PipeInReturns
<1>10. ASSUME NEW v \in RestoreVolumes, HelperEnds(v) PROVE LoopInv'
  BY <1>10 DEF HelperEnds
<1>11. CASE UNCHANGED restoreVars
  BY <1>11 DEF restoreVars
<1> QED
  BY <1>1, <1>2, <1>3, <1>4, <1>5, <1>6, <1>7, <1>8, <1>9, <1>10, <1>11
     DEF RestorePipeNext, Unpacks, Helps

\* No entry is lost on its way to a tar that does not fail.
LEMMA HelperStep ==
    ASSUME RestoreTypes, LoopInv, HelperInv, [RestorePipeNext]_restoreVars
    PROVE  HelperInv'
<1> USE RestorePipeAssumption DEF RestoreTypes, LoopInv, HelperInv, Offered, AtWork, handling, piping, helping, incoming
<1>1. CASE Pumps
  BY <1>1 DEF Pumps, PumpReceives, PumpWrote
<1>2. CASE WipeAll
  BY <1>2 DEF WipeAll, ReturnWith, All
<1>3. CASE NextEntry
  BY <1>3 DEF NextEntry, ReturnWith
<1>4. CASE EntryWritten
  BY <1>4 DEF EntryWritten, ReturnWith
<1>5. CASE FinishNext
  BY <1>5 DEF FinishNext, ReturnWith
<1>6. CASE MarkWritten
  BY <1>6 DEF MarkWritten
<1>7. CASE HelperJoined
  BY <1>7 DEF HelperJoined
<1>8. ASSUME NEW v \in RestoreVolumes, Copies(v) PROVE HelperInv'
  <2>1. UNCHANGED <<loop, entry, sentTo, unpacked, extractor, joined>>
    BY <1>8, CopyGoes
  <2>2. /\ extractor[v] = "ok" => took[v].mark
        /\ took[v].mark => loop \notin AtWork
        /\ loop = "wipe" => extractor[v] = "none" /\ joined[v] = "none"
        /\ extractor[v] = "none" => loop \in {"wipe", "returned"}
        /\ joined[v] = "ok" => extractor[v] = "ok"
        /\ extractor[v] # "failed" /\ unpacked # "failed" => sentTo[v] = took[v].entries + Offered(v)
    OBVIOUS
  <2>3. sentTo[v] \in Nat /\ took[v].entries \in Nat /\ extractor[v] \in {"none", "running", "ok", "failed"}
    OBVIOUS
  <2>4. slot[v] # "empty" => (loop = "write" /\ slot[v] = "entry") \/ (loop = "mark" /\ slot[v] = "mark")
    OBVIOUS
  <2> DEFINE Same(w) ==
        /\ extractor[w] = "ok" => took'[w].mark
        /\ took'[w].mark => loop \notin AtWork
        /\ loop = "wipe" => extractor[w] = "none" /\ joined[w] = "none"
        /\ extractor[w] = "none" => loop \in {"wipe", "returned"}
        /\ joined[w] = "ok" => extractor[w] = "ok"
        /\ extractor[w] # "failed" /\ unpacked # "failed" =>
              sentTo[w] = took'[w].entries + (IF slot'[w] = "entry" THEN 1 ELSE 0)
  <2>5. \A w \in RestoreVolumes \ {v} : Same(w)
    BY <1>8, CopyGoes
  <2>10. Same(v)
    <3>1. \/ slot'[v] = slot[v] /\ took'[v] = took[v]
          \/ slot'[v] = "empty" /\ extractor[v] # "running" /\ took'[v] = took[v]
          \/ /\ slot'[v] = "empty" /\ extractor[v] = "running" /\ slot[v] = "mark"
             /\ took'[v].entries = took[v].entries /\ took'[v].mark
          \/ /\ slot'[v] = "empty" /\ extractor[v] = "running" /\ slot[v] = "entry"
             /\ took'[v].entries = took[v].entries + 1 /\ took'[v].mark = took[v].mark
      BY <1>8, CopyGoes
    <3>2. CASE slot'[v] = slot[v] /\ took'[v] = took[v]
      BY <2>2, <3>2
    <3>3. CASE slot'[v] = "empty" /\ extractor[v] # "running" /\ took'[v] = took[v]
      BY <2>2, <2>3, <2>4, <3>3
    <3>4. CASE /\ slot'[v] = "empty" /\ extractor[v] = "running" /\ slot[v] = "mark"
               /\ took'[v].entries = took[v].entries /\ took'[v].mark
      BY <2>2, <2>3, <2>4, <3>4
    <3>5. CASE /\ slot'[v] = "empty" /\ extractor[v] = "running" /\ slot[v] = "entry"
               /\ took'[v].entries = took[v].entries + 1 /\ took'[v].mark = took[v].mark
      BY <2>2, <2>3, <3>5
    <3> QED
      BY <3>1, <3>2, <3>3, <3>4, <3>5
  <2> HIDE DEF Same
  <2>11. \A w \in RestoreVolumes : Same(w)
    BY <2>5, <2>10
  <2> QED
    BY <2>1, <2>11 DEF Same
<1>9. ASSUME NEW v \in RestoreVolumes, PipeInReturns(v) PROVE HelperInv'
  BY <1>9 DEF PipeInReturns
<1>10. ASSUME NEW v \in RestoreVolumes, HelperEnds(v) PROVE HelperInv'
  BY <1>10 DEF HelperEnds
<1>11. CASE UNCHANGED restoreVars
  BY <1>11 DEF restoreVars
<1> QED
  BY <1>1, <1>2, <1>3, <1>4, <1>5, <1>6, <1>7, <1>8, <1>9, <1>10, <1>11
     DEF RestorePipeNext, Unpacks, Helps

\* A helper's failure is an error of the restore.
LEMMA JoinStep ==
    ASSUME RestoreTypes, LoopInv, JoinInv, [RestorePipeNext]_restoreVars
    PROVE  JoinInv'
<1> USE RestorePipeAssumption DEF RestoreTypes, LoopInv, JoinInv, AtWork, handling, piping, helping, incoming
<1>1. CASE Pumps
  BY <1>1 DEF Pumps, PumpReceives, PumpWrote
<1>2. CASE WipeAll
  BY <1>2 DEF WipeAll, ReturnWith
<1>3. CASE NextEntry
  BY <1>3 DEF NextEntry, ReturnWith
<1>4. CASE EntryWritten
  BY <1>4 DEF EntryWritten, ReturnWith
<1>5. CASE FinishNext
  BY <1>5 DEF FinishNext, ReturnWith
<1>6. CASE MarkWritten
  BY <1>6 DEF MarkWritten
<1>7. CASE HelperJoined
  BY <1>7 DEF HelperJoined, HelperFailed
<1>8. ASSUME NEW v \in RestoreVolumes, Copies(v) PROVE JoinInv'
  BY <1>8 DEF Copies
<1>9. ASSUME NEW v \in RestoreVolumes, PipeInReturns(v) PROVE JoinInv'
  BY <1>9 DEF PipeInReturns
<1>10. ASSUME NEW v \in RestoreVolumes, HelperEnds(v) PROVE JoinInv'
  BY <1>10 DEF HelperEnds
<1>11. CASE UNCHANGED restoreVars
  BY <1>11 DEF restoreVars
<1> QED
  BY <1>1, <1>2, <1>3, <1>4, <1>5, <1>6, <1>7, <1>8, <1>9, <1>10, <1>11
     DEF RestorePipeNext, Unpacks, Helps

\* And a restore.
LEMMA RestoreHolds == RestorePipeInit /\ [][RestorePipeNext]_restoreVars => []RestoredIsWhole
<1>1. RestorePipeInit => RestoreInv
  <2> SUFFICES ASSUME RestorePipeInit PROVE RestoreInv
    OBVIOUS
  <2>1. RestoreTypes
    BY RestorePipeAssumption DEF RestorePipeInit, RestoreTypes, AtWork, All, Here
  <2>2. LoopInv
    BY DEF RestorePipeInit, LoopInv, AtWork, All
  <2>3. HelperInv
    BY DEF RestorePipeInit, HelperInv, AtWork, All, Offered
  <2>4. JoinInv
    BY DEF RestorePipeInit, JoinInv, All
  <2> QED
    BY <2>1, <2>2, <2>3, <2>4 DEF RestoreInv
<1>2. RestoreInv /\ [RestorePipeNext]_restoreVars => RestoreInv'
  BY RestoreTypesStep, LoopStep, HelperStep, JoinStep DEF RestoreInv
<1>3. RestoreInv => RestoredIsWhole
  BY DEF RestoreInv, RestoreTypes, LoopInv, HelperInv, JoinInv, Offered, RestoredIsWhole
<1> QED
  BY <1>1, <1>2, <1>3, PTL

\* An archive that counts as unpacked was read to its mark, and every volume's
\* helper was given all of its entries and ended well (unpackProjectArchive): for
\* any set of volumes and any number of entries.
THEOREM RestoredStaysWhole == RestorePipeSpec => []RestoredIsWhole
  BY RestoreHolds, PTL DEF RestorePipeSpec

-----------------------------------------------------------------------------
(* A docker command.                                                       *)

\* Before the start there is no client and no reader, behind the wait no client,
\* behind the closing no reader: one that is still there when the pipe is closed is
\* there because the context ended.
EndsBefore ==
    /\ call = "idle" => dockerCli = "none" /\ reader = "none"
    /\ call \in {"drain", "grace", "closing", "deferred", "returned"} => dockerCli # "running"
    /\ call \in {"deferred", "returned"} => reader # "reading"
    /\ call = "grace" => ctx # "live"
    /\ call = "closing" /\ reader = "reading" => ctx # "live"

\* A reader that is done has read what came, unless the context ended; nothing
\* comes for one that was never there.
ReadToItsEnd ==
    /\ reader = "done" /\ ctx = "live" => read = came
    /\ reader = "none" => came = 0 /\ read = 0

\* Only a context that ended kills the client, and what docker run left behind is
\* removed before the call returns: nobody is left to ask for a start.
LeavesNoHelper ==
    /\ dockerCli = "killed" => ctx # "live"
    /\ call = "returned" /\ dockerCli = "killed" => helper \notin {"starting", "running"}

CommandInv == CommandTypeOK /\ EndsBefore /\ ReadToItsEnd /\ LeavesNoHelper

LEMMA CommandStarts == CommandInit => CommandInv
<1> SUFFICES ASSUME CommandInit PROVE CommandInv
  OBVIOUS
<1>1. CommandTypeOK
  <2>1. outside \in BOOLEAN
    BY Zenon DEF CommandInit
  <2> QED
    BY <2>1, CommandAssumption DEF CommandInit, CommandTypeOK
<1>2. EndsBefore /\ ReadToItsEnd /\ LeavesNoHelper
  BY DEF CommandInit, EndsBefore, ReadToItsEnd, LeavesNoHelper
<1> QED
  BY <1>1, <1>2 DEF CommandInv

LEMMA CommandStep ==
    ASSUME CommandInv, [CommandNext]_commandVars
    PROVE  CommandInv'
<1> USE CommandAssumption DEF CommandInv, CommandTypeOK, EndsBefore, ReadToItsEnd, LeavesNoHelper, Output
<1>1. CASE StartCommand
  <2>1. CASE call' = "deferred" /\ UNCHANGED <<dockerCli, reader>>
    BY <1>1, <2>1 DEF StartCommand
  <2>2. CASE call' = "wait" /\ dockerCli' = "running" /\ reader' = "reading"
    BY <1>1, <2>2 DEF StartCommand
  <2> QED
    BY <1>1, <2>1, <2>2 DEF StartCommand
<1>2. CASE WaitReturns
  BY <1>2 DEF WaitReturns
<1>3. CASE Drained \/ GraceOver \/ ReaderJoined
  BY <1>3 DEF Drained, GraceOver, ReaderJoined
<1>4. CASE ReturnCommand
  BY <1>4 DEF ReturnCommand, CleansUp, Removed
<1>5. CASE ContextEnds \/ KillGroup
  BY <1>5 DEF ContextEnds, KillGroup
<1>6. CASE ReadOutput
  BY <1>6 DEF ReadOutput
<1>7. CASE LinesCome
  BY <1>7 DEF LinesCome
<1>8. CASE LeavesGroup \/ OutsideEnds \/ ClientExits
  <2>1. outside' \in BOOLEAN
    BY <1>8, Zenon DEF LeavesGroup, OutsideEnds, ClientExits
  <2> QED
    BY <1>8, <2>1 DEF LeavesGroup, OutsideEnds, ClientExits
<1>9. CASE ClientAsks
  BY <1>9 DEF ClientAsks
<1>10. CASE Daemon
  BY <1>10 DEF Daemon
<1>11. CASE UNCHANGED commandVars
  BY <1>11 DEF commandVars
<1> QED
  BY <1>1, <1>2, <1>3, <1>4, <1>5, <1>6, <1>7, <1>8, <1>9, <1>10, <1>11 DEF CommandNext

LEMMA CommandHolds == CommandInit /\ [][CommandNext]_commandVars => []CommandInv
  BY CommandStarts, CommandStep, PTL

\* When a docker command has returned nothing is read any more, its output was
\* handed over whole unless its context ended, and no helper of a client that was
\* killed runs on (Stream, Spawn, RunLines, cleanupIfCancelled): for any number
\* of lines.
THEOREM CommandsEndWhole == CommandSpec => []CommandIsOver
<1>1. CommandInv => CommandIsOver
  BY DEF CommandInv, CommandTypeOK, EndsBefore, ReadToItsEnd, LeavesNoHelper, CommandIsOver
<1> QED
  BY <1>1, CommandHolds, PTL DEF CommandSpec
-----------------------------------------------------------------------------
(* All four, as the run has them.                                          *)

\* One of them goes on at a time, by its own next-state relation; for the others
\* that is a step which changes nothing.
LEMMA PipesStep ==
    ASSUME [PipesNext]_pipes
    PROVE  /\ [AttachNext]_attachVars
           /\ [CommandNext]_commandVars
           /\ [BackupPipeNext]_pipeVars
           /\ [RestorePipeNext]_restoreVars
<1>1. CASE UNCHANGED pipes
  BY <1>1 DEF pipes
<1>2. CASE focus = "attach" /\ Only("attach") /\ AttachNext
  BY <1>2 DEF Only
<1>3. CASE focus = "command" /\ Only("command") /\ CommandNext
  BY <1>3 DEF Only
<1>4. CASE focus = "backup" /\ Only("backup") /\ BackupPipeNext
  BY <1>4 DEF Only
<1>5. CASE focus = "restore" /\ Only("restore") /\ RestorePipeNext
  BY <1>5 DEF Only
<1> QED
  BY <1>1, <1>2, <1>3, <1>4, <1>5 DEF PipesNext

\* What the run checks of a backup and a restore: neither is called whole when it is
\* not.
THEOREM PipesStayWhole == PipesSpec => []PipesAreWhole
<1>1. PipesInit => BackupPipeInit /\ RestorePipeInit
  BY DEF PipesInit
<1>2. BackupIsWhole /\ RestoredIsWhole => PipesAreWhole
  BY DEF PipesAreWhole
<1> QED
  BY <1>1, <1>2, PipesStep, BackupHolds, RestoreHolds, PTL DEF PipesSpec

\* And of a session and a command: no exit before the output it ends, no command
\* over before its reader and its helper.
THEOREM PipesEndInOrder == PipesSpec => [](ExitComesLast /\ CommandIsOver)
<1>1. PipesInit => AttachInit /\ CommandInit
  BY DEF PipesInit
<1>2. CommandInv => CommandIsOver
  BY DEF CommandInv, CommandTypeOK, EndsBefore, ReadToItsEnd, LeavesNoHelper, CommandIsOver
<1> QED
  BY <1>1, <1>2, PipesStep, ExitStaysLast, CommandHolds, PTL DEF PipesSpec, AttachSpec

================================================================================
