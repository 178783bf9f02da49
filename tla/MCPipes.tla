---------------------------- MODULE MCPipes ----------------------------
(* An attach session, a docker command, a backup and a restore: bytes on    *)
(* their way through channels, pipes and client processes.  They share no   *)
(* state: one instance checks them side by side, and focus says which runs. *)
EXTENDS Attach, DockerCommand, BackupPipe, RestorePipe

CONSTANTS v1, v2

TwoVolumes == {v1, v2}

VARIABLE focus

pipes == <<attachVars, commandVars, pipeVars, restoreVars, focus>>

PipesInit ==
    /\ focus \in {"attach", "command", "backup", "restore"}
    /\ AttachInit /\ CommandInit /\ BackupPipeInit /\ RestorePipeInit
    /\ focus # "command" => how = "lines"
    /\ focus # "backup" => source = "project" /\ dest = "stream"
    /\ focus # "restore" => relayed /\ left = 0

\* The others stay as they are.
Only(f) ==
    /\ focus = f /\ UNCHANGED focus
    /\ f # "attach" => UNCHANGED attachVars
    /\ f # "command" => UNCHANGED commandVars
    /\ f # "backup" => UNCHANGED pipeVars
    /\ f # "restore" => UNCHANGED restoreVars

PipesNext ==
    \/ focus = "attach" /\ Only("attach") /\ AttachNext
    \/ focus = "command" /\ Only("command") /\ CommandNext
    \/ focus = "backup" /\ Only("backup") /\ BackupPipeNext
    \/ focus = "restore" /\ Only("restore") /\ RestorePipeNext

\* Only one component runs, so one fair turn serves all of them: a behaviour
\* of the backup sees no other component's part of it.  These are the
\* components' own fairness conditions (BackupPipe's BackupPipeFairness, ...).
NthVolume == <<v1, v2>>

PipesTurn(n) ==
    \/ /\ focus = "attach"
       /\ \/ n = 1 /\ CloseMerged
          \/ n = 2 /\ (OutReads \/ OutSends)
          \/ n = 3 /\ (Receive \/ HandOver)
          \/ n = 4 /\ (Select \/ Write \/ Drain)
          \/ n = 5 /\ (PumpReads("stdout") \/ PumpPuts("stdout"))
          \/ n = 6 /\ (PumpReads("stderr") \/ PumpPuts("stderr"))
          \/ n = 7 /\ ReadsStdin
       /\ Only("attach")
    \/ /\ focus = "command"
       /\ \/ n = 1 /\ (WaitReturns \/ Drained \/ GraceOver \/ ReaderJoined \/ ReturnCommand)
          \/ n = 2 /\ KillGroup
          \/ n = 3 /\ ReadOutput
       /\ Only("command")
    \/ /\ focus = "backup"
       /\ \/ n = 1 /\ Produces
          \/ n = 2 /\ ToolEnds
          \/ n = 3 /\ Handles
       /\ Only("backup")
    \/ /\ focus = "restore"
       /\ \/ n = 1 /\ Pumps
          \/ n = 2 /\ Unpacks
          \/ n \in 3..4 /\ Helps(NthVolume[n - 2])
          \/ n \in 5..6 /\ HelperEnds(NthVolume[n - 4])
       /\ Only("restore")

PipesSpec == PipesInit /\ [][PipesNext]_pipes /\ \A n \in 1..7 : WF_pipes(PipesTurn(n))

\* What was backed up, and what was restored, is whole.
PipesAreWhole == BackupIsWhole /\ RestoredIsWhole

========================================================================
