---------------------------- MODULE DockerCommand ----------------------------
(***************************************************************************)
(* One docker command the agent runs for a caller (internal/dockercli:     *)
(* Stream, Spawn and RunLines, which hand the output over line by line,    *)
(* and pipe and capture, which copy it): the client in a process group of  *)
(* its own, the pipe of its output, a deadline or a caller that gives up,  *)
(* and the helper container a killed client leaves behind.                 *)
(*                                                                         *)
(* The client may leave a process that has left the group and keeps the    *)
(* pipe open.  The daemon finishes a request it has, also when the client  *)
(* that sent it is gone.                                                   *)
(***************************************************************************)
EXTENDS Naturals

CONSTANTS MaxLines     \* bound: lines came

ASSUME CommandAssumption == MaxLines \in Nat

VARIABLES
    how,               \* "lines", or "copy" for pipe and capture
    call,              \* where the caller's goroutine is
    ctx,               \* cctx: live, canceled or past its deadline
    dockerCli,         \* the docker client
    outside,           \* a process outside the group holds the pipe
    came, read,     \* lines in the pipe, and those that were handed over
    reader,            \* the goroutine that reads the pipe
    helper             \* the container of docker run --rm: what the daemon was asked and did

commandVars == <<how, call, ctx, dockerCli, outside, came, read, reader, helper>>

CommandTypeOK ==
    /\ how \in {"lines", "copy"}
    /\ call \in {"idle", "wait", "drain", "grace", "closing", "deferred", "returned"}
    /\ ctx \in {"live", "canceled", "deadline"}
    /\ dockerCli \in {"none", "running", "exited", "killed"}
    /\ outside \in BOOLEAN
    /\ came \in 0..MaxLines /\ read \in 0..came
    /\ reader \in {"none", "reading", "done"}
    /\ helper \in {"none", "asked", "created", "starting", "running", "over"}

CommandInit ==
    /\ how \in {"lines", "copy"}
    /\ call = "idle" /\ ctx = "live" /\ dockerCli = "none" /\ outside = FALSE
    /\ came = 0 /\ read = 0 /\ reader = "none" /\ helper = "none"

Output == <<came, read, reader>>
-----------------------------------------------------------------------------
(* The caller.                                                             *)

\* cmd.Start; when it fails, the pipe is closed and nothing was begun.
StartCommand ==
    /\ call = "idle"
    /\ \/ call' = "deferred" /\ UNCHANGED <<dockerCli, reader>>
       \/ call' = "wait" /\ dockerCli' = "running" /\ reader' = "reading"
    /\ UNCHANGED <<how, ctx, outside, came, read, helper>>

\* cmd.Wait waits for the client, and for exec's own copying if that is used.
WaitReturns ==
    /\ call = "wait" /\ dockerCli # "running"
    /\ how = "copy" => reader = "done"
    /\ call' = IF how = "copy" THEN "deferred" ELSE "drain"
    /\ UNCHANGED <<how, ctx, dockerCli, outside, Output, helper>>

\* The output ends, or the context does and a last delay begins.
Drained ==
    /\ call = "drain"
    /\ \/ reader = "done" /\ call' = "closing"
       \/ ctx # "live" /\ call' = "grace"
    /\ UNCHANGED <<how, ctx, dockerCli, outside, Output, helper>>

\* Bug: the delay is only for commands past their deadline.
AbandonsAfterDeadline == ctx = "deadline"
\* After WaitDelay the pipe is closed whatever holds its other end.
Abandons == TRUE

GraceOver ==
    /\ call = "grace" /\ (reader = "done" \/ Abandons)
    /\ call' = "closing"
    /\ UNCHANGED <<how, ctx, dockerCli, outside, Output, helper>>

\* r.Close, and the goroutine is waited for.
ReaderJoined ==
    /\ call = "closing" /\ reader = "done" /\ call' = "deferred"
    /\ UNCHANGED <<how, ctx, dockerCli, outside, Output, helper>>

\* Bug: a caller that gave up leaves its helper.
CleansUpAfterDeadline == ctx = "deadline"
\* cleanupIfCancelled.
CleansUp == ctx # "live"

\* rm -f finds what the daemon has by that name.
Removed(h) == IF h \in {"created", "starting", "running"} THEN "over" ELSE h

\* The deferred cleanup, on a context of its own, before the deferred cancel.
ReturnCommand ==
    /\ call = "deferred" /\ call' = "returned"
    /\ helper' = IF CleansUp THEN Removed(helper) ELSE helper
    /\ UNCHANGED <<how, ctx, dockerCli, outside, Output>>
-----------------------------------------------------------------------------
(* The context, the kill of the group and the reading goroutine.           *)

ContextEnds ==
    /\ call \notin {"idle", "returned"} /\ ctx = "live"
    /\ ctx' \in {"canceled", "deadline"}
    /\ UNCHANGED <<how, call, dockerCli, outside, Output, helper>>

\* cmd.Cancel: SIGKILL to the whole group; who left it lives on.
KillGroup ==
    /\ ctx # "live" /\ dockerCli = "running" /\ dockerCli' = "killed"
    /\ UNCHANGED <<how, call, ctx, outside, Output, helper>>

\* drainLines: a line, the end of the output, or the closed pipe.
ReadOutput ==
    /\ reader = "reading"
    /\ \/ read < came /\ read' = read + 1 /\ UNCHANGED reader
       \/ /\ read = came /\ dockerCli # "running" /\ ~outside
          /\ reader' = "done" /\ UNCHANGED read
       \/ call = "closing" /\ reader' = "done" /\ UNCHANGED read
    /\ UNCHANGED <<how, call, ctx, dockerCli, outside, came, helper>>
-----------------------------------------------------------------------------
(* The client, what it leaves behind, the daemon.                          *)

LinesCome ==
    /\ dockerCli = "running" \/ outside
    /\ came < MaxLines /\ reader = "reading" /\ came' = came + 1
    /\ UNCHANGED <<how, call, ctx, dockerCli, outside, read, reader, helper>>

LeavesGroup ==
    /\ dockerCli = "running" /\ ~outside /\ outside' = TRUE
    /\ UNCHANGED <<how, call, ctx, dockerCli, Output, helper>>

OutsideEnds ==
    /\ outside /\ outside' = FALSE
    /\ UNCHANGED <<how, call, ctx, dockerCli, Output, helper>>

\* The client asks for a container and, once it is there, for its start.
ClientAsks ==
    /\ dockerCli = "running"
    /\ \/ helper = "none" /\ helper' = "asked"
       \/ helper = "created" /\ helper' = "starting"
    /\ UNCHANGED <<how, call, ctx, dockerCli, outside, Output>>

\* It ends with its container, or without one, or loses the daemon.
ClientExits ==
    /\ dockerCli = "running" /\ dockerCli' = "exited"
    /\ UNCHANGED <<how, call, ctx, outside, Output, helper>>

Daemon ==
    /\ \/ helper = "asked" /\ helper' = "created"
       \/ helper = "starting" /\ helper' = "running"
       \/ helper = "running" /\ helper' = "over"
    /\ UNCHANGED <<how, call, ctx, dockerCli, outside, Output>>

CommandNext ==
    \/ StartCommand \/ WaitReturns \/ Drained \/ GraceOver \/ ReaderJoined \/ ReturnCommand
    \/ ContextEnds \/ KillGroup \/ ReadOutput
    \/ LinesCome \/ LeavesGroup \/ OutsideEnds \/ ClientAsks \/ ClientExits \/ Daemon

\* The agent's goroutines run; timers fire.
CommandFairness ==
    /\ WF_commandVars(WaitReturns \/ Drained \/ GraceOver \/ ReaderJoined \/ ReturnCommand)
    /\ WF_commandVars(KillGroup)
    /\ WF_commandVars(ReadOutput)

CommandSpec == CommandInit /\ [][CommandNext]_commandVars /\ CommandFairness
-----------------------------------------------------------------------------
(* When the call is over, so is all it began: no line is handed over after *)
(* it, none was left out unless the context ended, and the helper of a     *)
(* killed client does not run on ("killing the docker client stops         *)
(* neither").                                                              *)
CommandIsOver ==
    call = "returned" =>
        /\ reader # "reading"
        /\ ctx = "live" => read = came
        /\ dockerCli = "killed" => helper \notin {"starting", "running"}

(* And a command whose context ended returns, though a process that left   *)
(* the group keeps its output open: it "cannot hold the caller hostage".   *)
CommandReturns ==
    /\ []CommandIsOver
    /\ how = "lines" /\ ctx # "live" ~> call = "returned"

==============================================================================
