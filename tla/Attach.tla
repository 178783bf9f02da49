------------------------------- MODULE Attach -------------------------------
(***************************************************************************)
(* An attach session without a terminal (internal/server/attach.go): the   *)
(* handler starts docker attach, two pumps merge its stdout and stderr     *)
(* into a channel, a waiter closes that channel after both and after Wait, *)
(* one goroutine sends what comes out and the exit code, another receives  *)
(* the client's frames for the handler, which writes them to the process.  *)
(*                                                                         *)
(* The process is not tied to the call's context: only the handler's       *)
(* deferred close ends it.  Output is counted in chunks, input in frames.  *)
(***************************************************************************)
EXTENDS Naturals, FiniteSets

CONSTANTS MaxOut, MaxIn,   \* bounds: chunks per stream, frames
          MergedCap,       \* of the channel merged
          StdinRoom        \* frames the container's stdin takes before it is read

ASSUME AttachAssumption == {MaxOut, MaxIn, MergedCap, StdinRoom} \subseteq Nat \ {0}

VARIABLES
    process, printed, piped,   \* docker attach, what it printed and what is still in its pipes
    pump,                      \* each pump
    merged, mergedClosed, closing, \* the channel; a.done
    outG, toldOut, exitTold,   \* the sending goroutine; chunks and exit frame the client got
    recvG, recvCh,             \* the receiving one and its channel
    handler, stdin, stdinClosed,
    client, sent, wire         \* the caller, the frames it sent, those not received

output == <<printed, piped, pump, merged, mergedClosed, outG, toldOut, exitTold>>
input == <<recvG, recvCh, sent, wire>>
attachVars == <<output, input, process, closing, handler, stdin, stdinClosed, client>>

Streams == {"stdout", "stderr"}

AttachInit ==
    /\ process = "running" /\ printed = [s \in Streams |-> 0] /\ piped = [s \in Streams |-> 0]
    /\ pump = [s \in Streams |-> "read"]
    /\ merged = 0 /\ mergedClosed = FALSE /\ closing = FALSE
    /\ outG = "read" /\ toldOut = 0 /\ exitTold = FALSE
    /\ recvG = "recv" /\ recvCh = "empty"
    /\ handler = "select" /\ stdin = 0 /\ stdinClosed = FALSE
    /\ client = "open" /\ sent = 0 /\ wire = 0
-----------------------------------------------------------------------------
(* docker attach and the container behind it.                              *)

Prints(s) ==
    /\ process = "running" /\ printed[s] < MaxOut
    /\ printed' = [printed EXCEPT ![s] = @ + 1] /\ piped' = [piped EXCEPT ![s] = @ + 1]
    /\ UNCHANGED <<pump, merged, mergedClosed, outG, toldOut, exitTold, input, process, closing, handler,
                   stdin, stdinClosed, client>>

ReadsStdin ==
    /\ stdin > 0 /\ stdin' = stdin - 1
    /\ UNCHANGED <<output, input, process, closing, handler, stdinClosed, client>>

ContainerEnds ==
    /\ process = "running" /\ process' = "exited"
    /\ UNCHANGED <<output, input, closing, handler, stdin, stdinClosed, client>>
-----------------------------------------------------------------------------
(* newAttachPipes: the pumps and the waiter; attachPipes.read.             *)

PumpReads(s) ==
    /\ pump[s] = "read"
    /\ \/ piped[s] > 0 /\ piped' = [piped EXCEPT ![s] = @ - 1] /\ pump' = [pump EXCEPT ![s] = "put"]
       \/ piped[s] = 0 /\ process = "exited" /\ pump' = [pump EXCEPT ![s] = "over"] /\ UNCHANGED piped
    /\ UNCHANGED <<printed, merged, mergedClosed, outG, toldOut, exitTold, input, process, closing, handler,
                   stdin, stdinClosed, client>>

\* Bug: a pump that knows the channel only.
NeverGivesUp == FALSE
\* The session was closed while a pump had a chunk to put.
GivesUp == closing

PumpPuts(s) ==
    /\ pump[s] = "put"
    /\ \/ merged < MergedCap /\ merged' = merged + 1 /\ pump' = [pump EXCEPT ![s] = "read"]
       \/ GivesUp /\ pump' = [pump EXCEPT ![s] = "over"] /\ UNCHANGED merged
    /\ UNCHANGED <<printed, piped, mergedClosed, outG, toldOut, exitTold, input, process, closing, handler,
                   stdin, stdinClosed, client>>

\* Bug: the channel is closed when the process is gone.
PumpsMayRun == TRUE
\* wg.Wait, before cmd.Wait.
PumpsOver == \A s \in Streams : pump[s] = "over"

CloseMerged ==
    /\ ~mergedClosed /\ PumpsOver /\ process = "exited"
    /\ mergedClosed' = TRUE
    /\ UNCHANGED <<printed, piped, pump, merged, outG, toldOut, exitTold, input, process, closing, handler,
                   stdin, stdinClosed, client>>

OutReads ==
    /\ outG = "read"
    /\ \/ merged > 0 /\ merged' = merged - 1 /\ outG' = "send"
       \/ ((merged = 0 /\ mergedClosed) \/ closing)
          /\ outG' = "exit" /\ UNCHANGED merged
    /\ UNCHANGED <<printed, piped, pump, mergedClosed, toldOut, exitTold, input, process, closing, handler,
                   stdin, stdinClosed, client>>

\* stream.Send, which fails once the call is over.
CallOver == client = "gone" \/ handler = "returned"

OutSends ==
    /\ \/ outG = "send" /\ outG' = (IF CallOver THEN "over" ELSE "read")
          /\ toldOut' = (IF CallOver THEN toldOut ELSE toldOut + 1) /\ UNCHANGED exitTold
       \/ outG = "exit" /\ outG' = "over" /\ exitTold' = ~CallOver /\ UNCHANGED toldOut
    /\ UNCHANGED <<printed, piped, pump, merged, mergedClosed, input, process, closing, handler, stdin,
                   stdinClosed, client>>
-----------------------------------------------------------------------------
(* The caller, the receiving goroutine, the handler.                       *)

ClientSends ==
    /\ client = "open" /\ sent < MaxIn
    /\ sent' = sent + 1 /\ wire' = wire + 1
    /\ UNCHANGED <<output, recvG, recvCh, process, closing, handler, stdin, stdinClosed, client>>

ClientTurns ==
    /\ \/ client = "open" /\ client' = "halfClosed"
       \/ client # "gone" /\ client' = "gone"
    /\ UNCHANGED <<output, input, process, closing, handler, stdin, stdinClosed>>

Receive ==
    /\ recvG = "recv"
    /\ \/ CallOver /\ recvG' = "err" /\ UNCHANGED wire
       \/ ~CallOver /\ wire > 0 /\ wire' = wire - 1 /\ recvG' = "data"
       \/ ~CallOver /\ wire = 0 /\ client = "halfClosed" /\ recvG' = "eof" /\ UNCHANGED wire
    /\ UNCHANGED <<output, recvCh, sent, process, closing, handler, stdin, stdinClosed, client>>

HandOver ==
    /\ recvG \in {"data", "eof", "err"}
    /\ \/ handler = "returned" /\ recvG' = "over" /\ UNCHANGED recvCh
       \/ recvCh = "empty" /\ recvCh' = recvG /\ recvG' = IF recvG = "data" THEN "recv" ELSE "over"
    /\ UNCHANGED <<output, sent, wire, process, closing, handler, stdin, stdinClosed, client>>

\* The deferred close: a.done, stdin, Kill.
Returns == handler' = "returned" /\ closing' = TRUE /\ stdinClosed' = TRUE /\ process' = "exited"
Stays(h) == handler' = h /\ UNCHANGED <<closing, process>>

Select ==
    /\ handler = "select"
    /\ \/ (outG = "over" \/ client = "gone") /\ Returns /\ UNCHANGED recvCh
       \/ recvCh = "data" /\ recvCh' = "empty" /\ Stays("write") /\ UNCHANGED stdinClosed
       \/ recvCh = "eof" /\ recvCh' = "empty" /\ Stays("drain") /\ stdinClosed' = TRUE
       \/ recvCh = "err" /\ recvCh' = "empty" /\ Returns
    /\ UNCHANGED <<output, recvG, sent, wire, stdin, client>>

\* client.write: only room in the pipe, or the end of the process, lets it go on.
Write ==
    /\ handler = "write"
    /\ \/ process = "exited" /\ UNCHANGED stdin
       \/ stdin < StdinRoom /\ stdin' = stdin + 1
    /\ Stays("select")
    /\ UNCHANGED <<output, input, stdinClosed, client>>

Drain ==
    /\ handler = "drain" /\ (outG = "over" \/ client = "gone") /\ Returns
    /\ UNCHANGED <<output, input, stdin, client>>

Goroutines ==
    \/ \E s \in Streams : PumpReads(s) \/ PumpPuts(s)
    \/ CloseMerged \/ OutReads \/ OutSends \/ Receive \/ HandOver \/ Select \/ Write \/ Drain

AttachNext ==
    \/ Goroutines
    \/ \E s \in Streams : Prints(s)
    \/ ReadsStdin \/ ContainerEnds \/ ClientSends \/ ClientTurns

AttachSpec == AttachInit /\ [][AttachNext]_attachVars
-----------------------------------------------------------------------------
(* The exit frame comes after everything the process printed on either     *)
(* stream: the code is read when Wait is over, the channel is closed after *)
(* the last chunk is in it.                                                *)
ExitComesLast ==
    exitTold => process = "exited" /\ toldOut = printed["stdout"] + printed["stderr"]

(* When the caller goes, or the container ends, the session ends: every    *)
(* goroutine and the docker process are gone, none is left at a full       *)
(* channel or in a write (the container is assumed to read its input).     *)
SessionEnds ==
    (client = "gone" \/ process = "exited") ~>
        /\ process = "exited" /\ handler = "returned"
        /\ outG = "over" /\ recvG = "over" /\ mergedClosed

=============================================================================
