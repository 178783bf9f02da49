------------------------------ MODULE RestorePipe ------------------------------
(***************************************************************************)
(* One project restore on its way in (unpackProjectArchive with the        *)
(* volumeStreams of internal/server/backup_tar.go, RestoreFrom of          *)
(* backup.go): what the control plane relays goes through a pipe to the    *)
(* handler, which hands each volume's entries through a pipe of its own to *)
(* a helper container's tar, and all the helpers run at once.              *)
(*                                                                         *)
(* The pipes hold nothing: a write is over when it was read.  exec copies  *)
(* each volume's pipe to its client, and Wait waits for that copying.      *)
(***************************************************************************)
EXTENDS Naturals, FiniteSets

CONSTANTS RestoreVolumes,   \* the volumes the request names
          Entries           \* bound: entries of the archive

\* Of another volume, which is skipped; or a file of the app, written here.
Here == {"skipped", "file"}
ASSUME RestorePipeAssumption == Entries \in Nat /\ RestoreVolumes \cap Here = {}

VARIABLES
    relayed,                 \* whether the archive is relayed, or a file or an object of a bucket
    relay, inPipe, inEnd,    \* RestoreFrom's goroutine, what it offers, how it closed its end
    outClosed,               \* pr.Close
    loop, entry,             \* the handler; the entry it has, or the volume it finishes
    left, sentTo,            \* entries not read; history: entries of each volume that were read
    slot, writerEnd,         \* what each volume's pipe is offered, how its writer was closed
    readerClosed,            \* reader.CloseWithError
    copier, extractor, took, \* exec's copying, docker's client, what tar was given: entries, its end mark
    joined,                  \* of PipeIn: w.done
    firstErr, unpacked       \* of finish; the handler's result

restoreVars == <<relayed, relay, inPipe, inEnd, outClosed, loop, entry, left, sentTo, slot, writerEnd,
                 readerClosed, copier, extractor, took, joined, firstErr, unpacked>>
incoming == <<relayed, relay, inPipe, inEnd, outClosed>>
handling == <<loop, entry, left, sentTo, firstErr, unpacked>>
piping == <<slot, writerEnd, readerClosed>>
helping == <<copier, extractor, took, joined>>

All(x) == [v \in RestoreVolumes |-> x]

RestorePipeTypeOK ==
    /\ relayed \in BOOLEAN /\ relay \in {"recv", "write", "over"} /\ inPipe \in BOOLEAN
    /\ inEnd \in {"open", "eof", "error"} /\ {outClosed, firstErr} \subseteq BOOLEAN
    /\ loop \in {"wipe", "next", "write", "finish", "mark", "join", "returned"}
    /\ entry \in RestoreVolumes \cup Here /\ left \in 0..Entries
    /\ slot \in [RestoreVolumes -> {"empty", "entry", "mark"}]
    /\ writerEnd \in [RestoreVolumes -> {"open", "eof", "error"}]
    /\ readerClosed \in [RestoreVolumes -> BOOLEAN]
    /\ copier \in [RestoreVolumes -> {"none", "copy", "over"}]
    /\ extractor \in [RestoreVolumes -> {"none", "running", "ok", "failed"}]
    /\ sentTo \in [RestoreVolumes -> 0..Entries]
    /\ took \in [RestoreVolumes -> [entries : 0..Entries, mark : BOOLEAN]]
    /\ joined \in [RestoreVolumes -> {"none", "ok", "failed"}]
    /\ unpacked \in {"none", "ok", "failed"}

RestorePipeInit ==
    /\ relayed \in BOOLEAN /\ relay = (IF relayed THEN "recv" ELSE "over") /\ inPipe = FALSE
    /\ inEnd = "open" /\ outClosed = FALSE
    /\ loop = "wipe" /\ entry = "file" /\ left \in 0..Entries /\ sentTo = All(0)
    /\ slot = All("empty") /\ writerEnd = All("open") /\ readerClosed = All(FALSE)
    /\ copier = All("none") /\ extractor = All("none") /\ joined = All("none")
    /\ took = All([entries |-> 0, mark |-> FALSE])
    /\ firstErr = FALSE /\ unpacked = "none"
-----------------------------------------------------------------------------
(* The control plane's stream, when there is one.                          *)

\* A frame, the end of what is sent, or a broken stream; it is over with the call.
PumpReceives ==
    /\ relay = "recv"
    /\ \/ relay' = "write" /\ inPipe' = TRUE /\ UNCHANGED inEnd
       \/ relay' = "over" /\ inEnd' \in {"eof", "error"} /\ UNCHANGED inPipe
    /\ UNCHANGED <<relayed, outClosed, handling, piping, helping>>

\* The write is over: its frame was read, or the reader is closed.
PumpWrote ==
    /\ relay = "write"
    /\ \/ ~inPipe /\ relay' = "recv" /\ UNCHANGED <<inPipe, inEnd>>
       \/ outClosed /\ relay' = "over" /\ inPipe' = FALSE /\ inEnd' = "error"
    /\ UNCHANGED <<relayed, outClosed, handling, piping, helping>>
-----------------------------------------------------------------------------
(* The handler.                                                            *)

\* What is deferred: closeAll, which changes no pipe that was closed, and pr.Close.
ReturnWith(result) ==
    /\ loop' = "returned" /\ unpacked' = result /\ outClosed' = TRUE
    /\ writerEnd' = [v \in RestoreVolumes |-> IF writerEnd[v] = "open" THEN "error" ELSE writerEnd[v]]

\* The volumes and the files are wiped one after the other, the helpers begun.
WipeAll ==
    /\ loop = "wipe"
    /\ \/ ReturnWith("failed") /\ UNCHANGED <<copier, extractor>>
       \/ /\ loop' = "next" /\ copier' = All("copy") /\ extractor' = All("running")
          /\ UNCHANGED <<unpacked, outClosed, writerEnd>>
    /\ UNCHANGED <<relayed, relay, inPipe, inEnd, entry, left, sentTo, slot, readerClosed, took,
                   joined, firstErr>>

HasInput == relayed => inPipe

\* tr.Next: an entry, tar's end mark, behind which nothing is read, or an error: of
\* the stream, the cipher, the budget, or a stream that ends before the mark.
NextEntry ==
    /\ loop = "next"
    /\ \/ /\ left > 0 /\ HasInput /\ left' = left - 1 /\ inPipe' = FALSE
          /\ \E e \in RestoreVolumes \cup Here :
                /\ entry' = e
                /\ IF e \in Here THEN loop' = "next" /\ UNCHANGED <<slot, sentTo>>
                   ELSE /\ loop' = "write" /\ slot' = [slot EXCEPT ![e] = "entry"]
                        /\ sentTo' = [sentTo EXCEPT ![e] = @ + 1]
          /\ UNCHANGED <<unpacked, outClosed, writerEnd>>
       \/ /\ left = 0 /\ HasInput /\ loop' = "finish" /\ inPipe' = FALSE
          /\ UNCHANGED <<left, entry, slot, sentTo, unpacked, outClosed, writerEnd>>
       \/ /\ HasInput \/ inEnd # "open"
          /\ ReturnWith("failed") /\ UNCHANGED <<left, inPipe, entry, slot, sentTo>>
    /\ UNCHANGED <<relayed, relay, inEnd, readerClosed, helping, firstErr>>

\* w.WriteHeader and io.Copy: over when the copier took it, or failed with the pipe.
EntryWritten ==
    /\ loop = "write"
    /\ \/ slot[entry] = "empty" /\ loop' = "next" /\ UNCHANGED <<slot, unpacked, outClosed, writerEnd>>
       \/ /\ slot[entry] # "empty" /\ readerClosed[entry]
          /\ slot' = [slot EXCEPT ![entry] = "empty"] /\ ReturnWith("failed")
    /\ UNCHANGED <<relayed, relay, inPipe, inEnd, entry, left, sentTo, readerClosed, helping, firstErr>>

\* finish: the next volume gets its end mark (tw.Close); after the last it returns.
FinishNext ==
    /\ loop = "finish"
    /\ LET more == {v \in RestoreVolumes : writerEnd[v] = "open"}
       IN  \/ \E v \in more :
                /\ entry' = v /\ loop' = "mark" /\ slot' = [slot EXCEPT ![v] = "mark"]
                /\ UNCHANGED <<unpacked, outClosed, writerEnd>>
           \/ more = {} /\ ReturnWith(IF firstErr THEN "failed" ELSE "ok") /\ UNCHANGED <<entry, slot>>
    /\ UNCHANGED <<relayed, relay, inPipe, inEnd, left, sentTo, readerClosed, helping, firstErr>>

\* pw.Close, whether or not the mark could be written.
MarkWritten ==
    /\ loop = "mark" /\ (slot[entry] = "empty" \/ readerClosed[entry])
    /\ loop' = "join" /\ slot' = [slot EXCEPT ![entry] = "empty"]
    /\ firstErr' = (firstErr \/ slot[entry] # "empty")
    /\ writerEnd' = [writerEnd EXCEPT ![entry] = "eof"]
    /\ UNCHANGED <<incoming, entry, left, sentTo, unpacked, readerClosed, helping>>

\* Bug: what was written is taken for what was unpacked.
HelperFailedUnseen(v) == FALSE
\* The error that comes from w.done.
HelperFailed(v) == joined[v] = "failed"

HelperJoined ==
    /\ loop = "join" /\ joined[entry] # "none"
    /\ loop' = "finish" /\ firstErr' = (firstErr \/ HelperFailed(entry))
    /\ UNCHANGED <<incoming, entry, left, sentTo, unpacked, piping, helping>>
-----------------------------------------------------------------------------
(* One volume's helper.                                                    *)

\* exec's copying: a write to a client that is gone ends it, as does the end.
Copies(v) ==
    /\ copier[v] = "copy"
    /\ \/ /\ slot[v] # "empty" /\ slot' = [slot EXCEPT ![v] = "empty"]
          /\ IF extractor[v] = "running"
             THEN /\ took' = IF slot[v] = "mark" THEN [took EXCEPT ![v].mark = TRUE]
                             ELSE [took EXCEPT ![v].entries = @ + 1]
                  /\ UNCHANGED copier
             ELSE copier' = [copier EXCEPT ![v] = "over"] /\ UNCHANGED took
       \/ /\ slot[v] = "empty" /\ writerEnd[v] # "open"
          /\ copier' = [copier EXCEPT ![v] = "over"] /\ UNCHANGED <<slot, took>>
    /\ UNCHANGED <<incoming, handling, writerEnd, readerClosed, extractor, joined>>

\* tar ends well only with its mark; it fails, or its ten minutes are over, at any time.
HelperEnds(v) ==
    /\ extractor[v] = "running"
    /\ \E end \in {"ok", "failed"} :
        /\ end = "ok" => took[v].mark
        /\ extractor' = [extractor EXCEPT ![v] = end]
    /\ UNCHANGED <<incoming, handling, piping, copier, took, joined>>

\* Bug: the writer is not told.
LeavesWriter(v) == readerClosed[v]
\* _ = reader.CloseWithError(err)
ClosesReader(v) == TRUE

PipeInReturns(v) ==
    /\ joined[v] = "none" /\ extractor[v] \in {"ok", "failed"} /\ copier[v] = "over"
    /\ joined' = [joined EXCEPT ![v] = extractor[v]]
    /\ readerClosed' = [readerClosed EXCEPT ![v] = ClosesReader(v)]
    /\ UNCHANGED <<incoming, handling, slot, writerEnd, copier, extractor, took>>

Pumps == PumpReceives \/ PumpWrote
Unpacks == WipeAll \/ NextEntry \/ EntryWritten \/ FinishNext \/ MarkWritten \/ HelperJoined
Helps(v) == Copies(v) \/ PipeInReturns(v)

RestorePipeNext == Pumps \/ Unpacks \/ \E v \in RestoreVolumes : Helps(v) \/ HelperEnds(v)

\* Goroutines run, a helper has a timeout, the control plane sends or breaks off.
RestorePipeFairness ==
    /\ WF_restoreVars(Pumps) /\ WF_restoreVars(Unpacks)
    /\ \A v \in RestoreVolumes : WF_restoreVars(Helps(v)) /\ WF_restoreVars(HelperEnds(v))

RestorePipeSpec == RestorePipeInit /\ [][RestorePipeNext]_restoreVars /\ RestorePipeFairness
-----------------------------------------------------------------------------
(* An archive that counts as unpacked was read to its mark, and each named *)
(* volume's helper was given all its entries and ended well: a helper that *)
(* died is seen although the pipes had taken everything written for it.    *)
RestoredIsWhole ==
    unpacked = "ok" =>
        /\ left = 0
        /\ \A v \in RestoreVolumes : extractor[v] = "ok" /\ took[v].entries = sentTo[v]

(* A restore ends, and the pump, the copying and the helpers with it: a    *)
(* helper that dies early leaves no write waiting for a reader, a handler  *)
(* that fails early leaves no helper waiting for input.                    *)
RestoreEnds ==
    loop = "next" ~>
        /\ loop = "returned" /\ relay = "over"
        /\ \A v \in RestoreVolumes : extractor[v] # "running" /\ copier[v] # "copy"

===============================================================================
