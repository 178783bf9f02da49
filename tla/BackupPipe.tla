------------------------------ MODULE BackupPipe ------------------------------
(***************************************************************************)
(* One backup on its way out (internal/server/backup_artifact.go,          *)
(* backup_project.go, backup_database.go): a helper container or a dump    *)
(* writes, the producing goroutine packs it through gzip and age into a    *)
(* pipe, and the sender reads that pipe and sends it on, to the control   *)
(* plane, to this host's store or to a bucket.                             *)
(*                                                                         *)
(* The pipes hold nothing: they and the packing between them carry one     *)
(* chunk at a time.  The last chunk of a volume is tar's end mark.         *)
(***************************************************************************)
EXTENDS Naturals

CONSTANTS Volumes,   \* of the project, each archived by a helper of its own
          Chunks     \* bound: chunks of each part

ASSUME BackupPipeAssumption == Volumes \in Nat /\ Chunks \in Nat \ {0}

VARIABLES
    source,          \* "project", or "database" with one dump
    dest,            \* "stream", "store" or "s3"
    part,            \* the part that is being packed
    producer,        \* the producing goroutine
    perr,            \* it has an error
    tool, made,      \* docker's client behind the part; chunks it wrote
    ends,            \* history: how the tool of each part ended
    carried,         \* a chunk is in the pipes
    pipe,            \* what the producer left at its end of the pipe
    readerGone,      \* pr.CloseWithError
    sender, taken,  \* the reading sender, chunks it read
    reply, uploaded, \* its result; chunks at the destination, once that is durable
    callCtx          \* the call's context

pipeVars == <<source, dest, part, producer, perr, tool, made, ends, carried, pipe, readerGone,
              sender, taken, reply, uploaded, callCtx>>

Parts == IF source = "database" THEN 1 ELSE Volumes + 1
Kind(p) == IF source = "database" THEN "dump" ELSE IF p <= Volumes THEN "volume" ELSE "files"
\* Of all parts, and gzip's trailer with age's last marker.
AllChunks == Parts * Chunks + 1

BackupPipeTypeOK ==
    /\ source \in {"project", "database"} /\ dest \in {"stream", "store", "s3"}
    /\ part \in 1..Volumes + 2 /\ made \in 0..Chunks
    /\ producer \in {"idle", "start", "pack", "close", "over"} /\ perr \in BOOLEAN
    /\ tool \in {"none", "running", "ok", "failed"}
    /\ ends \in [1..Volumes + 1 -> {"none", "ok", "failed"}]
    /\ {carried, readerGone} \subseteq BOOLEAN
    /\ pipe \in {"open", "eof", "error"}
    /\ sender \in {"idle", "read", "send", "commit", "returned"}
    /\ reply \in {"none", "ok", "failed"} /\ {taken, uploaded} \subseteq 0..AllChunks
    /\ callCtx \in {"live", "canceled"}

BackupPipeInit ==
    /\ source \in {"project", "database"} /\ dest \in {"stream", "store", "s3"}
    /\ part = 1 /\ producer = "idle" /\ perr = FALSE /\ tool = "none" /\ made = 0
    /\ ends = [p \in 1..Volumes + 1 |-> "none"]
    /\ carried = FALSE /\ pipe = "open" /\ readerGone = FALSE
    /\ sender = "idle" /\ taken = 0 /\ reply = "none" /\ uploaded = 0 /\ callCtx = "live"

\* writeArtifact: the goroutine is begun, the sender reads.
BeginBackup ==
    /\ producer = "idle" /\ producer' = "start" /\ sender' = "read"
    /\ UNCHANGED <<source, dest, part, perr, tool, made, ends, carried, pipe, readerGone,
                   taken, reply, uploaded, callCtx>>
-----------------------------------------------------------------------------
(* The producer and its tools.                                             *)

\* The tool of the next part, or an end: without a tool (a bad volume name, no
\* docker) there is an error, after the last part there is nothing to pack.
StartPart ==
    /\ producer = "start"
    /\ \/ part > Parts /\ producer' = "close" /\ UNCHANGED <<perr, tool, made>>
       \/ part <= Parts /\ producer' = "pack" /\ tool' = "running" /\ made' = 0 /\ UNCHANGED perr
       \/ part <= Parts /\ producer' = "close" /\ perr' = TRUE /\ UNCHANGED <<tool, made>>
    /\ UNCHANGED <<source, dest, part, ends, carried, pipe, readerGone, sender, taken, reply, uploaded, callCtx>>

ToolWrites ==
    /\ tool = "running" /\ made < Chunks /\ ~carried /\ ~readerGone
    /\ made' = made + 1 /\ carried' = TRUE
    /\ UNCHANGED <<source, dest, part, producer, perr, tool, ends, pipe, readerGone, sender, taken, reply,
                   uploaded, callCtx>>

\* It ends with a code, or is killed: by the step's timeout, the call's end, a
\* signal because nobody reads it.
ToolEnds ==
    /\ tool = "running"
    /\ \/ made = Chunks /\ tool' = "ok"
       \/ tool' = "failed"
    /\ UNCHANGED <<source, dest, part, producer, perr, made, ends, carried, pipe, readerGone, sender, taken,
                   reply, uploaded, callCtx>>

\* archiveVolume warns of a code after the end mark and fails before it; a dump
\* must end with code 0, a file must be read as long as it was.
PartFails ==
    \/ readerGone
    \/ tool = "failed" /\ (Kind(part) = "volume" => made < Chunks)

PartOver ==
    /\ producer = "pack" /\ tool \in {"ok", "failed"} /\ ~carried
    /\ ends' = [ends EXCEPT ![part] = tool] /\ tool' = "none"
    /\ perr' = PartFails
    /\ IF PartFails THEN producer' = "close" /\ UNCHANGED part
                    ELSE producer' = "start" /\ part' = part + 1
    /\ UNCHANGED <<source, dest, made, carried, pipe, readerGone, sender, taken, reply, uploaded, callCtx>>

\* Bug: the error of closing the chain replaces the producer's.
ClosedWithCloseError(cerr) == cerr
\* if cerr := aw.Close(); perr == nil { perr = cerr }
ClosedWith(cerr) == perr \/ cerr

\* aw.Close writes the trailers whether or not there was an error: what was packed
\* so far is a readable artifact, and only the pipe's error says that it is cut.
CloseChain ==
    /\ producer = "close" /\ ~carried
    /\ LET cerr == readerGone
       IN  /\ carried' = ~cerr
           /\ pipe' = IF ClosedWith(cerr) THEN "error" ELSE "eof"
    /\ producer' = "over"
    /\ UNCHANGED <<source, dest, part, perr, tool, made, ends, readerGone, sender, taken, reply, uploaded, callCtx>>

\* A write to the pipe whose reader is gone fails.
WriteFails ==
    /\ carried /\ readerGone /\ carried' = FALSE
    /\ UNCHANGED <<source, dest, part, producer, perr, tool, made, ends, pipe, readerGone, sender, taken,
                   reply, uploaded, callCtx>>
-----------------------------------------------------------------------------
(* The sender.                                                            *)

\* Bug: nobody tells the producer.
ReaderLeaves == FALSE
\* The deferred pr.CloseWithError(err).
ReaderLeft == TRUE

FailBackup == sender' = "returned" /\ reply' = "failed" /\ readerGone' = ReaderLeft

\* A chunk, the producer's error, or the end.
ReadPipe ==
    /\ sender = "read"
    /\ \/ carried /\ carried' = FALSE /\ taken' = taken + 1 /\ sender' = "send"
          /\ UNCHANGED <<reply, readerGone>>
       \/ ~carried /\ pipe = "eof" /\ sender' = "commit" /\ UNCHANGED <<carried, taken, reply, readerGone>>
       \/ ((~carried /\ pipe = "error") \/ (dest = "stream" /\ callCtx = "canceled"))
          /\ FailBackup /\ UNCHANGED <<carried, taken>>
    /\ UNCHANGED <<source, dest, part, producer, perr, tool, made, ends, pipe, uploaded, callCtx>>

\* To the stream, the partial file or the bucket's next part.
SendChunk ==
    /\ sender = "send"
    /\ \/ sender' = "read" /\ UNCHANGED <<reply, readerGone>>
       \/ FailBackup
    /\ UNCHANGED <<source, dest, part, producer, perr, tool, made, ends, carried, pipe, taken, uploaded, callCtx>>

\* The rename of storeWrite, the completed upload; the stream has it all.
CommitBackup ==
    /\ sender = "commit"
    /\ \/ sender' = "returned" /\ reply' = "ok" /\ uploaded' = taken /\ UNCHANGED readerGone
       \/ dest # "stream" /\ FailBackup /\ UNCHANGED uploaded
    /\ UNCHANGED <<source, dest, part, producer, perr, tool, made, ends, carried, pipe, taken, callCtx>>

CallCanceled ==
    /\ sender \notin {"idle", "returned"} /\ callCtx = "live" /\ callCtx' = "canceled"
    /\ UNCHANGED <<source, dest, part, producer, perr, tool, made, ends, carried, pipe, readerGone, sender,
                   taken, reply, uploaded>>

Produces == StartPart \/ PartOver \/ CloseChain \/ WriteFails
Handles == ReadPipe \/ SendChunk \/ CommitBackup

BackupPipeNext == BeginBackup \/ Produces \/ ToolWrites \/ ToolEnds \/ Handles \/ CallCanceled

\* Goroutines run; each tool has a timeout; a destination takes a chunk or fails.
BackupPipeFairness ==
    WF_pipeVars(Produces) /\ WF_pipeVars(ToolEnds) /\ WF_pipeVars(Handles)

BackupPipeSpec == BackupPipeInit /\ [][BackupPipeNext]_pipeVars /\ BackupPipeFairness
-----------------------------------------------------------------------------
(* A backup that is answered ok has every part whole at its destination: a *)
(* dump that failed, a volume cut before its end or a file that could not  *)
(* be read never become a good-looking artifact, although the chain is     *)
(* closed properly in every case (writeArtifact).                          *)
BackupIsWhole ==
    reply = "ok" =>
        /\ uploaded = AllChunks
        /\ \A p \in 1..Parts : Kind(p) # "volume" => ends[p] = "ok"

(* Every backup is over, answered, and its goroutine with it, whether the  *)
(* tool hangs, the producer fails or the destination does.                 *)
BackupEnds == producer # "idle" ~> producer = "over" /\ sender = "returned"

===============================================================================
