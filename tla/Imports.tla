------------------------------- MODULE Imports -------------------------------
(***************************************************************************)
(* Copies from another host (internal/server/volumecopy.go,                *)
(* hostpathcopy.go, filescopy.go, imagecopy.go).                           *)
(*                                                                         *)
(* A volume, a directory, one file or a service's files arrive as a        *)
(* stream of parts.  The destination is wiped just before the first part,  *)
(* a tar in a helper container, or for a service's files the handler,      *)
(* unpacks what is pumped to it, and an import that fails after the wipe   *)
(* removes the helper and empties the destination.  Stopping the docker    *)
(* client does not stop the container it started.                          *)
(*                                                                         *)
(* Images arrive as a docker save archive and are told apart from what the *)
(* host had by their tags.  Two copies into one destination at once are    *)
(* left to the caller.                                                     *)
(***************************************************************************)
EXTENDS Naturals, FiniteSets

CONSTANTS Parts,      \* parts of the stream
          ImageCopies,\* calls of ImportImage
          Tags,       \* deplo/... image tags
          RefOf,      \* RefOf[i]: the tag call i declares
          NoCall

ASSUME ImportsAssumption ==
    Parts \in Nat \ {0} /\ RefOf \in [ImageCopies -> Tags] /\ NoCall \notin ImageCopies

VARIABLES
    kind, wipeFirst,   \* what is imported, and the header's flag
    cpc,               \* where the handler is
    got,               \* parts received
    pipe,              \* parts pumped and not unpacked yet
    target,            \* what the destination holds: "old", and parts
    staging,           \* parts in the directory a single file is unpacked in
    helper,            \* the container: none, alive, orphan (its client is gone), gone
    unpacked,          \* how PipeIn, or the handler's own unpacking, ended
    wiped, wipeErr, streamErr,
    stuck,             \* docker could not remove the helper
    answer,
    tags,              \* images of the host
    loading,           \* who holds imageLoadMu
    ipc, before, imageReply \* each image import: its step, first listing and answer

copying == <<kind, wipeFirst, cpc, got, pipe, target, staging, helper, unpacked, wiped, wipeErr,
             streamErr, stuck, answer>>
imaging == <<tags, loading, ipc, before, imageReply>>
importVars == <<copying, imaging>>

ImportsInit ==
    /\ kind = "none" /\ wipeFirst = FALSE /\ cpc = "idle"
    /\ got = 0 /\ pipe = {} /\ target = {0} /\ staging = {}
    /\ helper = "none" /\ unpacked = "no"
    /\ wiped = FALSE /\ wipeErr = FALSE /\ streamErr = FALSE /\ stuck = FALSE
    /\ answer = "none"
    /\ tags \in SUBSET Tags /\ loading = NoCall
    /\ ipc = [i \in ImageCopies |-> "idle"]
    /\ before = [i \in ImageCopies |-> {}]
    /\ imageReply = [i \in ImageCopies |-> "none"]

Old == 0
CGoes(p) == cpc' = p
-----------------------------------------------------------------------------
(* ImportVolume, ImportHostPath, ImportFiles.                              *)

BeginImport ==
    /\ cpc = "idle"
    /\ kind' \in {"volume", "hostPath", "file", "files"} /\ wipeFirst' \in BOOLEAN
    /\ helper' = IF kind' = "files" THEN "none" ELSE "alive"
    /\ CGoes("receive")
    /\ UNCHANGED <<got, pipe, target, staging, unpacked, wiped, wipeErr, streamErr, stuck, answer, imaging>>

\* Nothing is wiped for a single file: it replaces the old one when it is whole.
MustWipe == wipeFirst /\ kind # "file" /\ ~wiped

ReceivePart ==
    /\ cpc = "receive" /\ got < Parts
    /\ got' = got + 1
    /\ CGoes(IF MustWipe THEN "wipe" ELSE "pump")
    /\ UNCHANGED <<kind, wipeFirst, pipe, target, staging, helper, unpacked, wiped, wipeErr, streamErr,
                   stuck, answer, imaging>>

\* wipeVolume, wipeHostPath or RemoveAll; one that fails may have removed some of it.
Wipe ==
    /\ cpc = "wipe"
    /\ \/ CGoes("pump") /\ target' = {} /\ wiped' = TRUE /\ UNCHANGED wipeErr
       \/ CGoes("close") /\ target' \in SUBSET target /\ wipeErr' = TRUE /\ UNCHANGED wiped
    /\ UNCHANGED <<kind, wipeFirst, got, pipe, staging, helper, unpacked, streamErr, stuck, answer, imaging>>

\* The pump's write fails once tar has; what is left of a service's files is read
\* and thrown away.
Pump ==
    /\ cpc = "pump"
    /\ IF unpacked = "failed" /\ kind # "files"
       THEN CGoes("close") /\ streamErr' = TRUE /\ UNCHANGED pipe
       ELSE CGoes("receive") /\ pipe' = pipe \cup {got} /\ UNCHANGED streamErr
    /\ UNCHANGED <<kind, wipeFirst, got, target, staging, helper, unpacked, wiped, wipeErr, stuck, answer,
                   imaging>>

\* The sender is done, or broke off; a stream that stops early does not decompress.
StreamOver ==
    /\ cpc = "receive" /\ CGoes("close")
    /\ streamErr' \in {TRUE, got < Parts}
    /\ UNCHANGED <<kind, wipeFirst, got, pipe, target, staging, helper, unpacked, wiped, wipeErr, stuck,
                   answer, imaging>>

Unpack ==
    /\ helper \in {"alive", "orphan"} \/ (kind = "files" /\ unpacked = "no")
    /\ \E p \in pipe :
        /\ pipe' = pipe \ {p}
        /\ IF kind = "file" THEN staging' = staging \cup {p} /\ UNCHANGED target
                            ELSE target' = target \cup {p} /\ UNCHANGED staging
    /\ UNCHANGED <<kind, wipeFirst, cpc, got, helper, unpacked, wiped, wipeErr, streamErr, stuck, answer,
                   imaging>>

\* The pipe is closed and read to its end, or tar fails, or its client is killed:
\* the container is then on its own, with what it was sent.
Unpacked ==
    /\ unpacked = "no" /\ cpc \notin {"idle", "done"}
    /\ \/ /\ cpc = "close" /\ pipe = {}
          /\ unpacked' = "ok" /\ helper' = IF helper = "none" THEN "none" ELSE "gone"
       \/ unpacked' = "failed" /\ helper' = IF helper = "none" THEN "none" ELSE "gone"
       \/ helper = "alive" /\ unpacked' = "failed" /\ helper' = "orphan"
    /\ UNCHANGED <<kind, wipeFirst, cpc, got, pipe, target, staging, wiped, wipeErr, streamErr, stuck,
                   answer, imaging>>

ImportFailed == wipeErr \/ streamErr \/ unpacked = "failed" \/ got = 0

\* A failed wipe of a service's files is only reported.
MustEmpty == wiped \/ (wipeErr /\ kind # "files")

Judge ==
    /\ cpc = "close" /\ unpacked # "no"
    /\ IF ~ImportFailed
       THEN IF kind = "file" THEN CGoes("move") /\ UNCHANGED answer
            ELSE CGoes("done") /\ answer' = "ok"
       ELSE IF MustEmpty THEN CGoes("remove") /\ UNCHANGED answer
            ELSE CGoes("done") /\ answer' = "failed"
    /\ UNCHANGED <<kind, wipeFirst, got, pipe, target, staging, helper, unpacked, wiped, wipeErr, streamErr,
                   stuck, imaging>>

\* moveStagedFile.
MoveStaged ==
    /\ cpc = "move" /\ CGoes("done")
    /\ \/ answer' = "ok" /\ target' = staging
       \/ answer' = "failed" /\ target' \in {target, {}}
    /\ staging' = {}
    /\ UNCHANGED <<kind, wipeFirst, got, pipe, helper, unpacked, wiped, wipeErr, streamErr, stuck, imaging>>

\* Bug: the helper is taken to be gone with its client.
HelperLeft == helper
\* docker rm -f.
HelperRemoved == IF helper = "none" THEN "none" ELSE "gone"

\* abandonImport: first the helper; that docker may not remove it is not looked at.
RemoveHelper ==
    /\ cpc = "remove" /\ CGoes("empty")
    /\ \/ helper' = HelperRemoved /\ UNCHANGED stuck
       \/ helper = "orphan" /\ stuck' = TRUE /\ UNCHANGED helper
    /\ UNCHANGED <<kind, wipeFirst, got, pipe, target, staging, unpacked, wiped, wipeErr, streamErr, answer,
                   imaging>>

EmptyTarget ==
    /\ cpc = "empty" /\ CGoes("done")
    /\ \/ answer' = "emptied" /\ target' = {}
       \/ answer' = "incomplete" /\ UNCHANGED target
    /\ UNCHANGED <<kind, wipeFirst, got, pipe, staging, helper, unpacked, wiped, wipeErr, streamErr, stuck,
                   imaging>>
-----------------------------------------------------------------------------
(* ImportImage.                                                            *)

IGoes(i, p) == ipc' = [ipc EXCEPT ![i] = p]
Replies(i, r) ==
    IGoes(i, "done") /\ imageReply' = [imageReply EXCEPT ![i] = r] /\ loading' = NoCall

\* Bug: imports run side by side.
LoadsAtOnce(i) == TRUE
\* imageLoadMu is free.
MayLoad(i) == loading = NoCall

\* The lock is held while the header and the archive are received.
LockLoad(i) ==
    /\ ipc[i] = "idle" /\ MayLoad(i)
    /\ loading' = i /\ IGoes(i, "list")
    /\ UNCHANGED <<tags, before, imageReply, copying>>

ListBefore(i) ==
    /\ ipc[i] = "list"
    /\ \/ Replies(i, "failed") /\ UNCHANGED before
       \/ IGoes(i, "load") /\ before' = [before EXCEPT ![i] = tags] /\ UNCHANGED <<imageReply, loading>>
    /\ UNCHANGED <<tags, copying>>

\* docker image load: what it loaded of a broken stream stays.
LoadArchive(i) ==
    /\ ipc[i] = "load"
    /\ \E a \in SUBSET Tags :
        /\ \/ tags' = tags \cup a /\ IGoes(i, "listAfter") /\ UNCHANGED <<imageReply, loading>>
           \/ tags' \in {tags, tags \cup a} /\ Replies(i, "failed")
    /\ UNCHANGED <<before, copying>>

\* The tags that appeared meanwhile, the declared one aside.
Unexpected(i) == tags \ (before[i] \cup {RefOf[i]})

ListAfter(i) ==
    /\ ipc[i] = "listAfter"
    /\ \/ Replies(i, "failed") /\ UNCHANGED tags
       \/ /\ Unexpected(i) # {} /\ Replies(i, "refused")
          /\ tags' = tags \ Unexpected(i)
       \/ /\ Unexpected(i) = {} /\ UNCHANGED tags
          /\ Replies(i, IF RefOf[i] \in tags THEN "ok" ELSE "failed")
    /\ UNCHANGED <<before, copying>>

\* A build of this host tags its image.
BuildTags(t) ==
    /\ t \notin tags /\ tags' = tags \cup {t}
    /\ UNCHANGED <<loading, ipc, before, imageReply, copying>>

CopyNext ==
    \/ BeginImport \/ ReceivePart \/ Wipe \/ Pump \/ StreamOver \/ Unpack \/ Unpacked \/ Judge
    \/ MoveStaged \/ RemoveHelper \/ EmptyTarget

ImageNext ==
    \/ \E i \in ImageCopies : LockLoad(i) \/ ListBefore(i) \/ LoadArchive(i) \/ ListAfter(i)
    \/ \E t \in Tags : BuildTags(t)

ImportsNext == CopyNext \/ ImageNext

ImportsSpec == ImportsInit /\ [][ImportsNext]_importVars
-----------------------------------------------------------------------------
(* An import that answers ok left all of the stream and, if it was to      *)
(* wipe, nothing else; one that says the destination was emptied left      *)
(* nothing, and nothing appears there later, so long as docker removes the *)
(* helper; any other failure of one that was to wipe changed nothing.      *)
NothingHalfCopied ==
    /\ answer = "ok" => 1..Parts \subseteq target /\ (wipeFirst => Old \notin target)
    /\ answer = "emptied" /\ ~stuck => target = {}
    /\ answer = "failed" /\ wipeFirst /\ kind \in {"volume", "hostPath"} => target = {Old}

(* An image whose import answered ok is on the host: no other import takes *)
(* it for a tag of its own archive and removes it (imageLoadMu).           *)
ImportedImageIsThere == \A i \in ImageCopies : imageReply[i] = "ok" => RefOf[i] \in tags

(* The answer of an import says what is there, of data and of images.      *)
ImportsAreWhole == NothingHalfCopied /\ ImportedImageIsThere

=============================================================================
