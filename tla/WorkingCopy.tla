------------------------------ MODULE WorkingCopy ------------------------------
(***************************************************************************)
(* The working copy of a stack that is built from its source (internal/    *)
(* server/compose_source.go): a deploy moves it to a fresh checkout entry  *)
(* by entry, while the services of the running stack keep their own files  *)
(* in it.  The list of what was synced says what a later one may remove.   *)
(*                                                                         *)
(* The tree is a folder, a file in it and a file beside it.  A source has  *)
(* contents, folders and links that stay inside or lead out.  A sync holds *)
(* the stack's lock, so there is one at a time.                            *)
(***************************************************************************)
EXTENDS Naturals, Sequences

CONSTANTS Contents,         \* what a file of the source may hold
          SourceTrees,      \* checkouts a deploy may come with
          MaxSyncs, MaxOwn, \* bounds on deploys and on the services' steps
          CopyCrashes       \* how often the agent may be killed in one

Walk == <<"d", "d/f", "g">>   \* the order of filepath.WalkDir
Paths == {"d", "d/f", "g"}
Under(p) == IF p = "d" THEN {"d/f"} ELSE {}

ASSUME WorkingCopyAssumption ==
    /\ SourceTrees \subseteq [Paths -> Contents \cup {"none", "dir", "in", "out"}]
    /\ \A t \in SourceTrees : t["d/f"] # "none" => t["d"] = "dir"
    /\ Contents \cap {"none", "dir", "in", "out", "data", "cut"} = {}
    /\ {MaxSyncs, MaxOwn, CopyCrashes} \subseteq Nat

VARIABLES
    copy, srcList,       \* on disk: the working copy, and <slug>.src.list
    running,             \* the stack's services run and may write
    src, git, sub,       \* of the deploy: its checkout, its kind, its project folder
    syncAt,              \* where it is in syncWorkingCopy
    walked, synced,      \* how far the walk is, and what it has taken
    copied,              \* the last sync to begin was reported whole
    wasListed, touched,  \* history: the list it found, what the services did since
    data,                \* history: files of the services that no source has
    syncs, own, copyCrashes

workVars == <<copy, srcList, running, src, git, sub, syncAt, walked, synced, copied,
              wasListed, touched, data, syncs, own, copyCrashes>>

order == <<src, git, sub, wasListed>>
walk == <<walked, synced>>
services == <<touched, data>>
counts == <<syncs, own, copyCrashes>>

WorkTypeOK ==
    /\ copy \in [Paths -> Contents \cup {"none", "dir", "in", "out", "data", "cut"}]
    /\ {srcList, synced, wasListed, touched, data} \subseteq SUBSET Paths
    /\ syncAt \in {"idle", "walk", "prune", "list", "strip", "unlist"} /\ walked \in 0..3
    /\ {running, git, copied} \subseteq BOOLEAN

WorkInit ==
    /\ copy = [p \in Paths |-> "none"] /\ srcList = {} /\ running = FALSE
    /\ src = [p \in Paths |-> "none"] /\ git = FALSE /\ sub = "" /\ syncAt = "idle"
    /\ walked = 0 /\ synced = {} /\ copied = FALSE /\ wasListed = {} /\ touched = {} /\ data = {}
    /\ syncs = 0 /\ own = 0 /\ copyCrashes = 0
-----------------------------------------------------------------------------
IsLink(n) == n \in {"in", "out"}
IsFile(n) == n \notin {"none", "dir", "in", "out"}

\* updateWorkingCopy, under the lock.  git has no empty folders, an upload may.
BeginSync(t) ==
    /\ syncAt = "idle" /\ syncs < MaxSyncs /\ syncs' = syncs + 1
    /\ src' = t /\ git' \in BOOLEAN /\ (git' => (t["d"] = "dir") = (t["d/f"] # "none"))
    /\ sub' \in IF git' THEN {"", "d"} ELSE {""}
    /\ syncAt' = "walk" /\ walked' = 0 /\ synced' = {} /\ copied' = FALSE
    /\ wasListed' = srcList /\ touched' = {} /\ data' = {p \in data : t[p] = "none"}
    /\ UNCHANGED <<copy, srcList, running, own, copyCrashes>>

\* What the copy has there and a sync does not replace: a folder where the source
\* has a file, a folder that is not empty where it has a link; and an entry whose
\* folder has gone meanwhile cannot be made.
Blocked(p) ==
    \/ IsFile(src[p]) /\ copy[p] = "dir"
    \/ IsLink(src[p]) /\ copy[p] = "dir" /\ \E q \in Under(p) : copy[q] # "none"
    \/ src[p] # "none" /\ p \in Under("d") /\ copy["d"] # "dir"

\* What a failure leaves of an entry: untouched, removed to make room for the new
\* one, or a file truncated and not yet written, or written and not yet chmodded.
Leftover(p) ==
    {copy[p]} \cup IF Blocked(p) \/ copy[p] = src[p] THEN {}
                   ELSE IF IsFile(src[p]) THEN {"cut", src[p]} \cup (IF IsLink(copy[p]) THEN {"none"} ELSE {})
                   ELSE {"none"}

Here == Walk[walked + 1]
Takes(p) == synced' = IF IsFile(src[p]) \/ IsLink(src[p]) THEN synced \cup {p} ELSE synced

\* syncDir, syncFile, syncLink: one entry of the walk.
SyncEntry ==
    /\ syncAt = "walk" /\ walked < Len(Walk) /\ ~ Blocked(Here) /\ Takes(Here)
    /\ copy' = [copy EXCEPT ![Here] = IF src[Here] = "none" THEN @ ELSE src[Here]]
    /\ walked' = walked + 1
    /\ UNCHANGED <<srcList, running, order, syncAt, copied, services, counts>>

EntryFails ==
    /\ syncAt = "walk" /\ walked < Len(Walk) /\ src[Here] # "none" /\ Takes(Here)
    /\ \E n \in Leftover(Here) : copy' = [copy EXCEPT ![Here] = n]
    /\ syncAt' = "idle"
    /\ UNCHANGED <<srcList, running, order, walked, copied, services, counts>>

EndWalk ==
    /\ syncAt = "walk" /\ walked = Len(Walk) /\ syncAt' = IF git THEN "prune" ELSE "list"
    /\ UNCHANGED <<copy, srcList, running, order, walk, copied, services, counts>>

\* What an earlier sync took and this one did not, unless it is a folder by now.
Pruned == {p \in srcList \ synced : copy[p] # "dir"}

Prune ==
    /\ syncAt = "prune" /\ syncAt' = "list"
    /\ copy' = [p \in Paths |-> IF p \in Pruned THEN "none" ELSE copy[p]]
    /\ UNCHANGED <<srcList, running, order, walk, copied, services, counts>>

\* writeFileAtomic: the list is the old one or the new one.
WriteList ==
    /\ syncAt = "list"
    /\ \/ srcList' = synced /\ syncAt' = "strip"
       \/ UNCHANGED srcList /\ syncAt' = "idle"
    /\ UNCHANGED <<copy, running, order, walk, copied, services, counts>>

\* Bug: what lies in a folder is not looked at.
EscapingAtTop == {p \in Paths \ Under("d") : copy[p] = "out"}
\* Links of the copy that lead out, whoever made them.
Escaping == {p \in Paths : copy[p] = "out"}

\* stripWorkingCopyLinks, and the check that the project's folder is there.
StripLinks ==
    /\ syncAt = "strip" /\ syncAt' = "idle"
    /\ \E left \in SUBSET Escaping :
          /\ copy' = [p \in Paths |-> IF p \in Escaping \ left THEN "none" ELSE copy[p]]
          /\ copied' = (left = {} /\ (sub = "d" => copy["d"] = "dir"))
    /\ running' = (running \/ copied')
    /\ UNCHANGED <<srcList, order, walk, services, counts>>

\* removeWorkingCopy, of DestroyStack: the copy, then the list.
RemoveCopy ==
    /\ syncAt = "idle" /\ syncAt' = "unlist" /\ running' = FALSE
    /\ copy' = [p \in Paths |-> "none"] /\ data' = {} /\ copied' = FALSE
    /\ UNCHANGED <<srcList, order, walk, touched, counts>>

RemoveSrcList ==
    /\ syncAt = "unlist" /\ syncAt' = "idle" /\ srcList' = {}
    /\ UNCHANGED <<copy, running, order, walk, copied, services, counts>>
-----------------------------------------------------------------------------
\* The agent is killed; a file may be half written.
CopyCrash ==
    /\ syncAt # "idle" /\ copyCrashes < CopyCrashes /\ copyCrashes' = copyCrashes + 1
    /\ syncAt' = "idle"
    /\ IF syncAt = "walk" /\ walked < Len(Walk) /\ src[Here] # "none"
       THEN \E n \in Leftover(Here) : copy' = [copy EXCEPT ![Here] = n]
       ELSE UNCHANGED copy
    /\ UNCHANGED <<srcList, running, order, walk, copied, services, syncs, own>>

\* The services write a file of their own, make the folder, or remove something,
\* whatever the agent is doing.
ServiceDoes(p) ==
    /\ running /\ own < MaxOwn /\ own' = own + 1
    /\ \/ /\ copy[p] \notin {"dir", "in", "out", "data"} /\ (p \in Under("d") => copy["d"] = "dir")
          /\ copy' = [copy EXCEPT ![p] = "data"] /\ touched' = touched \cup {p}
          /\ data' = IF p \in srcList \/ (syncAt # "idle" /\ src[p] # "none") THEN data ELSE data \cup {p}
       \/ /\ p = "d" /\ copy[p] = "none" /\ copy' = [copy EXCEPT ![p] = "dir"]
          /\ touched' = touched \cup {p} /\ UNCHANGED data
       \/ /\ copy[p] # "none"
          /\ copy' = [q \in Paths |-> IF q = p \/ q \in Under(p) THEN "none" ELSE copy[q]]
          /\ touched' = touched \cup {p} \cup Under(p) /\ data' = data \ ({p} \cup Under(p))
    /\ UNCHANGED <<srcList, running, order, syncAt, walk, copied, syncs, copyCrashes>>

WorkNext ==
    \/ \E t \in SourceTrees : BeginSync(t)
    \/ SyncEntry \/ EntryFails \/ EndWalk \/ Prune \/ WriteList \/ StripLinks
    \/ RemoveCopy \/ RemoveSrcList \/ CopyCrash \/ \E p \in Paths : ServiceDoes(p)

WorkSpec == WorkInit /\ [][WorkNext]_workVars
-----------------------------------------------------------------------------
(* A sync that was reported whole left the source in the copy, whatever an *)
(* earlier one that failed or was killed had left there, without what the  *)
(* sync before it had taken and without links that lead out; except where  *)
(* the services intervened.  And a file they made that no source has is    *)
(* never lost ("Files it never wrote are kept").                           *)
SourceIsCopied ==
    /\ copied => \A p \in Paths \ touched :
          /\ src[p] \notin {"none", "out"} => copy[p] = src[p]
          /\ src[p] = "out" => copy[p] = "none"
          /\ src[p] = "none" /\ git /\ p \in wasListed => copy[p] \in {"none", "dir"}
    /\ \A p \in data : copy[p] = "data"

===============================================================================
