------------------------------- MODULE Roster -------------------------------
(***************************************************************************)
(* The agent's roster of the containers Deplo manages                      *)
(* (internal/server/roster.go): one goroutine reads docker's events and    *)
(* marks the roster dirty, another rebuilds it from docker ps and docker   *)
(* inspect after a mark, or at the latest when the backstop timer fires,   *)
(* and the metrics read what was published last.  Out-of-memory kills are  *)
(* counted from the events alone.                                          *)
(*                                                                         *)
(* Docker and the connection to its event stream are the environment; a    *)
(* container's id is never given out twice.                                *)
(***************************************************************************)
EXTENDS Naturals, Sequences, FiniteSets

CONSTANTS Ids,       \* container ids
          Churns,    \* bound: things that happen to containers
          Breaks     \* bound: times the event stream ends

VARIABLES
    state,       \* docker: each container's state
    churns, breaks,
    stream,      \* the docker events child: "down", "up", or "ended" and not yet marked
    events,      \* what it printed and streamEvents has not read
    dirty,       \* the channel, of capacity 1
    rloop,       \* where rebuildLoop, or the first rebuild, is
    rows,        \* what docker ps returned
    entries,     \* the published roster: the state of each container in it
    ooms,        \* roster.ooms
    unlisted,    \* an event was heard and no rebuild has asked for the list since
    kills        \* kills heard of a container while the roster had it

daemon == <<state, churns, breaks>>
feed == <<stream, events>>
published == <<entries, ooms>>
rosterVars == <<daemon, feed, dirty, rloop, rows, published, unlisted, kills>>

RosterInit ==
    /\ state = [c \in Ids |-> "none"]
    /\ churns = 0 /\ breaks = 0
    /\ stream = "down" /\ events = <<>>
    /\ dirty = FALSE /\ rloop = "list"
    /\ rows = [c \in {} |-> "none"]
    /\ entries = [c \in {} |-> "none"]
    /\ ooms = [c \in Ids |-> 0] /\ kills = [c \in Ids |-> 0]
    /\ unlisted = FALSE
-----------------------------------------------------------------------------
(* Docker.                                                                 *)

\* start, die, destroy, or an out-of-memory kill: the events streamEvents asks for.
Churn(c) ==
    /\ churns < Churns /\ churns' = churns + 1
    /\ \E act \in {"start", "die", "destroy", "oom"} :
        /\ \/ act = "start" /\ state[c] \in {"none", "exited"} /\ state' = [state EXCEPT ![c] = "running"]
           \/ act = "die" /\ state[c] = "running" /\ state' = [state EXCEPT ![c] = "exited"]
           \/ act = "destroy" /\ state[c] = "exited" /\ state' = [state EXCEPT ![c] = "gone"]
           \/ act = "oom" /\ state[c] = "running" /\ UNCHANGED state
        /\ events' = IF stream = "up" THEN Append(events, [act |-> act, id |-> c]) ELSE events
    /\ UNCHANGED <<breaks, stream, dirty, rloop, rows, published, unlisted, kills>>
-----------------------------------------------------------------------------
(* watchEvents.                                                            *)

Connect ==
    /\ stream = "down" /\ stream' = "up"
    /\ UNCHANGED <<daemon, events, dirty, rloop, rows, published, unlisted, kills>>

\* One line of the stream: a kill is counted, anything else marks the roster.
Hear ==
    LET e == Head(events)
    IN  /\ stream = "up" /\ events # <<>>
        /\ events' = Tail(events)
        /\ IF e.act = "oom"
           THEN /\ ooms' = [ooms EXCEPT ![e.id] = @ + 1]
                /\ kills' = IF e.id \in DOMAIN entries THEN [kills EXCEPT ![e.id] = @ + 1] ELSE kills
                /\ UNCHANGED <<dirty, unlisted>>
           ELSE dirty' = TRUE /\ unlisted' = TRUE /\ UNCHANGED <<ooms, kills>>
        /\ UNCHANGED <<daemon, stream, rloop, rows, entries>>

\* The child ends, or prints what the scanner cannot hold.
StreamEndsEarly ==
    /\ stream = "up" /\ breaks < Breaks /\ breaks' = breaks + 1
    /\ stream' = "ended" /\ events' = <<>>
    /\ UNCHANGED <<state, churns, dirty, rloop, rows, published, unlisted, kills>>

\* What happened meanwhile is not known: the roster is dirty.
MarkAfterEnd ==
    /\ stream = "ended" /\ stream' = "down"
    /\ dirty' = TRUE
    /\ UNCHANGED <<daemon, events, rloop, rows, published, unlisted, kills>>
-----------------------------------------------------------------------------
(* rebuildLoop and rebuild.                                                *)

LoopGoes(p) == rloop' = p
LoopOnly == UNCHANGED <<daemon, feed, kills>>

TakeMark ==
    /\ rloop = "idle" /\ dirty
    /\ LoopGoes("debounce") /\ dirty' = FALSE
    /\ UNCHANGED <<rows, published, unlisted>> /\ LoopOnly

\* Events heard during the debounce are one rebuild.
Debounced ==
    /\ rloop = "debounce"
    /\ LoopGoes("list") /\ dirty' = FALSE
    /\ UNCHANGED <<rows, published, unlisted>> /\ LoopOnly

\* Bug: no ticker.
NeverTicks == FALSE
\* The ticker's channel is ready whenever a minute has passed.
Ticks == rloop = "idle"

Backstop ==
    /\ Ticks
    /\ LoopGoes("list")
    /\ UNCHANGED <<dirty, rows, published, unlisted>> /\ LoopOnly

\* Bug: the marks are dropped when the rebuild is over and not before it.
MarkDropped == FALSE
\* A mark made since the loop took one stays.
MarkStays == dirty

Exists(c) == state[c] \in {"running", "exited"}

\* docker ps.
List ==
    /\ rloop = "list" /\ LoopGoes("inspect")
    /\ rows' = [c \in {c \in Ids : Exists(c)} |-> state[c]]
    /\ unlisted' = FALSE
    /\ UNCHANGED <<dirty, published>> /\ LoopOnly

\* docker inspect: a container that is gone by now keeps its row.
Inspect ==
    /\ rloop = "inspect" /\ LoopGoes("publish")
    /\ rows' = [c \in DOMAIN rows |-> IF Exists(c) THEN state[c] ELSE rows[c]]
    /\ UNCHANGED <<dirty, published, unlisted>> /\ LoopOnly

\* docker does not answer: the last roster stays.
RebuildFails ==
    /\ rloop \in {"list", "inspect"} /\ LoopGoes("idle")
    /\ unlisted' = FALSE /\ dirty' = MarkStays
    /\ UNCHANGED <<rows, published>> /\ LoopOnly

\* Counts of containers that are not in the new roster are dropped.
OomsKept == [c \in Ids |-> IF c \in DOMAIN rows THEN ooms[c] ELSE 0]

Publish ==
    /\ rloop = "publish" /\ LoopGoes("idle")
    /\ entries' = rows
    /\ ooms' = OomsKept
    /\ dirty' = MarkStays
    /\ UNCHANGED <<rows, unlisted>> /\ LoopOnly

Rebuild == List \/ Inspect \/ Publish

RosterNext ==
    \/ \E c \in Ids : Churn(c)
    \/ Connect \/ Hear \/ StreamEndsEarly \/ MarkAfterEnd
    \/ TakeMark \/ Debounced \/ Backstop \/ Rebuild \/ RebuildFails
-----------------------------------------------------------------------------
\* A mark that is out reaches the next list.
HeardIsListed == unlisted => dirty \/ rloop \in {"debounce", "list"}

\* A kill heard of a container the roster had stays counted.
KillsStayCounted == \A c \in DOMAIN entries : ooms[c] >= kills[c]

(* What the event stream told is not lost between the channel, the         *)
(* debounce and a rebuild under way: every event is followed by a rebuild  *)
(* that asks docker for the containers after it, without waiting for the   *)
(* backstop.  When docker does not answer it, the mark is used up and the  *)
(* backstop, or the next event, makes up for it (RosterCatchesUp).         *)
(* And an oom is counted through every rebuild for as long as the roster   *)
(* has its container ("Docker clears State.OOMKilled on the next start, so *)
(* the `oom` event is the only reliable record").                          *)
NothingHeardIsLost == HeardIsListed /\ KillsStayCounted

(* No event is lost on the way, and once nothing more happens to the       *)
(* containers the roster shows them as they are, whatever part of the      *)
(* events was lost with the stream.                                        *)
RosterCatchesUp ==
    /\ []NothingHeardIsLost
    /\ <>[](entries = [c \in {c \in Ids : Exists(c)} |-> state[c]])

=============================================================================
