----------------------------- MODULE Readiness -----------------------------
(***************************************************************************)
(* The ready check that ends a deploy (internal/server/ready_check.go,     *)
(* ready_state.go, ready_ports.go): polls of docker inspect and of the     *)
(* listening sockets of each container, judged until the app counts as up, *)
(* is known to have failed, or the timeout passes.                         *)
(*                                                                         *)
(* Time is a clock of whole units; the windows of the code are constants.  *)
(* The containers, which start, listen, die and are started again, are the *)
(* environment.  All of them were made by this deploy.                     *)
(***************************************************************************)
EXTENDS Naturals, FiniteSets

CONSTANTS Containers,   \* the containers of a stack
          Routed,       \* those of the service traffic goes to, and an app's only container
          OneShots,     \* those docker does not start again
          HealthChecks, \* those with a health check of their own
          Settle, Quick,      \* readySettle, quickSettle
          PortGrace, Worker,  \* readyPortGrace, readySettle + workerGrace
          RestartLimit,       \* stackRestartLimit
          ReadyTimeout,       \* the request's
          Deaths        \* bound: times a container dies or is started from outside

ASSUME ReadinessAssumption ==
    /\ Routed \subseteq Containers /\ OneShots \subseteq Containers /\ HealthChecks \subseteq Containers
    /\ {Settle, Quick, PortGrace, Worker, RestartLimit, ReadyTimeout, Deaths} \subseteq Nat
    /\ Quick < Settle

VARIABLES
    box,        \* what docker knows of each container
    clock,      \* since the first poll
    deaths,
    again,      \* containers started again after the check knew them
    ours,       \* the containers of this deploy
    isStack,    \* a compose stack, or the one container of an app
    port,       \* no port is routed to, one is, or the app must listen on it
    first,      \* readyCheck.first: the base each container is compared with
    opened,     \* readyCheck.opened: since when another public port was seen
    loopback,   \* readyCheck.loopback: since when only the loopback was
    verdict

containers == <<box, clock, deaths, again>>
request == <<ours, isStack, port>>
check == <<first, opened, loopback, verdict>>
readyVars == <<containers, request, check>>

NotYet == ReadyTimeout + 2
Ok == {"listens", "observed", "loopback", "worker", "noPort"}

ReadyInit ==
    /\ box = [c \in Containers |->
                 [status |-> "created", starts |-> 0, started |-> 0, restarts |-> 0, oom |-> FALSE,
                  clean |-> FALSE, health |-> "none", listens |-> "none"]]
    /\ clock = 0 /\ deaths = 0 /\ again = {}
    /\ isStack \in BOOLEAN
    /\ IF isStack THEN ours = Containers ELSE \E c \in Routed : ours = {c}
    /\ port \in {"none", "wanted", "required"}
    /\ first = [c \in Containers |-> [known |-> FALSE, starts |-> 0, restarts |-> 0]]
    /\ opened = NotYet /\ loopback = NotYet
    /\ verdict = "none"
-----------------------------------------------------------------------------
(* The containers.                                                         *)

Running(c) == box[c].status = "running"
Up(c) == clock - box[c].started

StartsNow(c) ==
    box' = [box EXCEPT ![c].status = "running", ![c].starts = @ + 1, ![c].started = clock,
                       ![c].oom = FALSE, ![c].listens = "none",
                       ![c].health = IF c \in HealthChecks THEN "starting" ELSE "none"]

FirstStart(c) ==
    /\ box[c].status = "created" /\ StartsNow(c)
    /\ UNCHANGED <<clock, deaths, again, request, check>>

\* By itself or killed for its memory; docker starts it again unless it is a one-shot.
Dies(c) ==
    /\ Running(c) /\ deaths < Deaths /\ deaths' = deaths + 1
    /\ \E oom, clean \in BOOLEAN :
        /\ ~(oom /\ clean)
        /\ box' = [box EXCEPT ![c].oom = oom, ![c].clean = clean, ![c].listens = "none",
                              ![c].status = IF c \in OneShots THEN "exited" ELSE "restarting",
                              ![c].restarts = IF c \in OneShots THEN @ ELSE @ + 1]
    /\ UNCHANGED <<clock, again, request, check>>

\* A stack's containers are new: every restart of theirs counts.
DockerRestarts(c) ==
    /\ box[c].status = "restarting" /\ StartsNow(c)
    /\ again' = IF first[c].known \/ isStack THEN again \cup {c} ELSE again
    /\ UNCHANGED <<clock, deaths, request, check>>

\* docker restart by hand, which begins the restart count anew.
RestartedByHand(c) ==
    /\ Running(c) /\ deaths < Deaths /\ deaths' = deaths + 1
    /\ box' = [box EXCEPT ![c].starts = @ + 1, ![c].started = clock, ![c].restarts = 0,
                          ![c].listens = "none",
                          ![c].health = IF c \in HealthChecks THEN "starting" ELSE "none"]
    /\ again' = IF first[c].starts > 0 THEN again \cup {c} ELSE again \ {c}
    /\ UNCHANGED <<clock, request, check>>

Listens(c) ==
    /\ Running(c) /\ c \in Routed
    /\ \E l \in {"none", "port", "other", "loop"} : box' = [box EXCEPT ![c].listens = l]
    /\ UNCHANGED <<clock, deaths, again, request, check>>

HealthTurns(c) ==
    /\ Running(c) /\ c \in HealthChecks
    /\ \E h \in {"healthy", "unhealthy"} : box' = [box EXCEPT ![c].health = h]
    /\ UNCHANGED <<clock, deaths, again, request, check>>

ClockTicks ==
    /\ clock <= ReadyTimeout /\ clock' = clock + 1
    /\ UNCHANGED <<box, deaths, again, request, check>>
-----------------------------------------------------------------------------
(* One poll: sampleReady and readyCheck.observe.                           *)

Seen(c) == [known |-> TRUE, starts |-> box[c].starts, restarts |-> IF isStack THEN 0 ELSE box[c].restarts]

\* Bug: the base moves along with the samples.
BaseMoves(c) == Seen(c)
\* A container first seen before its start is compared with its start.
Base(c) ==
    IF ~first[c].known THEN Seen(c)
    ELSE IF first[c].starts = 0 THEN [first[c] EXCEPT !.starts = box[c].starts] ELSE first[c]

Restarted(c) ==
    \/ box[c].status = "restarting"
    \/ box[c].restarts > Base(c).restarts
    \/ box[c].starts # Base(c).starts

\* A service of a stack may crash a few times while a sibling boots.
TooOften(c) == ~isStack \/ box[c].restarts >= Base(c).restarts + RestartLimit

\* It counts once it has stayed up since its last start.
Settling(c) ==
    Restarted(c) /\ (box[c].status = "restarting" \/ (Running(c) /\ Up(c) < Settle))

FinishedOneShot(c) == box[c].status = "exited" /\ isStack /\ box[c].clean /\ c \in OneShots

Fails(c) ==
    \/ Restarted(c) /\ (box[c].oom \/ TooOften(c))
    \/ ~Settling(c) /\ (box[c].status = "exited" \/ box[c].health = "unhealthy") /\ ~FinishedOneShot(c)

\* A first start that serves or passes its health check proves itself sooner.
SettleFor(c) ==
    IF ~Restarted(c) /\ (box[c].health = "healthy" \/ box[c].listens \in {"port", "other"})
    THEN Quick ELSE Settle

Settled(c) ==
    FinishedOneShot(c) \/ (Running(c) /\ box[c].health # "starting" /\ Up(c) >= SettleFor(c))

\* What the routed containers ps listen on decides, the expected port first.
PortVerdict(ps) ==
    LET heard == {box[c].listens : c \in ps}
    IN  IF "port" \in heard THEN "listens"
        ELSE IF "other" \in heard
             THEN IF clock >= opened' + PortGrace THEN "observed" ELSE "none"
        ELSE IF "loop" \in heard
             THEN IF clock < loopback' + PortGrace THEN "none"
                  ELSE IF port = "required" THEN "failed" ELSE "loopback"
        ELSE IF port # "required" /\ \A c \in ps : Up(c) >= Worker THEN "worker" ELSE "none"

\* expire ends a wait that nothing has decided.
Expired(v) == IF v = "none" /\ clock >= ReadyTimeout THEN "expired" ELSE v

Poll ==
    LET ps == {c \in Routed \cap ours : ~FinishedOneShot(c)}
    IN  /\ verdict = "none"
        /\ first' = [c \in Containers |-> Base(c)]
        /\ opened' = IF opened = NotYet /\ \E c \in ps : box[c].listens = "other" THEN clock ELSE opened
        /\ loopback' = IF loopback = NotYet /\ \E c \in ps : box[c].listens = "loop"
                       THEN clock ELSE loopback
        /\ verdict' = Expired(IF \E c \in ours : Fails(c) THEN "failed"
                              ELSE IF \E c \in ours : ~Settled(c) THEN "none"
                              ELSE IF port = "none" THEN "noPort"
                              ELSE IF ps = {} THEN "none" ELSE PortVerdict(ps))
        /\ UNCHANGED <<containers, request>>

\* docker does not answer: no sample.
PollNothing ==
    /\ verdict = "none"
    /\ verdict' = Expired("none")
    /\ UNCHANGED <<containers, request, first, opened, loopback>>

CancelDeploy ==
    /\ verdict = "none" /\ verdict' = "cancelled"
    /\ UNCHANGED <<containers, request, first, opened, loopback>>

ReadyNext ==
    /\ verdict = "none"
    /\ \/ Poll \/ PollNothing \/ CancelDeploy \/ ClockTicks
       \/ \E c \in ours :
             \/ FirstStart(c) \/ Dies(c) \/ DockerRestarts(c) \/ RestartedByHand(c)
             \/ Listens(c) \/ HealthTurns(c)

ReadySpec == ReadyInit /\ [][ReadyNext]_readyVars
-----------------------------------------------------------------------------
\* Parts of VerdictIsRight.
(* A deploy that is called ready has every container up: none that was     *)
(* started again since the check knew it, except in a stack, where it has  *)
(* stayed up through the whole settle window since; and no health check    *)
(* that fails or was not passed ("holds the deploy until every container   *)
(* has stayed up through the settle window").                              *)
ReadyMeansStayedUp ==
    verdict \in Ok =>
        \A c \in ours :
            \/ FinishedOneShot(c)
            \/ /\ Running(c) /\ Up(c) >= Quick
               /\ box[c].health \notin {"starting", "unhealthy"}
               /\ c \in again => isStack /\ Up(c) >= Settle

(* A deploy is failed before its timeout for a reason of the app's only: a *)
(* container started again, stopped or unhealthy, or for longer than the   *)
(* grace only the loopback listened on; the first start of a container     *)
(* seen before it is no restart.                                           *)
FailsForACause ==
    verdict = "failed" =>
        \/ \E c \in ours :
              \/ c \in again
              \/ box[c].status \in {"restarting", "exited"}
              \/ box[c].health = "unhealthy"
        \/ port = "required" /\ \E c \in Routed \cap ours : box[c].listens = "loop"

(* The verdict of the check is right both ways.                            *)
VerdictIsRight == ReadyMeansStayedUp /\ FailsForACause

=============================================================================
