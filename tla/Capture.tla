------------------------------- MODULE Capture -------------------------------
(***************************************************************************)
(* The host's side of a screenshot (internal/server/capture.go,            *)
(* capture_headroom.go, internal/capture/egress.go): one browser at a time *)
(* runs in a container without a network, and the connections it makes go  *)
(* through a socket that the call serves while it runs.                    *)
(*                                                                         *)
(* A docker command whose call gave up, or that is past its deadline, has  *)
(* its container removed (DockerCommand), if the daemon answers; a browser *)
(* that is left runs on for as long as it likes.                           *)
(***************************************************************************)
EXTENDS Naturals, FiniteSets

CONSTANTS Captures,  \* calls of CaptureScreenshot
          Tunnels,   \* connections the browsers make
          NoCapture

ASSUME CaptureAssumption == NoCapture \notin Captures

VARIABLES
    shot,           \* where each call is
    asking,         \* calls whose client is there
    captureSlot,    \* the call that has it
    image,          \* the browser's image is on this host
    sockDir,        \* calls with a directory and a socket in it
    stopped,        \* calls whose ectx is canceled by stop
    answer,         \* each call's: "none", "error" or "result"
    serving,        \* calls whose egress accepts connections
    browser,        \* each call's container: "none", "running" or "over"
    orphans,        \* browsers that docker did not remove
    tunnel, owner,  \* each connection: where its handler is, the call whose egress has it
    open,           \* which of its ends are open: "client", "up"
    afterFuncs      \* connections with context.AfterFunc

handlers == <<shot, asking, captureSlot, image, sockDir, stopped, answer>>
boxes == <<browser, orphans>>
tunnels == <<tunnel, owner, open, afterFuncs>>
captureVars == <<handlers, serving, boxes, tunnels>>

CaptureInit ==
    /\ shot = [c \in Captures |-> "idle"] /\ asking = {} /\ captureSlot = NoCapture
    /\ image \in BOOLEAN /\ sockDir = {} /\ stopped = {} /\ serving = {}
    /\ answer = [c \in Captures |-> "none"]
    /\ browser = [c \in Captures |-> "none"] /\ orphans = {}
    /\ tunnel = [t \in Tunnels |-> "none"] /\ owner = [t \in Tunnels |-> NoCapture]
    /\ open = [t \in Tunnels |-> {}] /\ afterFuncs = {}

\* ectx: the call's own context, or stop, has ended it.
Ended(c) == c \in stopped \/ c \notin asking
-----------------------------------------------------------------------------
(* CaptureScreenshot.                                                      *)

Goes(c, from, to) == shot[c] = from /\ shot' = [shot EXCEPT ![c] = to]
Answers(c, a) == answer' = [answer EXCEPT ![c] = a]

Ask(c) ==
    /\ Goes(c, "idle", "slot") /\ asking' = asking \cup {c}
    /\ UNCHANGED <<captureSlot, image, sockDir, stopped, answer, serving, boxes, tunnels>>

ClientLeaves(c) ==
    /\ c \in asking /\ shot[c] # "over" /\ asking' = asking \ {c}
    /\ UNCHANGED <<shot, captureSlot, image, sockDir, stopped, answer, serving, boxes, tunnels>>

TakeSlot(c) ==
    /\ captureSlot = NoCapture /\ captureSlot' = c /\ Goes(c, "slot", "headroom")
    /\ UNCHANGED <<asking, image, sockDir, stopped, answer, serving, boxes, tunnels>>

GiveUp(c) ==
    /\ c \notin asking /\ Goes(c, "slot", "over") /\ Answers(c, "error")
    /\ UNCHANGED <<asking, captureSlot, image, sockDir, stopped, serving, boxes, tunnels>>

\* Memory and CPU, the image and its pull, the directory.
Prepares(c) ==
    /\ \/ Goes(c, "headroom", "image") /\ UNCHANGED <<image, sockDir>>
       \/ Goes(c, "image", "dir") /\ image' = TRUE /\ UNCHANGED sockDir
       \/ Goes(c, "dir", "listen") /\ sockDir' = sockDir \cup {c} /\ UNCHANGED image
    /\ UNCHANGED <<asking, captureSlot, stopped, answer, serving, boxes, tunnels>>

PreparesNot(c) ==
    /\ \/ \E at \in {"headroom", "dir"} : Goes(c, at, "release")
       \/ ~image /\ Goes(c, "image", "release")
       \/ Goes(c, "listen", "remove")
    /\ Answers(c, "error")
    /\ UNCHANGED <<asking, captureSlot, image, sockDir, stopped, serving, boxes, tunnels>>

Serve(c) ==
    /\ Goes(c, "listen", "run") /\ serving' = serving \cup {c}
    /\ UNCHANGED <<asking, captureSlot, image, sockDir, stopped, answer, boxes, tunnels>>

\* PipeThrough, after it: an output that captureResponse accepts, or not.
RunEnds(c) ==
    /\ browser[c] = "over" /\ Goes(c, "run", "stop")
    /\ \E a \in {"result", "error"} : Answers(c, a)
    /\ UNCHANGED <<asking, captureSlot, image, sockDir, stopped, serving, boxes, tunnels>>

\* The container takes the browser's ends along.
Closed(c) == [t \in Tunnels |-> IF owner[t] = c THEN open[t] \ {"client"} ELSE open[t]]

\* The call's context or the run's deadline ends it, and docker removes the container or
\* does not answer; or the client loses the daemon while the browser runs.
RunIsCut(c) ==
    /\ Goes(c, "run", "stop") /\ Answers(c, "error")
    /\ IF browser[c] = "running"
       THEN \/ /\ browser' = [browser EXCEPT ![c] = "over"] /\ open' = Closed(c)
               /\ UNCHANGED orphans
            \/ orphans' = orphans \cup {c} /\ UNCHANGED <<browser, open>>
       ELSE UNCHANGED <<boxes, open>>
    /\ UNCHANGED <<asking, captureSlot, image, sockDir, stopped, serving, tunnel, owner, afterFuncs>>

\* stop, and what was deferred in turn.
Stop(c) ==
    /\ Goes(c, "stop", "remove") /\ stopped' = stopped \cup {c}
    /\ UNCHANGED <<asking, captureSlot, image, sockDir, answer, serving, boxes, tunnels>>

RemoveDir(c) ==
    /\ Goes(c, "remove", "release") /\ sockDir' = sockDir \ {c}
    /\ UNCHANGED <<asking, captureSlot, image, stopped, answer, serving, boxes, tunnels>>

ReleaseSlot(c) ==
    /\ Goes(c, "release", "over") /\ captureSlot' = NoCapture
    /\ UNCHANGED <<asking, image, sockDir, stopped, answer, serving, boxes, tunnels>>

Handle(c) ==
    \/ TakeSlot(c) \/ GiveUp(c) \/ Prepares(c) \/ PreparesNot(c) \/ Serve(c)
    \/ RunEnds(c) \/ RunIsCut(c) \/ Stop(c) \/ RemoveDir(c) \/ ReleaseSlot(c)
-----------------------------------------------------------------------------
(* Egress.Serve and tunnel.                                                *)

\* srv.Close: the listener, and the connections that are not hijacked.
StopServing(c) ==
    /\ c \in serving /\ Ended(c) /\ serving' = serving \ {c}
    /\ open' = [t \in Tunnels |-> IF tunnel[t] \in {"dial", "hijack"} THEN Closed(c)[t] ELSE open[t]]
    /\ UNCHANGED <<handlers, boxes, tunnel, owner, afterFuncs>>

Connect(t, c) ==
    /\ tunnel[t] = "none" /\ browser[c] = "running" /\ c \in serving
    /\ tunnel' = [tunnel EXCEPT ![t] = "dial"] /\ owner' = [owner EXCEPT ![t] = c]
    /\ open' = [open EXCEPT ![t] = {"client"}]
    /\ UNCHANGED <<handlers, serving, boxes, afterFuncs>>

Moves(t, from, to) == tunnel[t] = from /\ tunnel' = [tunnel EXCEPT ![t] = to]

\* The request's context is the egress's.
Dialed(t) ==
    /\ ~Ended(owner[t]) /\ Moves(t, "dial", "hijack")
    /\ open' = [open EXCEPT ![t] = @ \cup {"up"}]
    /\ UNCHANGED <<handlers, serving, boxes, owner, afterFuncs>>

\* The dial fails, or the hijack.
Declined(t) ==
    /\ \E at \in {"dial", "hijack"} : Moves(t, at, "over")
    /\ open' = [open EXCEPT ![t] = {}]
    /\ UNCHANGED <<handlers, serving, boxes, owner, afterFuncs>>

Hijacked(t) ==
    /\ Moves(t, "hijack", "hijacked")
    /\ UNCHANGED <<handlers, serving, boxes, owner, open, afterFuncs>>

\* Bug: nothing ends a tunnel whose ends are both open.
Unwatched(t) == afterFuncs
\* context.AfterFunc
Watched(t) == afterFuncs \cup {t}

Splices(t) ==
    /\ Moves(t, "hijacked", "splice") /\ afterFuncs' = Watched(t)
    /\ UNCHANGED <<handlers, serving, boxes, owner, open>>

CutByContext(t) ==
    /\ t \in afterFuncs /\ Ended(owner[t]) /\ afterFuncs' = afterFuncs \ {t}
    /\ open' = [open EXCEPT ![t] = {}]
    /\ UNCHANGED <<handlers, serving, boxes, tunnel, owner>>

\* Either direction is over; the deferred closes.
SpliceEnds(t) ==
    /\ Cardinality(open[t]) < 2 /\ Moves(t, "splice", "over")
    /\ open' = [open EXCEPT ![t] = {}] /\ afterFuncs' = afterFuncs \ {t}
    /\ UNCHANGED <<handlers, serving, boxes, owner>>

Carry(t) == Dialed(t) \/ Declined(t) \/ Hijacked(t) \/ Splices(t) \/ SpliceEnds(t)
-----------------------------------------------------------------------------
(* The browser, and what it talks to.                                      *)

BrowserStarts(c) ==
    /\ shot[c] = "run" /\ browser[c] = "none" /\ browser' = [browser EXCEPT ![c] = "running"]
    /\ UNCHANGED <<handlers, serving, orphans, tunnels>>

BrowserEnds(c) ==
    /\ browser[c] = "running" /\ browser' = [browser EXCEPT ![c] = "over"]
    /\ open' = Closed(c)
    /\ UNCHANGED <<handlers, serving, orphans, tunnel, owner, afterFuncs>>

OneEndCloses(t) ==
    /\ \E e \in open[t] : open' = [open EXCEPT ![t] = @ \ {e}]
    /\ UNCHANGED <<handlers, serving, boxes, tunnel, owner, afterFuncs>>

CaptureNext ==
    \/ \E c \in Captures :
          \/ Ask(c) \/ ClientLeaves(c) \/ Handle(c) \/ StopServing(c)
          \/ BrowserStarts(c) \/ BrowserEnds(c)
          \/ \E t \in Tunnels : Connect(t, c)
    \/ \E t \in Tunnels : Carry(t) \/ CutByContext(t) \/ OneEndCloses(t)

CaptureSpec == CaptureInit /\ [][CaptureNext]_captureVars
-----------------------------------------------------------------------------
(* "One capture per host": a browser runs only while its call has the slot *)
(* and its socket is there, but for one docker could not remove; and a     *)
(* call that is over has given up what it took.                            *)
OneBrowser ==
    \A c \in Captures :
       /\ browser[c] = "running" /\ c \notin orphans => captureSlot = c /\ c \in sockDir
       /\ shot[c] = "over" => captureSlot # c /\ c \notin sockDir /\ answer[c] # "none"

\* What the agent's goroutines do by themselves; docker commands and dials have deadlines.
OfItself ==
    \/ \E c \in Captures : Handle(c) \/ StopServing(c)
    \/ \E t \in Tunnels : Carry(t) \/ CutByContext(t)

\* The same by the guards of those steps.
MayGoOn ==
    \/ \E c \in Captures : shot[c] \notin {"idle", "slot", "over"}
    \/ \E c \in Captures : shot[c] = "slot" /\ (captureSlot = NoCapture \/ c \notin asking)
    \/ \E c \in serving : Ended(c)
    \/ \E t \in Tunnels : tunnel[t] \in {"dial", "hijack", "hijacked"}
    \/ \E t \in Tunnels : tunnel[t] = "splice" /\ Cardinality(open[t]) < 2
    \/ \E t \in afterFuncs : Ended(owner[t])

\* Where nothing goes on, every call has ended and no connection is left.
EndsAreReached ==
    MayGoOn \/ /\ \A c \in Captures : shot[c] \in {"idle", "over"}
               /\ \A t \in Tunnels : tunnel[t] \in {"none", "over"} /\ open[t] = {}

(* Every call answers, one that waits for the slot in its turn, and egress *)
(* "closes every tunnel it opened" when its call ends, though a browser    *)
(* that was left and a server that says nothing keep both ends: short of   *)
(* that there is always a step, and each goes on.                          *)
CapturesEnd == (ENABLED OfItself <=> MayGoOn) /\ EndsAreReached

=============================================================================
