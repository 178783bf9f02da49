------------------------------ MODULE AgentLink ------------------------------
(***************************************************************************)
(* How the agent is reached (internal/link, internal/server/listener.go    *)
(* and linkaddresses.go, main.go): a link it opens itself to one of a      *)
(* saved pair of panel addresses, and, until the panel has it closed, a    *)
(* port of its own.                                                        *)
(*                                                                         *)
(* Run dials the pair it read, serves the link it gets, and waits before   *)
(* the next attempt; SetLinkAddresses replaces the pair under its feet.    *)
(* StopListening, taken over the link only, marks the agent as one without *)
(* a port and closes the port, whose Accept loop must not take that for    *)
(* the end of serving.  SIGTERM closes the link first, then drains.        *)
(***************************************************************************)
EXTENDS Naturals, FiniteSets

CONSTANTS Calls,       \* concurrent StopListening handlers
          Addresses,   \* panel addresses
          Pairs,       \* the pairs the panel sends
          NoAddress,   \* an empty address
          Free,        \* Port.mu is not held
          MaxBackoff,  \* doublings from minBackoff to maxBackoff
          MaxStarts    \* bound: starts of the agent process

NoPair == [primary |-> NoAddress, fallback |-> NoAddress]

ASSUME AgentLinkAssumption ==
    /\ NoAddress \notin Addresses
    /\ Free \notin Calls
    /\ Pairs \subseteq [primary : Addresses, fallback : Addresses \cup {NoAddress}]
    /\ MaxBackoff \in Nat /\ MaxStarts \in Nat

VARIABLES life,        \* main: down, serving, unlinking or draining
          starts,      \* processes started so far
          signalled,   \* SIGTERM has come
          addr,        \* --addr is given
          installUrl,  \* the call-home URL in bootstrap.env
          saved,       \* link-addresses.json
          noListener,  \* the no-listener file exists
          pair,        \* Store.a
          seen,        \* the pair Run read
          replaced,    \* the channel it read with it is closed
          run, at,     \* where link.Run is, and the address it dials or serves
          backoff,     \* doublings of the wait
          port,        \* the listener
          stopped, mu, \* Port.stopped, and who holds Port.mu
          accept,      \* the Accept loop of the port
          pc           \* StopListening handlers

process == <<life, starts, signalled>>
flags == <<addr, installUrl>>
store == <<saved, pair>>
dialer == <<seen, run, at, backoff>>
listener == <<noListener, port, stopped, mu, accept, pc>>
vars == <<process, flags, store, replaced, dialer, listener>>

\* What the store may hold; a pair the panel sends always has a primary.
Stored == [primary : Addresses \cup {NoAddress}, fallback : Addresses \cup {NoAddress}]

TypeOK ==
    /\ life \in {"down", "serving", "unlinking", "draining"}
    /\ starts \in 0..MaxStarts /\ signalled \in BOOLEAN
    /\ addr \in BOOLEAN /\ installUrl \in Addresses \cup {NoAddress}
    /\ saved \in Stored /\ pair \in Stored /\ seen \in Stored
    /\ noListener \in BOOLEAN /\ replaced \in BOOLEAN
    /\ run \in {"look", "primary", "fallback", "offer", "linked", "arm", "wait", "returned"}
    /\ at \in Addresses \cup {NoAddress}
    /\ backoff \in 0..MaxBackoff
    /\ port \in {"none", "open", "closed"}
    /\ stopped \in BOOLEAN /\ mu \in Calls \cup {Free}
    /\ accept \in {"accepting", "parked", "failed", "broken"}
    /\ pc \in [Calls -> {"idle", "asked", "stop", "mark", "close"}]

\* An enrolled agent before its first start with this version of the program.
Init ==
    /\ life = "down" /\ starts = 0 /\ signalled = FALSE
    /\ addr \in BOOLEAN
    /\ installUrl \in Addresses \cup {NoAddress}
    /\ saved \in Pairs \cup {NoPair}
    /\ addr \/ saved # NoPair \/ installUrl # NoAddress
    /\ noListener = FALSE
    /\ pair = NoPair /\ seen = NoPair /\ replaced = FALSE
    /\ run = "returned" /\ at = NoAddress /\ backoff = 0
    /\ port = "none" /\ stopped = FALSE /\ mu = Free /\ accept = "accepting"
    /\ pc = [c \in Calls |-> "idle"]

Up == life # "down"
-----------------------------------------------------------------------------
\* main: a new process.  linkAddresses saves the install URL of an agent that
\* has no pair yet; listen heeds the no-listener file; without a port and
\* without an address the process ends at once.
Start ==
    LET a == IF saved.primary # NoAddress THEN saved ELSE [NoPair EXCEPT !.primary = installUrl]
        listens == addr /\ ~noListener
        reachable == listens \/ a.primary # NoAddress
    IN  /\ life = "down"
        /\ starts < MaxStarts
        /\ starts' = starts + 1
        /\ signalled' = FALSE
        /\ saved' = a /\ pair' = a
        /\ life' = IF reachable THEN "serving" ELSE "down"
        /\ run' = IF reachable THEN "look" ELSE "returned"
        /\ seen' = NoPair /\ replaced' = FALSE /\ at' = NoAddress /\ backoff' = 0
        /\ port' = IF listens THEN "open" ELSE "none"
        /\ stopped' = FALSE /\ mu' = Free /\ accept' = "accepting"
        /\ pc' = [c \in Calls |-> "idle"]
        /\ UNCHANGED <<flags, noListener>>

\* The process is gone, for whatever reason.
Ends == life' = "down" /\ run' = "returned"

Crash ==
    /\ Up
    /\ starts < MaxStarts
    /\ Ends
    /\ UNCHANGED <<starts, signalled, flags, store, replaced, seen, at, backoff, listener>>

Signal ==
    /\ life = "serving" /\ ~signalled
    /\ signalled' = TRUE
    /\ UNCHANGED <<life, starts, flags, store, replaced, dialer, listener>>

\* closeLink, before anything is drained.
CloseLink ==
    /\ life = "serving" /\ signalled
    /\ life' = "unlinking"
    /\ UNCHANGED <<starts, signalled, flags, store, replaced, dialer, listener>>

\* <-unlinked
Unlinked ==
    /\ life = "unlinking" /\ run = "returned"
    /\ life' = "draining"
    /\ UNCHANGED <<starts, signalled, flags, store, replaced, dialer, listener>>

\* GracefulStop, or Stop after 25 seconds.
Drained ==
    /\ life = "draining"
    /\ Ends
    /\ UNCHANGED <<starts, signalled, flags, store, replaced, seen, at, backoff, listener>>

\* err := <-serveErr
ServeFails ==
    /\ life = "serving" /\ accept \in {"failed", "broken"}
    /\ Ends
    /\ UNCHANGED <<starts, signalled, flags, store, replaced, seen, at, backoff, listener>>
-----------------------------------------------------------------------------
\* Run's context: closeLink has been called.
Stopping == life \in {"unlinking", "draining"}

RunGoes(to) == run' = to /\ UNCHANGED <<process, flags, store, listener>>

\* Store.watch: the pair and its channel, under Store.mu.
Look ==
    /\ Up /\ run = "look"
    /\ seen' = pair
    /\ replaced' = FALSE
    /\ RunGoes(IF pair.primary = NoAddress THEN "arm" ELSE "primary")
    /\ at' = pair.primary
    /\ UNCHANGED backoff

HasFallback == seen.fallback # NoAddress /\ seen.fallback # seen.primary

\* dial: the WebSocket is up; or it is not, within dialTimeout, and attempt goes
\* on to the fallback unless Run is stopping.
Dial ==
    /\ Up /\ run \in {"primary", "fallback"}
    /\ \/ RunGoes("offer") /\ UNCHANGED at
       \/ /\ run = "primary" /\ HasFallback /\ ~Stopping
          /\ RunGoes("fallback")
          /\ at' = seen.fallback
       \/ /\ ~(run = "primary" /\ HasFallback) \/ Stopping
          /\ RunGoes(IF Stopping THEN "returned" ELSE "arm")
          /\ UNCHANGED at
    /\ UNCHANGED <<seen, replaced, backoff>>

\* serve: gRPC's Accept takes the link, or Run is stopping; both may be ready.
Offer ==
    /\ Up /\ run = "offer"
    /\ \/ RunGoes("linked")
       \/ Stopping /\ RunGoes("returned")
    /\ UNCHANGED <<seen, replaced, at, backoff>>

\* gRPC closed the link, a ping got no pong, or Run is stopping.  A link that
\* lasted starts the backoff over.
LinkEnds ==
    /\ Up /\ run = "linked"
    /\ backoff' \in {backoff, 0}
    /\ RunGoes(IF Stopping THEN "returned" ELSE "arm")
    /\ UNCHANGED <<seen, replaced, at>>

\* The wait begins: a timer runs only when there was something to dial.
Arm ==
    /\ Up /\ run = "arm"
    /\ RunGoes("wait")
    /\ UNCHANGED <<seen, replaced, at, backoff>>

\* Bug: doubled without a cap.
DoubledForEver == backoff + 1
Doubled == IF backoff < MaxBackoff THEN backoff + 1 ELSE MaxBackoff

WaitReplaced ==
    /\ Up /\ run = "wait" /\ replaced
    /\ RunGoes("look")
    /\ backoff' = 0
    /\ UNCHANGED <<seen, replaced, at>>

WaitOver ==
    /\ Up /\ run = "wait" /\ seen.primary # NoAddress
    /\ RunGoes("look")
    /\ backoff' = Doubled
    /\ UNCHANGED <<seen, replaced, at>>

\* Bug: the select of the wait leaves out the context.
WaitHeedsStopDialed == seen.primary # NoAddress
\* case <-ctx.Done()
WaitHeedsStop == TRUE

WaitStopped ==
    /\ Up /\ run = "wait" /\ Stopping /\ WaitHeedsStop
    /\ RunGoes("returned")
    /\ UNCHANGED <<seen, replaced, at, backoff>>
-----------------------------------------------------------------------------
\* A call reaches the agent over the link, or over a connection to its port:
\* those already made outlive the port.
Reachable == run = "linked" \/ port # "none"

\* Bug: only a Run that waits is told.
ReplacedNowWaiting == replaced \/ run = "wait"
ReplacedNow == TRUE

\* Store.Replace, whole, under Store.mu: saved first; a pair that cannot be
\* dialed, or not be saved, changes nothing.
SetLinkAddresses(p) ==
    /\ Up /\ Reachable
    /\ saved' = p /\ pair' = p
    /\ replaced' = ReplacedNow
    /\ UNCHANGED <<process, flags, dialer, listener>>

Goes(c, p) == pc' = [pc EXCEPT ![c] = p]

\* Bug: taken over the agent's own port as well.
OverLinkOrPort == Reachable
\* link.Over: the call came over the link.
OverLink == run = "linked"

StopListening(c) ==
    /\ Up /\ OverLink /\ pc[c] = "idle"
    /\ Goes(c, "asked")
    /\ UNCHANGED <<process, flags, store, replaced, dialer, noListener, port, stopped, mu, accept>>

\* Port.Listening, under Port.mu; nil for an agent without a port.
Listening == port # "none" /\ ~stopped

AskListening(c) ==
    /\ Up /\ pc[c] = "asked" /\ mu = Free
    /\ Goes(c, IF Listening THEN "stop" ELSE "idle")
    /\ UNCHANGED <<process, flags, store, replaced, dialer, noListener, port, stopped, mu, accept>>

\* Bug: the file is not written.
RememberedNot == noListener
\* os.WriteFile(NoListenerPath)
Remembered == TRUE

\* Port.Stop takes Port.mu; someone else may have stopped it by now, and the
\* file may not be writable.
Stop(c) ==
    /\ Up /\ pc[c] = "stop" /\ mu = Free
    /\ \/ ~stopped /\ mu' = c /\ noListener' = Remembered /\ Goes(c, "mark")
       \/ Goes(c, "idle") /\ UNCHANGED <<mu, noListener>>
    /\ UNCHANGED <<process, flags, store, replaced, dialer, port, stopped, accept>>

Mark(c) ==
    /\ Up /\ pc[c] = "mark"
    /\ stopped' = TRUE
    /\ Goes(c, "close")
    /\ UNCHANGED <<process, flags, store, replaced, dialer, noListener, port, mu, accept>>

ClosePort(c) ==
    /\ Up /\ pc[c] = "close"
    /\ port' = "closed"
    /\ mu' = Free
    /\ Goes(c, "idle")
    /\ UNCHANGED <<process, flags, store, replaced, dialer, noListener, stopped, accept>>

\* Bug: any error of the listener ends serving.
ParksNever == FALSE
\* !p.Listening()
Parks == ~Listening

\* Port.Accept fails as the listener is closed: it asks Listening and waits for
\* Close, or hands the error to grpc.Server.Serve; or the open listener itself
\* breaks down, an error that always goes there.
AcceptFails ==
    /\ life = "serving" /\ accept = "accepting" /\ mu = Free
    /\ \/ port = "closed" /\ accept' = IF Parks THEN "parked" ELSE "failed"
       \/ port = "open" /\ accept' = "broken"
    /\ UNCHANGED <<process, flags, store, replaced, dialer, noListener, port, stopped, mu, pc>>

RunSteps == Look \/ Dial \/ Offer \/ Arm \/ WaitReplaced \/ WaitOver \/ WaitStopped
MainSteps == CloseLink \/ Unlinked \/ Drained \/ ServeFails

Next ==
    \/ Start \/ Crash \/ Signal \/ MainSteps
    \/ RunSteps \/ LinkEnds
    \/ \E p \in Pairs : SetLinkAddresses(p)
    \/ \E c \in Calls :
        StopListening(c) \/ AskListening(c) \/ Stop(c) \/ Mark(c) \/ ClosePort(c)
    \/ AcceptFails

Spec == Init /\ [][Next]_vars

\* Goroutines run, a dial and the drain have a timeout, and a stopping Run closes
\* the link it serves.  Nothing else ends a link, and nobody has to call.
FairSpec ==
    /\ Spec
    /\ WF_vars(RunSteps) /\ WF_vars(MainSteps)
    /\ WF_vars(Stopping /\ LinkEnds)
-----------------------------------------------------------------------------
(* There is always a way in: an agent whose port is closed for good, or    *)
(* that has none, keeps an address to link to, on disk for the next start  *)
(* as in memory, so no start ends for want of one (StopListening, main).   *)
WayIn ==
    /\ starts > 0 /\ (noListener \/ ~addr) => saved.primary # NoAddress
    /\ Up /\ port # "open" => pair.primary # NoAddress

(* A port that was stopped is one the next start does not open, wherever   *)
(* the process dies (Port.Stop saves before it closes).                    *)
StopIsRemembered == stopped => noListener

(* Closing the port never looks like a failure of it, so it never ends the *)
(* agent (Port.Accept against Port.Stop, serveAgent).                      *)
ClosingKeepsServing == accept # "failed"

(* A pair that was replaced is dialed next, with no link in the way: no    *)
(* replacement is missed, also by a Run that has no address and so no      *)
(* timer (Store.watch, Run).                                               *)
NewPairIsDialed ==
    \A p \in Pairs :
        (Up /\ pair = p /\ seen # p) ~> (seen = p \/ pair # p \/ ~Up \/ run = "linked")

(* SIGTERM ends the agent, whatever Run is doing: it never waits for a     *)
(* panel (serveAgent, Run).                                                *)
SignalEndsIt == (Up /\ signalled) ~> ~Up

==============================================================================
