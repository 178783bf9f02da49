---------------------------- MODULE PageCapture ----------------------------
(***************************************************************************)
(* The browser's side of a screenshot (internal/capture: browser.go,       *)
(* consent.go, blank.go), inside its container: the page is loaded, given  *)
(* time to settle and pictured in the light and the dark, while goroutines *)
(* follow its events, stop it from navigating on and answer its dialogs.   *)
(* Each wait has a timeout of its own, and all of them a common deadline.  *)
(*                                                                         *)
(* Time goes by in units.  A page that answers does so at once; a frozen   *)
(* one does not answer until it thaws.  When its network is idle, and what *)
(* a picture shows, is the page's choice.                                  *)
(***************************************************************************)
EXTENDS Naturals

CONSTANTS BrowserDeadline, NavTimeout, IdleTimeout, CallTimeout,
          ConsentGrace,  \* with settleDelay
          NavigationsAfterLoad,
          MaxAsks        \* bound: documents the page asks for

ASSUME PageCaptureAssumption ==
    /\ {BrowserDeadline, NavTimeout, IdleTimeout, CallTimeout, ConsentGrace} \subseteq Nat \ {0}
    /\ {NavigationsAfterLoad, MaxAsks} \subseteq Nat

VARIABLES
    now, until,       \* the clock; when the present wait times out
    pageAt,           \* where capture is
    doc,              \* the main frame's document: its status, "blank" before the first
    domReady,         \* one of them was parsed
    request,          \* for the next one: "none", "paused" by fetch, or "sent"
    frozen,           \* "no", "now" or "was"
    docStatus,        \* the status watchDocuments has seen
    loaded, laterDocs,
    popup,            \* a banner was found that is not dismissed
    flat, hasDark,    \* the thumbnail has one colour; there is a dark picture
    status, outcome,  \* the result
    asks, commits     \* history: documents asked for; those that began after loaded

timers == <<now, until>>
thePage == <<doc, domReady, request, frozen, asks>>
watched == <<docStatus, loaded, laterDocs>>
shots == <<popup, flat, hasDark>>
verdict == <<status, outcome>>
pageVars == <<timers, pageAt, thePage, watched, shots, verdict, commits>>

PageInit ==
    /\ now = 0 /\ until = BrowserDeadline /\ pageAt = "prepare"
    /\ doc = "blank" /\ domReady = FALSE
    /\ request = "none" /\ frozen = "no" /\ asks = 1
    /\ docStatus = "none" /\ loaded = FALSE /\ laterDocs = 0
    /\ popup = FALSE /\ flat = FALSE /\ hasDark = FALSE
    /\ status = "none" /\ outcome = "none" /\ commits = 0
-----------------------------------------------------------------------------
(* The run.                                                                *)

\* A wait under a timeout of its own, which the common deadline bounds.
Await(at, d) ==
    /\ pageAt' = at /\ UNCHANGED now
    /\ until' = IF now + d < BrowserDeadline THEN now + d ELSE BrowserDeadline
TimedOut == now = until
Answered == frozen # "now"

Conclude(o) == outcome' = o /\ pageAt' = "done" /\ UNCHANGED timers

\* Bug: an error that does not wrap the deadline's is no timeout.
FailureByError(err) == IF err = "deadline" THEN "timeout" ELSE "unreachable"
\* failure: the error, or the context it is given, is past its deadline.
Failure(err) ==
    LET over == IF pageAt = "navigate" THEN until ELSE BrowserDeadline
    IN  IF err = "deadline" \/ now = over THEN "timeout" ELSE "unreachable"

\* prepare, and listenSplice before it; the navigation's request is paused.
Prepared ==
    /\ pageAt = "prepare" /\ Answered /\ Await("navigate", NavTimeout)
    /\ request' = "paused"
    /\ UNCHANGED <<doc, domReady, frozen, asks, watched, shots, verdict, commits>>

\* The calls whose failure is the run's: they time out, or the browser is gone.
CallFails ==
    /\ pageAt \in {"prepare", "navigate", "light", "thumb", "scheme"}
    /\ \E err \in {"deadline", "gone"} :
          /\ err = "deadline" => TimedOut
          /\ Conclude(Failure(err))
    /\ UNCHANGED <<thePage, watched, shots, status, commits>>

Navigated ==
    /\ pageAt = "navigate" /\ doc # "blank" /\ Answered /\ pageAt' = "parse"
    /\ UNCHANGED <<timers, thePage, watched, shots, verdict, commits>>

\* nav.ErrorText
NavigationErrors ==
    /\ pageAt = "navigate" /\ doc = "blank" /\ request = "sent" /\ Conclude("unreachable")
    /\ UNCHANGED <<thePage, watched, shots, status, commits>>

\* Bug: an idle network is waited for as long as the page may take.
WaitWithoutTimeout == Await("idle", BrowserDeadline)
WaitIdle == Await("idle", IdleTimeout)

\* The DOM, not the load event; a status that was not seen counts as 200.
Parsed ==
    /\ pageAt = "parse" /\ domReady /\ loaded' = TRUE /\ status' = docStatus
    /\ IF docStatus = "error" THEN Conclude("http_error")
       ELSE WaitIdle /\ UNCHANGED outcome
    /\ UNCHANGED <<thePage, docStatus, laterDocs, shots, commits>>

NeverParsed ==
    /\ pageAt = "parse" /\ TimedOut /\ Conclude("timeout")
    /\ UNCHANGED <<thePage, watched, shots, status, commits>>

\* The network is idle, or the page is late.
Idle ==
    /\ pageAt = "idle" /\ Await("settle", ConsentGrace) /\ popup' \in BOOLEAN
    /\ UNCHANGED <<thePage, watched, flat, hasDark, verdict, commits>>

\* settleDelay, and consent.wait for a banner that was found.
Settled ==
    /\ pageAt = "settle" /\ (~popup \/ TimedOut) /\ Await("light", CallTimeout)
    /\ UNCHANGED <<thePage, watched, shots, verdict, commits>>

TakeLight ==
    /\ pageAt = "light" /\ Answered /\ Await("thumb", CallTimeout)
    /\ UNCHANGED <<thePage, watched, shots, verdict, commits>>

\* isBlank
TakeThumb ==
    /\ pageAt = "thumb" /\ Answered /\ flat' \in BOOLEAN
    /\ IF flat' THEN Conclude("blank") ELSE Await("scheme", CallTimeout) /\ UNCHANGED outcome
    /\ UNCHANGED <<thePage, watched, popup, hasDark, status, commits>>

\* setScheme
SwitchScheme ==
    /\ pageAt = "scheme" /\ Answered /\ Await("dark", CallTimeout)
    /\ UNCHANGED <<thePage, watched, shots, verdict, commits>>

TakeDark ==
    /\ pageAt = "dark" /\ Answered /\ hasDark' = TRUE /\ Await("compare", CallTimeout)
    /\ UNCHANGED <<thePage, watched, popup, flat, verdict, commits>>

\* Without a dark picture, or with one that looks the same, there is the light one.
LightOnly ==
    /\ pageAt \in {"dark", "compare"} /\ hasDark' = FALSE /\ Conclude("ok")
    /\ UNCHANGED <<thePage, watched, popup, flat, status, commits>>

\* looksSame
BothTaken ==
    /\ pageAt = "compare" /\ Answered /\ Conclude("ok")
    /\ UNCHANGED <<thePage, watched, shots, status, commits>>

Steps ==
    \/ Prepared \/ CallFails \/ Navigated \/ NavigationErrors \/ Parsed \/ NeverParsed
    \/ Idle \/ Settled \/ TakeLight \/ TakeThumb \/ SwitchScheme \/ TakeDark \/ LightOnly \/ BothTaken
-----------------------------------------------------------------------------
(* The goroutines that follow the page's events.                           *)

\* watchDocuments; nobody reads it once the page is loaded.
SeeStatus ==
    /\ ~loaded /\ doc # "blank" /\ docStatus # doc /\ docStatus' = doc
    /\ UNCHANGED <<timers, pageAt, thePage, loaded, laterDocs, shots, verdict, commits>>

\* Bug: any number of documents.
NeverRefused == FALSE
\* navigationRefused: a redirect, not a refresh loop.
Refused == loaded /\ laterDocs >= NavigationsAfterLoad

\* interceptRequests
Intercept ==
    /\ request = "paused" /\ request' = IF Refused THEN "none" ELSE "sent"
    /\ laterDocs' = IF loaded THEN laterDocs + 1 ELSE laterDocs
    /\ UNCHANGED <<timers, pageAt, doc, domReady, frozen, asks, docStatus, loaded, shots, verdict, commits>>

\* The banner is dismissed (consentBridge.handle).
Dismissed ==
    /\ popup /\ popup' = FALSE
    /\ UNCHANGED <<timers, pageAt, thePage, watched, flat, hasDark, verdict, commits>>
-----------------------------------------------------------------------------
(* The page and its server.                                                *)

\* A response and the document it begins.
Commits ==
    /\ request = "sent" /\ request' = "none"
    /\ doc' \in {"ok", "error"}
    /\ commits' = IF loaded THEN commits + 1 ELSE commits
    /\ UNCHANGED <<timers, pageAt, domReady, frozen, asks, watched, shots, verdict>>

\* DOMContentLoaded, by watchLifecycle.
Parses ==
    /\ doc # "blank" /\ ~domReady /\ domReady' = TRUE
    /\ UNCHANGED <<timers, pageAt, doc, request, frozen, asks, watched, shots, verdict, commits>>

NavigatesOn ==
    /\ doc # "blank" /\ request = "none" /\ asks < MaxAsks
    /\ request' = "paused" /\ asks' = asks + 1
    /\ UNCHANGED <<timers, pageAt, doc, domReady, frozen, watched, shots,
                   verdict, commits>>

Freezes ==
    /\ \/ frozen = "no" /\ frozen' = "now"
       \/ frozen = "now" /\ frozen' = "was"
    /\ UNCHANGED <<timers, pageAt, doc, domReady, request, asks, watched, shots,
                   verdict, commits>>

\* What takes no time comes first.
Waiting ==
    /\ doc # "blank" /\ ~loaded => docStatus = doc
    /\ request # "paused"
    /\ CASE pageAt = "navigate" -> doc = "blank" \/ frozen = "now"
         [] pageAt = "parse" -> ~domReady
         [] pageAt \in {"idle", "settle"} -> TRUE
         [] OTHER -> frozen = "now"

Tick ==
    /\ Waiting /\ ~TimedOut /\ now' = now + 1
    /\ UNCHANGED <<until, pageAt, thePage, watched, shots, verdict, commits>>

PageNext ==
    /\ pageAt # "done"
    /\ \/ Steps \/ SeeStatus \/ Intercept \/ Dismissed
       \/ Commits \/ Parses \/ NavigatesOn \/ Freezes \/ Tick

PageSpec == PageInit /\ [][PageNext]_pageVars
-----------------------------------------------------------------------------
(* The outcome fits what happened: the page's own error, one flat colour   *)
(* only if that was seen, and out of time when it was.  A page that never  *)
(* froze is out of time only if it was not parsed, however busy its        *)
(* network, whatever banner it shows and wherever it goes on to: "one      *)
(* hanging pixel must not cost the whole picture".  Once loaded it gets no *)
(* further than a redirect takes it, "not a refresh loop".                 *)
PictureIsHonest ==
    /\ outcome = "http_error" <=> status = "error"
    /\ outcome = "blank" => flat
    /\ outcome = "ok" => ~flat
    /\ outcome = "unreachable" /\ doc # "blank" => now < BrowserDeadline
    /\ outcome = "timeout" => frozen # "no" \/ ~loaded
    /\ commits <= NavigationsAfterLoad + 1

\* No wait outlasts its timeout, and no timeout the deadline of them all.
WaitsEnd == pageAt # "done" => now <= until /\ until <= BrowserDeadline

(* A capture ends with a result, also when its page never stops or freezes *)
(* for good: until then there is a step, or time goes by, of which there   *)
(* is only so much.                                                        *)
PageAnswers == WaitsEnd /\ (pageAt # "done" => ENABLED (Steps \/ SeeStatus \/ Intercept \/ Tick))

=============================================================================
