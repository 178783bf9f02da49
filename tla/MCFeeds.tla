------------------------------- MODULE MCFeeds -------------------------------
(* A deploy's log with its streams, a screenshot's calls and the browser in *)
(* its container share no state: one instance checks them side by side, and *)
(* focus says which of them runs.                                           *)
EXTENDS MCDeployLog, Capture, PageCapture

CONSTANTS t1

TwoCaptures == {c1, c2}
OneTunnel == {t1}

VARIABLE focus

feeds == <<vars, captureVars, pageVars, focus>>

FeedsInit ==
    /\ focus \in {"log", "capture", "page"}
    /\ Init /\ CaptureInit /\ PageInit
    /\ focus # "capture" => image = TRUE

\* The others stay as they are.
Only(f) ==
    /\ focus = f /\ UNCHANGED focus
    /\ f # "log" => UNCHANGED vars
    /\ f # "capture" => UNCHANGED captureVars
    /\ f # "page" => UNCHANGED pageVars

FeedsNext ==
    \/ focus = "log" /\ Only("log") /\ Next
    \/ focus = "capture" /\ Only("capture") /\ CaptureNext
    \/ focus = "page" /\ Only("page") /\ PageNext

FeedsSpec == FeedsInit /\ [][FeedsNext]_feeds

\* One browser at a time, whose picture is what it says, and no call of it or
\* connection of its egress that stays.
ScreenshotsAreSound == OneBrowser /\ CapturesEnd /\ PictureIsHonest /\ PageAnswers

==============================================================================
