---------------------------- MODULE BuildMemory ----------------------------
(***************************************************************************)
(* The memory cap of image builds (internal/server/build_memory_cap.go):   *)
(* builds are counted under a lock, the first one starts a watcher that    *)
(* caps every BuildKit step it has not seen before, the last one stops it  *)
(* and waits for its end with the lock held.                               *)
(*                                                                         *)
(* A step's cgroup has a name of its own and its files from its first      *)
(* moment, so a write to one fails only when the step is over.             *)
(***************************************************************************)
EXTENDS Naturals, FiniteSets

CONSTANTS Builds,   \* image builds
          Steps,    \* BuildKit steps, this agent's and others'
          NoBuild   \* not a build

ASSUME BuildMemoryAssumption ==
    /\ NoBuild \notin Builds
    /\ Builds \cap {"unborn", "spared", "stranger"} = {}

VARIABLES
    buildAt,        \* where each build is
    builds,         \* buildMemCap.builds
    releasing,      \* the build that waits for done and has the lock, or NoBuild
    stop,           \* the stop channel is closed
    watcher,        \* the watcher: none, at its select, or capping
    seen, now,      \* the step directories of its last look and of this one
    running, ownerOf, \* the steps there are, and whose each one is
    capped          \* steps whose memory.max was written

counting == <<buildAt, builds, releasing, stop>>
watching == <<watcher, seen, now, capped>>
steps == <<running, ownerOf>>
buildMemoryVars == <<counting, watching, steps>>

BuildMemoryInit ==
    /\ buildAt = [b \in Builds |-> "idle"] /\ builds = 0
    /\ releasing = NoBuild /\ stop = FALSE
    /\ watcher = "none" /\ seen = {} /\ now = {} /\ capped = {}
    /\ running = {} /\ ownerOf = [s \in Steps |-> "unborn"]

BuildGoes(b, p) == buildAt' = [buildAt EXCEPT ![b] = p]

\* capBuildSteps: only the first build looks at the host, and does without a
\* cap where its layout is not known.
CapBuildSteps(b) ==
    /\ buildAt[b] = "idle" /\ releasing = NoBuild
    /\ \/ /\ builds = 0
          /\ BuildGoes(b, "uncapped") /\ UNCHANGED <<builds, stop, watching>>
       \/ /\ BuildGoes(b, "counted") /\ builds' = builds + 1
          /\ IF builds = 0
             THEN watcher' = "select" /\ seen' = running /\ stop' = FALSE
             ELSE UNCHANGED <<watcher, seen, stop>>
          /\ UNCHANGED <<now, capped>>
    /\ UNCHANGED <<releasing, steps>>

\* Bug: every build that ends stops the watcher.
AnyOut == TRUE
\* The last one does.
LastOut == builds = 1

ReleaseCap(b) ==
    /\ buildAt[b] = "counted" /\ releasing = NoBuild
    /\ builds' = builds - 1
    /\ IF LastOut
       THEN stop' = TRUE /\ releasing' = b /\ BuildGoes(b, "waits")
       ELSE BuildGoes(b, "over") /\ UNCHANGED <<stop, releasing>>
    /\ UNCHANGED <<watching, steps>>

CapReleased ==
    /\ releasing # NoBuild /\ watcher = "none"
    /\ BuildGoes(releasing, "over") /\ releasing' = NoBuild
    /\ UNCHANGED <<builds, stop, watching, steps>>

\* The release of a build without a cap does nothing.
EndUncapped(b) ==
    /\ buildAt[b] = "uncapped" /\ BuildGoes(b, "over")
    /\ UNCHANGED <<builds, releasing, stop, watching, steps>>

\* A tick, also when the stop channel is closed: select takes either.
LookAtSteps ==
    /\ watcher = "select"
    /\ watcher' = "cap" /\ now' = running
    /\ UNCHANGED <<counting, seen, capped, steps>>

CapSteps ==
    /\ watcher = "cap"
    /\ capped' = capped \cup ((now \ seen) \cap running)
    /\ seen' = now /\ now' = {} /\ watcher' = "select"
    /\ UNCHANGED <<counting, steps>>

StopWatching ==
    /\ watcher = "select" /\ stop
    /\ watcher' = "none" /\ seen' = {}
    /\ UNCHANGED <<counting, now, capped, steps>>

\* A step of a build, or another's on this host: spared if no build is counted.
StepBegins(s) ==
    /\ ownerOf[s] = "unborn" /\ running' = running \cup {s}
    /\ \/ \E b \in Builds : buildAt[b] \in {"counted", "uncapped"} /\ ownerOf' = [ownerOf EXCEPT ![s] = b]
       \/ ownerOf' = [ownerOf EXCEPT ![s] = IF watcher = "none" THEN "spared" ELSE "stranger"]
    /\ UNCHANGED <<counting, watching>>

StepIsOver(s) ==
    /\ s \in running /\ running' = running \ {s}
    /\ UNCHANGED <<ownerOf, counting, watching>>

Watch == LookAtSteps \/ CapSteps

BuildMemoryNext ==
    \/ \E b \in Builds : CapBuildSteps(b) \/ ReleaseCap(b) \/ EndUncapped(b)
    \/ \E s \in Steps : StepBegins(s) \/ StepIsOver(s)
    \/ CapReleased \/ Watch \/ StopWatching
-----------------------------------------------------------------------------
(* Each step of a build that is counted gets the cap if it lasts, however  *)
(* many builds begin and end meanwhile; a step that was there before any   *)
(* of them is left alone ("the ones already there being no build of this   *)
(* agent's").                                                              *)
CapFollowsBuilds ==
    /\ [](\A s \in capped : ownerOf[s] # "spared")
    /\ []<>(\A s \in running \ capped : \A b \in Builds : ownerOf[s] = b => buildAt[b] # "counted")

=============================================================================
