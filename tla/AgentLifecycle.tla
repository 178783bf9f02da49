---------------------------- MODULE AgentLifecycle ----------------------------
(***************************************************************************)
(* The agent's own binary and life (internal/server/selfupdate.go,         *)
(* selfuninstall.go, main.go).  SelfUpdate stages a verified binary beside *)
(* the running one, renames it over it and re-execs a moment later.        *)
(* SelfUninstall removes the systemd unit, the state directory and the     *)
(* binary, and exits a moment later.  Handlers run concurrently, and any   *)
(* end of the process takes all of them along: only the disk stays.       *)
(*                                                                         *)
(* The version a request names is the version of the binary at its URL.    *)
(* Versions are the ranks of released versions and 0 for a build with no   *)
(* semantic version ("dev").                                               *)
(***************************************************************************)
EXTENDS Naturals, FiniteSets

CONSTANTS Updates,     \* concurrent SelfUpdate handlers
          Uninstalls,  \* concurrent SelfUninstall handlers
          Versions,    \* versions of agent binaries
          NoBinary,    \* no file
          MaxLives    \* bound: starts of the agent process

ASSUME AgentLifecycleAssumption ==
    /\ Versions \subseteq Nat
    /\ NoBinary \notin Versions
    /\ Updates \cap Uninstalls = {}
    /\ MaxLives \in Nat \ {0}

Dev == 0

VARIABLES running,   \* the process runs
          version,   \* AgentVersion of the process, or of the last one
          lives,     \* processes started so far
          exe,       \* the version of the file at os.Executable()
          unit,      \* the systemd unit exists
          agentDir,  \* the state directory with the mTLS materials exists
          staged,    \* update handlers whose temporary file exists
          phase, want, \* the handlers, and the version each update installs
          reexec,    \* update handlers whose re-exec timer runs
          exit,      \* an uninstall's exit timer runs
          removed    \* an uninstall answered "stopping"

disk == <<exe, unit, agentDir, staged>>
incarnation == <<running, version, lives>>
timers == <<reexec, exit>>
lifecycleVars == <<incarnation, disk, phase, want, timers, removed>>

LifecycleTypeOK ==
    /\ running \in BOOLEAN /\ version \in Versions /\ lives \in 0..MaxLives
    /\ exe \in Versions \cup {NoBinary}
    /\ unit \in BOOLEAN /\ agentDir \in BOOLEAN
    /\ staged \subseteq Updates
    /\ phase \in [Updates \cup Uninstalls ->
                 {"idle", "staging", "replace", "disable", "dir", "exe", "reload"}]
    /\ want \in [Updates -> Versions]
    /\ reexec \subseteq Updates /\ exit \in BOOLEAN /\ removed \in BOOLEAN

LifecycleInit ==
    /\ running = TRUE /\ version \in Versions /\ lives = 1
    /\ exe = version
    /\ unit = TRUE /\ agentDir = TRUE
    /\ staged = {}
    /\ phase = [c \in Updates \cup Uninstalls |-> "idle"]
    /\ want = [c \in Updates |-> version]
    /\ reexec = {} /\ exit = FALSE /\ removed = FALSE

At(c, p) == running /\ phase[c] = p
GoTo(c, p) == phase' = [phase EXCEPT ![c] = p]
-----------------------------------------------------------------------------
\* Bug: the build that runs is never compared.
VersionNewerNever(a, b) == FALSE
\* versionNewer: a build without a semantic version outranks nothing.
VersionNewer(a, b) == a # Dev /\ b # Dev /\ a > b

\* SelfUpdate: a release without this architecture's binary, and a downgrade
\* from the version that runs, are refused.
SelfUpdate(c, v) ==
    /\ At(c, "idle")
    /\ ~VersionNewer(version, v)
    /\ want' = [want EXCEPT ![c] = v]
    /\ staged' = staged \cup {c}
    /\ GoTo(c, "staging")
    /\ UNCHANGED <<incarnation, exe, unit, agentDir, timers, removed>>

\* stageVerifiedBinary: the temporary file is whole and its checksum right, or
\* it is removed.
Stage(c) ==
    /\ At(c, "staging")
    /\ \/ GoTo(c, "replace") /\ UNCHANGED staged
       \/ GoTo(c, "idle") /\ staged' = staged \ {c}
    /\ UNCHANGED <<incarnation, exe, unit, agentDir, want, timers, removed>>

\* os.Rename over the binary, and the goroutine that re-execs it.
Replace(c) ==
    /\ At(c, "replace")
    /\ GoTo(c, "idle")
    /\ staged' = staged \ {c}
    /\ \/ exe' = want[c] /\ reexec' = reexec \cup {c}
       \/ UNCHANGED <<exe, reexec>>
    /\ UNCHANGED <<incarnation, unit, agentDir, want, exit, removed>>
-----------------------------------------------------------------------------
\* SelfUninstall: the probe of the binary's directory, then systemctl disable,
\* whose failure is only logged.
SelfUninstall(c) ==
    /\ At(c, "idle")
    /\ GoTo(c, "disable")
    /\ UNCHANGED <<incarnation, disk, want, timers, removed>>

\* Each removal may fail, which ends the call with what was removed gone.
Fails(c) == GoTo(c, "idle") /\ UNCHANGED disk

\* Bug: the unit file is left to the operator.
UnitAfterRemovalKept == unit
UnitAfterRemoval == FALSE

RemoveUnit(c) ==
    /\ At(c, "disable")
    /\ \/ unit' = UnitAfterRemoval /\ GoTo(c, "dir") /\ UNCHANGED <<exe, agentDir, staged>>
       \/ Fails(c)
    /\ UNCHANGED <<incarnation, want, timers, removed>>

\* Bug: a state directory that cannot be removed does not end the call.
DirAfterRemovalKept == agentDir
DirAfterRemoval == FALSE

RemoveDir(c) ==
    /\ At(c, "dir")
    /\ \/ agentDir' = DirAfterRemoval /\ GoTo(c, "exe") /\ UNCHANGED <<exe, unit, staged>>
       \/ Fails(c)
    /\ UNCHANGED <<incarnation, want, timers, removed>>

RemoveExe(c) ==
    /\ At(c, "exe")
    /\ \/ exe' = NoBinary /\ GoTo(c, "reload") /\ UNCHANGED <<unit, agentDir, staged>>
       \/ Fails(c)
    /\ UNCHANGED <<incarnation, want, timers, removed>>

\* systemctl daemon-reload, the answer, and the goroutine that exits.
Reload(c) ==
    /\ At(c, "reload")
    /\ GoTo(c, "idle")
    /\ exit' = TRUE
    /\ removed' = TRUE
    /\ UNCHANGED <<incarnation, disk, want, reexec>>
-----------------------------------------------------------------------------
\* The process ends: every handler and timer with it.
ProcessEnds ==
    /\ phase' = [c \in Updates \cup Uninstalls |-> "idle"]
    /\ reexec' = {}
    /\ exit' = FALSE

\* main without materials under --agent-dir: the single-use token of the install
\* command is spent, so it ends at once.
StartsServing == agentDir

\* Bug: the binary of an uninstalled agent still starts.
HasBinaryAlways == TRUE
HasBinary == exe # NoBinary

\* syscall.Exec replaces the process by the binary on disk, or fails.
Reexec(c) ==
    /\ running /\ c \in reexec
    /\ \/ /\ HasBinary
          /\ lives < MaxLives
          /\ ProcessEnds
          /\ running' = StartsServing
          /\ version' = exe
          /\ lives' = lives + 1
       \/ reexec' = reexec \ {c} /\ UNCHANGED <<incarnation, phase, exit>>
    /\ UNCHANGED <<disk, want, removed>>

\* exitProcess(0), after selfUninstallGrace.
Exit ==
    /\ running /\ exit
    /\ ProcessEnds
    /\ running' = FALSE
    /\ UNCHANGED <<version, lives, disk, want, removed>>

\* The process dies for another reason: killed, or stopped with its host.
ProcessCrashes ==
    /\ running
    /\ lives < MaxLives
    /\ ProcessEnds
    /\ running' = FALSE
    /\ UNCHANGED <<version, lives, disk, want, removed>>

\* systemd starts the agent again, as long as its unit exists.
ProcessStarts ==
    /\ ~running /\ unit
    /\ HasBinary
    /\ lives < MaxLives
    /\ running' = StartsServing
    /\ version' = exe
    /\ lives' = lives + 1
    /\ UNCHANGED <<disk, phase, want, timers, removed>>

LifecycleNext ==
    \/ \E c \in Updates :
        \/ \E v \in Versions : SelfUpdate(c, v)
        \/ Stage(c) \/ Replace(c) \/ Reexec(c)
    \/ \E c \in Uninstalls :
        SelfUninstall(c) \/ RemoveUnit(c) \/ RemoveDir(c) \/ RemoveExe(c) \/ Reload(c)
    \/ Exit
    \/ ProcessCrashes
    \/ ProcessStarts

LifecycleSpec == LifecycleInit /\ [][LifecycleNext]_lifecycleVars

\* Timers fire: nothing holds the goroutine that sleeps and exits.
LifecycleFairSpec ==
    LifecycleSpec /\ WF_lifecycleVars(Exit) /\ \A c \in Updates : WF_lifecycleVars(Reexec(c))
-----------------------------------------------------------------------------
(* What runs next never ranks below what ran before, whatever updates race *)
(* each other, a re-exec, a crash or a restart between the rename and the  *)
(* re-exec: each rename was checked against the version that is running    *)
(* (applyUpdate).  The file itself may go from a newer version to an older *)
(* one that still outranks the process.                                    *)
NeverDowngrades == [][version' # Dev => version' >= version]_lifecycleVars

(* An agent that answered that it was removed stops, and nothing starts it *)
(* again: neither its own exit, an update that brings the binary back nor  *)
(* systemd leaves one serving (applyUninstall, the order of its removals). *)
RemovedStaysDown == removed ~> [](~running)

(* An agent that answered that it was removed has no way to come back: its *)
(* unit and its mTLS materials stay gone.                                  *)
RemovedForGood == removed => ~unit /\ ~agentDir

=============================================================================
