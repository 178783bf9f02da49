--------------------------- MODULE TraefikConfig ---------------------------
(***************************************************************************)
(* TraefikConfig (internal/server/hostops.go): the stack file of this      *)
(* host's Traefik is moved to <file>.bak, the new one is written and       *)
(* applied; when that fails, the old one is moved back and applied.  No    *)
(* lock orders two calls, and nothing at the start of the agent looks for  *)
(* a half-done one.                                                        *)
(***************************************************************************)
EXTENDS Naturals, FiniteSets

CONSTANTS Configs,      \* calls, each with the configuration it sends
          AtOnce,       \* may two calls run at once
          TraefikStops  \* bound: times the agent is killed

ASSUME TraefikAssumption ==
    AtOnce \in BOOLEAN /\ TraefikStops \in Nat /\ Configs \cap {"none", "torn", "installed"} = {}

VARIABLES
    tpc,            \* where each call is
    stack, backup,  \* whose configuration the two files hold
    serves,         \* whose configuration the container was made from, or "none"
    stops,          \* times the agent was killed
    \* and what only the properties look at:
    good,           \* the configuration of the last call that answered ok
    mover,          \* the last call that moved the stack file to the backup
    half,           \* the first call since that answer to end with the file not moved back
    unsure          \* the container is as a failed, a skipped or a cut apply has left it

traefikVars == <<tpc, stack, backup, serves, stops, good, mover, half, unsure>>
history == <<good, mover, half, unsure>>

\* "restored": the answer that the previous configuration was.
Answered == {"idle", "ok", "failed", "restored"}

TraefikInit ==
    /\ tpc = [c \in Configs |-> "idle"]
    /\ stack \in {"none", "installed"} /\ backup = "none"
    /\ serves = stack /\ stops = 0
    /\ good = stack /\ mover = "none" /\ half = "none" /\ unsure = FALSE

TGoes(c, p) == tpc' = [tpc EXCEPT ![c] = p]
CallsAt(ps) == {c \in Configs : tpc[c] \in ps}
LeavesHalfDone(c) == half' = IF half = "none" THEN c ELSE half

\* The stat, and an empty configuration; or a restart and nothing else.
StatStack(c) ==
    /\ tpc[c] = "idle" /\ (AtOnce \/ \A d \in Configs : tpc[d] \in Answered)
    /\ \/ TGoes(c, "failed")
       \/ stack # "none" /\ \E p \in {"rename", "restart"} : TGoes(c, p)
    /\ UNCHANGED <<stack, backup, serves, stops, history>>

MoveToBackup(c) ==
    /\ tpc[c] = "rename"
    /\ \/ TGoes(c, "failed") /\ UNCHANGED <<stack, backup, mover>>
       \/ /\ stack # "none"
          /\ TGoes(c, "write") /\ backup' = stack /\ stack' = "none" /\ mover' = c
    /\ UNCHANGED <<serves, stops, good, half, unsure>>

\* os.WriteFile may fail before it has made the file or when it is half written.
WriteStackFile(c) ==
    /\ tpc[c] = "write"
    /\ \/ TGoes(c, "apply") /\ stack' = c
       \/ TGoes(c, "giveBack") /\ stack' \in {stack, "torn"}
    /\ UNCHANGED <<backup, serves, stops, history>>

\* os.Rename of the backup to the stack file: with no backup it can only fail.
MovesBack == backup # "none" /\ stack' = backup /\ backup' = "none"

\* Whether it could be moved back is not looked at.
GiveBack(c) ==
    /\ tpc[c] = "giveBack" /\ TGoes(c, "failed")
    /\ \/ MovesBack /\ UNCHANGED half
       \/ LeavesHalfDone(c) /\ UNCHANGED <<stack, backup>>
    /\ UNCHANGED <<serves, stops, good, mover, unsure>>

\* What a compose up that fails or is cut off may leave for a container.
LeftByApply == {serves, "none"} \cup ({stack} \ {"none"})

\* compose up --force-recreate, and the networks.
ApplyStack(c) ==
    /\ tpc[c] = "apply"
    /\ \/ /\ stack # "none" /\ TGoes(c, "ok") /\ serves' = stack
          /\ good' = c /\ half' = "none" /\ unsure' = FALSE
       \/ TGoes(c, "rollBack") /\ serves' \in LeftByApply /\ UNCHANGED <<good, half, unsure>>
    /\ UNCHANGED <<stack, backup, stops, mover>>

\* What was moved back is applied; else nothing is, and the answer is the same.
RollBack(c) ==
    /\ tpc[c] = "rollBack"
    /\ \/ MovesBack /\ TGoes(c, "reapply") /\ UNCHANGED <<half, unsure>>
       \/ /\ TGoes(c, "restored") /\ LeavesHalfDone(c) /\ unsure' = TRUE
          /\ UNCHANGED <<stack, backup>>
    /\ UNCHANGED <<serves, stops, good, mover>>

\* Its result is not looked at.
ApplyAgain(c) ==
    /\ tpc[c] = "reapply" /\ TGoes(c, "restored")
    /\ \/ stack # "none" /\ serves' = stack /\ unsure' = FALSE
       \/ serves' \in LeftByApply /\ unsure' = TRUE
    /\ UNCHANGED <<stack, backup, stops, good, mover, half>>

RestartTraefik(c) ==
    /\ tpc[c] = "restart"
    /\ TGoes(c, "failed") \/ (serves # "none" /\ TGoes(c, "ok"))
    /\ UNCHANGED <<stack, backup, serves, stops, history>>

\* A call that was writing may have left a part of its file, and one that applied
\* what a failed apply leaves; their callers see a failed call.
AgentStops ==
    /\ stops < TraefikStops /\ stops' = stops + 1
    /\ tpc' = [c \in Configs |-> IF tpc[c] \in Answered THEN tpc[c] ELSE "failed"]
    /\ stack' = stack \/ (CallsAt({"write"}) # {} /\ stack' = "torn")
    /\ serves' = serves \/ (CallsAt({"apply", "reapply"}) # {} /\ serves' \in LeftByApply)
    /\ LET moved == CallsAt({"write", "giveBack", "apply", "rollBack"})
       IN  half' \in IF half = "none" /\ moved # {} THEN moved ELSE {half}
    /\ unsure' = (unsure \/ CallsAt({"apply", "rollBack", "reapply"}) # {})
    /\ UNCHANGED <<backup, good, mover>>

TraefikNext ==
    \/ \E c \in Configs :
        \/ StatStack(c) \/ MoveToBackup(c) \/ WriteStackFile(c) \/ GiveBack(c)
        \/ ApplyStack(c) \/ RollBack(c) \/ ApplyAgain(c) \/ RestartTraefik(c)
    \/ AgentStops

TraefikSpec == TraefikInit /\ [][TraefikNext]_traefikVars
-----------------------------------------------------------------------------
Quiet == \A c \in Configs : tpc[c] \in Answered

(* With one call at a time: until a further call moves the stack file,     *)
(* one that fails in any of its steps, the move back among them, or is     *)
(* killed in one, leaves the configuration last known to work in one of    *)
(* the two files: in the stack file when it was moved back, else in the    *)
(* backup.  And the container is made from it when no call runs, unless    *)
(* the apply of the restored file failed, was skipped or was cut off.      *)
GoodConfigIsKept ==
    half \in {"none", mover} =>
        /\ good \in {stack, backup}
        /\ Quiet => good = IF half = "none" THEN stack ELSE backup
        /\ Quiet /\ ~unsure => serves = good

(* What the answer "the previous Traefik config was restored" says of the  *)
(* last call that moved the file: the host runs its old configuration, and *)
(* has it in the stack file.                                               *)
RestoredIsInForce ==
    \A c \in Configs : tpc[c] = "restored" /\ mover = c => stack = good /\ serves = good

=============================================================================
