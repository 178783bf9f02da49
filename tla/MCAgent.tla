------------------------------- MODULE MCAgent -------------------------------
(* The agent's link and its binary's life share no state: one instance      *)
(* checks them side by side, and focus says which of them runs.             *)
EXTENDS AgentLink, AgentLifecycle

CONSTANTS c1, c2, a1, a2, u1, u2, r1

TwoCalls == {c1, c2}
TwoAddresses == {a1, a2}
TwoUpdates == {u1, u2}
OneUninstall == {r1}

\* One pair with a fallback, one without.
TwoPairs == {[primary |-> a1, fallback |-> a2], [primary |-> a2, fallback |-> NoAddress]}

\* A development build and two releases.
SomeVersions == 0..2

VARIABLE focus

agent == <<vars, lifecycleVars, focus>>

\* The first process is the older release.
AgentInit ==
    /\ focus \in {"link", "lifecycle"}
    /\ Init /\ LifecycleInit
    /\ focus # "link" => saved = NoPair /\ addr /\ installUrl = NoAddress
    /\ version = IF focus = "lifecycle" THEN 1 ELSE 0

\* The other stays as it is.
Only(f) ==
    /\ focus = f /\ UNCHANGED focus
    /\ f # "link" => UNCHANGED vars
    /\ f # "lifecycle" => UNCHANGED lifecycleVars

AgentNext ==
    \/ focus = "link" /\ Only("link") /\ Next
    \/ focus = "lifecycle" /\ Only("lifecycle") /\ LifecycleNext

\* Only one of them runs, so one fair turn serves both: the fairness of
\* AgentLink's FairSpec, and of AgentLifecycle's LifecycleFairSpec.
AgentTurn(n) ==
    \/ /\ focus = "link"
       /\ \/ n = 1 /\ RunSteps
          \/ n = 2 /\ MainSteps
          \/ n = 3 /\ Stopping /\ LinkEnds
       /\ Only("link")
    \/ /\ focus = "lifecycle"
       /\ \/ n = 1 /\ Exit
          \/ n = 2 /\ Reexec(u1)
          \/ n = 3 /\ Reexec(u2)
       /\ Only("lifecycle")

AgentSpec == AgentInit /\ [][AgentNext]_agent /\ \A n \in 1..3 : WF_agent(AgentTurn(n))

==============================================================================
