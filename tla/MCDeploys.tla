------------------------------ MODULE MCDeploys ------------------------------
(* The streams of one deploy's log and the registry of deploys share        *)
(* nothing here: one instance checks them side by side, and part says       *)
(* which of them runs.                                                      *)
EXTENDS MCDeployLog, DeployRegistry

CONSTANTS i1, i2, k1, k2, r1, r2, r3

TwoIds == {i1, i2}
TwoCalls == {k1, k2}
ThreeRuns == {r1, r2, r3}
Sizes == {1, 2}

NthRun == <<r1, r2, r3>>

VARIABLE part

deployVars == <<vars, registryVars, part>>

\* The id of a run that is not begun and of a call that is not made means nothing.
DeploysInit ==
    /\ Init /\ RegistryInit
    /\ part \in {"streams", "registry"}
    /\ id = [r \in Runs |-> i1] /\ asked = [c \in Calls |-> i1]

\* Records are alike: the next free one is taken.
InTurn == \A i \in 1..2 : stage[NthRun[i]] = "free" => stage[NthRun[i + 1]] = "free"

StreamsOnly == UNCHANGED <<registryVars, part>>
RegistryOnly == UNCHANGED <<vars, part>> /\ InTurn'

DeploysNext ==
    \/ part = "streams" /\ Next /\ StreamsOnly
    \/ part = "registry" /\ RegistryNext /\ RegistryOnly

\* Only one component runs, so one fair turn serves both: these are DeployLog's
\* Fairness and DeployRegistry's RegistryFairness.
Readers == <<c1, c2>>
NthCall == <<k1, k2>>

ReaderTurn(n, c) ==
    \/ n = 1 /\ (CheckWait(c) \/ Sleep(c))
    \/ n = 2 /\ (CheckCancelled(c) \/ CheckReady(c))
    \/ n = 3 /\ (Sent(c) \/ SendFails(c) \/ (c \notin Stalled /\ Send(c)))

RunTurn(n, r) ==
    \/ n = 1 /\ ((\E b \in LogBytes : Finish(r, b)) \/ Trim(r) \/ DropContext(r))
    \/ n = 2 /\ Expire(r)

WeakTurn(n) ==
    \/ part = "streams" /\ (\E m \in 1..3, i \in 1..2 : n = 3 * i + m - 3 /\ ReaderTurn(m, Readers[i]))
       /\ StreamsOnly
    \/ /\ part = "registry"
       /\ \/ \E m \in 1..2, i \in 1..3 : n = 2 * i + m - 2 /\ RunTurn(m, NthRun[i])
          \/ \E i \in 1..2 : n = 6 + i /\ (FollowedToEnd(NthCall[i]) \/ Spooled(NthCall[i])
                                           \/ SpoolFails(NthCall[i]))
       /\ RegistryOnly

StrongTurn(n) ==
    /\ part = "streams" /\ StreamsOnly
    /\ \/ n = 1 /\ AppendResult
       \/ \E i \in 1..2 : \/ n = 2 * i /\ Lock(Readers[i])
                          \/ n = 2 * i + 1 /\ Watcher(Readers[i])

DeploysSpec ==
    /\ DeploysInit /\ [][DeploysNext]_deployVars
    /\ \A n \in 1..8 : WF_deployVars(WeakTurn(n))
    /\ \A n \in 1..5 : SF_deployVars(StrongTurn(n))

===============================================================================
