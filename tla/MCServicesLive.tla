---------------------------- MODULE MCServicesLive ----------------------------
(* The lock table, the cron jobs, the roster and the memory cap of builds   *)
(* share no state: one instance checks them side by side, and focus says    *)
(* which of them runs.                                                      *)
EXTENDS StackLock, CronJobs, Roster, BuildMemory

CONSTANTS p1, p2, p3, s1, s2, l1, l2, l3, j1, c1, c2, b1, b2, x1

ThreeProcs == {p1, p2, p3}
TwoSlugs == {s1, s2}
OneSlug == {s1}
ThreeLocks == {l1, l2, l3}
OneJob == {j1}
TwoIds == {c1, c2}
TwoBuilds == {b1, b2}
OneStep == {x1}

VARIABLE focus

lives == <<vars, cronVars, rosterVars, buildMemoryVars, focus>>

LiveInit ==
    /\ focus \in {"lock", "cron", "roster", "builds"}
    /\ Init /\ CronInit /\ RosterInit /\ BuildMemoryInit
    /\ focus # "lock" => slug = [p \in Procs |-> s1]

\* The others stay as they are.
Only(f) ==
    /\ focus = f /\ UNCHANGED focus
    /\ f # "lock" => UNCHANGED vars
    /\ f # "cron" => UNCHANGED cronVars
    /\ f # "roster" => UNCHANGED rosterVars
    /\ f # "builds" => UNCHANGED buildMemoryVars

LiveNext ==
    \/ focus = "lock" /\ Only("lock") /\ Next
    \/ focus = "cron" /\ Only("cron") /\ CronNext
    \/ focus = "roster" /\ Only("roster") /\ RosterNext
    \/ focus = "builds" /\ Only("builds") /\ BuildMemoryNext

\* Only one component runs, so one fair turn serves all of them: a behaviour
\* of the lock table sees no other component's part of it.  These are the
\* components' own fairness conditions (StackLock's Fairness, CronJobs'
\* CronFairSpec, ...); docker answers a rebuild of the roster in the end.
Nth == <<p1, p2, p3>>

WeakTurn(n) ==
    \/ /\ focus = "lock"
       /\ \/ n \in 1..3 /\ (Find(Nth[n]) \/ Count(Nth[n]) \/ Uncount(Nth[n]))
          \/ n \in 4..6 /\ slug[Nth[n - 3]] \notin SlowSlugs /\ Release(Nth[n - 3])
       /\ Only("lock")
    \/ /\ focus = "cron"
       /\ \/ n = 1 /\ Drive(j1)
          \/ n = 2 /\ Deadline(j1)
          \/ n = 3 /\ ClientKilled(j1)
       /\ Only("cron")
    \/ /\ focus = "roster"
       /\ \/ n = 1 /\ (TakeMark \/ Debounced)
          \/ n = 2 /\ Backstop
          \/ n = 3 /\ Publish
       /\ Only("roster")
    \/ focus = "builds" /\ Only("builds") /\ n = 1 /\ Watch

StrongTurn(n) ==
    \/ focus = "lock" /\ Only("lock") /\ (LockMap(Nth[n]) \/ Acquire(Nth[n]))
    \/ focus = "roster" /\ Only("roster") /\ ((n = 1 /\ List) \/ (n = 2 /\ Inspect))

LiveSpec ==
    /\ LiveInit /\ [][LiveNext]_lives
    /\ \A n \in 1..6 : WF_lives(WeakTurn(n))
    /\ \A n \in 1..3 : SF_lives(StrongTurn(n))

===============================================================================
