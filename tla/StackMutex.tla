----------------------------- MODULE StackMutex -----------------------------
(***************************************************************************)
(* What Service.lockStack promises its callers, without the reference      *)
(* counted table behind it: one mutex per stack slug.  An operation asks   *)
(* for its slug, is granted it when nobody holds it, and gives it back.    *)
(***************************************************************************)
CONSTANTS Procs,      \* goroutines serving an RPC or driving a deploy
          Slugs       \* stacks

VARIABLES waits,      \* waits[s]: the operations waiting for stack s
          holds       \* holds[s]: the operations inside stack s's section

mutexVars == <<waits, holds>>

Idle(p) == \A s \in Slugs : p \notin waits[s] /\ p \notin holds[s]

Init ==
    /\ waits = [s \in Slugs |-> {}]
    /\ holds = [s \in Slugs |-> {}]

Ask(p, s) ==
    /\ Idle(p)
    /\ waits' = [waits EXCEPT ![s] = @ \cup {p}]
    /\ UNCHANGED holds

Grant(p, s) ==
    /\ p \in waits[s]
    /\ holds[s] = {}
    /\ waits' = [waits EXCEPT ![s] = @ \ {p}]
    /\ holds' = [holds EXCEPT ![s] = {p}]

GiveBack(p, s) ==
    /\ p \in holds[s]
    /\ holds' = [holds EXCEPT ![s] = @ \ {p}]
    /\ UNCHANGED waits

Next == \E p \in Procs, s \in Slugs : Ask(p, s) \/ Grant(p, s) \/ GiveBack(p, s)

Spec == Init /\ [][Next]_mutexVars

=============================================================================
