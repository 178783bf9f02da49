----------------------------- MODULE DeployFeed -----------------------------
(***************************************************************************)
(* What the agent promises the readers of one deploy's events, whatever it *)
(* forgets to bound its memory: every reader follows the events in order   *)
(* of their sequence numbers, each at most once, skipping nothing but log  *)
(* lines, and its stream ends only after the deploy's result.              *)
(***************************************************************************)
EXTENDS Naturals, Sequences

CONSTANTS Clients     \* readers of the deploy's events

VARIABLES emitted,    \* the kinds of the events emitted so far, by sequence number
          received,   \* the sequence numbers each reader got, in the order it got them
          ended       \* the readers whose stream ended normally

feedVars == <<emitted, received, ended>>

Kinds == {"log", "phase", "result"}

Finished == \E i \in DOMAIN emitted : emitted[i] = "result"

Init ==
    /\ emitted = <<>>
    /\ received = [c \in Clients |-> <<>>]
    /\ ended = {}

Emit(k) ==
    /\ ~Finished
    /\ emitted' = Append(emitted, k)
    /\ UNCHANGED <<received, ended>>

Seen(c) == IF received[c] = <<>> THEN 0 ELSE received[c][Len(received[c])]

\* A reader gets event i next; whatever it skips is log lines.
Deliver(c, i) ==
    /\ i > Seen(c)
    /\ \A j \in Seen(c) + 1 .. i - 1 : emitted[j] = "log"
    /\ received' = [received EXCEPT ![c] = Append(@, i)]
    /\ UNCHANGED <<emitted, ended>>

End(c) ==
    /\ Finished
    /\ Seen(c) = Len(emitted)
    /\ ended' = ended \cup {c}
    /\ UNCHANGED <<emitted, received>>

\* A reader may follow the deploy again, from where it was or from the start.
Follow(c, rest) ==
    /\ rest \in {received[c], <<>>}
    /\ received' = [received EXCEPT ![c] = rest]
    /\ ended' = ended \ {c}
    /\ UNCHANGED emitted

Next ==
    \/ \E k \in Kinds : Emit(k)
    \/ \E c \in Clients :
        \/ \E i \in DOMAIN emitted : Deliver(c, i)
        \/ \E rest \in {received[c], <<>>} : Follow(c, rest)
        \/ End(c)

Spec == Init /\ [][Next]_feedVars

=============================================================================
