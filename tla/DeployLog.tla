------------------------------ MODULE DeployLog ------------------------------
(***************************************************************************)
(* One deploy's record in the agent (internal/server/inflight.go): the     *)
(* driver appends events to a bounded buffer, and any number of streams    *)
(* (Deploy, DeployStream, ReattachDeploy) replay the buffer from a cursor  *)
(* and follow it live.                                                     *)
(*                                                                         *)
(* The buffer is a set of sequence numbers: the code keeps it sorted by    *)
(* them.  f.mu is modelled because a subscriber holds it between testing   *)
(* its wait condition and going to sleep in cond.Wait, while its stream's  *)
(* context can be cancelled at any moment without f.mu; a watcher          *)
(* goroutine per subscription turns the cancellation into a Broadcast.     *)
(***************************************************************************)
EXTENDS Naturals, Sequences, FiniteSets, FiniteSetsExt

CONSTANTS Clients,     \* readers of the events, one stream each at a time
          Stalled,     \* the clients that may stop reading their stream
          LogSizes,    \* sizes of a log event (logEventSize)
          MaxBytes,    \* maxRetainedLogBytes
          MaxEvents,   \* maxRetainedLogEvents
          MaxSeq,      \* bound of the model: events the driver appends
          MaxStreams,  \* bound of the model: streams a client opens
          Free         \* f.mu is not held

ASSUME DeployLogAssumption ==
    /\ Stalled \subseteq Clients
    /\ Free \notin Clients
    /\ LogSizes \subseteq Nat
    /\ MaxBytes \in Nat /\ MaxEvents \in Nat
    /\ MaxSeq \in Nat \ {0} /\ MaxStreams \in Nat

VARIABLES
    emitted,     \* every event appended, by sequence number: its kind and size
    kept,        \* inflight.events without the note, as sequence numbers
    noteSeq,     \* the note's sequence number, meaningful once droppedLog > 0
    droppedLog,  \* log lines the note stands for
    logCount,    \* log lines retained
    logBytes,    \* their size
    done,        \* the result has been appended
    mu,          \* who holds f.mu between two steps
    pc, cursor, batch, finished,  \* subscribe and its locals, for each client
    cancelled,   \* the stream's context is done
    watching,    \* its watcher goroutine still waits for that
    got,         \* history: the events each client received, in order
    opened       \* history: streams each client opened

record == <<emitted, kept, noteSeq, droppedLog, logCount, logBytes, done>>
vars == <<record, mu, pc, cursor, batch, finished, cancelled, watching, got, opened>>

Kinds == {"log", "phase", "result"}
lastSeq == Len(emitted)
Item == [seq : Nat, note : BOOLEAN]

\* A subscription's life: lock f.mu, check the condition, wait (about to sleep,
\* f.mu still held), asleep in cond.Wait, send the batch, and back to lock.
Running == {"lock", "check", "wait", "asleep", "send"}

TypeOK ==
    /\ emitted \in Seq([kind : Kinds, n : Nat])
    /\ kept \subseteq 1..lastSeq
    /\ noteSeq \in 0..lastSeq
    /\ droppedLog \in Nat /\ logCount \in Nat /\ logBytes \in Nat
    /\ done \in BOOLEAN
    /\ mu \in Clients \cup {Free}
    /\ pc \in [Clients -> Running \cup {"off", "ended", "failed"}]
    /\ cursor \in [Clients -> Nat]
    /\ batch \in [Clients -> SUBSET Item]
    /\ finished \in [Clients -> BOOLEAN]
    /\ cancelled \in [Clients -> BOOLEAN]
    /\ watching \in [Clients -> BOOLEAN]
    /\ got \in [Clients -> Seq(Item)]
    /\ opened \in [Clients -> Nat]

Init ==
    /\ emitted = <<>> /\ kept = {} /\ noteSeq = 0 /\ droppedLog = 0
    /\ logCount = 0 /\ logBytes = 0 /\ done = FALSE
    /\ mu = Free
    /\ pc = [c \in Clients |-> "off"]
    /\ cursor = [c \in Clients |-> 0]
    /\ batch = [c \in Clients |-> {}]
    /\ finished = [c \in Clients |-> FALSE]
    /\ cancelled = [c \in Clients |-> FALSE]
    /\ watching = [c \in Clients |-> FALSE]
    /\ got = [c \in Clients |-> <<>>]
    /\ opened = [c \in Clients |-> 0]
-----------------------------------------------------------------------------
\* The log budget.

\* What f.events holds: the note has the sequence number of the first dropped line.
Buffered == {[seq |-> s, note |-> FALSE] : s \in kept}
              \cup (IF droppedLog > 0 THEN {[seq |-> noteSeq, note |-> TRUE]} ELSE {})

\* The log lines among the events evs that are still retained in the set of numbers ks.
LogsIn(evs, ks) == {s \in ks : evs[s].kind = "log"}
\* Bug: the overhead is taken off a dropped line that was added without it.
SizeOfWithOverhead(evs, ks) == MapThenSumSet(LAMBDA s : evs[s].n + 1, ks)
SizeOf(evs, ks) == MapThenSumSet(LAMBDA s : evs[s].n, ks)

\* Bug: the pass may drop any event to make room, not just log lines.
DroppableAnything(evs, ks) == ks

\* The events a pass may drop: only log lines (ev.GetLog() != nil).
Droppable(evs, ks) == LogsIn(evs, ks)

\* Bug: the last line may go as well.
EnoughWithoutNewest(bytes, count) ==
    bytes <= (MaxBytes * 7) \div 8 /\ count <= (MaxEvents * 7) \div 8

\* A pass stops at 7/8 of both measures, or at the last line.
Enough(bytes, count) ==
    \/ count <= 1
    \/ bytes <= (MaxBytes * 7) \div 8 /\ count <= (MaxEvents * 7) \div 8

\* Bug: the number of lines is not part of the budget.
OverBudgetBytesOnly(bytes, count) == bytes > MaxBytes
OverBudget(bytes, count) == bytes > MaxBytes \/ count > MaxEvents

\* enforceLogBudget: the shortest run of oldest lines whose loss is enough.
DroppedNow(evs, ks, bytes, count) ==
    LET oldest(m) == {s \in Droppable(evs, ks) : s < m}
        enough(m) == Enough(bytes - SizeOf(evs, oldest(m)), count - Cardinality(oldest(m)))
        stop == CHOOSE m \in 1..Len(evs) + 1 :
                    enough(m) /\ \A k \in 1..Len(evs) + 1 : enough(k) => m <= k
    IN  IF OverBudget(bytes, count) THEN oldest(stop) ELSE {}

-----------------------------------------------------------------------------
\* cond.Broadcast: every sleeping subscriber goes back for f.mu.
Woken == [c \in Clients |-> IF pc[c] = "asleep" THEN "lock" ELSE pc[c]]

\* inflight.append, whole, under f.mu.  The driver's last event is the result.
AppendEvent(kind, n) ==
    LET evs == Append(emitted, [kind |-> kind, n |-> n])
        ks == kept \cup {Len(evs)}
        isLog == kind = "log"
        bytes == logBytes + (IF isLog THEN n ELSE 0)
        count == logCount + (IF isLog THEN 1 ELSE 0)
        dropped == IF isLog THEN DroppedNow(evs, ks, bytes, count) ELSE {}
    IN  /\ mu = Free
        /\ ~done
        /\ emitted' = evs
        /\ kept' = ks \ dropped
        /\ noteSeq' = IF droppedLog = 0 /\ dropped # {} THEN Min(dropped) ELSE noteSeq
        /\ droppedLog' = droppedLog + Cardinality(dropped)
        /\ logCount' = count - Cardinality(dropped)
        /\ logBytes' = bytes - SizeOf(evs, dropped)
        /\ done' = (kind = "result")
        /\ pc' = Woken
        /\ UNCHANGED <<mu, cursor, batch, finished, cancelled, watching, got, opened>>

AppendLog == lastSeq < MaxSeq - 1 /\ \E n \in LogSizes : AppendEvent("log", n)
AppendPhase == lastSeq < MaxSeq - 1 /\ AppendEvent("phase", 0)
AppendResult == lastSeq < MaxSeq /\ AppendEvent("result", 0)
-----------------------------------------------------------------------------
\* Streams.

LastSeen(c) == IF got[c] = <<>> THEN 0 ELSE got[c][Len(got[c])].seq

\* Deploy and DeployStream follow from 0; ReattachDeploy from the last event the
\* client got on its earlier streams.
Subscribe(c, from) ==
    /\ pc[c] \in {"off", "ended", "failed"}
    /\ opened[c] < MaxStreams
    /\ opened' = [opened EXCEPT ![c] = @ + 1]
    /\ cursor' = [cursor EXCEPT ![c] = from]
    /\ got' = [got EXCEPT ![c] = IF from = 0 THEN <<>> ELSE @]
    /\ cancelled' = [cancelled EXCEPT ![c] = FALSE]
    /\ watching' = [watching EXCEPT ![c] = TRUE]
    /\ pc' = [pc EXCEPT ![c] = "lock"]
    /\ UNCHANGED <<record, mu, batch, finished>>

Lock(c) ==
    /\ pc[c] = "lock"
    /\ mu = Free
    /\ mu' = c
    /\ pc' = [pc EXCEPT ![c] = "check"]
    /\ UNCHANGED <<record, cursor, batch, finished, cancelled, watching, got, opened>>

\* for f.lastSeq <= cursor && !f.done && ctx.Err() == nil: the wait condition.
MustWait(c) == lastSeq <= cursor[c] /\ ~done /\ ~cancelled[c]

CheckWait(c) ==
    /\ pc[c] = "check"
    /\ MustWait(c)
    /\ pc' = [pc EXCEPT ![c] = "wait"]
    /\ UNCHANGED <<record, mu, cursor, batch, finished, cancelled, watching, got, opened>>

\* f.cond.Wait(): queue for the Broadcast and release f.mu in one step.
Sleep(c) ==
    /\ pc[c] = "wait"
    /\ mu' = Free
    /\ pc' = [pc EXCEPT ![c] = "asleep"]
    /\ UNCHANGED <<record, cursor, batch, finished, cancelled, watching, got, opened>>

\* ctx.Err() != nil: the stream returns; closing stop ends the watcher.
CheckCancelled(c) ==
    /\ pc[c] = "check"
    /\ cancelled[c]
    /\ mu' = Free
    /\ pc' = [pc EXCEPT ![c] = "failed"]
    /\ watching' = [watching EXCEPT ![c] = FALSE]
    /\ UNCHANGED <<record, cursor, batch, finished, cancelled, got, opened>>

\* Bug: the events at the cursor itself are sent again.
PendingFrom(c) == {e \in Buffered : e.seq >= cursor[c]}

\* The events past the cursor, found by binary search.
Pending(c) == {e \in Buffered : e.seq > cursor[c]}

\* Bugs: the cursor steps past the last event; f.mu is kept for the sends.
NextCursorPastEnd(c) == lastSeq + 1
MuWhileSendingKept(c) == c

\* if f.lastSeq > cursor { cursor = f.lastSeq }
NextCursor(c) == IF lastSeq > cursor[c] THEN lastSeq ELSE cursor[c]

\* f.mu.Unlock() before the sends.
MuWhileSending(c) == Free

\* Take the batch under f.mu and go send it outside.
CheckReady(c) ==
    /\ pc[c] = "check"
    /\ ~MustWait(c) /\ ~cancelled[c]
    /\ batch' = [batch EXCEPT ![c] = Pending(c)]
    /\ cursor' = [cursor EXCEPT ![c] = NextCursor(c)]
    /\ finished' = [finished EXCEPT ![c] = done]
    /\ mu' = MuWhileSending(c)
    /\ pc' = [pc EXCEPT ![c] = "send"]
    /\ UNCHANGED <<record, cancelled, watching, got, opened>>

Earliest(c) == CHOOSE e \in batch[c] : \A f \in batch[c] : e.seq <= f.seq

\* send(ev) succeeds.
Send(c) ==
    /\ pc[c] = "send"
    /\ batch[c] # {}
    /\ got' = [got EXCEPT ![c] = Append(@, Earliest(c))]
    /\ batch' = [batch EXCEPT ![c] = @ \ {Earliest(c)}]
    /\ UNCHANGED <<record, mu, pc, cursor, finished, cancelled, watching, opened>>

\* send(ev) fails: a cancelled or broken stream.
SendFails(c) ==
    /\ pc[c] = "send"
    /\ batch[c] # {}
    /\ cancelled[c]
    /\ batch' = [batch EXCEPT ![c] = {}]
    /\ pc' = [pc EXCEPT ![c] = "failed"]
    /\ watching' = [watching EXCEPT ![c] = FALSE]
    /\ UNCHANGED <<record, mu, cursor, finished, cancelled, got, opened>>

\* Bug: cursor > f.lastSeq.
IsLastBatchStrict(c) == finished[c] /\ cursor[c] > lastSeq
\* finished := f.done && cursor >= f.lastSeq, as it was under f.mu.
IsLastBatch(c) == finished[c]

\* The batch is out: return when it ended the deploy, else go round.
Sent(c) ==
    /\ pc[c] = "send"
    /\ batch[c] = {}
    /\ pc' = [pc EXCEPT ![c] = IF IsLastBatch(c) THEN "ended" ELSE "lock"]
    /\ watching' = [watching EXCEPT ![c] = @ /\ ~IsLastBatch(c)]
    /\ UNCHANGED <<record, mu, cursor, batch, finished, cancelled, got, opened>>

\* The client goes away, at any moment of its stream.
Cancel(c) ==
    /\ pc[c] \in Running
    /\ ~cancelled[c]
    /\ cancelled' = [cancelled EXCEPT ![c] = TRUE]
    /\ UNCHANGED <<record, mu, pc, cursor, batch, finished, watching, got, opened>>

\* Bug: the watcher broadcasts without taking f.mu.
WatcherMayBroadcastUnlocked(c) == watching[c] /\ cancelled[c]
WatcherMayBroadcast(c) == watching[c] /\ cancelled[c] /\ mu = Free

\* case <-ctx.Done(): lock, Broadcast, unlock; the watcher is then gone.
Watcher(c) ==
    /\ WatcherMayBroadcast(c)
    /\ watching' = [watching EXCEPT ![c] = FALSE]
    /\ pc' = Woken
    /\ UNCHANGED <<record, mu, cursor, batch, finished, cancelled, got, opened>>

Driver == AppendLog \/ AppendPhase \/ AppendResult

Next ==
    \/ Driver
    \/ \E c \in Clients :
        \/ \E from \in {0, LastSeen(c)} : Subscribe(c, from)
        \/ Lock(c) \/ CheckWait(c) \/ Sleep(c) \/ CheckCancelled(c) \/ CheckReady(c)
        \/ Send(c) \/ SendFails(c) \/ Sent(c) \/ Cancel(c) \/ Watcher(c)

Spec == Init /\ [][Next]_vars

\* Goroutines are scheduled and f.mu is handed to a starving waiter.  A client
\* that is not stalled reads its stream; a send on a cancelled stream returns.
\* The driver appends its result: every path of runDeployFrom ends in one, and
\* every docker command under it has a deadline.
Fairness ==
    /\ SF_vars(AppendResult)
    /\ \A c \in Clients :
        /\ SF_vars(Lock(c)) /\ SF_vars(Watcher(c))
        /\ WF_vars(CheckWait(c)) /\ WF_vars(Sleep(c)) /\ WF_vars(CheckCancelled(c))
        /\ WF_vars(CheckReady(c)) /\ WF_vars(Sent(c)) /\ WF_vars(SendFails(c))
        /\ WF_vars(c \notin Stalled /\ Send(c))

FairSpec == Spec /\ Fairness
-----------------------------------------------------------------------------
Received(c) == {got[c][i].seq : i \in DOMAIN got[c]}

\* A client misses nothing but log lines: every phase change and the result up to
\* the last event it got are among what it got, over any number of streams,
\* cancellations and trims.
OnlyLogsAreMissed ==
    \A c \in Clients : \A s \in 1..LastSeen(c) :
        s \notin Received(c) => emitted[s].kind = "log" /\ s \notin kept

\* The note and the counters agree with the buffer: nothing is dropped unnoticed,
\* and the budget is computed from what is really retained.
BudgetIsExact ==
    /\ logCount = Cardinality(LogsIn(emitted, kept))
    /\ logBytes = SizeOf(emitted, LogsIn(emitted, kept))
    /\ droppedLog + logCount = Cardinality(LogsIn(emitted, 1..lastSeq))
    /\ droppedLog > 0 => noteSeq \notin kept /\ emitted[noteSeq].kind = "log"

\* Whatever a build prints, the retained log stays within the budget unless it is
\* a single line, and the newest line is always retained.
RetentionIsBounded ==
    /\ logCount <= 1 \/ (logBytes <= MaxBytes /\ logCount <= MaxEvents)
    /\ \A s \in LogsIn(emitted, 1..lastSeq) :
        (\A t \in LogsIn(emitted, 1..lastSeq) : t <= s) => s \in kept

\* The log a run keeps for its readers is counted exactly and stays bounded.
BudgetHolds == BudgetIsExact /\ RetentionIsBounded

\* A client that lost log lines has the note that says so.
GapIsAnnounced ==
    \A c \in Clients :
        (\E s \in 1..LastSeen(c) : s \notin Received(c)) => \E i \in DOMAIN got[c] : got[c][i].note

\* A cancelled subscription that sleeps still has its watcher to wake it: the
\* wake-up is never lost between the test of the wait condition and the sleep, so
\* the stream of a client that left does not last as long as the deploy.
CancelledIsWoken ==
    \A c \in Clients : cancelled[c] /\ pc[c] = "asleep" => watching[c]

\* Every client that keeps reading is served to the end, however the others behave,
\* and one that left does not wait for the deploy: no wake-up of its is lost.
StreamEnds ==
    /\ []CancelledIsWoken
    /\ \A c \in Clients \ Stalled : (pc[c] \in Running) ~> (pc[c] \in {"ended", "failed"})

\* No reader, stalled or gone, keeps the deploy from reaching its result.
DeployIsNotHeldUp == (\E c \in Clients : pc[c] \in Running) ~> done

\* The promise, with each client's place in it.
Feed == INSTANCE DeployFeed WITH
    emitted <- [i \in DOMAIN emitted |-> emitted[i].kind],
    received <- [c \in Clients |-> [i \in DOMAIN got[c] |-> got[c][i].seq]],
    ended <- {c \in Clients : pc[c] = "ended"}

\* The record with its cursor, trims and reconnects keeps DeployFeed's promise.
ImplementsDeployFeed == Feed!Spec

=============================================================================
