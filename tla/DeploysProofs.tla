---------------------------- MODULE DeploysProofs ----------------------------
(***************************************************************************)
(* Proofs about DeployLog and DeployRegistry, for any readers, sizes of    *)
(* log lines, budgets, ids, calls and runs: the record of a deploy keeps   *)
(* the promise of DeployFeed to every reader and its log within the        *)
(* budget, no reader that left sleeps on, and the registry of deploys      *)
(* keeps every run it must, no more finished ones than fit, and the files  *)
(* that are theirs.  And about Capture and PageCapture, the screenshots of *)
(* what was deployed: one browser at a time whose connections end with it, *)
(* waits that are bounded and outcomes that fit.                           *)
(***************************************************************************)
EXTENDS MCFeeds, MCDeploys, Sums, FiniteSetTheorems, TLAPS

\* The types, but for what the budget counts.
RecordTypes ==
    /\ emitted \in Seq([kind : Kinds, n : Nat])
    /\ kept \subseteq 1..lastSeq
    /\ noteSeq \in 0..lastSeq /\ droppedLog \in Nat
    /\ done \in BOOLEAN
ReaderTypes ==
    /\ mu \in Clients \cup {Free}
    /\ pc \in [Clients -> Running \cup {"off", "ended", "failed"}]
    /\ cursor \in [Clients -> Nat]
    /\ batch \in [Clients -> SUBSET Item]
    /\ finished \in [Clients -> BOOLEAN] /\ cancelled \in [Clients -> BOOLEAN]
    /\ watching \in [Clients -> BOOLEAN]
    /\ got \in [Clients -> Seq(Item)]
    /\ opened \in [Clients -> Nat]

\* Only log lines are dropped, the note stands where one was, and nothing comes
\* after the result.
RecordInv ==
    /\ \A s \in (1..lastSeq) \ kept : emitted[s].kind = "log"
    /\ droppedLog > 0 => noteSeq \in (1..lastSeq) \ kept
    /\ done => lastSeq > 0 /\ emitted[lastSeq].kind = "result"
    /\ ~done => \A s \in 1..lastSeq : emitted[s].kind # "result"

\* A stream has sent, or has in its batch, all but log lines up to its cursor, and
\* its batch continues what it sent.
Following(c) ==
    /\ LastSeen(c) <= lastSeq
    /\ pc[c] \in Running =>
          /\ LastSeen(c) <= cursor[c] /\ cursor[c] <= lastSeq
          /\ \A s \in LastSeen(c) + 1 .. cursor[c] :
                emitted[s].kind = "log" \/ \E e \in batch[c] : e.seq = s
    /\ \A e \in batch[c] : LastSeen(c) < e.seq /\ e.seq <= cursor[c]
    /\ \A e, f \in batch[c] : e.seq = f.seq => e = f
    /\ IF pc[c] = "send" THEN finished[c] => done /\ cursor[c] = lastSeq ELSE batch[c] = {}
FeedInv == RecordInv /\ \A c \in Clients : Following(c)

\* f.mu is held through the test of the wait condition, and the watcher of a stream
\* that sleeps, or that was not cancelled, is still there.
WakeInv ==
    \A c \in Clients :
        /\ pc[c] \in {"check", "wait"} => mu = c
        /\ pc[c] \in {"wait", "asleep"} => watching[c]
        /\ pc[c] \in Running /\ ~cancelled[c] => watching[c]

USE DeployLogAssumption DEF record, vars, lastSeq
-----------------------------------------------------------------------------
(* What the log's operators do.                                            *)

\* The first event of a batch is in it.
LEMMA EarliestOf ==
    ASSUME NEW c, batch[c] \in SUBSET Item, batch[c] # {}
    PROVE  Earliest(c) \in batch[c] /\ \A f \in batch[c] : Earliest(c).seq <= f.seq
<1> DEFINE S == {e.seq : e \in batch[c]}
<1>1. S \in SUBSET Nat /\ S # {}
  BY DEF Item
<1>2. PICK m \in S : \A n \in S : m <= n
  BY <1>1, LeastOf
<1>3. PICK e \in batch[c] : e.seq = m
  BY <1>2
<1>4. \A f \in batch[c] : e.seq <= f.seq
  BY <1>2, <1>3
<1> QED
  BY <1>4 DEF Earliest

\* The sequence numbers of what a client got, and the kinds of events.
SeqsOf(s) == [i \in DOMAIN s |-> s[i].seq]
KindsOf(evs) == [i \in DOMAIN evs |-> evs[i].kind]
Events == [kind : Kinds, n : Nat]

\* What an event more does to the numbers of the events a client got,
LEMMA SeqsAppend ==
    ASSUME NEW s \in Seq(Item), NEW e \in Item
    PROVE  /\ SeqsOf(s) \in Seq(Nat) /\ Len(SeqsOf(s)) = Len(s)
           /\ \A i \in 1..Len(s) : SeqsOf(s)[i] = s[i].seq
           /\ SeqsOf(Append(s, e)) = Append(SeqsOf(s), e.seq)
<1>1. /\ e.seq \in Nat /\ Len(s) \in Nat /\ DOMAIN s = 1..Len(s)
      /\ \A i \in 1..Len(s) : s[i].seq \in Nat
  <2>1. \A i \in 1..Len(s) : s[i] \in Item
    OBVIOUS
  <2> QED
    BY <2>1 DEF Item
<1>2. SeqsOf(s) \in Seq(Nat) /\ Len(SeqsOf(s)) = Len(s)
  BY <1>1 DEF SeqsOf
<1>3. \A i \in 1..Len(s) : SeqsOf(s)[i] = s[i].seq
  BY <1>1 DEF SeqsOf
<1> DEFINE t == Append(s, e)
<1>4. /\ t \in Seq(Item) /\ Len(t) = Len(s) + 1 /\ DOMAIN t = 1..Len(s) + 1
      /\ \A i \in 1..Len(s) : t[i] = s[i]
      /\ t[Len(s) + 1] = e
  BY <1>1
<1> HIDE DEF t
<1>5. \A i \in 1..Len(s) + 1 : t[i].seq \in Nat
  BY <1>1, <1>4
<1>6. /\ SeqsOf(t) \in Seq(Nat) /\ Len(SeqsOf(t)) = Len(s) + 1
      /\ \A i \in 1..Len(s) + 1 : SeqsOf(t)[i] = t[i].seq
  BY <1>1, <1>4, <1>5 DEF SeqsOf
<1>7. SeqsOf(t) = Append(SeqsOf(s), e.seq)
  BY <1>1, <1>2, <1>3, <1>4, <1>6, SMTT(20)
<1> QED
  BY <1>2, <1>3, <1>7 DEF t

\* and to the kinds of the events in the record.
LEMMA KindsAppend ==
    ASSUME NEW evs \in Seq(Events), NEW e \in Events
    PROVE  /\ KindsOf(evs) \in Seq(Kinds) /\ Len(KindsOf(evs)) = Len(evs)
           /\ DOMAIN KindsOf(evs) = 1..Len(evs)
           /\ \A i \in 1..Len(evs) : KindsOf(evs)[i] = evs[i].kind
           /\ KindsOf(Append(evs, e)) = Append(KindsOf(evs), e.kind)
<1>1. /\ e.kind \in Kinds /\ Len(evs) \in Nat /\ DOMAIN evs = 1..Len(evs)
      /\ \A i \in 1..Len(evs) : evs[i].kind \in Kinds
  <2>1. \A i \in 1..Len(evs) : evs[i] \in Events
    OBVIOUS
  <2> QED
    BY <2>1 DEF Events
<1>2. /\ KindsOf(evs) \in Seq(Kinds) /\ Len(KindsOf(evs)) = Len(evs)
      /\ DOMAIN KindsOf(evs) = 1..Len(evs)
  BY <1>1 DEF KindsOf
<1>3. \A i \in 1..Len(evs) : KindsOf(evs)[i] = evs[i].kind
  BY <1>1 DEF KindsOf
<1> DEFINE t == Append(evs, e)
<1>4. /\ t \in Seq(Events) /\ Len(t) = Len(evs) + 1 /\ DOMAIN t = 1..Len(evs) + 1
      /\ \A i \in 1..Len(evs) : t[i] = evs[i]
      /\ t[Len(evs) + 1] = e
  BY <1>1
<1> HIDE DEF t
<1>5. \A i \in 1..Len(evs) + 1 : t[i].kind \in Kinds
  BY <1>1, <1>4
<1>6. /\ KindsOf(t) \in Seq(Kinds) /\ Len(KindsOf(t)) = Len(evs) + 1
      /\ \A i \in 1..Len(evs) + 1 : KindsOf(t)[i] = t[i].kind
  BY <1>1, <1>4, <1>5 DEF KindsOf
<1>7. KindsOf(t) = Append(KindsOf(evs), e.kind)
  BY <1>1, <1>2, <1>3, <1>4, <1>6
<1> QED
  BY <1>2, <1>3, <1>7 DEF t

\* Whatever the budget, only log lines of the buffer are dropped.
LEMMA OnlyLogsDropped ==
    ASSUME NEW evs, NEW ks, NEW bytes, NEW count
    PROVE  DroppedNow(evs, ks, bytes, count) \subseteq {s \in ks : evs[s].kind = "log"}
BY DEF DroppedNow, Droppable, LogsIn

\* The last number a client has seen is one.
LEMMA LastSeenType ==
    ASSUME NEW c, got[c] \in Seq(Item)
    PROVE  LastSeen(c) \in Nat
<1>1. got[c] # <<>> => got[c][Len(got[c])] \in Item
  OBVIOUS
<1> QED
  BY <1>1 DEF LastSeen, Item
\* The library's fold is that sum.
LEMMA SizeOfIsSum ==
    ASSUME NEW evs, NEW ks, IsFiniteSet(ks)
    PROVE  SizeOf(evs, ks) = SumOf([s \in ks |-> evs[s].n], ks)
<1> DEFINE v == [s \in ks |-> evs[s].n]
           iter[s \in SUBSET ks] ==
               IF s = {} THEN 0
               ELSE evs[CHOOSE x \in s : TRUE].n + iter[s \ {CHOOSE x \in s : TRUE}]
<1>1. SizeOf(evs, ks) = iter[ks]
  BY DEF SizeOf, MapThenSumSet, MapThenFoldSet
<1> DEFINE Eqs(f) == f = [s \in SUBSET ks |->
                IF s = {} THEN 0
                ELSE evs[CHOOSE x \in s : TRUE].n + f[s \ {CHOOSE x \in s : TRUE}]]
<1>2. iter = CHOOSE f : Eqs(f)
  BY DEF iter
<1>0. \A s \in SUBSET ks : s # {} => First(s) \in ks
  BY FirstIn
<1>3. PICK f : SumsUp(f, v, ks)
  BY SumExists
<1>4. Eqs(f)
  BY <1>0, <1>3 DEF SumsUp, First
<1>5. Eqs(iter)
  <2> HIDE DEF iter, Eqs
  <2> QED
    BY <1>2, <1>4
<1> HIDE DEF iter
<1>6. SumsUp(iter, v, ks)
  BY <1>0, <1>5 DEF SumsUp, First
<1>7. iter[ks] = SumOf(v, ks)
  BY <1>6, SumSteps
<1> QED
  BY <1>1, <1>7
-----------------------------------------------------------------------------
(* The record.                                                             *)

\* What an append shows the readers.
Appends(kind) ==
    /\ ~done /\ done' = (kind = "result")
    /\ emitted' = Append(emitted, [kind |-> kind, n |-> emitted'[Len(emitted) + 1].n])
    /\ Len(emitted') = Len(emitted) + 1
    /\ emitted'[Len(emitted) + 1].kind = kind
    /\ \A s \in 1..Len(emitted) : emitted'[s] = emitted[s]
    /\ pc' = Woken
    /\ UNCHANGED <<mu, cursor, batch, finished, cancelled, watching, got, opened>>

\* An append, whatever its kind and its trim, keeps the record sound.
LEMMA AppendStep ==
    ASSUME NEW kind \in Kinds, NEW n \in Nat, RecordTypes, RecordInv, AppendEvent(kind, n)
    PROVE  RecordTypes' /\ RecordInv' /\ Appends(kind)
<1> DEFINE e == [kind |-> kind, n |-> n]
           evs == Append(emitted, e)
           ks == kept \cup {Len(evs)}
           isLog == kind = "log"
           dropped == IF isLog
                      THEN DroppedNow(evs, ks, logBytes + (IF isLog THEN n ELSE 0),
                                      logCount + (IF isLog THEN 1 ELSE 0))
                      ELSE {}
           N == Len(emitted)
<1>1. /\ emitted' = evs /\ kept' = ks \ dropped
      /\ noteSeq' = IF droppedLog = 0 /\ dropped # {} THEN Min(dropped) ELSE noteSeq
      /\ droppedLog' = droppedLog + Cardinality(dropped)
      /\ ~done /\ done' = (kind = "result") /\ pc' = Woken
      /\ UNCHANGED <<mu, cursor, batch, finished, cancelled, watching, got, opened>>
  BY DEF AppendEvent
<1>2. dropped \subseteq {s \in ks : evs[s].kind = "log"}
  BY OnlyLogsDropped
<1>3. /\ emitted \in Seq(Events) /\ e \in Events /\ N \in Nat
      /\ kept \subseteq 1..N /\ noteSeq \in 0..N /\ droppedLog \in Nat
  BY DEF RecordTypes, Events
<1>4. /\ evs \in Seq(Events) /\ Len(evs) = N + 1 /\ evs[N + 1] = e
      /\ \A s \in 1..N : evs[s] = emitted[s]
      /\ ks = kept \cup {N + 1}
  BY <1>3
<1>e. e.kind = kind
  OBVIOUS
<1>r. /\ droppedLog > 0 => noteSeq \in (1..N) \ kept
      /\ \A s \in (1..N) \ kept : emitted[s].kind = "log"
      /\ ~done => \A s \in 1..N : emitted[s].kind # "result"
  BY DEF RecordInv
<1>11. Appends(kind)
  BY <1>1, <1>3, <1>4 DEF evs, Appends
<1> HIDE DEF evs, dropped, ks, N, e
<1>5. ks \subseteq 1..N + 1 /\ dropped \subseteq 1..N + 1 /\ dropped \in SUBSET Nat
  BY <1>2, <1>3, <1>4
<1>6. Cardinality(dropped) \in Nat /\ (dropped = {} => Cardinality(dropped) = 0)
  <2>1. IsFiniteSet(1..N + 1)
    BY <1>3, FS_Interval
  <2>2. IsFiniteSet(dropped)
    BY <1>2, <1>5, <2>1, FS_Subset
  <2> QED
    BY <2>2, FS_CardinalityType, FS_EmptySet
<1>7. dropped # {} => Min(dropped) \in dropped
  BY <1>5, LeastOf DEF Min
<1>8. noteSeq' \in 0..N + 1 /\ (droppedLog' > 0 => noteSeq' \in (1..N + 1) \ kept')
  <2>1. CASE droppedLog = 0 /\ dropped # {}
    <3>1. noteSeq' = Min(dropped)
      BY <1>1, <2>1
    <3>2. noteSeq' \in dropped
      BY <1>7, <2>1, <3>1
    <3> QED
      BY <1>1, <1>3, <1>5, <3>2
  <2>2. CASE droppedLog = 0 /\ dropped = {}
    <3>1. noteSeq' = noteSeq
      BY <1>1, <2>2
    <3>2. droppedLog' = 0
      BY <1>1, <1>6, <2>2
    <3> QED
      BY <1>3, <3>1, <3>2
  <2>3. CASE droppedLog # 0
    BY <1>1, <1>3, <1>4, <1>5, <1>r, <2>3
  <2> QED
    BY <2>1, <2>2, <2>3
<1>9. RecordTypes'
  <2>1. kept' \subseteq 1..N + 1 /\ droppedLog' \in Nat /\ done' \in BOOLEAN
    BY <1>1, <1>3, <1>5, <1>6
  <2> QED
    BY <1>1, <1>3, <1>4, <1>8, <2>1 DEF RecordTypes, Events
<1>10. RecordInv'
  <2>1. \A s \in (1..N + 1) \ kept' : evs[s].kind = "log"
    <3> SUFFICES ASSUME NEW s \in 1..N + 1, s \notin kept' PROVE evs[s].kind = "log"
      OBVIOUS
    <3>1. CASE s \in dropped
      BY <1>2, <3>1
    <3>2. CASE s \notin dropped
      BY <1>1, <1>3, <1>4, <1>r, <3>2
    <3> QED
      BY <3>1, <3>2
  <2>2. done' => evs[N + 1].kind = "result"
    BY <1>1, <1>4, <1>e
  <2>3. ~done' => \A s \in 1..N + 1 : evs[s].kind # "result"
    <3>1. ~done' => evs[N + 1].kind # "result"
      BY <1>1, <1>4, <1>e
    <3> QED
      BY <1>1, <1>3, <1>4, <1>r, <3>1
  <2> QED
    BY <1>1, <1>3, <1>4, <1>8, <2>1, <2>2, <2>3 DEF RecordInv
<1> QED
  BY <1>9, <1>10, <1>11
-----------------------------------------------------------------------------
(* The budget.                                                             *)

\* The size of a set of lines is a number, and splits over its parts,
LEMMA SizeFacts ==
    ASSUME NEW evs, NEW S, IsFiniteSet(S), \A s \in S : evs[s].n \in Nat
    PROVE  /\ SizeOf(evs, S) \in Nat
           /\ \A T \in SUBSET S : SizeOf(evs, S) = SizeOf(evs, T) + SizeOf(evs, S \ T)
           /\ \A s \in S : SizeOf(evs, S) = evs[s].n + SizeOf(evs, S \ {s})
<1> DEFINE v == [s \in S |-> evs[s].n]
<1>1. ASSUME NEW U \in SUBSET S PROVE SizeOf(evs, U) = SumOf(v, U)
  <2> DEFINE u == [s \in U |-> evs[s].n]
  <2>1. IsFiniteSet(U)
    BY FS_Subset
  <2>2. \A s \in U : u[s] = v[s]
    OBVIOUS
  <2>3. SizeOf(evs, U) = SumOf(u, U)
    BY <2>1, SizeOfIsSum
  <2> HIDE DEF u, v
  <2> QED
    BY <2>1, <2>2, <2>3, SumSame
<1>2. \A s \in S : v[s] = evs[s].n /\ v[s] \in Nat
  OBVIOUS
<1> HIDE DEF v
<1>3. SumOf(v, S) \in Nat
  BY <1>2, SumIsNat
<1>4. \A T \in SUBSET S : SumOf(v, S) = SumOf(v, T) + SumOf(v, S \ T)
  BY <1>2, SumSplit
<1>5. \A s \in S : SumOf(v, S) = v[s] + SumOf(v, S \ {s})
  BY <1>2, SumWithout
<1> QED
  BY <1>1, <1>2, <1>3, <1>4, <1>5

\* and depends on the lines alone.
LEMMA SizeSame ==
    ASSUME NEW evs, NEW fvs, NEW S, IsFiniteSet(S), \A s \in S : evs[s].n = fvs[s].n
    PROVE  SizeOf(evs, S) = SizeOf(fvs, S)
<1>1. [s \in S |-> evs[s].n] = [s \in S |-> fvs[s].n]
  OBVIOUS
<1> QED
  BY <1>1, SizeOfIsSum

\* A pass that is over budget drops enough, but never the newest line.
LEMMA DropIsEnough ==
    ASSUME NEW evs, NEW ks, Len(evs) \in Nat, LogsIn(evs, ks) \subseteq 1..Len(evs),
           Len(evs) \in LogsIn(evs, ks), NEW bytes, NEW count,
           count = Cardinality(LogsIn(evs, ks))
    PROVE  LET d == DroppedNow(evs, ks, bytes, count)
           IN  /\ ~OverBudget(bytes, count) => d = {}
               /\ OverBudget(bytes, count) =>
                     Enough(bytes - SizeOf(evs, d), count - Cardinality(d))
               /\ Len(evs) \notin d
<1> DEFINE K == LogsIn(evs, ks)
           N == Len(evs)
           oldest(m) == {s \in Droppable(evs, ks) : s < m}
           enough(m) == Enough(bytes - SizeOf(evs, oldest(m)), count - Cardinality(oldest(m)))
           stop == CHOOSE m \in 1..N + 1 : enough(m) /\ \A k \in 1..N + 1 : enough(k) => m <= k
           d == DroppedNow(evs, ks, bytes, count)
<1>1. d = IF OverBudget(bytes, count) THEN oldest(stop) ELSE {}
  BY DEF DroppedNow
<1>2. enough(N) /\ N \in 1..N + 1
  <2>1. IsFiniteSet(K) /\ Cardinality(K) \in Nat
    <3>1. IsFiniteSet(1..N)
      BY FS_Interval
    <3> QED
      BY <3>1, FS_Subset, FS_CardinalityType
  <2>2. oldest(N) = K \ {N}
    BY DEF Droppable
  <2>3. Cardinality(K \ {N}) = Cardinality(K) - 1
    BY <2>1, FS_RemoveElement
  <2>4. count - Cardinality(oldest(N)) = 1
    <3>1. count = Cardinality(K) /\ Cardinality(oldest(N)) = Cardinality(K) - 1
      BY <2>2, <2>3
    <3> HIDE DEF K, oldest
    <3> QED
      BY <2>1, <3>1
  <2>5. N \in 1..N + 1
    OBVIOUS
  <2> QED
    BY <2>4, <2>5 DEF Enough
<1>3. stop \in 1..N + 1 /\ enough(stop) /\ stop <= N
  <2> DEFINE M == {m \in 1..N + 1 : enough(m)}
  <2> HIDE DEF enough
  <2>1. M \in SUBSET Nat /\ N \in M
    BY <1>2
  <2>2. PICK m \in M : \A k \in M : m <= k
    BY <2>1, LeastOf
  <2>3. m \in 1..N + 1 /\ enough(m) /\ \A k \in 1..N + 1 : enough(k) => m <= k
    BY <2>2
  <2>4. stop \in 1..N + 1 /\ enough(stop) /\ \A k \in 1..N + 1 : enough(k) => stop <= k
    BY <2>3
  <2> QED
    BY <1>2, <2>4
<1> HIDE DEF stop
<1>4. N \notin oldest(stop)
  BY <1>3
<1> QED
  BY <1>1, <1>3, <1>4

\* An append keeps the counters exact and the log within its budget.
LEMMA BudgetStep ==
    ASSUME NEW kind \in Kinds, NEW n \in Nat, RecordTypes, RecordInv, BudgetHolds,
           AppendEvent(kind, n)
    PROVE  BudgetHolds'
<1> DEFINE e == [kind |-> kind, n |-> n]
           evs == Append(emitted, e)
           ks == kept \cup {Len(evs)}
           isLog == kind = "log"
           bytes == logBytes + (IF isLog THEN n ELSE 0)
           count == logCount + (IF isLog THEN 1 ELSE 0)
           dropped == IF isLog THEN DroppedNow(evs, ks, bytes, count) ELSE {}
           N == Len(emitted)
           K == LogsIn(evs, ks)
           All == LogsIn(evs, 1..N + 1)
<1>1. /\ emitted' = evs /\ kept' = ks \ dropped
      /\ droppedLog' = droppedLog + Cardinality(dropped)
      /\ logCount' = count - Cardinality(dropped)
      /\ logBytes' = bytes - SizeOf(evs, dropped)
  BY DEF AppendEvent
<1>2. dropped \subseteq K
  BY OnlyLogsDropped DEF LogsIn
<1>3. /\ emitted \in Seq(Events) /\ N \in Nat /\ kept \subseteq 1..N /\ droppedLog \in Nat
      /\ e \in Events /\ e.kind = kind /\ e.n = n
  BY DEF RecordTypes, Events
<1>4. /\ evs \in Seq(Events) /\ Len(evs) = N + 1 /\ evs[N + 1] = e
      /\ \A s \in 1..N : evs[s] = emitted[s]
      /\ ks = kept \cup {N + 1}
  BY <1>3
<1>5. /\ logCount = Cardinality(LogsIn(emitted, kept))
      /\ logBytes = SizeOf(emitted, LogsIn(emitted, kept))
      /\ droppedLog + logCount = Cardinality(LogsIn(emitted, 1..N))
      /\ logCount <= 1 \/ (logBytes <= MaxBytes /\ logCount <= MaxEvents)
      /\ \A s \in LogsIn(emitted, 1..N) :
            (\A t \in LogsIn(emitted, 1..N) : t <= s) => s \in kept
  BY DEF BudgetHolds, BudgetIsExact, RetentionIsBounded
<1>6. RecordTypes' /\ RecordInv'
  BY AppendStep
<1> HIDE DEF e, evs, ks, N, dropped
<1>a. evs[N + 1].kind = kind /\ evs[N + 1].n = n
  BY <1>3, <1>4
<1>b. \A ms \in SUBSET (1..N) :
         /\ LogsIn(evs, ms) = LogsIn(emitted, ms)
         /\ LogsIn(evs, ms \cup {N + 1}) = IF isLog THEN LogsIn(emitted, ms) \cup {N + 1}
                                           ELSE LogsIn(emitted, ms)
  BY <1>3, <1>4, <1>a DEF LogsIn
<1>c. 1..N + 1 = (1..N) \cup {N + 1} /\ N + 1 \notin 1..N
  BY <1>3
<1>7. /\ isLog => K = LogsIn(emitted, kept) \cup {N + 1} /\ All = LogsIn(emitted, 1..N) \cup {N + 1}
      /\ ~isLog => K = LogsIn(emitted, kept) /\ All = LogsIn(emitted, 1..N)
      /\ N + 1 \notin LogsIn(emitted, kept) /\ N + 1 \notin LogsIn(emitted, 1..N)
      /\ K \subseteq 1..N + 1
  <2>1. kept \in SUBSET (1..N) /\ (1..N) \in SUBSET (1..N)
    BY <1>3
  <2>2. K = LogsIn(evs, kept \cup {N + 1}) /\ All = LogsIn(evs, (1..N) \cup {N + 1})
    BY <1>4, <1>c
  <2>3. LogsIn(emitted, kept) \subseteq kept /\ LogsIn(emitted, 1..N) \subseteq 1..N
    BY DEF LogsIn
  <2> HIDE DEF K, All
  <2>4. /\ isLog => K = LogsIn(emitted, kept) \cup {N + 1} /\ All = LogsIn(emitted, 1..N) \cup {N + 1}
        /\ ~isLog => K = LogsIn(emitted, kept) /\ All = LogsIn(emitted, 1..N)
    BY <1>b, <2>1, <2>2
  <2>5. K \subseteq LogsIn(emitted, kept) \cup {N + 1}
    BY <2>4
  <2> QED
    BY <1>c, <2>1, <2>3, <2>4, <2>5
<1>8. /\ IsFiniteSet(LogsIn(emitted, kept)) /\ IsFiniteSet(LogsIn(emitted, 1..N))
      /\ IsFiniteSet(K) /\ IsFiniteSet(dropped) /\ IsFiniteSet(K \ dropped)
      /\ Cardinality(LogsIn(emitted, kept)) \in Nat /\ Cardinality(LogsIn(emitted, 1..N)) \in Nat
      /\ Cardinality(K) \in Nat /\ Cardinality(dropped) \in Nat
  <2>1. IsFiniteSet(1..N + 1)
    BY <1>3, FS_Interval
  <2>2. LogsIn(emitted, kept) \subseteq 1..N + 1 /\ LogsIn(emitted, 1..N) \subseteq 1..N + 1
    <3>1. LogsIn(emitted, kept) \subseteq kept /\ LogsIn(emitted, 1..N) \subseteq 1..N
      BY DEF LogsIn
    <3> QED
      BY <1>3, <1>c, <3>1
  <2>3. K \ dropped \subseteq 1..N + 1 /\ dropped \subseteq 1..N + 1
    BY <1>2, <1>7
  <2> QED
    BY <1>7, <2>1, <2>2, <2>3, FS_Subset, FS_CardinalityType
<1>9. /\ count = Cardinality(K)
      /\ droppedLog + count = Cardinality(All)
  <2> DEFINE Old == LogsIn(emitted, kept)
             Every == LogsIn(emitted, 1..N)
  <2>1. /\ Cardinality(Old \cup {N + 1}) = Cardinality(Old) + 1
        /\ Cardinality(Every \cup {N + 1}) = Cardinality(Every) + 1
    BY <1>7, <1>8, FS_AddElement
  <2>2. /\ logCount = Cardinality(Old) /\ droppedLog + logCount = Cardinality(Every)
        /\ Cardinality(Old) \in Nat /\ Cardinality(Every) \in Nat /\ droppedLog \in Nat
    BY <1>3, <1>5, <1>8
  <2>3. /\ isLog => K = Old \cup {N + 1} /\ All = Every \cup {N + 1}
        /\ ~isLog => K = Old /\ All = Every
    BY <1>7
  <2>4. /\ isLog => count = logCount + 1
        /\ ~isLog => count = logCount + 0
    <3>1. ASSUME isLog PROVE count = logCount + 1
      BY <3>1
    <3>2. ASSUME ~isLog PROVE count = logCount + 0
      BY <3>2
    <3> HIDE DEF count
    <3> QED
      BY <3>1, <3>2
  <2> HIDE DEF Old, Every, K, All, count
  <2>5. CASE isLog
    BY <2>1, <2>2, <2>3, <2>4, <2>5
  <2>6. CASE ~isLog
    BY <2>2, <2>3, <2>4, <2>6
  <2> QED
    BY <2>5, <2>6
<1>10. \A s \in K : evs[s].n \in Nat
  <2>1. \A s \in 1..N + 1 : evs[s] \in Events
    BY <1>3, <1>4
  <2> QED
    BY <1>7, <2>1 DEF Events
<1>11. bytes = SizeOf(evs, K) /\ SizeOf(evs, K) \in Nat
  <2>1. SizeOf(evs, LogsIn(emitted, kept)) = logBytes
    <3>1. \A s \in LogsIn(emitted, kept) : evs[s].n = emitted[s].n
      BY <1>3, <1>4 DEF LogsIn
    <3> QED
      BY <1>5, <1>8, <3>1, SizeSame
  <2>2. SizeOf(evs, K) \in Nat
    BY <1>8, <1>10, SizeFacts
  <2>3. CASE ~isLog
    <3>1. bytes = logBytes + 0 /\ K = LogsIn(emitted, kept)
      BY <1>7, <2>3
    <3> HIDE DEF bytes, K
    <3> QED
      BY <2>1, <2>2, <3>1
  <2>4. CASE isLog
    <3>1. N + 1 \in K /\ K \ {N + 1} = LogsIn(emitted, kept) /\ bytes = logBytes + n
      BY <1>7, <2>4
    <3>2. SizeOf(evs, K) = evs[N + 1].n + SizeOf(evs, K \ {N + 1})
      BY <1>8, <1>10, <3>1, SizeFacts
    <3>3. SizeOf(evs, LogsIn(emitted, kept)) \in Nat
      <4>1. LogsIn(emitted, kept) \in SUBSET K
        BY <3>1
      <4>2. IsFiniteSet(LogsIn(emitted, kept)) /\ \A s \in LogsIn(emitted, kept) : evs[s].n \in Nat
        BY <1>8, <1>10, <4>1
      <4> QED
        BY <4>2, SizeFacts
    <3> HIDE DEF bytes, K
    <3>4. SizeOf(evs, K) = n + logBytes
      BY <1>a, <2>1, <3>1, <3>2
    <3> QED
      BY <2>1, <2>2, <3>1, <3>3, <3>4
  <2> QED
    BY <2>3, <2>4
<1>12. /\ LogsIn(emitted', kept') = K \ dropped /\ LogsIn(emitted', 1..lastSeq') = All
       /\ lastSeq' = N + 1
  BY <1>1, <1>4 DEF LogsIn
<1>13. /\ Cardinality(K \ dropped) = Cardinality(K) - Cardinality(dropped)
       /\ SizeOf(evs, K) = SizeOf(evs, dropped) + SizeOf(evs, K \ dropped)
       /\ SizeOf(evs, dropped) \in Nat /\ SizeOf(evs, K \ dropped) \in Nat
  <2>1. K \cap dropped = dropped
    BY <1>2
  <2>2. Cardinality(K \ dropped) = Cardinality(K) - Cardinality(dropped)
    BY <1>8, <2>1, FS_Difference
  <2>3. SizeOf(evs, K) = SizeOf(evs, dropped) + SizeOf(evs, K \ dropped)
    BY <1>2, <1>8, <1>10, SizeFacts
  <2>4. SizeOf(evs, dropped) \in Nat /\ SizeOf(evs, K \ dropped) \in Nat
    BY <1>2, <1>8, <1>10, SizeFacts
  <2> QED
    BY <2>2, <2>3, <2>4
<1>14. BudgetIsExact'
  <2>1. logCount' = Cardinality(K \ dropped) /\ droppedLog' + logCount' = Cardinality(All)
    BY <1>1, <1>3, <1>8, <1>9, <1>13, SMTT(20)
  <2>2. logBytes' = SizeOf(evs, K \ dropped)
    BY <1>1, <1>11, <1>13
  <2>3. droppedLog' > 0 => noteSeq' \notin kept' /\ emitted'[noteSeq'].kind = "log"
    BY <1>6 DEF RecordInv
  <2> QED
    BY <1>1, <1>12, <2>1, <2>2, <2>3 DEF BudgetIsExact
<1>15. RetentionIsBounded'
  <2>0. /\ bytes = SizeOf(evs, K) /\ bytes \in Nat /\ count = Cardinality(K) /\ count \in Nat
    BY <1>8, <1>9, <1>11
  <2>a. ~isLog => bytes = logBytes /\ count = logCount /\ dropped = {}
    <3>1. ASSUME ~isLog PROVE bytes = logBytes + 0 /\ count = logCount + 0
      BY <3>1
    <3>2. ASSUME ~isLog PROVE dropped = {}
      BY <3>2 DEF dropped
    <3>3. ASSUME ~isLog PROVE logBytes \in Nat /\ logCount \in Nat
      <4>1. K = LogsIn(emitted, kept)
        BY <1>7, <3>3
      <4>2. LogsIn(emitted, kept) = K /\ SizeOf(evs, K) = SizeOf(emitted, K)
        <5>1. \A s \in K : evs[s].n = emitted[s].n
          <6>1. K \subseteq 1..N
            BY <1>3, <4>1 DEF LogsIn
          <6> QED
            BY <1>4, <6>1
        <5> QED
          BY <1>8, <4>1, <5>1, SizeSame
      <4>3. logBytes = bytes /\ logCount = count
        BY <1>5, <2>0, <4>1, <4>2
      <4> QED
        BY <2>0, <4>3
    <3> HIDE DEF bytes, count
    <3> QED
      BY <3>1, <3>2, <3>3
  <2> HIDE DEF bytes, count, K, All
  <2>1. CASE ~isLog
    <3>1. logCount' = logCount /\ logBytes' = logBytes
      <4>1. Cardinality(dropped) = 0 /\ SizeOf(evs, dropped) = 0
        <5>1. dropped = {}
          BY <2>1, <2>a
        <5>2. SizeOf(evs, {}) = 0
          <6>1. IsFiniteSet({}) /\ SizeOf(evs, {}) = SumOf([s \in {} |-> evs[s].n], {})
            BY FS_EmptySet, SizeOfIsSum
          <6> QED
            BY <6>1, SumSteps
        <5> QED
          BY <5>1, <5>2, FS_EmptySet
      <4> QED
        BY <1>1, <2>0, <2>1, <2>a, <4>1
    <3>2. kept \subseteq kept'
      BY <1>1, <1>4, <2>1, <2>a
    <3>3. LogsIn(emitted', 1..lastSeq') = LogsIn(emitted, 1..N)
      BY <1>7, <1>12, <2>1
    <3> QED
      BY <1>5, <3>1, <3>2, <3>3 DEF RetentionIsBounded
  <2>2. CASE isLog
    <3>1. LogsIn(evs, ks) = K /\ N + 1 \in K /\ K \subseteq 1..N + 1 /\ N + 1 \in Nat
      BY <1>3, <1>7, <2>2 DEF K
    <3>2. dropped = DroppedNow(evs, ks, bytes, count)
      BY <2>2 DEF dropped, bytes, count
    <3>3. /\ ~OverBudget(bytes, count) => dropped = {}
          /\ OverBudget(bytes, count) =>
                Enough(bytes - SizeOf(evs, dropped), count - Cardinality(dropped))
          /\ N + 1 \notin dropped
      BY <1>4, <2>0, <3>1, <3>2, DropIsEnough
    <3>4. logCount' <= 1 \/ (logBytes' <= MaxBytes /\ logCount' <= MaxEvents)
      <4>1. CASE OverBudget(bytes, count)
        <5>1. Enough(logBytes', logCount')
          BY <1>1, <3>3, <4>1
        <5>2. logCount' \in Nat /\ logBytes' \in Nat
          <6>1. logCount' = Cardinality(K \ dropped) /\ logBytes' = SizeOf(evs, K \ dropped)
            BY <1>1, <1>12, <1>14 DEF BudgetIsExact
          <6>2. SizeOf(evs, K \ dropped) \in Nat
            BY <1>13
          <6>3. Cardinality(K \ dropped) \in Nat
            BY <1>8, FS_CardinalityType
          <6> QED
            BY <6>1, <6>2, <6>3
        <5>3. (MaxBytes * 7) \div 8 <= MaxBytes /\ (MaxEvents * 7) \div 8 <= MaxEvents
          OBVIOUS
        <5>4. (MaxBytes * 7) \div 8 \in Nat /\ (MaxEvents * 7) \div 8 \in Nat
          OBVIOUS
        <5> QED
          BY <5>1, <5>2, <5>3, <5>4 DEF Enough
      <4>2. CASE ~OverBudget(bytes, count)
        <5>1. dropped = {}
          BY <3>3, <4>2
        <5>2. Cardinality(dropped) = 0 /\ SizeOf(evs, dropped) = 0
          <6>1. IsFiniteSet({}) /\ SizeOf(evs, {}) = SumOf([s \in {} |-> evs[s].n], {})
            BY FS_EmptySet, SizeOfIsSum
          <6>2. SizeOf(evs, {}) = 0
            BY <6>1, SumSteps
          <6> QED
            BY <5>1, <6>2, FS_EmptySet
        <5>3. logCount' = count /\ logBytes' = bytes
          BY <1>1, <2>0, <5>2
        <5> QED
          BY <2>0, <4>2, <5>3 DEF OverBudget
      <4> QED
        BY <4>1, <4>2
    <3>5. ASSUME NEW s \in All, \A t \in All : t <= s PROVE s \in kept'
      <4>1. N + 1 \in All
        BY <1>7, <2>2
      <4>2. s \in 1..N + 1
        BY DEF LogsIn, All
      <4>3. s = N + 1
        BY <1>3, <3>5, <4>1, <4>2
      <4> QED
        BY <1>1, <1>4, <3>3, <4>3
    <3> QED
      BY <1>12, <3>4, <3>5 DEF RetentionIsBounded
  <2> QED
    BY <2>1, <2>2
<1> QED
  BY <1>14, <1>15 DEF BudgetHolds

\* The driver's steps are appends.
LEMMA DriverAppends ==
    ASSUME Driver
    PROVE  \E kind \in Kinds, n \in Nat : AppendEvent(kind, n)
BY DEF Driver, AppendLog, AppendPhase, AppendResult, Kinds

\* No other step touches the record.
LEMMA RecordStep ==
    ASSUME RecordTypes, RecordInv, [Next]_vars
    PROVE  /\ RecordTypes' /\ RecordInv'
           /\ Driver => \E kind \in Kinds : Appends(kind)
           /\ ~Driver => UNCHANGED record
<1>1. ASSUME Driver PROVE RecordTypes' /\ RecordInv' /\ \E kind \in Kinds : Appends(kind)
  BY <1>1, DriverAppends, AppendStep
<1>2. ASSUME ~Driver PROVE UNCHANGED record
  BY <1>2 DEF Next, Subscribe, Lock, CheckWait, Sleep, CheckCancelled, CheckReady, Send, SendFails,
     Sent, Cancel, Watcher
<1>3. UNCHANGED record => RecordTypes' /\ RecordInv'
  BY DEF RecordTypes, RecordInv
<1> QED
  BY <1>1, <1>2, <1>3
-----------------------------------------------------------------------------
(* The readers.                                                            *)

\* What the buffer holds can be sent.
LEMMA BufferedItems ==
    ASSUME RecordTypes
    PROVE  Buffered \subseteq Item
<1> DEFINE line(s) == [seq |-> s, note |-> FALSE]
<1>1. kept \subseteq Nat /\ noteSeq \in Nat
  BY DEF RecordTypes
<1>2. \A s \in Nat : line(s) \in Item /\ [seq |-> s, note |-> TRUE] \in Item
  BY DEF Item
<1>3. Buffered \subseteq {line(s) : s \in kept} \cup {[seq |-> noteSeq, note |-> TRUE]}
  BY DEF Buffered
<1> HIDE DEF line
<1> QED
  BY <1>1, <1>2, <1>3

\* A step keeps the readers' types.
LEMMA ReaderTypesStep ==
    ASSUME RecordTypes, RecordInv, ReaderTypes, [Next]_vars
    PROVE  ReaderTypes'
<1> USE DEF ReaderTypes, Running
<1>1. ASSUME Driver PROVE ReaderTypes'
  BY <1>1, RecordStep DEF Appends, Woken
<1>2. ASSUME NEW d \in Clients, NEW from \in {0, LastSeen(d)}, Subscribe(d, from)
      PROVE  ReaderTypes'
  <2>1. from \in Nat /\ LastSeen(d) \in Nat
    BY <1>2, LastSeenType
  <2>2. got' \in [Clients -> Seq(Item)]
    BY <1>2 DEF Subscribe
  <2> QED
    BY <1>2, <2>1, <2>2 DEF Subscribe
<1>3. ASSUME NEW d \in Clients, Lock(d) PROVE ReaderTypes'
  BY <1>3 DEF Lock
<1>4. ASSUME NEW d \in Clients, CheckWait(d) PROVE ReaderTypes'
  BY <1>4 DEF CheckWait
<1>5. ASSUME NEW d \in Clients, Sleep(d) PROVE ReaderTypes'
  BY <1>5 DEF Sleep
<1>6. ASSUME NEW d \in Clients, CheckCancelled(d) PROVE ReaderTypes'
  BY <1>6 DEF CheckCancelled
<1>7. ASSUME NEW d \in Clients, CheckReady(d) PROVE ReaderTypes'
  <2>1. Pending(d) \in SUBSET Item
    BY BufferedItems DEF Pending
  <2>2. NextCursor(d) \in Nat
    BY DEF NextCursor, RecordTypes
  <2> QED
    BY <1>7, <2>1, <2>2 DEF CheckReady, MuWhileSending, RecordTypes
<1>8. ASSUME NEW d \in Clients, Send(d) PROVE ReaderTypes'
  <2>1. Earliest(d) \in Item
    BY <1>8, EarliestOf DEF Send
  <2>2. got' \in [Clients -> Seq(Item)]
    BY <1>8, <2>1 DEF Send
  <2>3. batch' \in [Clients -> SUBSET Item]
    BY <1>8 DEF Send
  <2> QED
    BY <1>8, <2>2, <2>3 DEF Send
<1>9. ASSUME NEW d \in Clients, SendFails(d) PROVE ReaderTypes'
  BY <1>9 DEF SendFails
<1>10. ASSUME NEW d \in Clients, Sent(d) PROVE ReaderTypes'
  BY <1>10 DEF Sent
<1>11. ASSUME NEW d \in Clients, Cancel(d) PROVE ReaderTypes'
  BY <1>11 DEF Cancel
<1>12. ASSUME NEW d \in Clients, Watcher(d) PROVE ReaderTypes'
  BY <1>12 DEF Watcher, Woken
<1>13. CASE UNCHANGED vars
  BY <1>13
<1> QED
  BY <1>1, <1>2, <1>3, <1>4, <1>5, <1>6, <1>7, <1>8, <1>9,
     <1>10, <1>11, <1>12, <1>13, SMTT(20) DEF Next

\* A reader that did not move still follows, also after an append.
LEMMA StillFollows ==
    ASSUME RecordTypes, RecordInv, ReaderTypes, NEW c \in Clients, Following(c),
           UNCHANGED record \/ \E kind \in Kinds : Appends(kind),
           got'[c] = got[c], cursor'[c] = cursor[c], batch'[c] = batch[c],
           finished'[c] = finished[c],
           pc'[c] = pc[c] \/ (pc[c] = "asleep" /\ pc'[c] = "lock")
    PROVE  Following(c)'
<1>1. LastSeen(c) \in Nat /\ LastSeen(c)' = LastSeen(c)
  BY LastSeenType DEF LastSeen, ReaderTypes
<1>2. /\ Len(emitted) \in Nat /\ Len(emitted) <= Len(emitted')  /\ Len(emitted') \in Nat
      /\ \A s \in 1..Len(emitted) : emitted'[s] = emitted[s]
      /\ done => done' /\ Len(emitted') = Len(emitted)
  <2>1. Len(emitted) \in Nat
    BY DEF RecordTypes
  <2>2. CASE UNCHANGED record
    BY <2>1, <2>2
  <2>3. ASSUME NEW kind \in Kinds, Appends(kind) PROVE Len(emitted') = Len(emitted) + 1 /\ ~done
          /\ \A s \in 1..Len(emitted) : emitted'[s] = emitted[s]
    BY <2>3 DEF Appends
  <2> QED
    BY <2>1, <2>2, <2>3
<1>3. cursor[c] \in Nat /\ (pc'[c] \in Running <=> pc[c] \in Running)
  BY DEF ReaderTypes, Running
<1>4. \A s \in LastSeen(c) + 1 .. cursor[c] : cursor[c] <= Len(emitted) => s \in 1..Len(emitted)
  BY <1>1, <1>2, <1>3
<1>5. pc'[c] = "send" <=> pc[c] = "send"
  OBVIOUS
<1> QED
  BY <1>1, <1>2, <1>3, <1>4, <1>5 DEF Following

\* What the buffer holds: every kept event and the note, at different numbers.
LEMMA BufferFacts ==
    ASSUME RecordTypes, RecordInv
    PROVE  /\ \A e \in Buffered : e.seq \in 1..lastSeq
           /\ \A e, f \in Buffered : e.seq = f.seq => e = f
           /\ \A s \in kept : \E e \in Buffered : e.seq = s
<1> DEFINE line(s) == [seq |-> s, note |-> FALSE]
           note == [seq |-> noteSeq, note |-> TRUE]
           lines == {line(s) : s \in kept}
<1>1. Buffered = lines \cup (IF droppedLog > 0 THEN {note} ELSE {})
  BY DEF Buffered
<1>2. /\ \A s : line(s).seq = s
      /\ note.seq = noteSeq
  OBVIOUS
<1>3. kept \subseteq 1..lastSeq /\ (droppedLog > 0 => noteSeq \in (1..lastSeq) \ kept)
  BY DEF RecordTypes, RecordInv
<1> HIDE DEF line, note, lastSeq
<1>4. \A e \in Buffered : (\E s \in kept : e = line(s)) \/ (e = note /\ droppedLog > 0)
  BY <1>1
<1>5. \A s \in kept : line(s) \in Buffered
  BY <1>1
<1>6. \A e \in Buffered : e.seq \in 1..lastSeq
  BY <1>2, <1>3, <1>4
<1>7. \A e, f \in Buffered : e.seq = f.seq => e = f
  BY <1>2, <1>3, <1>4
<1> QED
  BY <1>2, <1>5, <1>6, <1>7

\* A step of a stream keeps it following.
LEMMA StreamFollows ==
    ASSUME RecordTypes, RecordInv, ReaderTypes, NEW d \in Clients, Following(d),
           UNCHANGED record,
           \/ \E from \in {0, LastSeen(d)} : Subscribe(d, from)
           \/ Lock(d) \/ CheckWait(d) \/ Sleep(d) \/ CheckCancelled(d) \/ CheckReady(d)
           \/ Send(d) \/ SendFails(d) \/ Sent(d) \/ Cancel(d)
    PROVE  Following(d)'
<1> USE DEF Running
<1>a. /\ Len(emitted) \in Nat /\ LastSeen(d) \in Nat /\ cursor[d] \in Nat /\ batch[d] \subseteq Item
      /\ pc[d] \in Running \cup {"off", "ended", "failed"}
  BY LastSeenType DEF RecordTypes, ReaderTypes
<1>b. \A e \in Item : e.seq \in Nat
  BY DEF Item
<1>c. DOMAIN got = Clients /\ DOMAIN pc = Clients /\ DOMAIN cursor = Clients
      /\ DOMAIN batch = Clients /\ DOMAIN finished = Clients
  BY DEF ReaderTypes
<1> USE <1>a, <1>b, <1>c
<1>1. ASSUME NEW from \in {0, LastSeen(d)}, Subscribe(d, from) PROVE Following(d)'
  <2>1. /\ LastSeen(d)' = from /\ cursor'[d] = from /\ pc'[d] = "lock" /\ batch'[d] = batch[d]
        /\ pc[d] # "send"
    BY <1>1 DEF Subscribe, LastSeen
  <2> QED
    BY <2>1 DEF Following
<1>2. ASSUME \/ Lock(d) \/ CheckWait(d) \/ Sleep(d) \/ CheckCancelled(d) \/ SendFails(d) \/ Sent(d)
             \/ Cancel(d)
      PROVE  Following(d)'
  <2>1. /\ LastSeen(d)' = LastSeen(d) /\ cursor'[d] = cursor[d] /\ finished'[d] = finished[d]
        /\ pc[d] \in Running
    BY <1>2 DEF Lock, CheckWait, Sleep, CheckCancelled, SendFails, Sent, Cancel, LastSeen
  <2>2. \/ pc'[d] = pc[d] /\ batch'[d] = batch[d]
        \/ pc'[d] \in Running \ {"send"} /\ batch'[d] = {} /\ batch[d] = {}
        \/ pc'[d] \in {"ended", "failed"} /\ batch'[d] = {}
    BY <1>2 DEF Lock, CheckWait, Sleep, CheckCancelled, SendFails, Sent, Cancel, Following
  <2> QED
    BY <2>1, <2>2 DEF Following
<1>3. ASSUME CheckReady(d) PROVE Following(d)'
  <2>1. /\ LastSeen(d)' = LastSeen(d) /\ cursor'[d] = NextCursor(d) /\ finished'[d] = done
        /\ pc[d] = "check" /\ pc'[d] = "send" /\ batch'[d] = Pending(d)
    BY <1>3 DEF CheckReady, LastSeen
  <2>2. /\ NextCursor(d) = lastSeq /\ batch[d] = {}
        /\ LastSeen(d) <= cursor[d] /\ cursor[d] <= lastSeq
    BY <2>1 DEF Following, NextCursor
  <2>3. \A e \in Pending(d) : e \in Buffered /\ e.seq > cursor[d]
    BY DEF Pending
  <2>4. \A s \in LastSeen(d) + 1 .. lastSeq :
            emitted[s].kind = "log" \/ \E e \in Pending(d) : e.seq = s
    <3> SUFFICES ASSUME NEW s \in LastSeen(d) + 1 .. lastSeq
                 PROVE  emitted[s].kind = "log" \/ \E e \in Pending(d) : e.seq = s
      OBVIOUS
    <3>1. CASE s <= cursor[d]
      BY <2>1, <2>2, <3>1 DEF Following
    <3>2. CASE s > cursor[d] /\ s \in kept
      BY <3>2, BufferFacts DEF Pending
    <3>3. CASE s \notin kept
      BY <3>3 DEF RecordInv
    <3> QED
      BY <3>1, <3>2, <3>3
  <2>5. \A e \in Pending(d) : LastSeen(d) < e.seq /\ e.seq <= lastSeq
    BY <2>2, <2>3, BufferFacts
  <2>6. \A e, f \in Pending(d) : e.seq = f.seq => e = f
    BY <2>3, BufferFacts
  <2> QED
    BY <2>1, <2>2, <2>4, <2>5, <2>6 DEF Following
<1>4. ASSUME Send(d) PROVE Following(d)'
  <2> DEFINE first == Earliest(d)
  <2>1. first \in batch[d] /\ \A f \in batch[d] : first.seq <= f.seq
    BY <1>4, EarliestOf DEF Send
  <2>2. /\ got'[d] = Append(got[d], first) /\ batch'[d] = batch[d] \ {first}
        /\ pc[d] = "send" /\ pc'[d] = "send" /\ cursor'[d] = cursor[d]
        /\ finished'[d] = finished[d]
    BY <1>4 DEF Send
  <2>3. LastSeen(d)' = first.seq
    <3>1. got[d] \in Seq(Item) /\ first \in Item
      BY <2>1 DEF ReaderTypes
    <3>2. got'[d] # <<>> /\ got'[d][Len(got'[d])] = first
      BY <2>2, <3>1
    <3> QED
      BY <3>2 DEF LastSeen
  <2> HIDE DEF first
  <2>4. LastSeen(d) < first.seq /\ first.seq <= cursor[d] /\ first.seq \in Nat
    BY <2>1 DEF Following
  <2>5. \A e \in batch'[d] : first.seq < e.seq /\ e.seq <= cursor[d]
    BY <2>1, <2>2, <2>4 DEF Following
  <2>6. \A s \in first.seq + 1 .. cursor[d] :
            emitted[s].kind = "log" \/ \E e \in batch'[d] : e.seq = s
    BY <2>1, <2>2, <2>4 DEF Following
  <2> QED
    BY <2>2, <2>3, <2>4, <2>5, <2>6 DEF Following
<1> QED
  BY <1>1, <1>2, <1>3, <1>4

\* A step keeps every reader following.
LEMMA FollowStep ==
    ASSUME RecordTypes, ReaderTypes, FeedInv, [Next]_vars
    PROVE  FeedInv'
<1> USE DEF FeedInv
<1>0. RecordInv' /\ RecordTypes' /\ ReaderTypes' /\ RecordInv
  BY RecordStep, ReaderTypesStep
<1> SUFFICES ASSUME NEW c \in Clients PROVE Following(c)'
  BY <1>0
<1>1. CASE Driver
  <2>1. PICK kind \in Kinds : Appends(kind)
    BY <1>1, RecordStep DEF FeedInv
  <2>2. /\ got' = got /\ cursor' = cursor /\ batch' = batch /\ finished' = finished
        /\ pc'[c] = pc[c] \/ (pc[c] = "asleep" /\ pc'[c] = "lock")
    BY <2>1 DEF Appends, Woken
  <2> QED
    BY <1>0, <2>1, <2>2, StillFollows
<1>2. CASE ~Driver
  <2>1. UNCHANGED record
    BY <1>2, RecordStep DEF FeedInv
  <2>2. CASE \/ \E from \in {0, LastSeen(c)} : Subscribe(c, from)
             \/ Lock(c) \/ CheckWait(c) \/ Sleep(c) \/ CheckCancelled(c) \/ CheckReady(c)
             \/ Send(c) \/ SendFails(c) \/ Sent(c) \/ Cancel(c)
    BY <1>0, <2>1, <2>2, StreamFollows
  <2>3. ASSUME NEW d \in Clients, d # c,
               \/ \E from \in {0, LastSeen(d)} : Subscribe(d, from)
               \/ Lock(d) \/ CheckWait(d) \/ Sleep(d) \/ CheckCancelled(d) \/ CheckReady(d)
               \/ Send(d) \/ SendFails(d) \/ Sent(d) \/ Cancel(d)
        PROVE  Following(c)'
    <3>1. /\ got'[c] = got[c] /\ cursor'[c] = cursor[c] /\ batch'[c] = batch[c]
          /\ finished'[c] = finished[c] /\ pc'[c] = pc[c]
      BY <2>3 DEF ReaderTypes, Subscribe, Lock, CheckWait, Sleep, CheckCancelled, CheckReady, Send,
         SendFails, Sent, Cancel
    <3> QED
      BY <1>0, <2>1, <3>1, StillFollows
  <2>4. ASSUME NEW d \in Clients, Watcher(d) PROVE Following(c)'
    <3>1. /\ got' = got /\ cursor' = cursor /\ batch' = batch /\ finished' = finished
          /\ pc'[c] = pc[c] \/ (pc[c] = "asleep" /\ pc'[c] = "lock")
      BY <2>4 DEF Watcher, Woken
    <3> QED
      BY <1>0, <2>1, <3>1, StillFollows
  <2>5. CASE UNCHANGED vars
    BY <1>0, <2>1, <2>5, StillFollows
  <2> QED
    BY <1>2, <2>2, <2>3, <2>4, <2>5 DEF Next
<1> QED
  BY <1>1, <1>2

\* A step keeps who holds f.mu, and a watcher for whoever may sleep on.
LEMMA WakeStep ==
    ASSUME ReaderTypes, WakeInv, [Next]_vars
    PROVE  WakeInv'
<1> USE DEF WakeInv, ReaderTypes, Running
<1>1. ASSUME Driver PROVE WakeInv'
  <2>1. mu' = mu /\ watching' = watching /\ cancelled' = cancelled /\ pc' = Woken
    BY <1>1 DEF Driver, AppendLog, AppendPhase, AppendResult, AppendEvent
  <2> QED
    BY <2>1 DEF Woken
<1>2. ASSUME NEW d \in Clients, NEW from \in {0, LastSeen(d)}, Subscribe(d, from)
      PROVE  WakeInv'
  BY <1>2 DEF Subscribe
<1>3. ASSUME NEW d \in Clients, Lock(d) PROVE WakeInv'
  BY <1>3 DEF Lock
<1>4. ASSUME NEW d \in Clients, CheckWait(d) PROVE WakeInv'
  BY <1>4 DEF CheckWait, MustWait
<1>5. ASSUME NEW d \in Clients, Sleep(d) PROVE WakeInv'
  BY <1>5 DEF Sleep
<1>6. ASSUME NEW d \in Clients, CheckCancelled(d) PROVE WakeInv'
  BY <1>6 DEF CheckCancelled
<1>7. ASSUME NEW d \in Clients, CheckReady(d) PROVE WakeInv'
  BY <1>7 DEF CheckReady, MuWhileSending
<1>8. ASSUME NEW d \in Clients, Send(d) PROVE WakeInv'
  BY <1>8 DEF Send
<1>9. ASSUME NEW d \in Clients, SendFails(d) PROVE WakeInv'
  BY <1>9 DEF SendFails
<1>10. ASSUME NEW d \in Clients, Sent(d) PROVE WakeInv'
  BY <1>10 DEF Sent
<1>11. ASSUME NEW d \in Clients, Cancel(d) PROVE WakeInv'
  BY <1>11 DEF Cancel
<1>12. ASSUME NEW d \in Clients, Watcher(d) PROVE WakeInv'
  BY <1>12 DEF Watcher, WatcherMayBroadcast, Woken
<1>13. CASE UNCHANGED vars
  BY <1>13
<1> QED
  BY <1>1, <1>2, <1>3, <1>4, <1>5, <1>6, <1>7, <1>8, <1>9,
     <1>10, <1>11, <1>12, <1>13 DEF Next
-----------------------------------------------------------------------------
(* The promise of DeployFeed.                                              *)

\* DeployFeed's state, as DeployLog gives it.
LEMMA FeedView ==
    ASSUME RecordTypes, ReaderTypes
    PROVE  /\ DOMAIN KindsOf(emitted) = 1..lastSeq /\ Len(KindsOf(emitted)) = lastSeq
           /\ \A i \in 1..lastSeq : KindsOf(emitted)[i] = emitted[i].kind
           /\ \A c \in Clients : Feed!Seen(c) = LastSeen(c)
<1>1. emitted \in Seq(Events)
  BY DEF RecordTypes, Events
<1>2. [kind |-> "log", n |-> 0] \in Events
  BY DEF Events, Kinds
<1>3. ASSUME NEW c \in Clients PROVE Feed!Seen(c) = LastSeen(c)
  <2>1. got[c] \in Seq(Item)
    BY DEF ReaderTypes
  <2>2. Feed!Seen(c) = IF SeqsOf(got[c]) = <<>> THEN 0 ELSE SeqsOf(got[c])[Len(SeqsOf(got[c]))]
    BY DEF Feed!Seen, SeqsOf
  <2>3. [seq |-> 0, note |-> FALSE] \in Item
    BY DEF Item
  <2>4. /\ SeqsOf(got[c]) \in Seq(Nat) /\ Len(SeqsOf(got[c])) = Len(got[c])
        /\ \A i \in 1..Len(got[c]) : SeqsOf(got[c])[i] = got[c][i].seq
    BY <2>1, <2>3, SeqsAppend
  <2> QED
    BY <2>1, <2>2, <2>4 DEF LastSeen
<1> QED
  BY <1>1, <1>2, <1>3, KindsAppend

\* A step in which nobody gets anything and no stream ends or is opened.
LEMMA Stutters ==
    ASSUME ReaderTypes, UNCHANGED <<emitted, got>>,
           \A c \in Clients : pc'[c] = "ended" <=> pc[c] = "ended"
    PROVE  UNCHANGED Feed!feedVars
BY DEF Feed!feedVars

\* The feed starts as DeployFeed's does.
LEMMA FeedInit == Init => Feed!Init
BY DEF Init, Feed!Init

\* An append emits one event,
LEMMA AppendIsEmit ==
    ASSUME RecordTypes, ReaderTypes, RecordInv, NEW kind \in Kinds, Appends(kind), RecordTypes'
    PROVE  Feed!Emit(kind)
<1>1. KindsOf(emitted') = Append(KindsOf(emitted), kind)
  <2> DEFINE e == [kind |-> kind, n |-> emitted'[Len(emitted) + 1].n]
  <2>1. emitted \in Seq(Events) /\ Len(emitted) \in Nat
    BY DEF RecordTypes, Events
  <2>2. emitted' \in Seq(Events) /\ Len(emitted') = Len(emitted) + 1
    BY DEF RecordTypes, Events, Appends
  <2>3. emitted'[Len(emitted) + 1] \in Events
    BY <2>1, <2>2
  <2>4. e \in Events /\ e.kind = kind
    BY <2>3 DEF Events
  <2>5. emitted' = Append(emitted, e)
    BY DEF Appends
  <2> HIDE DEF e
  <2> QED
    BY <2>1, <2>4, <2>5, KindsAppend
<1>2. ~Feed!Finished
  <2>1. \A i \in DOMAIN KindsOf(emitted) : KindsOf(emitted)[i] # "result"
    BY FeedView DEF RecordInv, Appends
  <2> QED
    BY <2>1 DEF Feed!Finished, KindsOf
<1>3. UNCHANGED got /\ \A c \in Clients : pc'[c] = "ended" <=> pc[c] = "ended"
  BY DEF Appends, Woken, ReaderTypes
<1> QED
  BY <1>1, <1>2, <1>3 DEF Feed!Emit, KindsOf

\* a subscription takes a place in the feed, from its start or from the last event,
LEMMA SubscribeIsFollow ==
    ASSUME ReaderTypes, NEW c \in Clients, NEW from \in {0, LastSeen(c)}, Subscribe(c, from)
    PROVE  \E rest \in {SeqsOf(got[c]), <<>>} : Feed!Follow(c, rest)
<1>1. SeqsOf(<<>>) = <<>>
  BY DEF SeqsOf
<1>2. /\ got' = [got EXCEPT ![c] = IF from = 0 THEN <<>> ELSE got[c]]
      /\ pc' = [pc EXCEPT ![c] = "lock"] /\ UNCHANGED emitted
  BY DEF Subscribe
<1> DEFINE rest == IF from = 0 THEN <<>> ELSE SeqsOf(got[c])
           seqs == [d \in Clients |-> SeqsOf(got[d])]
           ends == {d \in Clients : pc[d] = "ended"}
<1>3. seqs' = [seqs EXCEPT ![c] = rest]
  BY <1>1, <1>2 DEF ReaderTypes
<1>4. ends' = ends \ {c}
  BY <1>2 DEF ReaderTypes
<1>5. rest \in {seqs[c], <<>>}
  OBVIOUS
<1>6. Feed!Follow(c, rest)
  BY <1>2, <1>3, <1>4, <1>5 DEF Feed!Follow, SeqsOf
<1> QED
  BY <1>5, <1>6 DEF Feed!Follow

\* a send delivers the next event that is no dropped log line,
LEMMA SendIsDeliver ==
    ASSUME RecordTypes, ReaderTypes, NEW c \in Clients, Following(c), Send(c)
    PROVE  \E i \in DOMAIN KindsOf(emitted) : Feed!Deliver(c, i)
<1> DEFINE first == Earliest(c)
           seqs == [d \in Clients |-> SeqsOf(got[d])]
<1>1. first \in batch[c] /\ \A f \in batch[c] : first.seq <= f.seq
  BY EarliestOf DEF Send, ReaderTypes
<1>2. first \in Item /\ first.seq \in Nat /\ LastSeen(c) \in Nat /\ cursor[c] \in Nat
      /\ Len(emitted) \in Nat
  BY <1>1, LastSeenType DEF ReaderTypes, RecordTypes, Item
<1>3. /\ got' = [got EXCEPT ![c] = Append(got[c], first)]
      /\ UNCHANGED <<emitted, pc>>
  BY DEF Send
<1>4. LastSeen(c) < first.seq /\ first.seq <= cursor[c] /\ cursor[c] <= lastSeq
  BY <1>1 DEF Following, Send, Running
<1> HIDE DEF first
<1>5. seqs' = [seqs EXCEPT ![c] = Append(seqs[c], first.seq)]
  <2>1. \A d \in Clients : got[d] \in Seq(Item)
    BY DEF ReaderTypes
  <2>2. SeqsOf(Append(got[c], first)) = Append(SeqsOf(got[c]), first.seq)
    BY <1>2, <2>1, SeqsAppend
  <2> QED
    BY <1>3, <2>2 DEF ReaderTypes
<1>6. \A j \in LastSeen(c) + 1 .. first.seq - 1 : KindsOf(emitted)[j] = "log"
  <2> SUFFICES ASSUME NEW j \in LastSeen(c) + 1 .. first.seq - 1 PROVE KindsOf(emitted)[j] = "log"
    OBVIOUS
  <2>1. j \in LastSeen(c) + 1 .. cursor[c] /\ j \in 1..lastSeq /\ j < first.seq
    BY <1>2, <1>4
  <2>2. emitted[j].kind = "log"
    BY <1>1, <1>2, <2>1 DEF Following, Send, Running
  <2> QED
    BY <2>1, <2>2, FeedView
<1>7. Feed!Seen(c) = LastSeen(c) /\ first.seq \in DOMAIN KindsOf(emitted)
  BY <1>2, <1>4, FeedView
<1>8. Feed!Deliver(c, first.seq)
  BY <1>3, <1>4, <1>5, <1>6, <1>7 DEF Feed!Deliver, SeqsOf, KindsOf
<1> QED
  BY <1>7, <1>8 DEF Feed!Deliver

\* and a stream ends when it has sent the result.
LEMMA SentMayEnd ==
    ASSUME RecordTypes, ReaderTypes, RecordInv, NEW c \in Clients, Following(c), Sent(c)
    PROVE  Feed!End(c) \/ UNCHANGED Feed!feedVars
<1>1. UNCHANGED <<emitted, got>> /\ pc[c] = "send" /\ batch[c] = {}
  BY DEF Sent
<1>2. CASE ~finished[c]
  <2>1. pc' = [pc EXCEPT ![c] = "lock"]
    BY <1>2 DEF Sent, IsLastBatch
  <2> QED
    BY <1>1, <2>1, Stutters DEF ReaderTypes
<1>3. CASE finished[c]
  <2>1. pc' = [pc EXCEPT ![c] = "ended"]
    BY <1>3 DEF Sent, IsLastBatch
  <2>2. done /\ cursor[c] = lastSeq /\ lastSeq > 0 /\ emitted[lastSeq].kind = "result"
    BY <1>1, <1>3 DEF Following, RecordInv
  <2>3. LastSeen(c) \in Nat /\ Len(emitted) \in Nat
    BY LastSeenType DEF ReaderTypes, RecordTypes
  <2>4. LastSeen(c) = lastSeq
    <3>1. LastSeen(c) <= lastSeq
      BY DEF Following
    <3>2. LastSeen(c) < lastSeq => emitted[lastSeq].kind = "log"
      BY <1>1, <2>2, <2>3 DEF Following, Running
    <3> QED
      BY <2>2, <2>3, <3>1, <3>2
  <2>5. Feed!Finished
    <3>1. lastSeq \in DOMAIN KindsOf(emitted) /\ KindsOf(emitted)[lastSeq] = "result"
      BY <2>2, <2>3, FeedView
    <3> QED
      BY <3>1 DEF Feed!Finished, KindsOf
  <2>6. Feed!Seen(c) = Len(KindsOf(emitted))
    BY <2>4, FeedView
  <2>7. {d \in Clients : pc'[d] = "ended"} = {d \in Clients : pc[d] = "ended"} \cup {c}
    BY <2>1 DEF ReaderTypes
  <2> QED
    BY <1>1, <2>5, <2>6, <2>7 DEF Feed!End, KindsOf
<1> QED
  BY <1>2, <1>3

\* Every step is one of DeployFeed, or none of it.
LEMMA FeedStep ==
    ASSUME RecordTypes, ReaderTypes, FeedInv, [Next]_vars
    PROVE  [Feed!Next]_Feed!feedVars
<1>0. RecordInv /\ RecordTypes'
  BY RecordStep DEF FeedInv
<1>1. CASE Driver
  <2>1. PICK kind \in Kinds : Appends(kind)
    BY <1>0, <1>1, RecordStep
  <2>2. Feed!Emit(kind) /\ kind \in Feed!Kinds
    BY <1>0, <2>1, AppendIsEmit DEF Kinds, Feed!Kinds
  <2> QED
    BY <2>2 DEF Feed!Next
<1>2. ASSUME NEW c \in Clients, NEW from \in {0, LastSeen(c)}, Subscribe(c, from)
      PROVE  Feed!Next
  BY <1>2, SubscribeIsFollow DEF Feed!Next, SeqsOf
<1>3. ASSUME NEW c \in Clients, Send(c) PROVE Feed!Next
  BY <1>3, SendIsDeliver DEF FeedInv, Feed!Next, KindsOf
<1>4. ASSUME NEW c \in Clients, Sent(c) PROVE Feed!Next \/ UNCHANGED Feed!feedVars
  BY <1>0, <1>4, SentMayEnd DEF FeedInv, Feed!Next
<1>5. ASSUME NEW c \in Clients,
             \/ Lock(c) \/ CheckWait(c) \/ Sleep(c) \/ CheckCancelled(c) \/ CheckReady(c)
             \/ SendFails(c) \/ Cancel(c) \/ Watcher(c)
      PROVE  UNCHANGED Feed!feedVars
  <2>1. UNCHANGED <<emitted, got>> /\ \A d \in Clients : pc'[d] = "ended" <=> pc[d] = "ended"
    BY <1>5 DEF ReaderTypes, Lock, CheckWait, Sleep, CheckCancelled, CheckReady, SendFails, Cancel,
       Watcher, Woken
  <2> QED
    BY <2>1, Stutters
<1>6. CASE UNCHANGED vars
  BY <1>6, Stutters
<1> QED
  BY <1>1, <1>2, <1>3, <1>4, <1>5, <1>6 DEF Next
-----------------------------------------------------------------------------
(* The record and the readers have their types; what the budget counts is  *)
(* not among them.                                                         *)
THEOREM FeedTypeCorrect == Spec => [](RecordTypes /\ ReaderTypes /\ FeedInv)
<1>1. Init => RecordTypes /\ ReaderTypes /\ FeedInv
  <2> SUFFICES ASSUME Init PROVE RecordTypes /\ ReaderTypes /\ FeedInv
    OBVIOUS
  <2>1. RecordTypes /\ ReaderTypes
    <3>1. emitted \in Seq(Events) /\ Len(emitted) = 0 /\ got \in [Clients -> Seq(Item)]
      BY DEF Init
    <3>2. RecordTypes
      <4>1. kept \subseteq 1..lastSeq /\ noteSeq \in 0..lastSeq
        BY <3>1 DEF Init
      <4>2. droppedLog \in Nat /\ done \in BOOLEAN
        BY DEF Init
      <4> QED
        BY <3>1, <4>1, <4>2 DEF RecordTypes, Events
    <3>3. ReaderTypes
      <4>1. mu \in Clients \cup {Free} /\ batch \in [Clients -> SUBSET Item]
        BY DEF Init
      <4> QED
        BY <3>1, <4>1 DEF Init, ReaderTypes, Running
    <3> QED
      BY <3>2, <3>3
  <2>2. RecordInv /\ \A c \in Clients : Following(c)
    BY DEF Init, RecordInv, Following, LastSeen, Running
  <2> QED
    BY <2>1, <2>2 DEF FeedInv
<1>2. RecordTypes /\ ReaderTypes /\ FeedInv /\ [Next]_vars
          => RecordTypes' /\ ReaderTypes' /\ FeedInv'
  BY RecordStep, ReaderTypesStep, FollowStep DEF FeedInv
<1> QED
  BY <1>1, <1>2, PTL DEF Spec

(* Whatever is trimmed, cancelled or resumed, every reader gets the events *)
(* in order, each once, misses nothing but log lines, and its stream ends  *)
(* only after the result (inflight.append, inflight.subscribe).            *)
THEOREM FeedIsKept == Spec => ImplementsDeployFeed
<1>1. RecordTypes /\ ReaderTypes /\ FeedInv /\ [Next]_vars => [Feed!Next]_Feed!feedVars
  BY FeedStep
<1> QED
  BY <1>1, FeedInit, FeedTypeCorrect, PTL DEF Spec, ImplementsDeployFeed, Feed!Spec

(* A client that leaves while its stream is about to sleep, or sleeps, has *)
(* its watcher to wake it: no cancellation is lost (subscribe).            *)
THEOREM LeaversAreWoken == Spec => []CancelledIsWoken
<1>1. Init => WakeInv
  BY DEF Init, WakeInv, Running
<1>2. ReaderTypes /\ WakeInv /\ [Next]_vars => WakeInv'
  BY WakeStep
<1>3. WakeInv => CancelledIsWoken
  BY DEF WakeInv, CancelledIsWoken
<1> QED
  BY <1>1, <1>2, <1>3, FeedTypeCorrect, PTL DEF Spec
-----------------------------------------------------------------------------
\* No step but an append touches what the budget counts.
LEMMA BudgetOfSteps ==
    ASSUME RecordTypes, RecordInv, BudgetHolds, [Next]_vars
    PROVE  BudgetHolds'
<1>1. CASE Driver
  <2>1. PICK kind \in Kinds, n \in Nat : AppendEvent(kind, n)
    BY <1>1, DriverAppends
  <2> QED
    BY <2>1, BudgetStep
<1>2. CASE ~Driver
  <2>1. UNCHANGED record
    BY <1>2, RecordStep
  <2> QED
    BY <2>1 DEF BudgetHolds, BudgetIsExact, RetentionIsBounded
<1> QED
  BY <1>1, <1>2

\* The budget holds of an empty log.
LEMMA BudgetInit ==
    ASSUME Init
    PROVE  BudgetHolds
<1>1. LogsIn(emitted, kept) = {} /\ LogsIn(emitted, 1..lastSeq) = {}
  BY DEF Init, LogsIn
<1>2. SizeOf(emitted, {}) = 0
  <2>1. IsFiniteSet({}) /\ SizeOf(emitted, {}) = SumOf([s \in {} |-> emitted[s].n], {})
    BY FS_EmptySet, SizeOfIsSum
  <2> QED
    BY <2>1, SumSteps
<1>3. Cardinality({}) = 0
  BY FS_EmptySet
<1>4. logCount = 0 /\ logBytes = 0 /\ droppedLog = 0
  BY DEF Init
<1>5. BudgetIsExact
  <2>1. Cardinality(LogsIn(emitted, kept)) = 0 /\ Cardinality(LogsIn(emitted, 1..lastSeq)) = 0
    BY <1>1, <1>3
  <2>2. SizeOf(emitted, LogsIn(emitted, kept)) = 0
    BY <1>1, <1>2
  <2> QED
    BY <1>4, <2>1, <2>2 DEF BudgetIsExact
<1>6. RetentionIsBounded
  BY <1>1, <1>4 DEF RetentionIsBounded
<1> QED
  BY <1>5, <1>6 DEF BudgetHolds

(* Whatever a build prints, in lines of any size, the counters are those   *)
(* of the log that is retained, the retained log is within both limits or  *)
(* a single line, and the newest line is never the one that is dropped     *)
(* (inflight.append and enforceLogBudget).                                 *)
THEOREM BudgetIsKept == Spec => []BudgetHolds
<1>1. RecordTypes /\ RecordInv /\ BudgetHolds /\ [Next]_vars => BudgetHolds'
  BY BudgetOfSteps
<1>2. FeedInv => RecordInv
  BY DEF FeedInv
<1> QED
  BY <1>1, <1>2, BudgetInit, FeedTypeCorrect, PTL DEF Spec

(* With the budget kept its counters are numbers, and the record and the   *)
(* readers have their types.                                               *)
THEOREM LogTypeCorrect == Spec => []TypeOK
<1>1. ASSUME RecordTypes, ReaderTypes, BudgetHolds PROVE TypeOK
  <2> DEFINE K == LogsIn(emitted, kept)
  <2>0. emitted \in Seq(Events) /\ lastSeq \in Nat /\ kept \subseteq 1..lastSeq
    <3>1. emitted \in Seq(Events) /\ kept \subseteq 1..lastSeq
      BY <1>1 DEF RecordTypes, Events
    <3> QED
      BY <3>1
  <2>1. IsFiniteSet(K)
    <3>1. K \subseteq 1..lastSeq /\ lastSeq \in Nat
      BY <2>0 DEF LogsIn
    <3>2. IsFiniteSet(1..lastSeq)
      BY <3>1, FS_Interval
    <3> QED
      BY <3>1, <3>2, FS_Subset
  <2>2. \A s \in K : emitted[s].n \in Nat
    <3>1. \A s \in 1..lastSeq : emitted[s] \in Events
      BY <2>0
    <3>2. \A s \in K : s \in 1..lastSeq
      BY <2>0 DEF LogsIn
    <3> QED
      BY <3>1, <3>2 DEF Events
  <2>3. logCount = Cardinality(K) /\ logBytes = SizeOf(emitted, K)
    BY <1>1 DEF BudgetHolds, BudgetIsExact
  <2> HIDE DEF K
  <2>4. logCount \in Nat /\ logBytes \in Nat
    BY <2>1, <2>2, <2>3, SizeFacts, FS_CardinalityType
  <2> QED
    BY <1>1, <2>4 DEF TypeOK, RecordTypes, ReaderTypes
<1> QED
  BY <1>1, BudgetIsKept, FeedTypeCorrect, PTL
-----------------------------------------------------------------------------
(* The registry.                                                           *)

\* What an id means is a run started for it, a running one is what its id means, and
\* only runs that are through trimFinished have a timer.
RunsInv ==
    /\ \A i \in Ids : deploys[i] # NoRun => id[deploys[i]] = i /\ stage[deploys[i]] # "free"
    /\ \A r \in Runs : stage[r] = "running" => deploys[id[r]] = r
    /\ \A r \in timer : stage[r] \in {"trimmed", "over"}
    /\ IsFiniteSet({r \in Runs : stage[r] # "free"})

\* A spool file is its call's while the call spools, and of one run from then until
\* that run is over.
ContextInv ==
    /\ \A r \in Runs : stage[r] = "free" => context[r] = NoCall
    /\ \A r \in Runs : context[r] # NoCall =>
          /\ stage[r] # "over" /\ context[r] \in files
          /\ call[context[r]] \in {"following", "returned"}
    /\ \A q, r \in Runs : context[q] = context[r] /\ context[q] # NoCall => q = r
    /\ \A c \in Calls : call[c] = "spooling" => c \in files
    /\ \A c \in files : call[c] = "spooling" \/ \E r \in Runs : context[r] = c

RegistryInv == RegistryTypeOK /\ RunsInv /\ ContextInv /\ RetainedFits

\* A run starts for id i, with the spool file of a call or without one.
Begins(r, c, i, spool) ==
    /\ stage[r] = "free" /\ deploys[i] = NoRun
    /\ stage' = [stage EXCEPT ![r] = "running"]
    /\ id' = [id EXCEPT ![r] = i]
    /\ context' = [context EXCEPT ![r] = spool]
    /\ deploys' = [deploys EXCEPT ![i] = r]
    /\ call' = [call EXCEPT ![c] = "following"]
    /\ joined' = [joined EXCEPT ![c] = r]
    /\ \/ call[c] = "idle" /\ spool = NoCall
       \/ call[c] = "spooling" /\ spool = c
    /\ asked' \in [Calls -> Ids]
    /\ UNCHANGED <<held, finishedAt, timer, clock, files>>

\* A call moves on and no run does.
CallMoves(c) ==
    /\ \/ call[c] = "idle" /\ call'[c] = "spooling" /\ files' = files \cup {c}
       \/ call[c] = "spooling" /\ call'[c] \in {"following", "refused"} /\ files' = files \ {c}
       \/ /\ call[c] \in {"idle", "following"} /\ call'[c] \in {"following", "refused", "returned"}
          /\ call'[c] = "refused" => call[c] = "idle"
          /\ files' = files
    /\ call' = [call EXCEPT ![c] = call'[c]]
    /\ \/ joined' = joined /\ call'[c] # "following"
       \/ \E r \in Runs : joined' = [joined EXCEPT ![c] = r]
    /\ asked' \in [Calls -> Ids]
    /\ UNCHANGED <<deploys, runVars>>

\* Each call starts a run or moves on alone.
LEMMA CallSteps ==
    ASSUME RegistryTypeOK, NEW c \in Calls,
           \/ \E i \in Ids : Deploy(c, i) \/ DeployStream(c, i) \/ Reattach(c, i)
           \/ SpoolFails(c) \/ Spooled(c) \/ FollowedToEnd(c) \/ HangUp(c)
    PROVE  \/ CallMoves(c)
           \/ \E r \in Runs, i \in Ids, spool \in Calls \cup {NoCall} : Begins(r, c, i, spool)
<1>a. /\ asked \in [Calls -> Ids]
      /\ call \in [Calls -> {"idle", "spooling", "following", "refused", "returned"}]
      /\ deploys \in [Ids -> Runs \cup {NoRun}] /\ joined \in [Calls -> Runs \cup {NoRun}]
  BY DEF RegistryTypeOK
<1> USE <1>a
<1> DEFINE Goal == \/ CallMoves(c)
                   \/ \E r \in Runs, i \in Ids, spool \in Calls \cup {NoCall} : Begins(r, c, i, spool)
<1>1. ASSUME NEW i \in Ids, Deploy(c, i) PROVE Goal
  <2>1. asked' \in [Calls -> Ids]
    BY <1>1 DEF Deploy
  <2>2. CASE deploys[i] # NoRun
    BY <1>1, <2>1, <2>2 DEF Deploy, Start, Join, CallMoves, runVars
  <2>3. CASE deploys[i] = NoRun
    <3>1. PICK r \in Runs : Begins(r, c, i, NoCall)
      BY <1>1, <2>1, <2>3 DEF Deploy, Start, Join, Begins
    <3> QED
      BY <3>1
  <2> QED
    BY <2>2, <2>3
<1>2. ASSUME NEW i \in Ids, DeployStream(c, i) PROVE Goal
  <2>1. asked' \in [Calls -> Ids]
    BY <1>2 DEF DeployStream
  <2> QED
    BY <1>2, <2>1 DEF DeployStream, Join, CallMoves
<1>3. ASSUME NEW i \in Ids, Reattach(c, i) PROVE Goal
  <2>1. asked' \in [Calls -> Ids]
    BY <1>3 DEF Reattach
  <2> QED
    BY <1>3, <2>1 DEF Reattach, KnownDeploy, Join, CallMoves
<1>4. CASE SpoolFails(c)
  BY <1>4 DEF SpoolFails, FilesAfterFailure, CallMoves
<1>5. CASE Spooled(c)
  <2>1. asked' \in [Calls -> Ids]
    BY <1>5 DEF Spooled
  <2>2. CASE LostRace(c)
    BY <1>5, <2>1, <2>2 DEF Spooled, LostRace, Start, Join, CallMoves, runVars
  <2>3. CASE ~LostRace(c)
    <3>1. PICK r \in Runs : Begins(r, c, asked[c], c)
      BY <1>5, <2>1, <2>3 DEF Spooled, LostRace, Start, Join, Begins
    <3> QED
      BY <3>1
  <2> QED
    BY <2>2, <2>3
<1>6. CASE FollowedToEnd(c)
  BY <1>6 DEF FollowedToEnd, CallMoves
<1>7. CASE HangUp(c)
  BY <1>7 DEF HangUp, FilesAfterHangUp, CallMoves
<1> QED
  BY <1>1, <1>2, <1>3, <1>4, <1>5, <1>6, <1>7

\* A step keeps the types of the registry.
LEMMA RegistryTypesStep ==
    ASSUME RegistryTypeOK, [RegistryNext]_registryVars
    PROVE  RegistryTypeOK'
<1> USE DEF RegistryTypeOK, Stages
<1>1. ASSUME NEW c \in Calls, NEW r \in Runs, NEW i \in Ids, NEW spool \in Calls \cup {NoCall},
             Begins(r, c, i, spool)
      PROVE  RegistryTypeOK'
  BY <1>1 DEF Begins
<1>2. ASSUME NEW c \in Calls, CallMoves(c) PROVE RegistryTypeOK'
  <2>1. /\ call' \in [Calls -> {"idle", "spooling", "following", "refused", "returned"}]
        /\ files' \subseteq Calls
    BY <1>2 DEF CallMoves
  <2>2. joined' \in [Calls -> Runs \cup {NoRun}]
    BY <1>2 DEF CallMoves
  <2>3. \A d \in Calls : call'[d] = "following" => joined'[d] \in Runs
    BY <1>2 DEF CallMoves
  <2> QED
    BY <1>2, <2>1, <2>2, <2>3 DEF CallMoves, runVars
<1>3. ASSUME NEW r \in Runs, NEW n \in LogBytes, Finish(r, n) PROVE RegistryTypeOK'
  <2>1. n \in Nat
    BY DeployRegistryAssumption
  <2> QED
    BY <1>3, <2>1 DEF Finish, callVars
<1>4. ASSUME NEW r \in Runs, Trim(r) PROVE RegistryTypeOK'
  BY <1>4 DEF Trim, callVars
<1>5. ASSUME NEW r \in Runs, DropContext(r) PROVE RegistryTypeOK'
  BY <1>5 DEF DropContext, callVars
<1>6. ASSUME NEW r \in Runs, Expire(r) PROVE RegistryTypeOK'
  BY <1>6 DEF Expire, TimerStillOwns, callVars
<1>7. CASE UNCHANGED registryVars
  BY <1>7 DEF registryVars, runVars, callVars
<1> QED
  BY <1>1, <1>2, <1>3, <1>4, <1>5, <1>6, <1>7, CallSteps DEF RegistryNext

\* A running deploy stays what its id means.
LEMMA RunsStep ==
    ASSUME RegistryTypeOK, RunsInv, [RegistryNext]_registryVars
    PROVE  RunsInv'
<1>a. /\ deploys \in [Ids -> Runs \cup {NoRun}] /\ stage \in [Runs -> Stages] /\ id \in [Runs -> Ids]
      /\ timer \subseteq Runs /\ NoRun \notin Runs
  BY DeployRegistryAssumption DEF RegistryTypeOK
<1> USE <1>a DEF RunsInv
<1> DEFINE Started == {r \in Runs : stage[r] # "free"}
<1>1. ASSUME NEW c \in Calls, NEW r \in Runs, NEW i \in Ids, NEW spool \in Calls \cup {NoCall},
             Begins(r, c, i, spool)
      PROVE  RunsInv'
  <2>1. IsFiniteSet(Started')
    <3>1. Started' = Started \cup {r}
      BY <1>1 DEF Begins, Stages
    <3> QED
      BY <3>1, FS_AddElement
  <2>2. \A j \in Ids : deploys'[j] # NoRun => id'[deploys'[j]] = j /\ stage'[deploys'[j]] # "free"
    BY <1>1 DEF Begins
  <2>3. \A q \in Runs : stage'[q] = "running" => deploys'[id'[q]] = q
    BY <1>1 DEF Begins
  <2>4. \A q \in timer' : stage'[q] \in {"trimmed", "over"}
    BY <1>1 DEF Begins
  <2> QED
    BY <2>1, <2>2, <2>3, <2>4
<1>2. ASSUME NEW c \in Calls, CallMoves(c) PROVE RunsInv'
  BY <1>2 DEF CallMoves, runVars
<1>3. ASSUME NEW r \in Runs, NEW n \in LogBytes, Finish(r, n) PROVE RunsInv'
  <2>1. IsFiniteSet(Started')
    <3>1. Started' = Started
      BY <1>3 DEF Finish, Stages
    <3> QED
      BY <3>1
  <2>2. \A q \in Runs : stage'[q] = IF q = r THEN "done" ELSE stage[q]
    BY <1>3 DEF Finish
  <2>3. stage[r] = "running" /\ UNCHANGED <<deploys, id, timer>>
    BY <1>3 DEF Finish
  <2> QED
    BY <2>1, <2>2, <2>3
<1>4. ASSUME NEW r \in Runs, Trim(r) PROVE RunsInv'
  <2>1. IsFiniteSet(Started')
    <3>1. Started' = Started
      BY <1>4 DEF Trim, Stages
    <3> QED
      BY <3>1
  <2>2. \A q \in Runs : stage'[q] = IF q = r THEN "trimmed" ELSE stage[q]
    BY <1>4 DEF Trim
  <2>3. stage[r] = "done" /\ id' = id /\ timer' = timer \cup {r}
    BY <1>4 DEF Trim
  <2>4. \A j \in Ids : deploys'[j] = IF deploys[j] \in Trimmed THEN NoRun ELSE deploys[j]
    BY <1>4 DEF Trim
  <2>5. \A q \in Trimmed : stage[q] # "running"
    BY DEF Trimmed, Trimmable, Finished
  <2>6. \A q \in Runs : stage'[q] = "running" => deploys'[id'[q]] = q
    BY <2>2, <2>3, <2>4, <2>5
  <2>7. \A j \in Ids : deploys'[j] # NoRun => id'[deploys'[j]] = j /\ stage'[deploys'[j]] # "free"
    BY <2>2, <2>3, <2>4
  <2> QED
    BY <2>1, <2>2, <2>3, <2>6, <2>7
<1>5. ASSUME NEW r \in Runs, DropContext(r) PROVE RunsInv'
  <2>1. IsFiniteSet(Started')
    <3>1. Started' = Started
      BY <1>5 DEF DropContext, Stages
    <3> QED
      BY <3>1
  <2>2. \A q \in Runs : stage'[q] = IF q = r THEN "over" ELSE stage[q]
    BY <1>5 DEF DropContext
  <2>3. stage[r] = "trimmed" /\ UNCHANGED <<deploys, id, timer>>
    BY <1>5 DEF DropContext
  <2> QED
    BY <2>1, <2>2, <2>3
<1>6. ASSUME NEW r \in Runs, Expire(r) PROVE RunsInv'
  <2>1. /\ r \in timer /\ timer' = timer \ {r} /\ UNCHANGED <<stage, id>>
        /\ \A j \in Ids : deploys'[j] = IF j = id[r] /\ deploys[j] = r THEN NoRun ELSE deploys[j]
    BY <1>6 DEF Expire, TimerStillOwns
  <2> QED
    BY <2>1
<1>7. CASE UNCHANGED registryVars
  BY <1>7 DEF registryVars, runVars
<1> QED
  BY <1>1, <1>2, <1>3, <1>4, <1>5, <1>6, <1>7, CallSteps DEF RegistryNext

\* A spool file has one owner from the call that makes it to the run that drops it.
LEMMA ContextStep ==
    ASSUME RegistryTypeOK, ContextInv, [RegistryNext]_registryVars
    PROVE  ContextInv'
<1>a. /\ stage \in [Runs -> Stages] /\ context \in [Runs -> Calls \cup {NoCall}]
      /\ call \in [Calls -> {"idle", "spooling", "following", "refused", "returned"}]
      /\ files \subseteq Calls /\ NoCall \notin Calls
  BY DeployRegistryAssumption DEF RegistryTypeOK
<1> USE <1>a DEF ContextInv, Stages
<1>1. ASSUME NEW c \in Calls, NEW r \in Runs, NEW i \in Ids, NEW spool \in Calls \cup {NoCall},
             Begins(r, c, i, spool)
      PROVE  ContextInv'
  <2>0. stage[r] = "free" /\ context[r] = NoCall
    BY <1>1 DEF Begins
  <2>1. /\ context[r] = NoCall /\ files' = files
        /\ \A q \in Runs : stage'[q] = IF q = r THEN "running" ELSE stage[q]
        /\ \A q \in Runs : context'[q] = IF q = r THEN spool ELSE context[q]
        /\ \A d \in Calls : call'[d] = IF d = c THEN "following" ELSE call[d]
        /\ \/ call[c] = "idle" /\ spool = NoCall
           \/ call[c] = "spooling" /\ spool = c
    BY <1>1, <2>0 DEF Begins
  <2>2. \A q \in Runs : stage'[q] = "free" => context'[q] = NoCall
    BY <2>1
  <2>3. \A q \in Runs : context'[q] # NoCall =>
           /\ stage'[q] # "over" /\ context'[q] \in files'
           /\ call'[context'[q]] \in {"following", "returned"}
    BY <2>1
  <2>4. \A p, q \in Runs : context'[p] = context'[q] /\ context'[p] # NoCall => p = q
    BY <2>1
  <2>5. \A d \in Calls : call'[d] = "spooling" => d \in files'
    BY <2>1
  <2>6. \A d \in files' : call'[d] = "spooling" \/ \E q \in Runs : context'[q] = d
    BY <2>1
  <2> QED
    BY <2>2, <2>3, <2>4, <2>5, <2>6
<1>2. ASSUME NEW c \in Calls, CallMoves(c) PROVE ContextInv'
  <2>1. /\ UNCHANGED <<stage, context>>
        /\ \A d \in Calls : d # c => call'[d] = call[d]
    BY <1>2 DEF CallMoves, runVars
  <2>2. \/ call[c] = "idle" /\ call'[c] = "spooling" /\ files' = files \cup {c}
        \/ call[c] = "spooling" /\ call'[c] \in {"following", "refused"} /\ files' = files \ {c}
        \/ /\ call[c] \in {"idle", "following"} /\ call'[c] \in {"following", "refused", "returned"}
           /\ call'[c] = "refused" => call[c] = "idle"
           /\ files' = files
    BY <1>2 DEF CallMoves
  <2>3. \A q \in Runs : context[q] = c => call[c] \in {"following", "returned"}
    OBVIOUS
  <2>4. \A q \in Runs : context'[q] # NoCall =>
           /\ stage'[q] # "over" /\ context'[q] \in files'
           /\ call'[context'[q]] \in {"following", "returned"}
    BY <2>1, <2>2, <2>3
  <2>5. \A d \in Calls : call'[d] = "spooling" => d \in files'
    BY <2>1, <2>2
  <2>6. \A d \in files' : call'[d] = "spooling" \/ \E q \in Runs : context'[q] = d
    BY <2>1, <2>2
  <2> QED
    BY <2>1, <2>4, <2>5, <2>6
<1>3. ASSUME NEW r \in Runs, NEW n \in LogBytes, Finish(r, n) PROVE ContextInv'
  BY <1>3 DEF Finish, callVars
<1>4. ASSUME NEW r \in Runs, Trim(r) PROVE ContextInv'
  BY <1>4 DEF Trim, callVars
<1>5. ASSUME NEW r \in Runs, DropContext(r) PROVE ContextInv'
  <2>1. /\ files' = files \ {context[r]} /\ call' = call
        /\ \A q \in Runs : stage'[q] = IF q = r THEN "over" ELSE stage[q]
        /\ \A q \in Runs : context'[q] = IF q = r THEN NoCall ELSE context[q]
    BY <1>5 DEF DropContext, callVars
  <2>2. \A d \in Calls : call'[d] = "spooling" => d \in files'
    BY <2>1
  <2>3. \A q \in Runs : context'[q] # NoCall =>
           /\ stage'[q] # "over" /\ context'[q] \in files'
           /\ call'[context'[q]] \in {"following", "returned"}
    BY <2>1
  <2>4. \A d \in files' : call'[d] = "spooling" \/ \E q \in Runs : context'[q] = d
    BY <2>1
  <2> QED
    BY <2>1, <2>2, <2>3, <2>4
<1>6. ASSUME NEW r \in Runs, Expire(r) PROVE ContextInv'
  BY <1>6 DEF Expire, callVars
<1>7. CASE UNCHANGED registryVars
  BY <1>7 DEF registryVars, runVars, callVars
<1> QED
  BY <1>1, <1>2, <1>3, <1>4, <1>5, <1>6, <1>7, CallSteps DEF RegistryNext
-----------------------------------------------------------------------------
(* The logs of the finished runs.                                          *)

\* The runs that trimFinished has seen and left, of which RetainedFits speaks.
Retained == {r \in Runs : stage[r] \in {"trimmed", "over"} /\ Registered(r)}

\* Fewer runs with the same logs hold no more.
LEMMA FewerHoldLess ==
    ASSUME NEW h \in [Runs -> Nat], NEW S \in SUBSET Runs, IsFiniteSet(S), NEW T \in SUBSET S
    PROVE  TotalOf(h, T) <= TotalOf(h, S) /\ TotalOf(h, S) \in Nat /\ TotalOf(h, T) \in Nat
<1>1. IsFiniteSet(T) /\ \A x \in S : h[x] \in Nat
  BY FS_Subset
<1>2. SumOf(h, S) \in Nat /\ SumOf(h, T) \in Nat /\ SumOf(h, T) <= SumOf(h, S)
  BY <1>1, SumIsNat, SumSplit
<1> QED
  BY <1>1, <1>2, TotalIsSum

\* What trimFinished leaves fits: of the runs it leaves, the oldest one has all the
\* others behind it, and was left because together they fit.
LEMMA LeftFits ==
    ASSUME RegistryTypeOK, RunsInv, NEW L \in SUBSET (Trimmable \ Trimmed)
    PROVE  TotalOf(held, L) <= Budget
<1>1. IsFiniteSet(Trimmable) /\ Trimmable \subseteq Runs
  <2>1. Trimmable \subseteq {r \in Runs : stage[r] # "free"}
    BY DEF Trimmable, Finished
  <2> QED
    BY <2>1, FS_Subset DEF RunsInv
<1>2. CASE L = {}
  <2>1. TotalOf(held, {}) = 0
    <3>1. IsFiniteSet({}) /\ SumOf(held, {}) = 0
      BY FS_EmptySet, SumSteps
    <3> QED
      BY <3>1, TotalIsSum
  <2> QED
    BY <1>2, <2>1, DeployRegistryAssumption
<1>3. CASE L # {}
  <2> DEFINE Times == {finishedAt[r] : r \in L}
  <2>1. Times \in SUBSET Nat /\ Times # {}
    BY <1>1, <1>3 DEF RegistryTypeOK
  <2>2. PICK t \in Times : \A u \in Times : t <= u
    BY <2>1, LeastOf
  <2>3. PICK m \in L : finishedAt[m] = t
    BY <2>2
  <2> DEFINE Later == {q \in Trimmable : ~OlderFirst(q, m)}
  <2>4. L \subseteq Later
    <3>1. \A q \in L : finishedAt[q] \in Nat /\ finishedAt[m] <= finishedAt[q] /\ q \in Trimmable
      BY <2>1, <2>2, <2>3
    <3>2. finishedAt[m] \in Nat
      BY <3>1
    <3> QED
      BY <3>1, <3>2 DEF OlderFirst
  <2>5. ~(TotalOf(held, Later) > Budget)
    BY <2>3 DEF Trimmed, Total, TotalOf
  <2>6. /\ TotalOf(held, L) <= TotalOf(held, Later)
        /\ TotalOf(held, Later) \in Nat /\ TotalOf(held, L) \in Nat
    <3>1. Later \in SUBSET Runs /\ IsFiniteSet(Later)
      BY <1>1, FS_Subset
    <3> HIDE DEF Later
    <3> QED
      BY <2>4, <3>1, FewerHoldLess DEF RegistryTypeOK
  <2> HIDE DEF Later
  <2> QED
    BY <2>5, <2>6, DeployRegistryAssumption
<1> QED
  BY <1>2, <1>3

\* RetainedFits, in these words.
LEMMA FitsView == RetainedFits <=> TotalOf(held, Retained) <= Budget
BY DEF RetainedFits, Retained, Total, TotalOf

\* Only a trim adds to what is retained, and it trims first.
LEMMA FitStep ==
    ASSUME RegistryTypeOK, RunsInv, RetainedFits, [RegistryNext]_registryVars
    PROVE  RetainedFits'
<1>a. /\ deploys \in [Ids -> Runs \cup {NoRun}] /\ stage \in [Runs -> Stages] /\ id \in [Runs -> Ids]
      /\ held \in [Runs -> Nat] /\ NoRun \notin Runs /\ Budget \in Nat
  BY DeployRegistryAssumption DEF RegistryTypeOK
<1> USE <1>a
<1>b. IsFiniteSet(Retained) /\ Retained \in SUBSET Runs /\ TotalOf(held, Retained) <= Budget
  <2>1. Retained \in SUBSET {r \in Runs : stage[r] # "free"}
    BY DEF Retained
  <2>2. IsFiniteSet(Retained)
    BY <2>1, FS_Subset DEF RunsInv
  <2> QED
    BY <2>1, <2>2 DEF RetainedFits, Retained, Total, TotalOf
<1>c. RetainedFits' <=> TotalOf(held', Retained') <= Budget
  <2>1. RetainedFits' <=> (TotalOf(held, Retained) <= Budget)'
    BY FitsView, PTL
  <2> QED
    BY <2>1
<1>d. ASSUME held' = held, Retained' \in SUBSET Retained PROVE RetainedFits'
  <2>1. /\ TotalOf(held, Retained') <= TotalOf(held, Retained)
        /\ TotalOf(held, Retained) \in Nat /\ TotalOf(held, Retained') \in Nat
    BY <1>b, <1>d, FewerHoldLess
  <2>2. TotalOf(held', Retained') = TotalOf(held, Retained')
    BY <1>d
  <2> QED
    BY <1>b, <1>c, <2>1, <2>2
<1>1. ASSUME NEW c \in Calls, NEW r \in Runs, NEW i \in Ids, NEW spool \in Calls \cup {NoCall},
             Begins(r, c, i, spool)
      PROVE  RetainedFits'
  <2>1. Retained' \in SUBSET Retained
    BY <1>1 DEF Begins, Retained, Registered
  <2> QED
    BY <1>1, <1>d, <2>1 DEF Begins
<1>2. ASSUME NEW c \in Calls, CallMoves(c) PROVE RetainedFits'
  <2>1. UNCHANGED <<deploys, stage, id, held>>
    BY <1>2 DEF CallMoves, runVars
  <2> QED
    BY <1>d, <2>1 DEF Retained, Registered
<1>3. ASSUME NEW r \in Runs, NEW n \in LogBytes, Finish(r, n) PROVE RetainedFits'
  <2>1. /\ stage[r] = "running" /\ UNCHANGED <<deploys, id>>
        /\ \A q \in Runs : stage'[q] = IF q = r THEN "done" ELSE stage[q]
        /\ \A q \in Runs : held'[q] = IF q = r THEN n ELSE held[q]
    BY <1>3 DEF Finish
  <2>2. Retained' = Retained /\ r \notin Retained
    BY <2>1 DEF Retained, Registered
  <2>3. SumOf(held', Retained) = SumOf(held, Retained)
    <3>1. \A q \in Retained : held'[q] = held[q]
      BY <1>b, <2>1, <2>2
    <3> QED
      BY <1>b, <3>1, SumSame
  <2>4. TotalOf(held', Retained') = TotalOf(held, Retained)
    BY <1>b, <2>2, <2>3, TotalIsSum
  <2> QED
    BY <1>b, <1>c, <2>4
<1>4. ASSUME NEW r \in Runs, Trim(r) PROVE RetainedFits'
  <2>1. /\ stage[r] = "done" /\ UNCHANGED <<id, held>>
        /\ \A q \in Runs : stage'[q] = IF q = r THEN "trimmed" ELSE stage[q]
        /\ \A i \in Ids : deploys'[i] = IF deploys[i] \in Trimmed THEN NoRun ELSE deploys[i]
    BY <1>4 DEF Trim
  <2>2. Retained' \in SUBSET (Trimmable \ Trimmed)
    <3> SUFFICES ASSUME NEW q \in Retained' PROVE q \in Trimmable \ Trimmed
      OBVIOUS
    <3>1. q \in Runs /\ stage'[q] \in {"trimmed", "over"} /\ deploys'[id[q]] = q
      BY <2>1 DEF Retained, Registered
    <3>2. Finished(q)
      BY <2>1, <3>1 DEF Finished
    <3>3. deploys[id[q]] = q /\ q \notin Trimmed
      BY <2>1, <3>1
    <3> QED
      BY <3>1, <3>2, <3>3 DEF Trimmable, Registered
  <2>3. TotalOf(held, Retained') <= Budget
    BY <2>2, LeftFits
  <2> QED
    BY <1>c, <2>1, <2>3
<1>5. ASSUME NEW r \in Runs, DropContext(r) PROVE RetainedFits'
  <2>1. /\ stage[r] = "trimmed" /\ UNCHANGED <<deploys, id, held>>
        /\ \A q \in Runs : stage'[q] = IF q = r THEN "over" ELSE stage[q]
    BY <1>5 DEF DropContext
  <2>2. Retained' \in SUBSET Retained
    BY <2>1 DEF Retained, Registered
  <2> QED
    BY <1>d, <2>1, <2>2
<1>6. ASSUME NEW r \in Runs, Expire(r) PROVE RetainedFits'
  <2>1. /\ UNCHANGED <<stage, id, held>>
        /\ \A i \in Ids : deploys'[i] = deploys[i] \/ deploys'[i] = NoRun
    BY <1>6 DEF Expire, TimerStillOwns
  <2>2. Retained' \in SUBSET Retained
    BY <2>1 DEF Retained, Registered
  <2> QED
    BY <1>d, <2>1, <2>2
<1>7. CASE UNCHANGED registryVars
  <2>1. UNCHANGED <<deploys, stage, id, held>>
    BY <1>7 DEF registryVars, runVars
  <2> QED
    BY <1>d, <2>1 DEF Retained, Registered
<1> QED
  BY <1>1, <1>2, <1>3, <1>4, <1>5, <1>6, <1>7, CallSteps DEF RegistryNext

\* An empty registry is sound.
LEMMA RegistryInitHolds ==
    ASSUME RegistryInit
    PROVE  RegistryInv
<1>1. RegistryTypeOK
  BY DEF RegistryInit, RegistryTypeOK, Stages
<1>2. RunsInv
  <2>1. {r \in Runs : stage[r] # "free"} = {}
    BY DEF RegistryInit
  <2>2. IsFiniteSet({r \in Runs : stage[r] # "free"})
    BY <2>1, FS_EmptySet
  <2> QED
    BY <2>2 DEF RegistryInit, RunsInv
<1>3. ContextInv
  BY DEF RegistryInit, ContextInv
<1>4. RetainedFits
  <2>1. Retained \in SUBSET (Trimmable \ Trimmed)
    BY DEF RegistryInit, Retained
  <2>2. TotalOf(held, Retained) <= Budget
    BY <1>1, <1>2, <2>1, LeftFits
  <2> QED
    BY <2>2 DEF RetainedFits, Retained, Total, TotalOf
<1> QED
  BY <1>1, <1>2, <1>3, <1>4 DEF RegistryInv

(* The registry, its runs and its calls have their types.                  *)
THEOREM RegistryTypeCorrect == RegistrySpec => []RegistryTypeOK
<1>1. RegistryInit => RegistryTypeOK
  BY RegistryInitHolds DEF RegistryInv
<1>2. RegistryTypeOK /\ [RegistryNext]_registryVars => RegistryTypeOK'
  BY RegistryTypesStep
<1> QED
  BY <1>1, <1>2, PTL DEF RegistrySpec

(* However calls race each other, the trims and the retention timers: a    *)
(* running deploy is what its id means, the finished runs kept for         *)
(* reattaching fit the budget, and a run's spooled context is there for as *)
(* long as the run may read it and no longer (server.go and inflight.go).  *)
THEOREM RegistryIsKept == RegistrySpec => []RunsAreKept
<1>1. RegistryInv /\ [RegistryNext]_registryVars => RegistryInv'
  BY RegistryTypesStep, RunsStep, ContextStep, FitStep DEF RegistryInv
<1>2. RegistryInv => RunsAreKept
  <2> SUFFICES ASSUME RegistryInv PROVE RunsAreKept
    OBVIOUS
  <2>1. RunningIsRegistered
    BY DEF RegistryInv, RunsInv, RunningIsRegistered, Registered
  <2>2. ContextsAreOwned
    <3>1. \A c \in files : c # NoCall
      BY DeployRegistryAssumption DEF RegistryInv, RegistryTypeOK
    <3> QED
      BY <3>1 DEF RegistryInv, ContextInv, ContextsAreOwned
  <2> QED
    BY <2>1, <2>2 DEF RegistryInv, RunsAreKept, RegistryKeeps
<1> QED
  BY <1>1, <1>2, RegistryInitHolds, PTL DEF RegistrySpec

HIDE DeployLogAssumption DEF record, vars, lastSeq
-----------------------------------------------------------------------------
(* The calls of a screenshot.                                              *)

\* From the slot on a call has it, until it is over.
Holding == {"headroom", "image", "dir", "listen", "run", "stop", "remove", "release"}

ShotTypes ==
    /\ shot \in [Captures -> {"idle", "slot", "over"} \cup Holding]
    /\ answer \in [Captures -> {"none", "error", "result"}]
    /\ browser \in [Captures -> {"none", "running", "over"}]

\* Who has the slot is on the way between the slot and its release, where the
\* directory is there from its making to its removal, a browser that docker has not
\* left behind runs at "run" only, and what is behind the run has an answer.
ShotInv ==
    /\ ShotTypes
    /\ \A c \in Captures :
          /\ shot[c] \in Holding <=> captureSlot = c
          /\ c \in sockDir <=> shot[c] \in {"listen", "run", "stop", "remove"}
          /\ browser[c] = "running" => shot[c] = "run" \/ c \in orphans
          /\ shot[c] \in {"stop", "remove", "release", "over"} => answer[c] # "none"

USE CaptureAssumption DEF handlers, boxes, tunnels, captureVars, Goes, Answers, Holding

\* Each step of a call keeps who has the slot and what goes with it.
LEMMA HandleStep ==
    ASSUME ShotInv, NEW c \in Captures, Handle(c)
    PROVE  ShotInv'
<1>1. CASE TakeSlot(c)
  BY <1>1 DEF ShotInv, ShotTypes, TakeSlot
<1>2. CASE GiveUp(c)
  BY <1>2 DEF ShotInv, ShotTypes, GiveUp
<1>3. CASE Prepares(c)
  BY <1>3 DEF ShotInv, ShotTypes, Prepares
<1>4. CASE PreparesNot(c)
  BY <1>4 DEF ShotInv, ShotTypes, PreparesNot
<1>5. CASE Serve(c)
  BY <1>5 DEF ShotInv, ShotTypes, Serve
<1>6. CASE RunEnds(c)
  BY <1>6 DEF ShotInv, ShotTypes, RunEnds
<1>7. CASE RunIsCut(c)
  BY <1>7 DEF ShotInv, ShotTypes, RunIsCut
<1>8. CASE Stop(c)
  BY <1>8 DEF ShotInv, ShotTypes, Stop
<1>9. CASE RemoveDir(c)
  BY <1>9 DEF ShotInv, ShotTypes, RemoveDir
<1>10. CASE ReleaseSlot(c)
  BY <1>10 DEF ShotInv, ShotTypes, ReleaseSlot
<1> QED
  BY <1>1, <1>2, <1>3, <1>4, <1>5, <1>6, <1>7, <1>8, <1>9, <1>10 DEF Handle

\* Egress and the connections touch none of it; the client and the browser start
\* and end where the invariant lets them.
LEMMA ShotStep ==
    ASSUME ShotInv, [CaptureNext]_captureVars
    PROVE  ShotInv'
<1>1. CASE UNCHANGED captureVars
  BY <1>1 DEF ShotInv, ShotTypes
<1>2. ASSUME NEW c \in Captures, Ask(c) \/ ClientLeaves(c) PROVE ShotInv'
  BY <1>2 DEF ShotInv, ShotTypes, Ask, ClientLeaves
<1>3. ASSUME NEW c \in Captures, StopServing(c) \/ \E t \in Tunnels : Connect(t, c) PROVE ShotInv'
  BY <1>3 DEF ShotInv, ShotTypes, StopServing, Connect
<1>4. ASSUME NEW c \in Captures, BrowserStarts(c) \/ BrowserEnds(c) PROVE ShotInv'
  BY <1>4 DEF ShotInv, ShotTypes, BrowserStarts, BrowserEnds
<1>5. ASSUME NEW t \in Tunnels, Carry(t) \/ CutByContext(t) \/ OneEndCloses(t) PROVE ShotInv'
  BY <1>5 DEF ShotInv, ShotTypes, Carry, Dialed, Declined, Hijacked, Splices, SpliceEnds,
      CutByContext, OneEndCloses
<1> QED
  BY <1>1, <1>2, <1>3, <1>4, <1>5, HandleStep DEF CaptureNext

(* One browser at a time: it runs for the call that has the slot, with its *)
(* socket there, unless docker could not remove it; and a call that is     *)
(* over has answered and given up what it took (CaptureScreenshot).        *)
THEOREM BrowsersRunAlone == CaptureSpec => []OneBrowser
<1>1. CaptureInit => ShotInv
  BY DEF CaptureInit, ShotInv, ShotTypes
<1>2. ShotInv => OneBrowser
  BY DEF ShotInv, ShotTypes, OneBrowser
<1> QED
  BY <1>1, <1>2, ShotStep, PTL DEF CaptureSpec

\* The egress of a call, and the connections it has.
EgressTypes ==
    /\ serving \subseteq Captures /\ captureSlot \in Captures \cup {NoCapture}
    /\ tunnel \in [Tunnels -> {"none", "dial", "hijack", "hijacked", "splice", "over"}]
    /\ owner \in [Tunnels -> Captures \cup {NoCapture}]
    /\ open \in [Tunnels -> SUBSET {"client", "up"}]

\* The calls whose egress is there: it accepts, or carries a connection.
HasEgress(c) == c \in serving \/ \E t \in Tunnels : owner[t] = c /\ tunnel[t] # "none"

\* An egress began with the run, and stop comes before whatever is behind the run; a
\* connection that is spliced with an end open is watched, and no other is; one that
\* is not there yet or any more has no end.
EgressInv ==
    /\ EgressTypes
    /\ \A c \in Captures : HasEgress(c) =>
          shot[c] \in {"run", "stop"} \/ (shot[c] \in {"remove", "release", "over"} /\ c \in stopped)
    /\ \A t \in Tunnels :
          /\ tunnel[t] # "none" => owner[t] \in Captures
          /\ tunnel[t] = "splice" => t \in afterFuncs \/ open[t] = {}
          /\ t \in afterFuncs => tunnel[t] = "splice"
          /\ tunnel[t] \in {"none", "over"} => open[t] = {}

\* Where nothing goes on, no call is on its way, so the slot is free and nobody waits
\* for it; and a connection that is spliced would have its call ended and be watched,
\* or have no end left.
LEMMA NothingStays ==
    ASSUME ShotInv, EgressInv
    PROVE  EndsAreReached
<1> SUFFICES ASSUME ~MayGoOn
             PROVE  /\ \A c \in Captures : shot[c] \in {"idle", "over"}
                    /\ \A t \in Tunnels : tunnel[t] \in {"none", "over"} /\ open[t] = {}
  BY DEF EndsAreReached
<1>1. \A c \in Captures : shot[c] \in {"idle", "slot", "over"}
  BY DEF MayGoOn
<1>2. captureSlot = NoCapture
  BY <1>1 DEF ShotInv, EgressInv, EgressTypes
<1>3. \A c \in Captures : shot[c] \in {"idle", "over"}
  BY <1>1, <1>2 DEF MayGoOn
<1>4. ASSUME NEW t \in Tunnels PROVE tunnel[t] \in {"none", "over"}
  <2> SUFFICES ASSUME tunnel[t] = "splice" PROVE FALSE
    BY DEF EgressInv, EgressTypes, MayGoOn
  <2>1. CASE open[t] = {}
    <3>1. Cardinality(open[t]) < 2
      BY <2>1, FS_EmptySet
    <3> QED
      BY <3>1 DEF MayGoOn
  <2>2. CASE t \in afterFuncs
    <3>1. owner[t] \in Captures /\ HasEgress(owner[t])
      BY DEF EgressInv, HasEgress
    <3>2. owner[t] \in stopped
      BY <3>1, <1>3 DEF EgressInv
    <3> QED
      BY <2>2, <3>2 DEF MayGoOn, Ended
  <2> QED
    BY <2>1, <2>2 DEF EgressInv
<1> QED
  BY <1>3, <1>4 DEF EgressInv

\* A step of a call: its egress begins with the run, and is stopped before the rest.
LEMMA EgressOfHandle ==
    ASSUME ShotTypes, EgressInv, NEW c \in Captures, Handle(c)
    PROVE  EgressInv'
<1> USE DEF EgressInv, EgressTypes, HasEgress, ShotTypes
<1>1. CASE TakeSlot(c) \/ GiveUp(c)
  BY <1>1 DEF TakeSlot, GiveUp
<1>2. CASE Prepares(c) \/ PreparesNot(c)
  BY <1>2 DEF Prepares, PreparesNot
<1>3. CASE Serve(c)
  BY <1>3 DEF Serve
<1>4. CASE RunEnds(c)
  BY <1>4 DEF RunEnds
<1>5. CASE RunIsCut(c)
  BY <1>5 DEF RunIsCut, Closed
<1>6. CASE Stop(c)
  BY <1>6 DEF Stop
<1>7. CASE RemoveDir(c) \/ ReleaseSlot(c)
  BY <1>7 DEF RemoveDir, ReleaseSlot
<1> QED
  BY <1>1, <1>2, <1>3, <1>4, <1>5, <1>6, <1>7 DEF Handle

\* The other steps: who accepts a connection has an egress before it has the connection.
LEMMA EgressStep ==
    ASSUME ShotTypes, EgressInv, [CaptureNext]_captureVars
    PROVE  EgressInv'
<1> USE DEF EgressInv, EgressTypes, HasEgress, ShotTypes
<1>1. CASE UNCHANGED captureVars
  BY <1>1
<1>2. ASSUME NEW c \in Captures, Ask(c) \/ ClientLeaves(c) PROVE EgressInv'
  BY <1>2 DEF Ask, ClientLeaves
<1>3. ASSUME NEW c \in Captures, StopServing(c) PROVE EgressInv'
  BY <1>3 DEF StopServing, Closed
<1>4. ASSUME NEW c \in Captures, NEW t \in Tunnels, Connect(t, c) PROVE EgressInv'
  BY <1>4 DEF Connect
<1>5. ASSUME NEW c \in Captures, BrowserStarts(c) \/ BrowserEnds(c) PROVE EgressInv'
  BY <1>5 DEF BrowserStarts, BrowserEnds, Closed
<1>6. ASSUME NEW t \in Tunnels, Dialed(t) \/ Declined(t) PROVE EgressInv'
  BY <1>6 DEF Dialed, Declined, Moves
<1>7. ASSUME NEW t \in Tunnels, Hijacked(t) \/ Splices(t) PROVE EgressInv'
  BY <1>7 DEF Hijacked, Splices, Watched, Moves
<1>8. ASSUME NEW t \in Tunnels, SpliceEnds(t) \/ CutByContext(t) PROVE EgressInv'
  BY <1>8 DEF SpliceEnds, CutByContext, Moves
<1>9. ASSUME NEW t \in Tunnels, OneEndCloses(t) PROVE EgressInv'
  BY <1>9 DEF OneEndCloses
<1> QED
  BY <1>1, <1>2, <1>3, <1>4, <1>5, <1>6, <1>7, <1>8, <1>9, EgressOfHandle DEF CaptureNext, Carry

(* While a call has not ended or a connection of its egress is left, the   *)
(* guard of some step of the agent's own holds: every call gets the slot,  *)
(* and gives it up, and what a browser or a server keeps open is cut by    *)
(* the call's context (context.AfterFunc in tunnel).                       *)
THEOREM CapturesReachTheirEnd == CaptureSpec => []EndsAreReached
<1>1. CaptureInit => ShotInv /\ EgressInv
  BY DEF CaptureInit, ShotInv, ShotTypes, EgressInv, EgressTypes, HasEgress
<1>2. ShotInv => ShotTypes
  BY DEF ShotInv
<1> QED
  BY <1>1, <1>2, ShotStep, EgressStep, NothingStays, PTL DEF CaptureSpec

HIDE CaptureAssumption DEF handlers, boxes, tunnels, captureVars, Goes, Answers, Holding
-----------------------------------------------------------------------------
(* The page in the browser.                                                *)

Before == {"prepare", "navigate", "parse"}
Pictures == {"light", "thumb", "scheme", "dark", "compare"}

PageTypes ==
    /\ now \in Nat /\ until \in Nat
    /\ pageAt \in Before \cup {"idle", "settle", "done"} \cup Pictures
    /\ doc \in {"blank", "ok", "error"} /\ docStatus \in {"none", "ok", "error"}
    /\ request \in {"none", "paused", "sent"} /\ frozen \in {"no", "now", "was"}
    /\ loaded \in BOOLEAN /\ flat \in BOOLEAN
    /\ laterDocs \in Nat /\ commits \in Nat

\* The result is there at the end and not before; pictures are taken of a page that
\* was loaded, and those after the thumbnail of one that is not flat.
ResultInv ==
    /\ pageAt # "done" => outcome = "none" /\ status # "error" /\ (loaded <=> pageAt \notin Before)
    /\ pageAt \in {"scheme", "dark", "compare"} => ~flat

\* No wait outlasts the deadline; and as long as the page does not freeze, the time
\* that is spent is that of the waits it may draw out, which leaves some.
TimeInv ==
    /\ now <= until /\ until <= BrowserDeadline
    /\ frozen = "no" =>
          /\ pageAt = "prepare" => now = 0
          /\ pageAt \in {"navigate", "parse"} => until <= NavTimeout
          /\ pageAt = "idle" => until <= NavTimeout + IdleTimeout
          /\ pageAt = "settle" => until <= NavTimeout + IdleTimeout + ConsentGrace
          /\ pageAt \in Pictures => now < until

\* A document that begins after the page was loaded was asked for before, or is one
\* of those that were let through since.
LaterInv ==
    LET coming == IF request = "sent" THEN 1 ELSE 0
    IN  /\ ~loaded => commits = 0 /\ laterDocs = 0
        /\ commits + coming <= laterDocs + 1
        /\ commits + coming <= NavigationsAfterLoad + 1

PageInv == PageTypes /\ ResultInv /\ TimeInv /\ LaterInv /\ PictureIsHonest

USE PageCaptureAssumption DEF timers, thePage, watched, shots, verdict, pageVars, Before, Pictures,
    Await, TimedOut, Answered, Conclude, WaitIdle

\* All steps, by what they do to the clock, the request and the result.
LEMMA PageStep ==
    ASSUME NavTimeout + IdleTimeout + ConsentGrace < BrowserDeadline,
           PageInv, [PageNext]_pageVars
    PROVE  PageInv'
<1> USE DEF PageInv, PageTypes, ResultInv, TimeInv, LaterInv, PictureIsHonest
<1>1. CASE UNCHANGED pageVars
  BY <1>1
<1> SUFFICES ASSUME pageAt # "done", PageNext PROVE PageInv'
  BY <1>1 DEF PageNext
<1>2. CASE Prepared
  BY <1>2 DEF Prepared
<1>3. CASE CallFails
  BY <1>3 DEF CallFails, Failure
<1>4. CASE Navigated \/ NavigationErrors
  BY <1>4 DEF Navigated, NavigationErrors
<1>5. CASE Parsed
  BY <1>5 DEF Parsed
<1>6. CASE NeverParsed
  BY <1>6 DEF NeverParsed
<1>7. CASE Idle \/ Settled
  BY <1>7 DEF Idle, Settled
<1>8. CASE TakeLight \/ SwitchScheme \/ TakeDark
  BY <1>8 DEF TakeLight, SwitchScheme, TakeDark
<1>9. CASE TakeThumb
  BY <1>9 DEF TakeThumb
<1>10. CASE LightOnly \/ BothTaken
  BY <1>10 DEF LightOnly, BothTaken
<1>11. CASE SeeStatus \/ Dismissed \/ Parses \/ NavigatesOn \/ Freezes
  BY <1>11 DEF SeeStatus, Dismissed, Parses, NavigatesOn, Freezes
<1>12. CASE Intercept
  BY <1>12 DEF Intercept, Refused
<1>13. CASE Commits
  BY <1>13 DEF Commits
<1>14. CASE Tick
  BY <1>14 DEF Tick, Waiting
<1> QED
  BY <1>2, <1>3, <1>4, <1>5, <1>6, <1>7, <1>8, <1>9, <1>10, <1>11, <1>12, <1>13, <1>14
  DEF PageNext, Steps

(* The outcome of a picture fits what the page did, as long as the         *)
(* timeouts of the waits that a page may draw out without freezing are     *)
(* less than the deadline of them all, which is what the code's are.       *)
THEOREM PicturesAreHonest ==
    ASSUME NavTimeout + IdleTimeout + ConsentGrace < BrowserDeadline
    PROVE  PageSpec => []PictureIsHonest
<1>0. BrowserDeadline \in Nat /\ NavigationsAfterLoad \in Nat
  OBVIOUS
<1>1. PageInit => PageInv
  <2> SUFFICES ASSUME PageInit PROVE PageInv
    OBVIOUS
  <2>1. PageTypes
    BY <1>0 DEF PageInit, PageTypes
  <2>2. ResultInv
    BY DEF PageInit, ResultInv
  <2>3. TimeInv
    BY <1>0 DEF PageInit, TimeInv
  <2>4. LaterInv
    BY <1>0 DEF PageInit, LaterInv
  <2>5. PictureIsHonest
    BY <1>0 DEF PageInit, PictureIsHonest
  <2> QED
    BY <2>1, <2>2, <2>3, <2>4, <2>5 DEF PageInv
<1>2. PageInv => PictureIsHonest
  BY DEF PageInv
<1> QED
  BY <1>1, <1>2, PageStep, PTL DEF PageSpec
\* The clock by itself, whatever the timeouts are.
ClockInv == now \in Nat /\ until \in Nat /\ now <= until /\ until <= BrowserDeadline

(* Time only goes by up to the end of the present wait, and every wait     *)
(* ends by the common deadline: with a step or with a timeout a capture    *)
(* gets on, also on a page that froze for good (Page.capture's contexts).  *)
THEOREM WaitsAreBounded == PageSpec => []WaitsEnd
<1>1. PageInit => ClockInv
  BY DEF PageInit, ClockInv
<1>2. ClockInv /\ [PageNext]_pageVars => ClockInv'
  <2> SUFFICES ASSUME ClockInv, [PageNext]_pageVars PROVE ClockInv'
    OBVIOUS
  <2> USE DEF ClockInv
  <2>1. CASE UNCHANGED timers
    BY <2>1
  <2>2. CASE Tick
    BY <2>2 DEF Tick
  <2>3. CASE Prepared \/ CallFails \/ Navigated \/ NavigationErrors \/ Parsed \/ NeverParsed
    BY <2>3 DEF Prepared, CallFails, Navigated, NavigationErrors, Parsed, NeverParsed
  <2>4. CASE Idle \/ Settled \/ TakeLight \/ TakeThumb
    BY <2>4 DEF Idle, Settled, TakeLight, TakeThumb
  <2>5. CASE SwitchScheme \/ TakeDark \/ LightOnly \/ BothTaken
    BY <2>5 DEF SwitchScheme, TakeDark, LightOnly, BothTaken
  <2>6. CASE SeeStatus \/ Intercept \/ Dismissed \/ Commits \/ Parses \/ NavigatesOn \/ Freezes
    BY <2>6 DEF SeeStatus, Intercept, Dismissed, Commits, Parses, NavigatesOn, Freezes
  <2> QED
    BY <2>1, <2>2, <2>3, <2>4, <2>5, <2>6 DEF PageNext, Steps
<1>3. ClockInv => WaitsEnd
  BY DEF ClockInv, WaitsEnd
<1> QED
  BY <1>1, <1>2, <1>3, PTL DEF PageSpec
-----------------------------------------------------------------------------
(* All of them, as the run has them.                                       *)

\* A step of the run is one of the log, of a screenshot's calls or of its page.
LEMMA FeedsStep ==
    ASSUME [FeedsNext]_feeds
    PROVE  [Next]_vars /\ [CaptureNext]_captureVars /\ [PageNext]_pageVars
<1>1. CASE UNCHANGED feeds
  BY <1>1 DEF feeds
<1>2. CASE Only("log") /\ Next
  BY <1>2 DEF Only
<1>3. CASE Only("capture") /\ CaptureNext
  BY <1>3 DEF Only
<1>4. CASE Only("page") /\ PageNext
  BY <1>4 DEF Only
<1> QED
  BY <1>1, <1>2, <1>3, <1>4 DEF FeedsNext

(* The log and the screenshots of the run at once: the log is the abstract *)
(* feed within its budget, one browser runs at a time and comes to its     *)
(* end, and the picture is what it says, as the waits are bounded and      *)
(* leave time.  But for ENABLED this is all the run checks.                *)
THEOREM FeedsStaySound ==
    ASSUME NavTimeout + IdleTimeout + ConsentGrace < BrowserDeadline
    PROVE  FeedsSpec =>
              /\ ImplementsDeployFeed
              /\ [](/\ BudgetHolds /\ OneBrowser /\ EndsAreReached
                    /\ PictureIsHonest /\ WaitsEnd)
<1>1. FeedsInit => Init /\ CaptureInit /\ PageInit
  BY DEF FeedsInit
<1>2. FeedsSpec => Spec /\ CaptureSpec /\ PageSpec
  BY <1>1, FeedsStep, PTL DEF FeedsSpec, Spec, CaptureSpec, PageSpec
<1>3. PageSpec => []PictureIsHonest
  BY PicturesAreHonest
<1> QED
  BY <1>2, <1>3, FeedIsKept, BudgetIsKept, BrowsersRunAlone, CapturesReachTheirEnd, WaitsAreBounded, PTL
\* A step of the other run is one of the log or of the registry; that it takes records
\* in their turn only makes its steps fewer.
LEMMA DeploysStep ==
    ASSUME [DeploysNext]_deployVars
    PROVE  [Next]_vars /\ [RegistryNext]_registryVars
<1>1. CASE UNCHANGED deployVars
  BY <1>1 DEF deployVars
<1>2. CASE Next /\ StreamsOnly
  BY <1>2 DEF StreamsOnly
<1>3. CASE RegistryNext /\ RegistryOnly
  BY <1>3 DEF RegistryOnly
<1> QED
  BY <1>1, <1>2, <1>3 DEF DeploysNext

(* The streams and the registry of the other run at once: the log is the   *)
(* abstract feed and a client that leaves is woken, and the registry keeps *)
(* the runs and files it must.                                             *)
THEOREM DeploysStaySound ==
    DeploysSpec => ImplementsDeployFeed /\ [](CancelledIsWoken /\ BudgetHolds /\ RunsAreKept)
<1>1. DeploysInit => Init /\ RegistryInit
  BY DEF DeploysInit
<1>2. DeploysSpec => Spec /\ RegistrySpec
  BY <1>1, DeploysStep, PTL DEF DeploysSpec, Spec, RegistrySpec
<1> QED
  BY <1>2, FeedIsKept, LeaversAreWoken, BudgetIsKept, RegistryIsKept, PTL
=============================================================================
