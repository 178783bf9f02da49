------------------------------ MODULE StackLock ------------------------------
(***************************************************************************)
(* Service.lockStack and the unlock function it returns                    *)
(* (internal/server/server.go): a table of reference-counted mutexes, one  *)
(* per stack slug, guarded by stackLocksMu.  An entry is made by the first *)
(* operation that asks for a slug and deleted by the last one that leaves, *)
(* so a mutex object must never be forgotten while somebody waits on it.   *)
(*                                                                         *)
(* A goroutine's steps are the code's own: it takes stackLocksMu, finds or *)
(* makes the entry, counts itself and releases stackLocksMu, blocks on the *)
(* entry's mutex, works, unlocks the mutex, takes stackLocksMu again and   *)
(* uncounts itself.                                                        *)
(***************************************************************************)
EXTENDS Naturals, FiniteSets

CONSTANTS Procs,    \* goroutines serving an RPC or driving a deploy
          Slugs,    \* stacks
          Locks,    \* stackLock objects; an unreachable one may be made again
          Nobody,   \* no goroutine
          NoLock,   \* the nil *stackLock
          SlowSlugs \* stacks whose operation may stay inside for ever

ASSUME StackLockAssumption ==
    /\ Nobody \notin Procs
    /\ NoLock \notin Locks
    /\ IsFiniteSet(Procs)
    /\ SlowSlugs \subseteq Slugs

VARIABLES mapMu,    \* the goroutine holding stackLocksMu
          table,    \* Service.stackLocks
          refs,     \* stackLock.refs
          owner,    \* who holds the stackLock's own sync.Mutex
          pc,       \* where each goroutine is inside lockStack
          slug,     \* the slug it asked for
          mine      \* its local variable l

vars == <<mapMu, table, refs, owner, pc, slug, mine>>

\* want -> find -> count -> acquire -> held -> leave -> uncount -> idle
States == {"idle", "want", "find", "count", "acquire", "held", "leave", "uncount"}

\* The steps between stackLocksMu.Lock and stackLocksMu.Unlock.
InMapSection(p) == pc[p] \in {"find", "count", "uncount"}

\* The goroutines whose reference the code has taken and not yet returned.
Counted(p) == pc[p] \in {"acquire", "held", "leave", "uncount"}

TypeOK ==
    /\ mapMu \in Procs \cup {Nobody}
    /\ table \in [Slugs -> Locks \cup {NoLock}]
    /\ refs \in [Locks -> Nat]
    /\ owner \in [Locks -> Procs \cup {Nobody}]
    /\ pc \in [Procs -> States]
    /\ slug \in [Procs -> Slugs]
    /\ mine \in [Procs -> Locks \cup {NoLock}]

Init ==
    /\ mapMu = Nobody
    /\ table = [s \in Slugs |-> NoLock]
    /\ refs = [l \in Locks |-> 0]
    /\ owner = [l \in Locks |-> Nobody]
    /\ pc = [p \in Procs |-> "idle"]
    /\ slug \in [Procs -> Slugs]
    /\ mine = [p \in Procs |-> NoLock]

\* An RPC handler reaches "defer s.lockStack(slug)()".
Request(p, s) ==
    /\ pc[p] = "idle"
    /\ pc' = [pc EXCEPT ![p] = "want"]
    /\ slug' = [slug EXCEPT ![p] = s]
    /\ UNCHANGED <<mapMu, table, refs, owner, mine>>

\* s.stackLocksMu.Lock(), on the way in and on the way out.
LockMap(p) ==
    /\ pc[p] \in {"want", "leave"}
    /\ mapMu = Nobody
    /\ mapMu' = p
    /\ pc' = [pc EXCEPT ![p] = IF @ = "want" THEN "find" ELSE "uncount"]
    /\ UNCHANGED <<table, refs, owner, slug, mine>>

\* An object nobody can reach: what &stackLock{} allocates.
Unreachable(l) ==
    /\ \A s \in Slugs : table[s] # l
    /\ \A q \in Procs : mine[q] # l

\* l := s.stackLocks[slug]; make and store one when there is none.
Find(p) ==
    /\ pc[p] = "find"
    /\ \/ /\ table[slug[p]] # NoLock
          /\ mine' = [mine EXCEPT ![p] = table[slug[p]]]
          /\ UNCHANGED <<table, refs, owner>>
       \/ /\ table[slug[p]] = NoLock
          /\ \E l \in Locks :
                /\ Unreachable(l)
                /\ mine' = [mine EXCEPT ![p] = l]
                /\ table' = [table EXCEPT ![slug[p]] = l]
                /\ refs' = [refs EXCEPT ![l] = 0]
                /\ owner' = [owner EXCEPT ![l] = Nobody]
    /\ pc' = [pc EXCEPT ![p] = "count"]
    /\ UNCHANGED <<mapMu, slug>>

\* l.refs++
CountedIn(p) == [refs EXCEPT ![mine[p]] = @ + 1]

\* The rest of the section: s.stackLocksMu.Unlock().
Count(p) ==
    /\ pc[p] = "count"
    /\ refs' = CountedIn(p)
    /\ mapMu' = Nobody
    /\ pc' = [pc EXCEPT ![p] = "acquire"]
    /\ UNCHANGED <<table, owner, slug, mine>>

\* Bug: one mutex for the whole agent.
CanLockAny(p) == \A l \in Locks : owner[l] = Nobody

\* The object's mutex is free: l.Lock() blocks while another goroutine has it.
CanLock(p) == owner[mine[p]] = Nobody

\* l.Lock().
Acquire(p) ==
    /\ pc[p] = "acquire"
    /\ CanLock(p)
    /\ owner' = [owner EXCEPT ![mine[p]] = p]
    /\ pc' = [pc EXCEPT ![p] = "held"]
    /\ UNCHANGED <<mapMu, table, refs, slug, mine>>

\* l.Unlock(), first step of the returned function.
Release(p) ==
    /\ pc[p] = "held"
    /\ owner' = [owner EXCEPT ![mine[p]] = Nobody]
    /\ pc' = [pc EXCEPT ![p] = "leave"]
    /\ UNCHANGED <<mapMu, table, refs, slug, mine>>

\* Bugs: the entry goes with whoever leaves first, or the count is compared
\* before it is decremented.
TableLeftByAnyone(p) == [table EXCEPT ![slug[p]] = NoLock]
TableLeftTooLate(p) == IF refs[mine[p]] = 0 THEN [table EXCEPT ![slug[p]] = NoLock] ELSE table

\* l.refs--
CountedOut(p) == [refs EXCEPT ![mine[p]] = @ - 1]

\* if l.refs == 0 after that { delete(s.stackLocks, slug) }
TableLeft(p) == IF refs[mine[p]] = 1 THEN [table EXCEPT ![slug[p]] = NoLock] ELSE table

\* The whole second section of the returned function.
Uncount(p) ==
    /\ pc[p] = "uncount"
    /\ refs' = CountedOut(p)
    /\ table' = TableLeft(p)
    /\ mapMu' = Nobody
    /\ mine' = [mine EXCEPT ![p] = NoLock]
    /\ pc' = [pc EXCEPT ![p] = "idle"]
    /\ UNCHANGED <<owner, slug>>

Next ==
    \E p \in Procs :
        \/ \E s \in Slugs : Request(p, s)
        \/ LockMap(p) \/ Find(p) \/ Count(p)
        \/ Acquire(p) \/ Release(p) \/ Uncount(p)

Spec == Init /\ [][Next]_vars

\* A goroutine is scheduled; sync.Mutex hands a starving waiter the lock, which
\* is strong fairness of taking it.  An operation leaves its section because
\* every docker command in it runs under a deadline; SlowSlugs are exempt.
Fairness ==
    \A p \in Procs :
        /\ WF_vars(Find(p)) /\ WF_vars(Count(p)) /\ WF_vars(Uncount(p))
        /\ SF_vars(LockMap(p)) /\ SF_vars(Acquire(p))
        /\ WF_vars(slug[p] \notin SlowSlugs /\ Release(p))

FairSpec == Spec /\ Fairness
-----------------------------------------------------------------------------
\* The goroutines inside the section of stack s.
Inside(s) == {p \in Procs : pc[p] = "held" /\ slug[p] = s}

\* No two operations are inside one stack at once, whichever mutex objects they
\* hold: TestLockStackSerializesOneSlug's claim, for every interleaving with the
\* deletion and re-creation of the table entry.
OneOperationPerStack ==
    \A p, q \in Procs :
        pc[p] = "held" /\ pc[q] = "held" /\ slug[p] = slug[q] => p = q

\* "a slug's entry lives only while someone holds or waits on it": with
\* stackLocksMu free, a table entry exists exactly for the slugs some goroutine
\* has counted itself on, so finished stacks leave nothing behind and no waiter
\* is left with an orphaned mutex.
EntryLivesWhileUsed ==
    mapMu = Nobody =>
        \A s \in Slugs :
            table[s] # NoLock <=> \E p \in Procs : Counted(p) /\ slug[p] = s

\* The goroutines counted on a lock object.
Users(l) == {p \in Procs : Counted(p) /\ mine[p] = l}

\* refs is exactly the number of goroutines that hold or wait on the object, so
\* it reaches zero when the last one leaves and not before.
RefsCountUsers ==
    \A l \in Locks : (\E s \in Slugs : table[s] = l) => refs[l] = Cardinality(Users(l))

\* TestLockStackDoesNotSerializeAcrossSlugs: whoever waits on a stack whose
\* operations end gets in, even while an operation on another stack never ends.
WaiterGetsIn ==
    \A p \in Procs :
        (pc[p] \in {"want", "acquire"} /\ slug[p] \notin SlowSlugs) ~> (pc[p] = "held")

\* The abstract lock: an operation waits from its request until it is inside.
Waiting == [s \in Slugs |->
    {p \in Procs : slug[p] = s /\ pc[p] \in {"want", "find", "count", "acquire"}}]
Holding == [s \in Slugs |-> Inside(s)]

Abstract == INSTANCE StackMutex WITH waits <- Waiting, holds <- Holding

\* The table of reference-counted mutexes implements one mutex per stack.
ImplementsStackMutex == Abstract!Spec

=============================================================================
