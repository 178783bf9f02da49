--------------------------- MODULE StackLockProofs ---------------------------
(***************************************************************************)
(* Proofs about StackLock for every set of goroutines, stacks and lock     *)
(* objects.  Mutual exclusion is not inductive by itself: it rests on the  *)
(* entry of a slug being one object for as long as anybody refers to it,   *)
(* which rests on the reference count being exact.  Then about Roster and  *)
(* BuildMemory, which run with it in MCServicesLive: the safety that their *)
(* liveness rests on.                                                      *)
(***************************************************************************)
EXTENDS MCServicesLive, FiniteSetTheorems, TLAPS

\* stackLocksMu is held by exactly the goroutine inside the map's section.
MapMutex == \A p \in Procs : InMapSection(p) <=> mapMu = p

\* A goroutine has its entry from Find until it has uncounted itself.
HasEntry(p) == pc[p] \in {"count", "acquire", "held", "leave", "uncount"}
EntryHeld == \A p \in Procs : IF HasEntry(p) THEN mine[p] \in Locks ELSE mine[p] = NoLock

\* Whoever refers to an object still finds it in the table under its slug.
EntryStays == \A p \in Procs : HasEntry(p) => table[slug[p]] = mine[p]

\* No object stands under two slugs.
OneSlugPerLock == \A s, t \in Slugs : table[s] = table[t] /\ table[s] # NoLock => s = t

\* No entry without somebody who refers to it.
EntryNeeded ==
    \A s \in Slugs : table[s] # NoLock => \E p \in Procs : HasEntry(p) /\ slug[p] = s

\* The mutex of an object belongs to the goroutine inside its section.
OwnerInside ==
    \A p \in Procs : \A l \in Locks : owner[l] = p <=> pc[p] = "held" /\ mine[p] = l

IInv == /\ TypeOK /\ MapMutex /\ EntryHeld /\ EntryStays /\ OneSlugPerLock
        /\ EntryNeeded /\ OwnerInside /\ RefsCountUsers

-----------------------------------------------------------------------------
\* Every step keeps every variable in its type.
LEMMA TypeStep == IInv /\ [Next]_vars => TypeOK'
<1> SUFFICES ASSUME IInv, [Next]_vars PROVE TypeOK'
    OBVIOUS
<1> USE DEF IInv, TypeOK, States
<1>1. ASSUME NEW p \in Procs, NEW s \in Slugs, Request(p, s) PROVE TypeOK'
    BY <1>1 DEF Request
<1>2. ASSUME NEW p \in Procs, LockMap(p) PROVE TypeOK'
    BY <1>2 DEF LockMap
<1>3. ASSUME NEW p \in Procs, Find(p) PROVE TypeOK'
    BY <1>3 DEF Find
<1>4. ASSUME NEW p \in Procs, Count(p) PROVE TypeOK'
    BY <1>4 DEF Count, CountedIn, EntryHeld, HasEntry
<1>5. ASSUME NEW p \in Procs, Acquire(p) PROVE TypeOK'
    BY <1>5 DEF Acquire, CanLock
<1>6. ASSUME NEW p \in Procs, Release(p) PROVE TypeOK'
    BY <1>6 DEF Release
<1>7. ASSUME NEW p \in Procs, Uncount(p) PROVE TypeOK'
    <2>1. mine[p] \in Locks
        BY <1>7 DEF Uncount, CountedOut, TableLeft, EntryHeld, HasEntry
    <2>2. p \in Users(mine[p]) /\ refs[mine[p]] = Cardinality(Users(mine[p]))
        BY <1>7, <2>1 DEF Uncount, CountedOut, TableLeft, EntryStays, HasEntry, RefsCountUsers, Users, Counted
    <2>3. IsFiniteSet(Users(mine[p]))
        BY StackLockAssumption, FS_Subset DEF Users
    <2>4. refs[mine[p]] # 0
        BY <2>2, <2>3, FS_EmptySet
    <2>. QED
        BY <1>7, <2>1, <2>4 DEF Uncount, CountedOut, TableLeft
<1>8. CASE UNCHANGED vars
    BY <1>8 DEF vars
<1>. QED
    BY <1>1, <1>2, <1>3, <1>4, <1>5, <1>6, <1>7, <1>8 DEF Next

-----------------------------------------------------------------------------
\* The set of users of an object is finite, so its cardinality is a count.
LEMMA UsersFinite == \A l : IsFiniteSet(Users(l))
BY StackLockAssumption, FS_Subset DEF Users

\* A step that changes neither who is counted, nor mine, nor refs, nor the table
\* leaves every count as it was.
LEMMA SameUsers ==
    ASSUME RefsCountUsers, UNCHANGED <<table, refs, mine>>,
           \A p \in Procs : Counted(p)' <=> Counted(p)
    PROVE  RefsCountUsers'
<1>1. \A l : Users(l)' = Users(l)
    BY DEF Users
<1>. QED
    BY <1>1 DEF RefsCountUsers

\* The last user of an object is the one that deletes it: while Uncount runs, a
\* count of one means nobody else refers to the object.
LEMMA LastUser ==
    ASSUME IInv, NEW p \in Procs, Uncount(p), refs[mine[p]] = 1,
           NEW q \in Procs, HasEntry(q), slug[q] = slug[p]
    PROVE  q = p
<1>1. mine[p] \in Locks /\ table[slug[p]] = mine[p]
    BY DEF IInv, Uncount, CountedOut, TableLeft, EntryHeld, EntryStays, HasEntry
<1>2. mine[q] = mine[p]
    BY <1>1 DEF IInv, EntryStays
<1>3. mapMu = p /\ ~(pc[q] = "count")
    BY DEF IInv, MapMutex, InMapSection, Uncount, CountedOut, TableLeft
<1>4. p \in Users(mine[p]) /\ q \in Users(mine[p])
    BY <1>2, <1>3 DEF Users, Counted, HasEntry, Uncount, CountedOut, TableLeft
<1>5. Cardinality(Users(mine[p])) = 1
    BY <1>1 DEF IInv, RefsCountUsers, TypeOK
<1>6. PICK x : Users(mine[p]) = {x}
    BY <1>5, UsersFinite, FS_Singleton
<1>. QED
    BY <1>4, <1>6

-----------------------------------------------------------------------------
\* The steps that move a goroutine along without touching a lock object.
LEMMA RequestStep ==
    ASSUME IInv, TypeOK', NEW p \in Procs, NEW s \in Slugs, Request(p, s)
    PROVE  IInv'
<1> USE DEF IInv, TypeOK, Request
<1>1. MapMutex'
    BY DEF MapMutex, InMapSection
<1>2. EntryHeld' /\ EntryStays'
    BY DEF EntryHeld, EntryStays, HasEntry
<1>3. EntryNeeded'
    BY DEF EntryNeeded, HasEntry
<1>4. OneSlugPerLock' /\ OwnerInside'
    BY DEF OneSlugPerLock, OwnerInside
<1>5. RefsCountUsers'
    BY SameUsers DEF Counted
<1>. QED
    BY <1>1, <1>2, <1>3, <1>4, <1>5

LEMMA LockMapStep ==
    ASSUME IInv, TypeOK', NEW p \in Procs, LockMap(p)
    PROVE  IInv'
<1> USE DEF IInv, TypeOK, LockMap
<1>1. MapMutex'
    BY StackLockAssumption DEF MapMutex, InMapSection
<1>2. EntryHeld' /\ EntryStays'
    BY DEF EntryHeld, EntryStays, HasEntry
<1>3. EntryNeeded'
    BY DEF EntryNeeded, HasEntry
<1>4. OneSlugPerLock' /\ OwnerInside'
    BY DEF OneSlugPerLock, OwnerInside
<1>5. RefsCountUsers'
    BY SameUsers DEF Counted
<1>. QED
    BY <1>1, <1>2, <1>3, <1>4, <1>5

\* Taking and giving back the object's own mutex.
LEMMA AcquireStep ==
    ASSUME IInv, TypeOK', NEW p \in Procs, Acquire(p)
    PROVE  IInv'
<1> USE DEF IInv, TypeOK, Acquire, CanLock
<1>1. MapMutex'
    BY DEF MapMutex, InMapSection
<1>2. EntryHeld' /\ EntryStays'
    BY DEF EntryHeld, EntryStays, HasEntry
<1>3. EntryNeeded'
    BY DEF EntryNeeded, HasEntry
<1>4. OneSlugPerLock'
    BY DEF OneSlugPerLock
<1>5. OwnerInside'
    BY StackLockAssumption DEF OwnerInside, EntryHeld, HasEntry
<1>6. RefsCountUsers'
    BY SameUsers DEF Counted
<1>. QED
    BY <1>1, <1>2, <1>3, <1>4, <1>5, <1>6

LEMMA ReleaseStep ==
    ASSUME IInv, TypeOK', NEW p \in Procs, Release(p)
    PROVE  IInv'
<1> USE DEF IInv, TypeOK, Release
<1>1. MapMutex'
    BY DEF MapMutex, InMapSection
<1>2. EntryHeld' /\ EntryStays'
    BY DEF EntryHeld, EntryStays, HasEntry
<1>3. EntryNeeded'
    BY DEF EntryNeeded, HasEntry
<1>4. OneSlugPerLock'
    BY DEF OneSlugPerLock
<1>5. OwnerInside'
    BY StackLockAssumption DEF OwnerInside, EntryHeld, HasEntry
<1>6. RefsCountUsers'
    BY SameUsers DEF Counted
<1>. QED
    BY <1>1, <1>2, <1>3, <1>4, <1>5, <1>6

\* Finding an entry, or storing a new object nobody else can refer to.
LEMMA FindStep ==
    ASSUME IInv, TypeOK', NEW p \in Procs, Find(p)
    PROVE  IInv'
<1> USE DEF IInv, TypeOK, Find
<1>1. MapMutex'
    BY DEF MapMutex, InMapSection
<1>2. mine[p] = NoLock
    BY DEF EntryHeld, HasEntry
<1>3. CASE table[slug[p]] # NoLock
    <2>1. EntryHeld' /\ EntryStays' /\ EntryNeeded' /\ OneSlugPerLock'
        BY <1>3 DEF EntryHeld, EntryStays, EntryNeeded, OneSlugPerLock, HasEntry
    <2>2. OwnerInside'
        BY <1>2, <1>3, StackLockAssumption DEF OwnerInside
    <2>3. \A l : Users(l)' = Users(l)
        BY <1>3 DEF Users, Counted
    <2>. QED
        BY <1>1, <1>3, <2>1, <2>2, <2>3 DEF RefsCountUsers
<1>4. CASE table[slug[p]] = NoLock
    <2>1. PICK l \in Locks :
            /\ Unreachable(l)
            /\ mine' = [mine EXCEPT ![p] = l]
            /\ table' = [table EXCEPT ![slug[p]] = l]
            /\ refs' = [refs EXCEPT ![l] = 0]
            /\ owner' = [owner EXCEPT ![l] = Nobody]
        BY <1>4
    <2>2. EntryHeld'
        BY <2>1 DEF EntryHeld, HasEntry
    <2>3. \A q \in Procs : HasEntry(q) => slug[q] # slug[p]
        BY <1>4, StackLockAssumption DEF EntryStays, EntryHeld
    <2>4. EntryStays' /\ EntryNeeded'
        BY <1>4, <2>1, <2>3 DEF EntryStays, EntryNeeded, HasEntry
    <2>5. OneSlugPerLock'
        BY <2>1 DEF OneSlugPerLock, Unreachable
    <2>6. OwnerInside'
        BY <1>2, <2>1, StackLockAssumption DEF OwnerInside, Unreachable
    <2>7. Users(l)' = {}
        BY <2>1 DEF Users, Counted, Unreachable
    <2>8. \A k : k # l => Users(k)' = Users(k)
        BY <2>1 DEF Users, Counted
    <2>9. Cardinality(Users(l)') = 0
        BY <2>7, FS_EmptySet
    <2>10. \A k \in Locks : k # l /\ (\E s \in Slugs : table'[s] = k)
                => \E s \in Slugs : table[s] = k
        BY <2>1
    <2>11. RefsCountUsers'
        BY <2>1, <2>8, <2>9, <2>10 DEF RefsCountUsers
    <2>. QED
        BY <1>1, <2>2, <2>4, <2>5, <2>6, <2>11
<1>. QED
    BY <1>3, <1>4

\* Counting itself: one more user, and stackLocksMu is free again.
LEMMA CountStep ==
    ASSUME IInv, TypeOK', NEW p \in Procs, Count(p)
    PROVE  IInv'
<1> USE DEF IInv, TypeOK, Count, CountedIn
<1>1. MapMutex'
    BY StackLockAssumption DEF MapMutex, InMapSection
<1>2. EntryHeld' /\ EntryStays' /\ EntryNeeded'
    BY DEF EntryHeld, EntryStays, EntryNeeded, HasEntry
<1>3. OneSlugPerLock' /\ OwnerInside'
    BY DEF OneSlugPerLock, OwnerInside
<1>4. PICK l \in Locks : l = mine[p]
    BY DEF EntryHeld, HasEntry
<1>5. Users(l)' = Users(l) \cup {p}
    BY <1>4 DEF Users, Counted
<1>6. p \notin Users(l)
    BY DEF Users, Counted
<1>7. Cardinality(Users(l)') = Cardinality(Users(l)) + 1
    <2>1. IsFiniteSet(Users(l))
        BY UsersFinite
    <2>2. Cardinality(Users(l) \cup {p}) = Cardinality(Users(l)) + 1
        BY <1>6, <2>1, FS_AddElement
    <2>. QED
        BY <1>5, <2>2
<1>8. \A k : k # l => Users(k)' = Users(k)
    BY <1>4 DEF Users, Counted
<1>9. refs' = [refs EXCEPT ![l] = @ + 1] /\ table' = table
    BY <1>4
<1>10. RefsCountUsers'
    <2>1. ASSUME NEW k \in Locks, NEW s \in Slugs, table'[s] = k
          PROVE  refs'[k] = Cardinality(Users(k)')
        <3>1. refs[k] = Cardinality(Users(k))
            BY <2>1 DEF RefsCountUsers
        <3>2. CASE k = l
            BY <1>7, <1>9, <3>1, <3>2
        <3>3. CASE k # l
            BY <1>8, <1>9, <3>1, <3>3
        <3>. QED
            BY <3>2, <3>3
    <2>. QED
        BY <2>1 DEF RefsCountUsers
<1>. QED
    BY <1>1, <1>2, <1>3, <1>10

\* Uncounting itself: the entry goes with its last user and with no other.
LEMMA UncountStep ==
    ASSUME IInv, TypeOK', NEW p \in Procs, Uncount(p)
    PROVE  IInv'
<1> USE DEF IInv, TypeOK, Uncount, CountedOut, TableLeft
<1>1. MapMutex'
    BY StackLockAssumption DEF MapMutex, InMapSection
<1>2. mine[p] \in Locks /\ table[slug[p]] = mine[p]
    BY DEF EntryHeld, EntryStays, HasEntry
<1>3. EntryHeld'
    BY DEF EntryHeld, HasEntry
<1>4. OneSlugPerLock'
    BY DEF OneSlugPerLock
<1>5. OwnerInside'
    BY <1>2, StackLockAssumption DEF OwnerInside
<1>6. PICK l \in Locks : l = mine[p]
    BY <1>2
<1>7. Users(l)' = Users(l) \ {p} /\ p \in Users(l)
    BY <1>6, StackLockAssumption DEF Users, Counted
<1>8. \A k \in Locks : k # l => Users(k)' = Users(k)
    BY <1>6, StackLockAssumption DEF Users, Counted
<1>9. refs[l] = Cardinality(Users(l))
    BY <1>2, <1>6 DEF RefsCountUsers
<1>10. RefsCountUsers'
    <2>1. Cardinality(Users(l)') = Cardinality(Users(l)) - 1
        BY <1>7, UsersFinite, FS_RemoveElement
    <2>2. refs' = [refs EXCEPT ![l] = @ - 1]
        BY <1>6
    <2>3. \A s \in Slugs : table'[s] # NoLock => table'[s] = table[s]
        OBVIOUS
    <2>4. \A k \in Locks : (\E s \in Slugs : table'[s] = k) => refs[k] = Cardinality(Users(k))
        BY <2>3, StackLockAssumption DEF RefsCountUsers
    <2>. QED
        BY <1>8, <1>9, <2>1, <2>2, <2>4 DEF RefsCountUsers
<1>11. CASE refs[l] = 1
    <2>1. \A q \in Procs : HasEntry(q) /\ slug[q] = slug[p] => q = p
        BY <1>6, <1>11, LastUser
    <2>2. EntryStays'
        BY <1>6, <1>11, <2>1 DEF EntryStays, HasEntry
    <2>3. EntryNeeded'
        BY <1>6, <1>11 DEF EntryNeeded, HasEntry
    <2>. QED
        BY <1>1, <1>3, <1>4, <1>5, <1>10, <2>2, <2>3
<1>12. CASE refs[l] # 1
    <2>1. Users(l) # {p}
        BY <1>9, <1>12, FS_Singleton
    <2>2. PICK q \in Users(l) : q # p
        BY <1>7, <2>1
    <2>3. slug[q] = slug[p]
        BY <1>2, <1>6, <2>2, StackLockAssumption
        DEF Users, Counted, EntryStays, HasEntry, OneSlugPerLock
    <2>4. EntryStays'
        BY <1>6, <1>12 DEF EntryStays, HasEntry
    <2>5. EntryNeeded'
        BY <1>6, <1>12, <2>2, <2>3 DEF EntryNeeded, HasEntry, Users, Counted
    <2>. QED
        BY <1>1, <1>3, <1>4, <1>5, <1>10, <2>4, <2>5
<1>. QED
    BY <1>11, <1>12

-----------------------------------------------------------------------------
LEMMA InitInvariant == Init => IInv
<1> SUFFICES ASSUME Init PROVE IInv
    OBVIOUS
<1>1. TypeOK /\ MapMutex /\ EntryHeld /\ EntryStays
    BY StackLockAssumption
    DEF Init, TypeOK, States, MapMutex, InMapSection, EntryHeld, EntryStays, HasEntry
<1>2. OneSlugPerLock /\ EntryNeeded /\ OwnerInside
    BY StackLockAssumption DEF Init, OneSlugPerLock, EntryNeeded, OwnerInside
<1>3. RefsCountUsers
    BY StackLockAssumption DEF Init, RefsCountUsers
<1>. QED
    BY <1>1, <1>2, <1>3 DEF IInv

LEMMA NextInvariant == IInv /\ [Next]_vars => IInv'
<1> SUFFICES ASSUME IInv, [Next]_vars PROVE IInv'
    OBVIOUS
<1>1. TypeOK'
    BY TypeStep
<1>2. CASE Next
    BY <1>1, <1>2, RequestStep, LockMapStep, FindStep, CountStep, AcquireStep,
       ReleaseStep, UncountStep DEF Next
<1>3. CASE UNCHANGED vars
    BY <1>3, SameUsers
    DEF vars, IInv, TypeOK, MapMutex, InMapSection, EntryHeld, EntryStays, HasEntry,
        OneSlugPerLock, EntryNeeded, OwnerInside, Counted
<1>. QED
    BY <1>2, <1>3

THEOREM Invariance == Spec => []IInv
<1>. QED
    BY InitInvariant, NextInvariant, PTL DEF Spec

\* Every variable of the lock table keeps its type.
THEOREM TypeCorrect == Spec => []TypeOK
<1>1. IInv => TypeOK
    BY DEF IInv
<1>. QED
    BY <1>1, Invariance, PTL

\* lockStack serializes operations on one stack: never two inside one section,
\* for any number of goroutines, stacks and re-created mutex objects.
THEOREM MutualExclusion == Spec => []OneOperationPerStack
<1>1. IInv => OneOperationPerStack
    <2> SUFFICES ASSUME IInv, NEW p \in Procs, NEW q \in Procs,
                        pc[p] = "held", pc[q] = "held", slug[p] = slug[q]
                 PROVE  p = q
        BY DEF OneOperationPerStack
    <2>1. mine[p] = mine[q] /\ mine[p] \in Locks
        BY DEF IInv, EntryStays, EntryHeld, HasEntry
    <2>2. owner[mine[p]] = p /\ owner[mine[q]] = q
        BY <2>1 DEF IInv, OwnerInside
    <2>. QED
        BY <2>1, <2>2
<1>. QED
    BY <1>1, Invariance, PTL

\* The table holds an entry exactly for the slugs somebody holds or waits on.
THEOREM NoLeakedEntry == Spec => []EntryLivesWhileUsed
<1>1. IInv => EntryLivesWhileUsed
    <2> SUFFICES ASSUME IInv, mapMu = Nobody, NEW s \in Slugs
                 PROVE  table[s] # NoLock <=> \E p \in Procs : Counted(p) /\ slug[p] = s
        BY DEF EntryLivesWhileUsed
    <2>1. \A p \in Procs : HasEntry(p) <=> Counted(p)
        BY StackLockAssumption DEF IInv, MapMutex, InMapSection, HasEntry, Counted
    <2>. QED
        BY <2>1, StackLockAssumption DEF IInv, EntryNeeded, EntryStays, EntryHeld
<1>. QED
    BY <1>1, Invariance, PTL

\* A stack's reference count is the number of goroutines that hold or wait on it.
THEOREM ExactCount == Spec => []RefsCountUsers
<1>1. IInv => RefsCountUsers
    BY DEF IInv
<1>. QED
    BY <1>1, Invariance, PTL

-----------------------------------------------------------------------------
\* The steps seen by the abstract lock.
LEMMA AskStep ==
    ASSUME IInv, NEW p \in Procs, NEW s \in Slugs, Request(p, s)
    PROVE  Abstract!Ask(p, s)
<1> USE DEF IInv, TypeOK, Request
<1>1. Abstract!Idle(p)
    BY DEF Abstract!Idle, Waiting, Holding, Inside
<1>2. Waiting' = [Waiting EXCEPT ![s] = @ \cup {p}]
    <2>1. \A t \in Slugs : Waiting'[t] = Waiting[t] \cup (IF t = s THEN {p} ELSE {})
        BY DEF Waiting
    <2>2. DOMAIN Waiting = Slugs /\ DOMAIN Waiting' = Slugs
        BY DEF Waiting
    <2>3. \A t \in Slugs : Waiting'[t] = [Waiting EXCEPT ![s] = @ \cup {p}][t]
        BY <2>1, <2>2
    <2>. QED
        BY <2>2, <2>3 DEF Waiting
<1>3. Holding' = Holding
    BY DEF Holding, Inside
<1>. QED
    BY <1>1, <1>2, <1>3 DEF Abstract!Ask

LEMMA GrantStep ==
    ASSUME IInv, NEW p \in Procs, Acquire(p)
    PROVE  Abstract!Grant(p, slug[p])
<1> USE DEF IInv, TypeOK, Acquire, CanLock
<1>1. p \in Waiting[slug[p]]
    BY DEF Waiting
<1>2. Inside(slug[p]) = {}
    <2> SUFFICES ASSUME NEW q \in Procs, pc[q] = "held", slug[q] = slug[p] PROVE FALSE
        BY DEF Inside
    <2>1. mine[q] = mine[p] /\ mine[p] \in Locks
        BY DEF EntryStays, EntryHeld, HasEntry
    <2>2. owner[mine[p]] = q
        BY <2>1 DEF OwnerInside
    <2>. QED
        BY <2>2, StackLockAssumption
<1>3. Waiting' = [Waiting EXCEPT ![slug[p]] = @ \ {p}]
    BY DEF Waiting
<1>4. Holding' = [Holding EXCEPT ![slug[p]] = {p}]
    <2>1. \A t \in Slugs : Inside(t)' = IF t = slug[p] THEN {p} ELSE Inside(t)
        BY <1>2 DEF Inside
    <2>. QED
        BY <2>1 DEF Holding
<1>5. Holding[slug[p]] = {}
    BY <1>2 DEF Holding
<1>. QED
    BY <1>1, <1>3, <1>4, <1>5 DEF Abstract!Grant

LEMMA GiveBackStep ==
    ASSUME IInv, NEW p \in Procs, Release(p)
    PROVE  Abstract!GiveBack(p, slug[p])
<1> USE DEF IInv, TypeOK, Release
<1>1. p \in Holding[slug[p]]
    BY DEF Holding, Inside
<1>2. Holding' = [Holding EXCEPT ![slug[p]] = @ \ {p}]
    BY DEF Holding, Inside
<1>3. Waiting' = Waiting
    BY DEF Waiting
<1>. QED
    BY <1>1, <1>2, <1>3 DEF Abstract!GiveBack

\* Everything lockStack does with its table is invisible to the abstract lock.
LEMMA TableStep ==
    ASSUME IInv, NEW p \in Procs, LockMap(p) \/ Find(p) \/ Count(p) \/ Uncount(p)
    PROVE  UNCHANGED <<Waiting, Holding>>
<1> USE DEF IInv, TypeOK, Waiting, Holding, Inside
<1>1. CASE LockMap(p)
    BY <1>1 DEF LockMap
<1>2. CASE Find(p)
    BY <1>2 DEF Find
<1>3. CASE Count(p)
    BY <1>3 DEF Count, CountedIn
<1>4. CASE Uncount(p)
    BY <1>4 DEF Uncount, CountedOut, TableLeft
<1>. QED
    BY <1>1, <1>2, <1>3, <1>4

\* lockStack implements one mutex per stack: its callers never see the table.
THEOREM Refinement == Spec => ImplementsStackMutex
<1>1. Init => Abstract!Init
    BY DEF Init, Abstract!Init, Waiting, Holding, Inside
<1>2. IInv /\ [Next]_vars => [Abstract!Next]_<<Waiting, Holding>>
    <2> SUFFICES ASSUME IInv, [Next]_vars
                 PROVE  Abstract!Next \/ UNCHANGED <<Waiting, Holding>>
        OBVIOUS
    <2>1. ASSUME NEW p \in Procs, NEW s \in Slugs, Request(p, s) PROVE Abstract!Next
        BY <2>1, AskStep DEF Abstract!Next
    <2>2. ASSUME NEW p \in Procs, Acquire(p) PROVE Abstract!Next
        BY <2>2, GrantStep DEF Abstract!Next, IInv, TypeOK
    <2>3. ASSUME NEW p \in Procs, Release(p) PROVE Abstract!Next
        BY <2>3, GiveBackStep DEF Abstract!Next, IInv, TypeOK
    <2>4. CASE UNCHANGED vars
        BY <2>4 DEF vars, Waiting, Holding, Inside
    <2>. QED
        BY <2>1, <2>2, <2>3, <2>4, TableStep DEF Next
<1>. QED
    BY <1>1, <1>2, Invariance, PTL
    DEF Spec, ImplementsStackMutex, Abstract!Spec, Abstract!mutexVars

-----------------------------------------------------------------------------
(* The roster.                                                             *)

RosterEvents == [act : {"start", "die", "destroy", "oom"}, id : Ids]

RosterTypes ==
    /\ state \in [Ids -> {"none", "running", "exited", "gone"}]
    /\ events \in Seq(RosterEvents)
    /\ rloop \in {"idle", "debounce", "list", "inspect", "publish"}
    /\ DOMAIN rows \subseteq Ids /\ DOMAIN entries \subseteq Ids
    /\ ooms \in [Ids -> Nat] /\ kills \in [Ids -> Nat]

Listed == rloop \in {"inspect", "publish"}

\* Only what was there is published, and what a list has no more is gone for good.
SeenBefore ==
    /\ \A c \in DOMAIN entries : state[c] # "none"
    /\ Listed =>
          /\ \A c \in DOMAIN rows : state[c] # "none"
          /\ \A c \in DOMAIN entries : c \notin DOMAIN rows => state[c] = "gone"

\* A container whose kills were counted leaves the roster only for good.
ForgottenForGood ==
    \A c \in Ids : kills[c] > 0 /\ c \notin DOMAIN entries =>
        state[c] = "gone" /\ (Listed => c \notin DOMAIN rows)

RosterInv == RosterTypes /\ HeardIsListed /\ KillsStayCounted /\ SeenBefore /\ ForgottenForGood

\* Docker, the event stream and the loop, by what they do to the marks and counts.
LEMMA RosterStep ==
    ASSUME RosterInv, [RosterNext]_rosterVars
    PROVE  RosterInv'
<1> USE DEF RosterInv, RosterTypes, HeardIsListed, KillsStayCounted, SeenBefore, ForgottenForGood, Listed,
        daemon, feed, published, LoopGoes, LoopOnly
<1>1. ASSUME NEW c \in Ids, Churn(c) PROVE RosterInv'
  <2>1. PICK act \in {"start", "die", "destroy", "oom"} :
          /\ \/ act = "start" /\ state[c] \in {"none", "exited"} /\ state' = [state EXCEPT ![c] = "running"]
             \/ act = "die" /\ state[c] = "running" /\ state' = [state EXCEPT ![c] = "exited"]
             \/ act = "destroy" /\ state[c] = "exited" /\ state' = [state EXCEPT ![c] = "gone"]
             \/ act = "oom" /\ state[c] = "running" /\ UNCHANGED state
          /\ events' = IF stream = "up" THEN Append(events, [act |-> act, id |-> c]) ELSE events
    BY <1>1 DEF Churn
  <2>2. events' \in Seq(RosterEvents)
    <3>1. [act |-> act, id |-> c] \in RosterEvents
      BY DEF RosterEvents
    <3> QED
      BY <2>1, <3>1
  <2>3. /\ state' \in [Ids -> {"none", "running", "exited", "gone"}]
        /\ \A d \in Ids : /\ state[d] # "none" => state'[d] # "none"
                          /\ state[d] = "gone" => state'[d] = "gone"
    BY <2>1
  <2> QED
    BY <1>1, <2>2, <2>3 DEF Churn
<1>2. CASE Connect
  BY <1>2 DEF Connect
<1>3. CASE Hear
  <2> DEFINE e == Head(events)
  <2>1. e \in RosterEvents /\ events' \in Seq(RosterEvents)
    BY <1>3 DEF Hear
  <2> HIDE DEF e
  <2>2. CASE e.act = "oom"
    <3>1. e.id \in Ids
      BY <2>1 DEF RosterEvents
    <3>2. /\ ooms' = [ooms EXCEPT ![e.id] = @ + 1]
          /\ kills' = IF e.id \in DOMAIN entries THEN [kills EXCEPT ![e.id] = @ + 1] ELSE kills
          /\ UNCHANGED <<dirty, unlisted, state, rloop, rows, entries>>
      BY <1>3, <2>2 DEF Hear, e
    <3> QED
      BY <2>1, <3>1, <3>2
  <2>3. CASE e.act # "oom"
    <3>1. /\ dirty' = TRUE /\ unlisted' = TRUE
          /\ UNCHANGED <<ooms, kills, state, rloop, rows, entries>>
      BY <1>3, <2>3 DEF Hear, e
    <3> QED
      BY <2>1, <3>1
  <2> QED
    BY <2>2, <2>3
<1>4. CASE StreamEndsEarly \/ MarkAfterEnd
  <2>1. events' = <<>> \/ events' = events
    BY <1>4 DEF StreamEndsEarly, MarkAfterEnd
  <2>2. events' \in Seq(RosterEvents)
    <3>1. <<>> \in Seq(RosterEvents) /\ events \in Seq(RosterEvents)
      OBVIOUS
    <3> QED
      BY <2>1, <3>1, Zenon
  <2> QED
    BY <1>4, <2>2 DEF StreamEndsEarly, MarkAfterEnd
<1>5. CASE TakeMark \/ Debounced \/ Backstop
  BY <1>5 DEF TakeMark, Debounced, Backstop, Ticks
<1>6. CASE List
  BY <1>6 DEF List, Exists
<1>7. CASE Inspect
  BY <1>7 DEF Inspect, Exists
<1>8. CASE RebuildFails
  BY <1>8 DEF RebuildFails, MarkStays
<1>9. CASE Publish
  <2>1. rloop = "publish" /\ rloop' = "idle" /\ entries' = rows
        /\ UNCHANGED <<state, events, kills, dirty, unlisted>>
    BY <1>9 DEF Publish, MarkStays
  <2>2. ooms' = [c \in Ids |-> IF c \in DOMAIN rows THEN ooms[c] ELSE 0]
    BY <1>9 DEF Publish, OomsKept
  <2>3. RosterTypes' /\ HeardIsListed' /\ SeenBefore'
    BY <1>9, <2>1, <2>2 DEF Publish
  <2>4. ASSUME NEW c \in Ids, kills[c] > 0, c \notin DOMAIN rows
        PROVE  state[c] = "gone"
    BY <2>1, <2>4
  <2>5. ASSUME NEW c \in DOMAIN rows PROVE ooms'[c] >= kills[c]
    <3>1. c \in Ids /\ ooms'[c] = ooms[c]
      BY <2>2, <2>5
    <3>2. CASE c \in DOMAIN entries
      BY <3>1, <3>2
    <3>3. CASE c \notin DOMAIN entries
      BY <2>1, <3>1, <3>3
    <3> QED
      BY <3>2, <3>3
  <2> QED
    BY <2>1, <2>3, <2>4, <2>5
<1>10. CASE UNCHANGED rosterVars
  BY <1>10 DEF rosterVars
<1> QED
  BY <1>1, <1>2, <1>3, <1>4, <1>5, <1>6, <1>7, <1>8, <1>9, <1>10 DEF RosterNext, Rebuild

LEMMA RosterStarts == RosterInit => RosterInv
  BY DEF RosterInit, RosterInv, RosterTypes, HeardIsListed, KillsStayCounted, SeenBefore, ForgottenForGood, Listed

\* Every event that is heard is followed by a list, whatever rebuilds are under way,
\* and a kill stays counted for as long as the roster has its container (watchEvents,
\* rebuildLoop, roster.publish): for any number of containers and lost streams.
THEOREM EventsAreNotLost == RosterInit /\ [][RosterNext]_rosterVars => []NothingHeardIsLost
<1>1. RosterInv => NothingHeardIsLost
  BY DEF RosterInv, NothingHeardIsLost
<1> QED
  BY <1>1, RosterStarts, RosterStep, PTL
-----------------------------------------------------------------------------
(* The cap of image builds.                                                *)

Building == {b \in Builds : buildAt[b] = "counted"}

BuildTypes ==
    /\ buildAt \in [Builds -> {"idle", "uncapped", "counted", "waits", "over"}]
    /\ releasing \in Builds \cup {NoBuild} /\ stop \in BOOLEAN
    /\ watcher \in {"none", "select", "cap"}
    /\ running \subseteq Steps /\ seen \subseteq Steps /\ now \subseteq Steps
    /\ ownerOf \in [Steps -> Builds \cup {"unborn", "spared", "stranger"}]

\* The count is the set of builds that are counted, and the watcher is there, and not
\* told to stop, as long as there is one; the lock's holder waits for its end.
WatchInv ==
    /\ IsFiniteSet(Building) /\ builds = Cardinality(Building)
    /\ builds # 0 => watcher # "none" /\ ~stop /\ releasing = NoBuild
    /\ builds = 0 /\ releasing = NoBuild => watcher = "none"
    /\ \A b \in Builds : buildAt[b] = "waits" <=> releasing = b

\* A directory that was seen is a step's that has begun.
SeenInv ==
    /\ \A s \in running \cup seen \cup now \cup capped : s \in Steps /\ ownerOf[s] # "unborn"
    /\ \A s \in Steps, b \in Builds : ownerOf[s] = b => buildAt[b] # "idle"

\* What ran when the watcher began is known to it for as long as it runs, also in the
\* middle of a look; and what a counted build began is not, before it has the cap.
KnownInv ==
    /\ \A s \in running : ownerOf[s] = "spared" /\ watcher # "none" =>
          s \in seen /\ (watcher = "cap" => s \in now)
    /\ \A s \in running \ capped : ownerOf[s] \in Building => s \notin seen

\* The cap is on no step that was there before every build.
SparedIsUncapped == \A s \in capped : ownerOf[s] # "spared"

CapInv == BuildTypes /\ WatchInv /\ SeenInv /\ KnownInv /\ SparedIsUncapped

\* Each step of a counted build is under the cap when the watcher has looked at it:
\* until then it is not among those it has seen, and the watcher is there to look.
NoStepIsMissed ==
    \A s \in running : ownerOf[s] \in Building =>
        s \in capped \/ (s \notin seen /\ watcher # "none" /\ ~stop)

\* A step of a build or of the watcher.
LEMMA BuildsStep ==
    ASSUME BuildTypes, WatchInv, SeenInv, [BuildMemoryNext]_buildMemoryVars
    PROVE  BuildTypes' /\ WatchInv' /\ SeenInv'
<1> USE BuildMemoryAssumption DEF BuildTypes, counting, watching, steps, BuildGoes
<1>1. ASSUME NEW b \in Builds, CapBuildSteps(b) PROVE BuildTypes' /\ WatchInv' /\ SeenInv'
  <2>1. CASE builds = 0 /\ BuildGoes(b, "uncapped") /\ UNCHANGED <<builds, stop, watching>>
    <3>1. Building' = Building
      BY <1>1, <2>1 DEF CapBuildSteps, Building
    <3> QED
      BY <1>1, <2>1, <3>1 DEF CapBuildSteps, WatchInv, SeenInv
  <2>2. CASE BuildGoes(b, "counted") /\ builds' = builds + 1
    <3>1. b \notin Building /\ Building' = Building \cup {b}
      BY <1>1, <2>2 DEF CapBuildSteps, Building
    <3>2. IsFiniteSet(Building') /\ builds' = Cardinality(Building') /\ builds \in Nat
      BY <2>2, <3>1, FS_AddElement, FS_CardinalityType DEF WatchInv
    <3>3. watcher' # "none" /\ ~stop' /\ releasing' = NoBuild
      BY <1>1, <2>2, <3>2 DEF CapBuildSteps, WatchInv
    <3>4. BuildTypes'
      BY <1>1, <2>2, <3>2 DEF CapBuildSteps
    <3>5. WatchInv'
      BY <1>1, <2>2, <3>2, <3>3 DEF CapBuildSteps, WatchInv
    <3>6. SeenInv'
      BY <1>1, <2>2, <3>2 DEF CapBuildSteps, SeenInv
    <3> QED
      BY <3>4, <3>5, <3>6
  <2> QED
    BY <1>1, <2>1, <2>2 DEF CapBuildSteps
<1>2. ASSUME NEW b \in Builds, ReleaseCap(b) PROVE BuildTypes' /\ WatchInv' /\ SeenInv'
  <2>1. b \in Building /\ Building' = Building \ {b}
    BY <1>2 DEF ReleaseCap, Building
  <2>2. /\ IsFiniteSet(Building') /\ builds' = Cardinality(Building')
        /\ builds \in Nat \ {0} /\ builds' = builds - 1
    BY <1>2, <2>1, FS_RemoveElement, FS_CardinalityType, FS_EmptySet DEF WatchInv, ReleaseCap
  <2>3. BuildTypes' /\ SeenInv'
    BY <1>2 DEF ReleaseCap, LastOut, SeenInv
  <2>4. WatchInv'
    BY <1>2, <2>2 DEF ReleaseCap, LastOut, WatchInv
  <2> QED
    BY <2>3, <2>4
<1>3. CASE CapReleased
  <2>1. releasing \in Builds /\ buildAt[releasing] = "waits" /\ builds = 0
    BY <1>3 DEF CapReleased, WatchInv
  <2>2. Building' = Building
    BY <1>3, <2>1 DEF CapReleased, Building
  <2> QED
    BY <1>3, <2>1, <2>2 DEF CapReleased, WatchInv, SeenInv
<1>4. ASSUME NEW b \in Builds, EndUncapped(b) PROVE BuildTypes' /\ WatchInv' /\ SeenInv'
  <2>1. Building' = Building
    BY <1>4 DEF EndUncapped, Building
  <2> QED
    BY <1>4, <2>1 DEF EndUncapped, WatchInv, SeenInv
<1>5. ASSUME UNCHANGED <<buildAt, builds, releasing, stop>>, watcher' # "none" <=> watcher # "none"
      PROVE  WatchInv'
  BY <1>5 DEF WatchInv, Building
<1>6. CASE Watch
  <2>1. WatchInv'
    BY <1>5, <1>6 DEF Watch, LookAtSteps, CapSteps
  <2> QED
    BY <1>6, <2>1 DEF Watch, LookAtSteps, CapSteps, SeenInv
<1>7. CASE StopWatching
  <2>1. Building' = Building
    BY <1>7 DEF StopWatching, Building
  <2> QED
    BY <1>7, <2>1 DEF StopWatching, WatchInv, SeenInv
<1>8. ASSUME NEW s \in Steps, StepBegins(s) PROVE BuildTypes' /\ WatchInv' /\ SeenInv'
  <2>1. WatchInv'
    BY <1>5, <1>8 DEF StepBegins
  <2> QED
    BY <1>8, <2>1 DEF StepBegins, SeenInv
<1>9. ASSUME NEW s \in Steps, StepIsOver(s) PROVE BuildTypes' /\ WatchInv' /\ SeenInv'
  <2>1. WatchInv'
    BY <1>5, <1>9 DEF StepIsOver
  <2> QED
    BY <1>9, <2>1 DEF StepIsOver, SeenInv
<1>10. CASE UNCHANGED buildMemoryVars
  <2>1. WatchInv'
    BY <1>5, <1>10 DEF buildMemoryVars
  <2> QED
    BY <1>10, <2>1 DEF buildMemoryVars, SeenInv
<1> QED
  BY <1>1, <1>2, <1>3, <1>4, <1>6, <1>7, <1>8, <1>9, <1>10 DEF BuildMemoryNext

\* What the watcher has seen stays what was there before the builds, or is capped:
\* while a build is counted, its own steps get neither past it nor into its first look.
LEMMA WatcherStep ==
    ASSUME CapInv, BuildTypes', WatchInv', SeenInv', [BuildMemoryNext]_buildMemoryVars
    PROVE  KnownInv' /\ SparedIsUncapped'
<1> USE BuildMemoryAssumption DEF CapInv, BuildTypes, SeenInv, KnownInv, SparedIsUncapped,
        counting, watching, steps
<1>1. ASSUME NEW b \in Builds, CapBuildSteps(b) PROVE KnownInv' /\ SparedIsUncapped'
  <2>1. CASE builds = 0 /\ BuildGoes(b, "uncapped") /\ UNCHANGED <<builds, stop, watching>>
    <3>1. Building' = Building
      BY <1>1, <2>1 DEF CapBuildSteps, Building, BuildGoes
    <3> QED
      BY <1>1, <2>1, <3>1 DEF CapBuildSteps
  <2>2. CASE BuildGoes(b, "counted") /\ builds' = builds + 1
    <3>1. /\ Building' = Building \cup {b}
          /\ \A s \in Steps : ownerOf[s] # b
      BY <1>1, <2>2 DEF CapBuildSteps, Building, BuildGoes
    <3>2. CASE builds = 0
      <4>1. Building = {}
        BY <3>2, FS_EmptySet DEF WatchInv
      <4>2. watcher' = "select" /\ seen' = running /\ UNCHANGED <<running, ownerOf, capped>>
        BY <1>1, <2>2, <3>2 DEF CapBuildSteps
      <4> QED
        BY <3>1, <4>1, <4>2
    <3>3. CASE builds # 0
      <4>1. UNCHANGED <<watcher, seen, now, capped, running, ownerOf>>
        BY <1>1, <2>2, <3>3 DEF CapBuildSteps
      <4> QED
        BY <3>1, <4>1
    <3> QED
      BY <3>2, <3>3
  <2> QED
    BY <1>1, <2>1, <2>2 DEF CapBuildSteps
<1>2. ASSUME NEW b \in Builds, ReleaseCap(b) \/ EndUncapped(b) PROVE KnownInv' /\ SparedIsUncapped'
  <2>1. Building' \subseteq Building
    BY <1>2 DEF ReleaseCap, EndUncapped, Building, BuildGoes
  <2> QED
    BY <1>2, <2>1 DEF ReleaseCap, EndUncapped
<1>3. CASE CapReleased
  <2>1. Building' \subseteq Building
    BY <1>3 DEF CapReleased, Building, BuildGoes, WatchInv
  <2> QED
    BY <1>3, <2>1 DEF CapReleased
<1>4. CASE LookAtSteps
  <2>1. Building' = Building
    BY <1>4 DEF LookAtSteps, Building
  <2> QED
    BY <1>4, <2>1 DEF LookAtSteps
<1>5. CASE CapSteps
  <2>1. Building' = Building
    BY <1>5 DEF CapSteps, Building
  <2> QED
    BY <1>5, <2>1 DEF CapSteps
<1>6. CASE StopWatching
  <2>1. Building' = Building
    BY <1>6 DEF StopWatching, Building
  <2> QED
    BY <1>6, <2>1 DEF StopWatching
<1>7. ASSUME NEW s \in Steps, StepBegins(s) PROVE KnownInv' /\ SparedIsUncapped'
  <2>1. Building' = Building
    BY <1>7 DEF StepBegins, Building
  <2> QED
    BY <1>7, <2>1 DEF StepBegins
<1>8. ASSUME NEW s \in Steps, StepIsOver(s) PROVE KnownInv' /\ SparedIsUncapped'
  <2>1. Building' = Building
    BY <1>8 DEF StepIsOver, Building
  <2> QED
    BY <1>8, <2>1 DEF StepIsOver
<1>9. CASE UNCHANGED buildMemoryVars
  <2>1. Building' = Building
    BY <1>9 DEF buildMemoryVars, Building
  <2> QED
    BY <1>9, <2>1 DEF buildMemoryVars
<1> QED
  BY <1>1, <1>2, <1>3, <1>4, <1>5, <1>6, <1>7, <1>8, <1>9 DEF BuildMemoryNext, Watch

LEMMA BuildsStart == BuildMemoryInit => CapInv
<1> SUFFICES ASSUME BuildMemoryInit PROVE CapInv
  OBVIOUS
<1>1. Building = {}
  BY DEF BuildMemoryInit, Building
<1>2. WatchInv
  BY <1>1, FS_EmptySet, BuildMemoryAssumption DEF BuildMemoryInit, WatchInv
<1>3. stop \in BOOLEAN
  BY Zenon DEF BuildMemoryInit
<1>4. BuildTypes /\ SeenInv /\ KnownInv /\ SparedIsUncapped
  BY <1>1, <1>3, BuildMemoryAssumption
  DEF BuildMemoryInit, BuildTypes, SeenInv, KnownInv, SparedIsUncapped
<1> QED
  BY <1>2, <1>4 DEF CapInv

\* However many builds begin and end at once, each step of a counted one is capped, or
\* the watcher is there and will take it for a new one; and no step that was there before
\* them is ever capped (capBuildSteps, watchBuildSteps, its release).
THEOREM BuildStepsAreWatched ==
    BuildMemoryInit /\ [][BuildMemoryNext]_buildMemoryVars => [](NoStepIsMissed /\ SparedIsUncapped)
<1>1. CapInv /\ [BuildMemoryNext]_buildMemoryVars => CapInv'
  BY BuildsStep, WatcherStep DEF CapInv
<1>2. CapInv => NoStepIsMissed /\ SparedIsUncapped
  <2> SUFFICES ASSUME CapInv, NEW s \in running, ownerOf[s] \in Building, s \notin capped
               PROVE  s \notin seen /\ watcher # "none" /\ ~stop
    BY DEF CapInv, NoStepIsMissed
  <2>1. builds # 0
    BY FS_EmptySet DEF CapInv, WatchInv
  <2> QED
    BY <2>1 DEF CapInv, WatchInv, KnownInv
<1> QED
  BY <1>1, <1>2, BuildsStart, PTL

-----------------------------------------------------------------------------
(* All of them, as the run has them.                                       *)

\* A step of the run is one of one component, and changes nothing of the others.
LEMMA LiveStep ==
    ASSUME [LiveNext]_lives
    PROVE  /\ [Next]_vars /\ [CronNext]_cronVars
           /\ [RosterNext]_rosterVars /\ [BuildMemoryNext]_buildMemoryVars
<1>1. CASE UNCHANGED lives
  BY <1>1 DEF lives
<1>2. CASE Only("lock") /\ Next
  BY <1>2 DEF Only
<1>3. CASE Only("cron") /\ CronNext
  BY <1>3 DEF Only
<1>4. CASE Only("roster") /\ RosterNext
  BY <1>4 DEF Only
<1>5. CASE Only("builds") /\ BuildMemoryNext
  BY <1>5 DEF Only
<1> QED
  BY <1>1, <1>2, <1>3, <1>4, <1>5 DEF LiveNext

\* What runs side by side does so by its own specification; of the cron jobs that is
\* all there is to say here, their theorems are in CommandsProofs.
LEMMA LiveSpecParts ==
    LiveSpec => /\ Spec /\ CronSpec
                /\ RosterInit /\ [][RosterNext]_rosterVars
                /\ BuildMemoryInit /\ [][BuildMemoryNext]_buildMemoryVars
<1>1. LiveInit => Init /\ CronInit /\ RosterInit /\ BuildMemoryInit
  BY DEF LiveInit
<1> QED
  BY <1>1, LiveStep, PTL DEF LiveSpec, Spec, CronSpec

(* The lock table, the roster and the memory cap of the run, all at once:  *)
(* one mutex per stack behind a table without leaks, no event lost, no     *)
(* step of a build missed and none capped that was there before the        *)
(* builds.                                                                 *)
THEOREM LiveStaysSafe ==
    LiveSpec => /\ ImplementsStackMutex
                /\ [](/\ OneOperationPerStack /\ EntryLivesWhileUsed
                      /\ NothingHeardIsLost /\ NoStepIsMissed /\ SparedIsUncapped)
  BY LiveSpecParts, Refinement, MutualExclusion, NoLeakedEntry, EventsAreNotLost,
     BuildStepsAreWatched, PTL

=============================================================================
