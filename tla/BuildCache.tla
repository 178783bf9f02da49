------------------------------ MODULE BuildCache ------------------------------
(***************************************************************************)
(* The build cache's part of a cleanup (internal/server/                   *)
(* cleanup_build_cache.go, build_cache_cap.go): what is older than the age *)
(* that was asked for goes, then the oldest of what is left until the      *)
(* cache is under its ceiling, by docker's filter for whole hours.         *)
(*                                                                         *)
(* Ages are counted in half hours, sizes in units.                         *)
(***************************************************************************)
EXTENDS Naturals, FiniteSetsExt

CONSTANTS CacheRecords, CacheSizes, CacheAges,  \* records, what they may be like
          Ceilings, MinAges    \* of the host's disk; hours a cleanup asks for, 0 for all

ASSUME BuildCacheAssumption ==
    /\ CacheSizes \cup Ceilings \subseteq Nat \ {0}
    /\ CacheAges \cup MinAges \subseteq Nat /\ IsFiniteSet(CacheRecords)

VARIABLES
    size, lastUse,     \* of each record, the latter as an age
    dated,             \* records whose time the agent can read
    busy,              \* records in use by a build
    kept,              \* records that are still there
    cachePhase,        \* where the cleanup is
    ceiling, minAge,
    hours, over,       \* what ceilingEvictionHours returned
    evictedAt          \* history: the age of each record that the ceiling cost

cacheVars == <<size, lastUse, dated, busy, kept, cachePhase, ceiling, minAge, hours, over, evictedAt>>

OneHour == 2
Total(records) == MapThenSumSet(LAMBDA r : size[r], records)

BuildCacheTypeOK ==
    /\ {dated, busy, kept} \subseteq SUBSET CacheRecords
    /\ cachePhase \in {"prune", "read", "evict", "kept", "done"}
    /\ hours \in Nat /\ over \in BOOLEAN /\ evictedAt \in [CacheRecords -> Nat]

BuildCacheInit ==
    /\ size \in [CacheRecords -> CacheSizes] /\ lastUse \in [CacheRecords -> CacheAges]
    /\ dated \in SUBSET CacheRecords /\ busy \in SUBSET CacheRecords /\ kept = CacheRecords
    /\ cachePhase = "prune" /\ ceiling \in Ceilings /\ minAge \in MinAges
    /\ hours = 0 /\ over = FALSE /\ evictedAt = [r \in CacheRecords |-> OneHour]
-----------------------------------------------------------------------------
\* docker: builder prune --filter until, which leaves what is in use.
OlderThan(h) == {r \in kept \ busy : lastUse[r] >= OneHour * h}

\* A build uses a record, which makes it new.
BuildUses(r) ==
    /\ r \in kept \ busy
    /\ busy' = busy \cup {r} /\ lastUse' = [lastUse EXCEPT ![r] = 0]
    /\ UNCHANGED <<size, dated, kept, cachePhase, ceiling, minAge, hours, over, evictedAt>>

\* pruneBuildCache: without an age all goes and there is no ceiling to see to; with
\* one docker removes what it likes of what is older, as --all is not given.
PruneCache ==
    /\ cachePhase = "prune"
    /\ \/ cachePhase' = "done" /\ UNCHANGED kept
       \/ minAge = 0 /\ cachePhase' = "done" /\ kept' = kept \ OlderThan(0)
       \/ /\ minAge > 0 /\ cachePhase' = "read"
          /\ \E gone \in SUBSET OlderThan(minAge) : kept' = kept \ gone
    /\ UNCHANGED <<size, lastUse, dated, busy, ceiling, minAge, hours, over, evictedAt>>

\* Bug: the hour is rounded up, and its last record stays.
HoursUp(age) == (age + 1) \div OneHour
\* max(int(a.age.Hours()), buildCacheCeilingMinHours)
HoursOf(age) == IF age \div OneHour > 1 THEN age \div OneHour ELSE 1

\* The loop over the dated records, the oldest first, sums up to the first at which
\* enough would be free; records in use count.
Frees(age) == Total({r \in kept \cap dated : lastUse[r] >= age}) >= Total(kept) - ceiling
EvictionHours ==
    LET enough == {lastUse[r] : r \in {d \in kept \cap dated : Frees(lastUse[d])}}
    IN  IF enough = {} THEN 1 ELSE HoursOf(Max(enough))

\* ceilingEvictionHours, of a listing; without one the ceiling is left alone.
ReadCache ==
    /\ cachePhase = "read"
    /\ \/ cachePhase' = "done" /\ UNCHANGED <<hours, over>>
       \/ /\ over' = (Total(kept) > ceiling)
          /\ hours' = IF over' THEN EvictionHours ELSE 0
          /\ cachePhase' = IF over' THEN "evict" ELSE "kept"
    /\ UNCHANGED <<size, lastUse, dated, busy, kept, ceiling, minAge, evictedAt>>

EvictOldest ==
    /\ cachePhase = "evict"
    /\ \/ cachePhase' = "done" /\ UNCHANGED <<kept, evictedAt>>
       \/ /\ cachePhase' = "kept" /\ kept' = kept \ OlderThan(hours)
          /\ evictedAt' = [r \in CacheRecords |-> IF r \in OlderThan(hours) THEN lastUse[r] ELSE evictedAt[r]]
    /\ UNCHANGED <<size, lastUse, dated, busy, ceiling, minAge, hours, over>>

BuildCacheNext == (\E r \in CacheRecords : BuildUses(r)) \/ PruneCache \/ ReadCache \/ EvictOldest

BuildCacheSpec == BuildCacheInit /\ [][BuildCacheNext]_cacheVars
-----------------------------------------------------------------------------
(* A cleanup that saw to the ceiling leaves under it what no build is      *)
(* using, or else nothing that an hour's rest would let it take, although  *)
(* it can only name whole hours, cannot date every record and counts those *)
(* in use; and no record goes for the ceiling within an hour of its use    *)
(* ("Never evict cache a build running right now may still be reaching     *)
(* for").                                                                  *)
CeilingIsKept ==
    /\ cachePhase = "kept" =>
          \/ Total(kept \ busy) <= ceiling
          \/ \A r \in kept \ busy : lastUse[r] < OneHour
    /\ \A r \in CacheRecords : evictedAt[r] >= OneHour

===============================================================================
