------------------------------ MODULE ShellPlan ------------------------------
(***************************************************************************)
(* How the console finds a shell in a container (internal/server/exec.go): *)
(* a probe of each known shell in turn, and a cache of what was found, by  *)
(* the container's name.                                                   *)
(***************************************************************************)
EXTENDS Naturals, FiniteSets

CONSTANTS Boxes, BoxImages,  \* containers by name, images
          ExecCalls,         \* calls of Exec and ShellLabel
          ShellTTL, ShellCacheMax,
          NoEntry,           \* of a name that is not in the cache
          Moments            \* bound of the clock

ASSUME ShellPlanAssumption == ShellCacheMax \in Nat \ {0} /\ {ShellTTL, Moments} \subseteq Nat

\* sh, bash, ash and busybox, in the order they are tried; no shell at all.
Shells == 1..4
Raw == 0

VARIABLES
    shells,        \* image -> what its shells are: "works", "broken", "missing"
    up, imageOf,   \* each container: whether docker can exec in it, what it was made from
    moment,        \* the clock
    cache,         \* name -> [plan, image, at] with a history of whether the plan fitted
    ecall          \* each call

boxVars == <<shells, up, imageOf, moment>>
shellVars == <<boxVars, cache, ecall>>

HasShell(b) == \E s \in Shells : shells[imageOf[b]][s] = "works"
Cached == {b \in Boxes : cache[b] # NoEntry}
Fresh(b) == moment - cache[b].at < ShellTTL

\* hadShell and remade are history: whether the last probe was of a container that
\* docker could exec in and that had a shell, and whether it was made anew meanwhile.
ExecCall(at, b, i) ==
    [at |-> at, name |-> b, image |-> i, next |-> 1, plan |-> Raw,
     hadShell |-> FALSE, remade |-> FALSE]

ShellPlanTypeOK ==
    /\ shells \in [BoxImages -> [Shells -> {"works", "broken", "missing"}]]
    /\ up \in [Boxes -> BOOLEAN] /\ imageOf \in [Boxes -> BoxImages] /\ moment \in 0..Moments
    /\ cache \in [Boxes -> {NoEntry} \cup [plan : Shells \cup {Raw}, image : BoxImages,
                                           at : 0..Moments, fits : BOOLEAN]]
    /\ ecall \in [ExecCalls -> [at : {"idle", "probe", "found", "answered"}, name : Boxes,
                               image : BoxImages, next : Shells, plan : Shells \cup {Raw},
                               hadShell : BOOLEAN, remade : BOOLEAN]]

ShellPlanInit ==
    /\ shells \in [BoxImages -> [Shells -> {"works", "broken", "missing"}]]
    /\ up \in [Boxes -> BOOLEAN] /\ imageOf \in [Boxes -> BoxImages]
    /\ moment = 0 /\ cache = [b \in Boxes |-> NoEntry]
    /\ \E b \in Boxes, i \in BoxImages : ecall = [c \in ExecCalls |-> ExecCall("idle", b, i)]
-----------------------------------------------------------------------------
(* The containers and the clock.                                           *)

Pauses(b) ==
    /\ up' = [up EXCEPT ![b] = ~@]
    /\ UNCHANGED <<shells, imageOf, moment, cache, ecall>>

Remade(b) ==
    /\ \E i \in BoxImages : imageOf' = [imageOf EXCEPT ![b] = i]
    /\ ecall' = [c \in ExecCalls |-> IF ecall[c].name = b /\ ecall[c].at # "idle"
                                     THEN [ecall[c] EXCEPT !.remade = TRUE] ELSE ecall[c]]
    /\ UNCHANGED <<shells, up, moment, cache>>

TimePasses ==
    /\ moment < Moments /\ moment' = moment + 1
    /\ UNCHANGED <<shells, up, imageOf, cache, ecall>>
-----------------------------------------------------------------------------
(* A call.                                                                 *)

\* resolveShellPlan: the cache's plan if it is of this image and not too old.
AskShell(c) ==
    /\ ecall[c].at = "idle"
    /\ \E b \in Boxes, i \in BoxImages :
        ecall' = [ecall EXCEPT ![c] =
            IF b \in Cached /\ cache[b].image = i /\ Fresh(b)
            THEN [ExecCall("answered", b, i) EXCEPT !.plan = cache[b].plan]
            ELSE ExecCall("probe", b, i)]
    /\ UNCHANGED <<boxVars, cache>>

\* Bug: what docker itself says counts as a shell that is not there.
NoErrorOfDocker(b, s) == FALSE
\* isDockerLevelStderr, which what docker says of a missing shell matches too.
ErrorOfDocker(b, s) == ~up[b] \/ shells[imageOf[b]][s] = "missing"

\* One docker exec: it hangs or cannot be run, it ends well, docker refuses it, or
\* the shell fails.  The first and the third make the answer raw, uncached.
Probe(c) ==
    LET b == ecall[c].name  s == ecall[c].next
        Works == up[b] /\ shells[imageOf[b]][s] = "works"
        Goes(at, plan) ==
            ecall' = [ecall EXCEPT ![c].at = at, ![c].plan = plan,
                                   ![c].hadShell = up[b] /\ HasShell(b)]
    IN  /\ ecall[c].at = "probe"
        /\ \/ Goes("answered", Raw)
           \/ Works /\ Goes("found", s)
           \/ ~Works /\ ErrorOfDocker(b, s) /\ Goes("answered", Raw)
           \/ ~Works /\ ~ErrorOfDocker(b, s) /\ s < 4 /\ ecall' = [ecall EXCEPT ![c].next = s + 1]
           \/ ~Works /\ ~ErrorOfDocker(b, s) /\ s = 4 /\ Goes("found", Raw)
        /\ UNCHANGED <<boxVars, cache>>

\* evictShellCacheLocked: what is too old and, if that is not enough, the oldest.
Evictable ==
    LET old == {b \in Cached : ~Fresh(b)}
        Oldest == {b \in Cached \ old : \A d \in Cached \ old : cache[b].at <= cache[d].at}
    IN  IF Cardinality(Cached \ old) < ShellCacheMax THEN {old} ELSE {old \cup {b} : b \in Oldest}

RememberPlan(c) ==
    LET b == ecall[c].name
        Full == b \notin Cached /\ Cardinality(Cached) >= ShellCacheMax
        found == [plan |-> ecall[c].plan, image |-> ecall[c].image, at |-> moment,
                  fits |-> ecall[c].remade \/ (ecall[c].plan = Raw <=> ~ecall[c].hadShell)]
    IN  /\ ecall[c].at = "found"
        /\ \E gone \in IF Full THEN Evictable ELSE {{}} :
            cache' = [d \in Boxes |-> IF d = b THEN found ELSE IF d \in gone THEN NoEntry ELSE cache[d]]
        /\ ecall' = [ecall EXCEPT ![c].at = "answered"]
        /\ UNCHANGED boxVars

ShellPlanNext ==
    \/ \E b \in Boxes : Pauses(b) \/ Remade(b)
    \/ TimePasses
    \/ \E c \in ExecCalls : AskShell(c) \/ Probe(c) \/ RememberPlan(c)

ShellPlanSpec == ShellPlanInit /\ [][ShellPlanNext]_shellVars
-----------------------------------------------------------------------------
(* What is remembered of a container that stayed the same fits it: that it *)
(* was paused, or docker away, for one probe is not remembered as having   *)
(* no shell; and the names the control plane asks for do not fill memory.  *)
PlanFits ==
    /\ \A b \in Cached : cache[b].fits
    /\ Cardinality(Cached) <= ShellCacheMax

==============================================================================
