------------------------------- MODULE Sampling -------------------------------
(***************************************************************************)
(* The numbers of one metrics stream: a container's CPU share from its     *)
(* cgroup's counter (internal/server/cgroupstats.go), the host's network   *)
(* rate (internal/hostmetrics/sampler.go) and the choice between cgroups   *)
(* and docker stats (internal/server/metricsstream.go).  A read of a file  *)
(* may fail at any tick.                                                   *)
(***************************************************************************)
EXTENDS Naturals, FiniteSets

CONSTANTS Metered,        \* containers
          UnhealthyTicks, \* cgroupUnhealthyTicks
          MinWindow,      \* of the host's sampler
          Ticks,          \* bound of the clock
          MaxUse          \* bound of every counter

ASSUME SamplingAssumption == {UnhealthyTicks, MinWindow, Ticks, MaxUse} \subseteq Nat \ {0}

VARIABLES
    time,                  \* the clock
    listed,                \* the roster: each container is "running", "stopped" or "gone"
    counter, used,         \* usage_usec of each container; history: all it ever used
    traffic,               \* the host's counter
    prev, prevNet,         \* the baselines; prevNet's time is prevAt
    fails, unhealthy,      \* ticks at which every read failed
    demoted,               \* the stream gave up cgroups
    cpu, net,              \* rates of the last frame
    blank                  \* history: frames in a row that had no number of a running container

meters == <<time, listed, counter, used, traffic>>
samplingVars == <<meters, prev, prevNet, fails, unhealthy, demoted, cpu, net, blank>>

\* A baseline: what was read and when; burnt and really are history, all that was
\* used by then and when that was.
Baseline(ok, value, burnt) == [ok |-> ok, value |-> value, at |-> time, burnt |-> burnt, really |-> time]
NoBaseline == [ok |-> FALSE, value |-> 0, at |-> 0, burnt |-> 0, really |-> 0]

\* A rate: a rise and the window it is divided by, and what is true.
NoRate == [rise |-> 0, window |-> 1, burnt |-> 0, really |-> 1]
\* cpuPercentFromUsage, perSecond: a counter that fell counts as no rise.
Rate(base, value, burnt) ==
    IF ~base.ok \/ time <= base.at THEN NoRate
    ELSE [rise |-> IF value > base.value THEN value - base.value ELSE 0, window |-> time - base.at,
          burnt |-> burnt - base.burnt, really |-> time - base.really]

SamplingTypeOK ==
    /\ time \in 0..Ticks /\ listed \in [Metered -> {"running", "stopped", "gone"}]
    /\ counter \in [Metered -> 0..MaxUse] /\ used \in [Metered -> 0..MaxUse] /\ traffic \in 0..MaxUse
    /\ fails \in 0..UnhealthyTicks /\ {unhealthy, demoted} \subseteq BOOLEAN

\* newContainerSampler and NewSampler read once; a read may fail.
SamplingInit ==
    /\ time = 0 /\ listed = [c \in Metered |-> "running"]
    /\ counter = [c \in Metered |-> 0] /\ used = counter /\ traffic = 0
    /\ prev \in [Metered -> {NoBaseline, [NoBaseline EXCEPT !.ok = TRUE]}]
    /\ prevNet \in {NoBaseline, [NoBaseline EXCEPT !.ok = TRUE]}
    /\ fails = 0 /\ unhealthy = FALSE /\ demoted = FALSE
    /\ cpu = [c \in Metered |-> NoRate] /\ net = NoRate /\ blank = 0
-----------------------------------------------------------------------------
(* The host: a container works, its cgroup is made anew, the roster        *)
(* changes, bytes pass, time does.                                         *)

Meters(change) == change /\ UNCHANGED <<prev, prevNet, fails, unhealthy, demoted, cpu, net, blank>>

Uses(c) ==
    Meters(/\ listed[c] = "running" /\ used[c] < MaxUse
           /\ used' = [used EXCEPT ![c] = @ + 1] /\ counter' = [counter EXCEPT ![c] = @ + 1]
           /\ UNCHANGED <<time, listed, traffic>>)

Changes(c) ==
    Meters(/\ \E s \in {"running", "stopped", "gone"} : listed' = [listed EXCEPT ![c] = s]
           /\ counter' = [counter EXCEPT ![c] = 0]
           /\ UNCHANGED <<time, used, traffic>>)

Carries == Meters(traffic < MaxUse /\ traffic' = traffic + 1 /\ UNCHANGED <<time, listed, counter, used>>)
TimeGoes == Meters(time < Ticks /\ time' = time + 1 /\ UNCHANGED <<listed, counter, used, traffic>>)
-----------------------------------------------------------------------------
(* A frame: the containers' part, then the host's.                         *)

\* Bug: what was read earlier is taken for what stands there now.
CarriesWithNow(c) == [prev[c] EXCEPT !.at = time]
\* carryCPUBaseline
CarriedBaseline(c) == prev[c]

\* cgroupSampler.Sample: of some containers nothing can be read, of others no usage.
SampleCgroups ==
    LET expected == {c \in Metered : listed[c] = "running"}
    IN  \E failed \in SUBSET expected : \E useless \in SUBSET (expected \ failed) :
        LET counted == expected \ (failed \cup useless)
            AllFailed == expected # {} /\ failed = expected
        IN  /\ prev' = [c \in Metered |->
                  IF listed[c] = "gone" THEN NoBaseline
                  ELSE IF c \in counted THEN Baseline(TRUE, counter[c], used[c]) ELSE CarriedBaseline(c)]
            /\ cpu' = [c \in Metered |->
                  IF c \in counted THEN Rate(prev[c], counter[c], used[c]) ELSE NoRate]
            /\ fails' = IF AllFailed THEN fails + 1 ELSE 0
            /\ unhealthy' = (unhealthy \/ (AllFailed /\ fails + 1 >= UnhealthyTicks))
            /\ blank' = IF AllFailed THEN blank + 1 ELSE 0

\* containerSampler.Sample; docker's own numbers come with their own windows.
SampleContainers ==
    LET none == \A c \in Metered : listed[c] = "gone"
        cgroups == ~demoted /\ ~unhealthy
    IN  /\ none \/ ~cgroups =>
              /\ demoted' = (demoted \/ ~none) /\ cpu' = [c \in Metered |-> NoRate]
              /\ blank' = 0 /\ UNCHANGED <<prev, fails, unhealthy>>
        /\ ~none /\ cgroups => SampleCgroups /\ UNCHANGED demoted

\* hostmetrics.Sampler.Sample: a window that is too short leaves all as it is, a
\* failed read the network's baseline and its time.
SampleHost ==
    \E netOK \in BOOLEAN :
        LET short == time - prevNet.at < MinWindow
        IN  /\ net' = IF netOK /\ ~short THEN Rate(prevNet, traffic, traffic) ELSE NoRate
            /\ prevNet' = IF netOK /\ ~short THEN Baseline(TRUE, traffic, traffic) ELSE prevNet

Frame == SampleContainers /\ SampleHost /\ UNCHANGED meters

SamplingNext == (\E c \in Metered : Uses(c) \/ Changes(c)) \/ Carries \/ TimeGoes \/ Frame

SamplingSpec == SamplingInit /\ [][SamplingNext]_samplingVars
-----------------------------------------------------------------------------
(* A rate that is sent is never above what was used on average since its   *)
(* baseline was read: failed reads, stopped containers, counters that      *)
(* begin anew and short windows cost a number, and invent none.  And a     *)
(* stream whose cgroups cannot be read shows no more than UnhealthyTicks   *)
(* frames without numbers before it asks docker.                           *)
MetricsAreHonest ==
    /\ \A r \in {cpu[c] : c \in Metered} \cup {net} :
          r.window > 0 /\ r.rise * r.really <= r.burnt * r.window
    /\ blank <= UnhealthyTicks

===============================================================================
