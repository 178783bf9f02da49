------------------------------- MODULE Networks -------------------------------
(***************************************************************************)
(* The tenants' docker networks and Traefik, which has to be on each of    *)
(* them: deploys and reroutes make sure of it before they bring their      *)
(* stack up (internal/server/hostops.go, ensureTenantNetwork), a new       *)
(* configuration of Traefik makes its container anew (bringUpTraefik), a   *)
(* preview that is destroyed takes its network along, and cleanup removes  *)
(* the ones of environments that are gone (cleanup_leftovers.go).  Nothing *)
(* locks the networks against each other.                                  *)
(*                                                                         *)
(* A network is fresh for the hour in which cleanup leaves it alone.       *)
(***************************************************************************)
EXTENDS Naturals, FiniteSets

CONSTANTS Nets,      \* networks the control plane may name
          NetApps,   \* stacks
          NetOf,     \* the network of each
          Previews,  \* the networks that go with their stack
          MaxCalls,  \* bound on the calls that run at once
          LookFails  \* may a docker command that only looks fail

ASSUME NetworksAssumption ==
    NetOf \in [NetApps -> Nets] /\ Previews \subseteq Nets
    /\ MaxCalls \in Nat /\ LookFails \in BOOLEAN

VARIABLES
    netAge,                 \* each network: none, fresh or old
    tenants,                \* those of environments there are, for the control plane
    proxy, proxyOn,         \* Traefik's container is there; the networks it is on
    stackUp,                \* stacks whose containers are there
    raise, toJoin,          \* each stack's deploy: where it is, what Traefik lacked
    apply, applyOn,         \* TraefikConfig: where it is, the networks still to connect
    retried, applied,       \* it applies what it had before; the last apply succeeded
    tear,                   \* each stack's DestroyStack: idle, down, unplug or remove
    sweep, sweepLive, sweepAt, \* cleanup: where it is, live_networks, the network at hand
    stranded                \* stacks of live environments that found no network

dockerNets == <<netAge, proxy, proxyOn>>
raises == <<raise, toJoin>>
applies == <<apply, applyOn, retried, applied>>
sweeps == <<sweep, sweepLive, sweepAt>>
netVars == <<dockerNets, tenants, stackUp, raises, applies, tear, sweeps, stranded>>

NetworksInit ==
    /\ tenants \in SUBSET Nets /\ netAge \in [Nets -> {"none", "old"}]
    /\ proxy = TRUE /\ proxyOn = {n \in Nets : netAge[n] # "none"} /\ stackUp = {}
    /\ raise = [a \in NetApps |-> "idle"] /\ toJoin = [a \in NetApps |-> {}]
    /\ apply = "idle" /\ applyOn = {} /\ retried = FALSE /\ applied = TRUE
    /\ tear = [a \in NetApps |-> "idle"]
    /\ sweep = "idle" /\ sweepLive = {} /\ sweepAt = (CHOOSE n \in Nets : TRUE) /\ stranded = {}
-----------------------------------------------------------------------------
Ongoing(at) == Cardinality({a \in NetApps : at[a] # "idle"})
MayCall ==
    Ongoing(raise) + Ongoing(tear) + (IF apply = "idle" THEN 0 ELSE 1)
        + (IF sweep = "idle" THEN 0 ELSE 1) < MaxCalls

There == {n \in Nets : netAge[n] # "none"}

\* docker network connect: it may fail.
Connect(n) == proxy /\ n \in There /\ proxyOn' = proxyOn \cup {n} /\ UNCHANGED <<netAge, proxy>>

Going(a, from, to) == raise[a] = from /\ raise' = [raise EXCEPT ![a] = to]
RaiseOnly == UNCHANGED <<tenants, stackUp, applies, tear, sweeps, stranded>>
GivesUpRaise(a, from) == Going(a, from, "idle") /\ UNCHANGED <<dockerNets, toJoin>> /\ RaiseOnly

\* A deploy or a reroute of a stack.  A reroute holds the stack's lock from here on,
\* which is left out: a DestroyStack may come between its steps, as between a deploy's.
BeginRaise(a) ==
    /\ MayCall /\ NetOf[a] \in tenants /\ Going(a, "idle", "ensure")
    /\ UNCHANGED <<dockerNets, toJoin>> /\ RaiseOnly

\* EnsureNetwork: inspect, and create what is not there.
InspectNetwork(a) ==
    /\ \/ NetOf[a] \in There /\ Going(a, "ensure", "look")
       \/ (LookFails \/ NetOf[a] \notin There) /\ Going(a, "ensure", "create")
    /\ UNCHANGED <<dockerNets, toJoin>> /\ RaiseOnly

CreateNetwork(a) ==
    \/ /\ Going(a, "create", "look")
       /\ netAge' = IF NetOf[a] \in There THEN netAge ELSE [netAge EXCEPT ![NetOf[a]] = "fresh"]
       /\ UNCHANGED <<proxy, proxyOn, toJoin>> /\ RaiseOnly
    \/ GivesUpRaise(a, "create")

\* State: without a Traefik there is nothing to connect.
LookForProxy(a) ==
    /\ \/ proxy /\ Going(a, "look", "connect")
       \/ (LookFails \/ ~proxy) /\ Going(a, "look", "list")
    /\ UNCHANGED <<dockerNets, toJoin>> /\ RaiseOnly

ConnectOwn(a) ==
    \/ Going(a, "connect", "list") /\ Connect(NetOf[a]) /\ UNCHANGED toJoin /\ RaiseOnly
    \/ GivesUpRaise(a, "connect")

\* A reroute goes on to bring the stack up; a deploy puts Traefik on what else it
\* has lost, and builds.
RerouteNow(a) == Going(a, "list", "up") /\ UNCHANGED <<dockerNets, toJoin>> /\ RaiseOnly

ListMissing(a) ==
    /\ Going(a, "list", "join")
    /\ \/ proxy /\ toJoin' = [toJoin EXCEPT ![a] = There \ proxyOn]
       \/ (LookFails \/ ~proxy) /\ toJoin' = [toJoin EXCEPT ![a] = {}]
    /\ UNCHANGED dockerNets /\ RaiseOnly

JoinMissing(a, n) ==
    /\ raise[a] = "join" /\ n \in toJoin[a] /\ toJoin' = [toJoin EXCEPT ![a] = @ \ {n}]
    /\ Connect(n) \/ UNCHANGED dockerNets
    /\ UNCHANGED raise /\ RaiseOnly

Built(a) ==
    /\ toJoin[a] = {} /\ Going(a, "join", "up")
    /\ UNCHANGED <<dockerNets, toJoin>> /\ RaiseOnly

\* compose up, under the stack's lock.
RaiseStack(a) ==
    /\ tear[a] = "idle" /\ Going(a, "up", "idle")
    /\ \/ NetOf[a] \in There /\ stackUp' = stackUp \cup {a} /\ UNCHANGED stranded
       \/ /\ NetOf[a] \notin There /\ UNCHANGED stackUp
          /\ stranded' = IF NetOf[a] \in tenants THEN stranded \cup {a} ELSE stranded
       \/ UNCHANGED <<stackUp, stranded>>
    /\ UNCHANGED <<dockerNets, toJoin, tenants, applies, tear, sweeps>>
-----------------------------------------------------------------------------
(* TraefikConfig.                                                          *)

ApplyOnly == UNCHANGED <<tenants, stackUp, raises, tear, sweeps, stranded>>

BeginApply ==
    /\ MayCall /\ apply = "idle" /\ apply' = "recreate" /\ retried' = FALSE /\ applied' = FALSE
    /\ UNCHANGED <<dockerNets, applyOn>> /\ ApplyOnly

\* compose up --force-recreate: the container goes, and comes back on no network
\* of a tenant.
RemoveProxy ==
    /\ apply = "recreate" /\ proxy /\ proxy' = FALSE /\ proxyOn' = {}
    /\ UNCHANGED <<netAge, applies>> /\ ApplyOnly

RecreateProxy ==
    /\ apply = "recreate" /\ ~proxy /\ proxy' = TRUE /\ apply' = "list"
    /\ UNCHANGED <<netAge, proxyOn, applyOn, retried, applied>> /\ ApplyOnly

\* DeploNetworks: a listing that fails is an empty one.
ListTenants ==
    /\ apply = "list" /\ apply' = "connect"
    /\ applyOn' \in {There} \cup IF LookFails THEN {{}} ELSE {}
    /\ UNCHANGED <<dockerNets, retried, applied>> /\ ApplyOnly

ConnectTenant(n) ==
    /\ apply = "connect" /\ n \in applyOn /\ applyOn' = applyOn \ {n} /\ Connect(n)
    /\ UNCHANGED <<apply, retried, applied>> /\ ApplyOnly

\* What fails is applied again as it was before, once.
ApplyFails ==
    /\ apply \in {"recreate", "connect"} /\ (apply = "connect" => applyOn # {})
    /\ apply' = (IF retried THEN "idle" ELSE "recreate") /\ retried' = TRUE /\ applyOn' = {}
    /\ UNCHANGED <<dockerNets, applied>> /\ ApplyOnly

EndApply ==
    /\ apply = "connect" /\ applyOn = {} /\ apply' = "idle" /\ applied' = TRUE
    /\ UNCHANGED <<dockerNets, applyOn, retried>> /\ ApplyOnly
-----------------------------------------------------------------------------
(* DestroyStack and the control plane.                                     *)

\* Its preview is gone for the control plane.
BeginDestroy(a) ==
    /\ MayCall /\ tear[a] = "idle" /\ tenants' = tenants \ ({NetOf[a]} \cap Previews)
    /\ tear' = [tear EXCEPT ![a] = "down"]
    /\ UNCHANGED <<dockerNets, stackUp, raises, applies, sweeps, stranded>>

\* stackPreviewNetworks reads them from the containers, before compose down.
Down(a) ==
    /\ tear[a] = "down"
    /\ \/ /\ stackUp' = stackUp \ {a}
          /\ tear' = [tear EXCEPT ![a] = IF a \in stackUp /\ NetOf[a] \in Previews THEN "unplug" ELSE "idle"]
       \/ UNCHANGED stackUp /\ tear' = [tear EXCEPT ![a] = "idle"]
    /\ UNCHANGED <<dockerNets, tenants, raises, applies, sweeps, stranded>>

\* network disconnect -f and network rm, which docker refuses while a container
\* is on the network.
Unplugged(n) == proxyOn' \in {proxyOn, proxyOn \ {n}} /\ UNCHANGED <<netAge, proxy>>
InUse(n) == n \in proxyOn \/ \E a \in stackUp : NetOf[a] = n
Removed(n) ==
    /\ netAge' \in {netAge, IF InUse(n) THEN netAge ELSE [netAge EXCEPT ![n] = "none"]}
    /\ UNCHANGED <<proxy, proxyOn>>

Unplug(a) ==
    /\ tear[a] = "unplug" /\ tear' = [tear EXCEPT ![a] = "remove"] /\ Unplugged(NetOf[a])
    /\ UNCHANGED <<tenants, stackUp, raises, applies, sweeps, stranded>>

RemovePreviewNetwork(a) ==
    /\ tear[a] = "remove" /\ tear' = [tear EXCEPT ![a] = "idle"] /\ Removed(NetOf[a])
    /\ UNCHANGED <<tenants, stackUp, raises, applies, sweeps, stranded>>

\* No call is about it; a name is not given again as long as one is.
Unused(n) ==
    /\ ~(sweep \in {"unplug", "remove"} /\ sweepAt = n)
    /\ \A a \in NetApps : NetOf[a] = n => a \notin stackUp /\ raise[a] = "idle" /\ tear[a] = "idle"

\* An environment is made, with a network of its own, or deleted once it is empty.
MakeTenant(n) ==
    /\ n \notin tenants /\ netAge[n] = "none" /\ Unused(n) /\ tenants' = tenants \cup {n}
    /\ UNCHANGED <<dockerNets, stackUp, raises, applies, tear, sweeps, stranded>>

DeleteTenant(n) ==
    /\ n \in tenants /\ Unused(n) /\ tenants' = tenants \ {n}
    /\ UNCHANGED <<dockerNets, stackUp, raises, applies, tear, sweeps, stranded>>
-----------------------------------------------------------------------------
(* cleanLeftoverNetworks.  Its list and its hour are those of its start.   *)

SweepOnly == UNCHANGED <<tenants, stackUp, raises, applies, tear, stranded>>

BeginSweep ==
    /\ MayCall /\ sweep = "idle" /\ sweepLive' = tenants /\ sweep' = "look"
    /\ UNCHANGED <<dockerNets, sweepAt>> /\ SweepOnly

\* Bug: an empty network that is in no list goes, however new.
LeftoverNetAnyAge(n) == ~\E a \in stackUp : NetOf[a] = n
\* Nothing but Traefik is on it, and it is an hour old.
LeftoverNet(n) == ~(\E a \in stackUp : NetOf[a] = n) /\ netAge[n] = "old"

LookAtNetwork(n) ==
    /\ sweep = "look" /\ sweepLive # {} /\ n \in There \ sweepLive /\ LeftoverNet(n)
    /\ sweepAt' = n /\ sweep' = "unplug"
    /\ UNCHANGED <<dockerNets, sweepLive>> /\ SweepOnly

UnplugLeftover ==
    /\ sweep = "unplug" /\ sweep' = "remove" /\ Unplugged(sweepAt)
    /\ UNCHANGED <<sweepLive, sweepAt>> /\ SweepOnly

RemoveLeftover ==
    /\ sweep = "remove" /\ sweep' = "look" /\ Removed(sweepAt)
    /\ UNCHANGED <<sweepLive, sweepAt>> /\ SweepOnly

EndSweep ==
    /\ sweep = "look" /\ sweep' = "idle" /\ sweepLive' = {}
    /\ UNCHANGED <<dockerNets, sweepAt>> /\ SweepOnly

NetworksAge ==
    /\ sweep = "idle" /\ netAge' = [n \in Nets |-> IF netAge[n] = "fresh" THEN "old" ELSE netAge[n]]
    /\ UNCHANGED <<proxy, proxyOn, tenants, stackUp, raises, applies, tear, sweeps, stranded>>

NetworksNext ==
    \/ \E a \in NetApps :
          \/ BeginRaise(a) \/ InspectNetwork(a) \/ CreateNetwork(a) \/ LookForProxy(a) \/ ConnectOwn(a)
          \/ RerouteNow(a) \/ ListMissing(a) \/ (\E n \in Nets : JoinMissing(a, n)) \/ Built(a) \/ RaiseStack(a)
          \/ BeginDestroy(a) \/ Down(a) \/ Unplug(a) \/ RemovePreviewNetwork(a)
    \/ \E n \in Nets : ConnectTenant(n) \/ MakeTenant(n) \/ DeleteTenant(n) \/ LookAtNetwork(n)
    \/ BeginApply \/ RemoveProxy \/ RecreateProxy \/ ListTenants \/ ApplyFails \/ EndApply
    \/ BeginSweep \/ UnplugLeftover \/ RemoveLeftover \/ EndSweep \/ NetworksAge

NetworksSpec == NetworksInit /\ [][NetworksNext]_netVars
-----------------------------------------------------------------------------
NetworksTypeOK ==
    /\ netAge \in [Nets -> {"none", "fresh", "old"}] /\ tenants \subseteq Nets
    /\ proxy \in BOOLEAN /\ proxyOn \subseteq There /\ stackUp \subseteq NetApps
    /\ raise \in [NetApps -> {"idle", "ensure", "create", "look", "connect", "list", "join", "up"}]
    /\ toJoin \in [NetApps -> SUBSET Nets] /\ applyOn \subseteq Nets
    /\ apply \in {"idle", "recreate", "list", "connect"} /\ {retried, applied} \subseteq BOOLEAN
    /\ tear \in [NetApps -> {"idle", "down", "unplug", "remove"}]
    /\ sweep \in {"idle", "look", "unplug", "remove"} /\ sweepLive \subseteq Nets /\ sweepAt \in Nets
    /\ stranded \subseteq NetApps

(* Once its last configuration is in place Traefik is on the network of    *)
(* every stack that is up, whatever was made, made anew, unplugged and     *)
(* swept meanwhile; and a stack of an environment there is finds the       *)
(* network that was made sure of before ("the network must exist and       *)
(* Traefik must be on it").                                                *)
ProxyReaches ==
    /\ proxy /\ applied => \A a \in stackUp : NetOf[a] \in tenants => NetOf[a] \in proxyOn
    /\ stranded = {}

===============================================================================
