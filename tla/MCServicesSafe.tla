---------------------------- MODULE MCServicesSafe ----------------------------
(* Identity, backup store and restores, the ready check, imports, cleanup,  *)
(* pulled images, the Traefik file, the networks, the console's shells,     *)
(* metrics, the build cache and working copies share no state: one instance *)
(* checks them side by side, and focus says which of them runs.             *)
EXTENDS AgentIdentity, Backups, Readiness, Imports, Cleanup, TraefikConfig, ShellPlan,
        Sampling, BuildCache, WorkingCopy, Networks, PulledImages, TLC

CONSTANTS c1, c2, k0, k1, k2, a0, a1, w1, w2, w3, r1, o1, o2, b1, b2, i1, i2, t1, t2, t3, s1, s2,
          f1, f2, f3, x1, v1, v2, n1, n2, y1, y2, m1, m2, g1, g2

TwoCalls == {c1, c2}
ThreeKeys == {k0, k1, k2}
TwoCAs == {a0, a1}
OneOfEach == (k0 :> a0) @@ (k1 :> None) @@ (k2 :> a1)
ThreeWrites == {w1, w2, w3}
OneWrite == {w2}
OneRestore == {r1}
TwoObjects == {o1, o2}
TwoOfOneKey == (w1 :> o1) @@ (w2 :> o1) @@ (w3 :> o2)
TwoBoxes == {b1, b2}
OneBox == {b1}
OtherBox == {b2}
TwoImages == {i1, i2}
OneImage == {i1}
ThreeTags == {t1, t2, t3}
OwnTags == (i1 :> t1) @@ (i2 :> t2)
TwoApps == {s1, s2}
ThreeConfigs == {f1, f2, f3}
OneMeter == {x1}
ThreeRecords == 1..3
OneOrTwo == {1, 2}
SomeAges == {1, 3, 4}
SomeCeilings == {2, 3}
SomeMinAges == {0, 3}

\* Checkouts of a folder, a file in it and one beside it.
Tree(d, f, g) == [p \in Paths |-> CASE p = "d" -> d [] p = "d/f" -> f [] OTHER -> g]
SomeTrees == {Tree("dir", v1, "none"), Tree("dir", v2, v1), Tree("none", "none", v1), Tree(v1, "none", "in"),
              Tree("in", "none", v2), Tree("dir", "out", v1), Tree("dir", "none", v1)}
TwoContents == {v1, v2}

TwoNets == {n1, n2}
OtherNet == {n2}
NetOfEach == (s1 :> n1) @@ (s2 :> n2)
TwoLayers == {y1, y2}
TwoNames == {m1, m2}
RepoOfEach == (m1 :> g1) @@ (m2 :> g2)

\* An image with sh, one with bash only, ones whose sh does not start: with and
\* without another shell, and one in which the last candidate works.
SomeShells ==
    LET w == "works"  k == "broken"  m == "missing"
    IN  {<<w, m, m, m>>, <<m, w, m, m>>, <<k, w, m, m>>, <<k, k, k, k>>, <<k, k, k, w>>}

VARIABLE focus

safes == <<vars, backupVars, readyVars, importVars, cleanupVars, traefikVars, shellVars,
           samplingVars, cacheVars, workVars, netVars, pulledVars, focus>>

\* The replies of the control plane differ in their CAs, and the keys may be
\* made in any order.  A stack must listen on its port, a single container may
\* have none or fall back to another.  Records are numbered by their last use.
\* A component that does not run begins in one of its initial states only.
SafeInit ==
    /\ focus \in {"identity", "store", "restores", "ready", "copies", "images", "cleanup",
                 "traefik", "shells", "metrics", "cache", "source", "networks", "pulled"}
    /\ reply = OneOfEach
    /\ focus # "ready" => isStack = TRUE /\ port = "none"
    /\ focus # "images" => tags = {}
    /\ focus # "cleanup" =>
          /\ image = [i \in 1..Images |-> "absent"] /\ runs = {} /\ volume = "absent"
          /\ app = {} /\ files = [a \in Apps |-> "none"]
    /\ focus # "traefik" => stack = "none"
    /\ \E of \in IF focus = "shells" THEN SomeShells ELSE {<<"works", "works", "works", "works">>} :
          shells = [i \in BoxImages |-> of]
    /\ up = [b \in Boxes |-> TRUE] /\ ecall = [c \in ExecCalls |-> ExecCall("idle", b1, i1)]
    /\ focus # "metrics" => prev = [c \in Metered |-> NoBaseline] /\ prevNet = NoBaseline
    /\ \E ages \in IF focus = "cache" THEN [CacheRecords -> CacheAges] ELSE {[r \in CacheRecords |-> 1]} :
          /\ \A q, r \in CacheRecords : q < r => ages[q] <= ages[r]
          /\ lastUse = ages
    /\ focus # "cache" =>
          /\ size = [r \in CacheRecords |-> 1] /\ dated = {} /\ busy = {}
          /\ ceiling = 2 /\ minAge = 0
    /\ focus # "networks" => tenants = {} /\ proxyOn = {}
    /\ pushed = {} /\ (focus # "pulled" => built = {})
    /\ Init /\ BackupsInit /\ ReadyInit /\ ImportsInit /\ CleanupInit /\ TraefikInit
    /\ ShellPlanInit /\ SamplingInit /\ BuildCacheInit /\ WorkInit /\ NetworksInit /\ PulledInit
    /\ focus = "ready" /\ isStack => port = "required"

\* The second key and its write, and the sweep, are for the store's part.
AboutOneKey ==
    /\ wpc'[w3] = "idle" /\ remote' # w3
    /\ asked'[r1].key # o2 /\ asked'[r1].expected # w3 /\ idleHour' = {}

\* The others stay as they are.
Only(f) ==
    /\ focus = f /\ UNCHANGED focus
    /\ f # "identity" => UNCHANGED vars
    /\ f \notin {"store", "restores"} => UNCHANGED backupVars
    /\ f # "ready" => UNCHANGED readyVars
    /\ f \notin {"copies", "images"} => UNCHANGED importVars
    /\ f # "cleanup" => UNCHANGED cleanupVars
    /\ f # "traefik" => UNCHANGED traefikVars
    /\ f # "shells" => UNCHANGED shellVars
    /\ f # "metrics" => UNCHANGED samplingVars
    /\ f # "cache" => UNCHANGED cacheVars
    /\ f # "source" => UNCHANGED workVars
    /\ f # "networks" => UNCHANGED netVars
    /\ f # "pulled" => UNCHANGED pulledVars

SafeNext ==
    \/ focus = "identity" /\ Only("identity") /\ Next
    \/ focus = "store" /\ Only("store") /\ StoreNext
    \/ focus = "restores" /\ Only("restores") /\ UNCHANGED backupCrashes /\ BackupsNext /\ AboutOneKey
    \/ focus = "ready" /\ Only("ready") /\ ReadyNext
    \/ focus = "copies" /\ Only("copies") /\ CopyNext
    \/ focus = "images" /\ Only("images") /\ ImageNext
    \/ focus = "cleanup" /\ Only("cleanup") /\ CleanupNext
    \/ focus = "traefik" /\ Only("traefik") /\ TraefikNext
    \/ focus = "shells" /\ Only("shells") /\ ShellPlanNext
    \/ focus = "metrics" /\ Only("metrics") /\ SamplingNext
    \/ focus = "cache" /\ Only("cache") /\ BuildCacheNext
    \/ focus = "source" /\ Only("source") /\ WorkNext
    \/ focus = "networks" /\ Only("networks") /\ NetworksNext
    \/ focus = "pulled" /\ Only("pulled") /\ PulledNext /\ Cardinality(pushed') <= 2

SafeSpec == SafeInit /\ [][SafeNext]_safes

(* What an import or a deploy's sync has copied is whole, or is not taken  *)
(* for a copy, and neither takes what others have put beside it, but for   *)
(* the tag a build makes while an image of that name is imported.          *)
CopiesAreWhole == ImportsAreWhole /\ SourceIsCopied

(* What cleanup takes, by a decision on an old listing, nobody needs or    *)
(* anybody can have again from the registry that it came from; of the      *)
(* build cache it takes what is over the ceiling, and nothing fresh.       *)
CleanupIsSafe == CleanupLosesNothing /\ PulledComeBack /\ CeilingIsKept

(* One call that fails or is killed does not lose Traefik's configuration  *)
(* that worked, and Traefik is on the network of every stack that is up    *)
(* once its last configuration is in place.                                *)
ProxyIsKept == GoodConfigIsKept /\ ProxyReaches

===============================================================================
