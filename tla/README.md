# Models and proofs of deplo-agent

deplo-agent is the program a Deplo control plane drives each of its servers
with: one Go process per host, a gRPC service (`proto/agent.proto`) that builds
and runs app stacks with docker, runs cron jobs, backs up and copies data,
reports on the host, and looks after its own certificate, binary and link. The
modules here model its concurrent and crash-prone parts in TLA+, check them with
TLC on small instances and prove some of the results with TLAPS.

## Inventory

Handlers run concurrently, one goroutine per call, on one `Service`. Nothing but
files survives the process, and systemd restarts it. A control plane that loses
an answer asks again.

| Component | State | Operations | Hard behaviour | Correct when | Status |
|---|---|---|---|---|---|
| Stack locks (`server.go`) | `stackLocks`, reference counts | `lockStack`, unlock | deletion and re-creation of entries while others wait | one operation per stack, no entry leaked, other stacks go on | `StackLock`, proved |
| Deploy log (`inflight.go`) | events, trim note, counters, `cond` | `append`, `enforceLogBudget`, `subscribe` | trims under readers, cancellation against `Wait`, stalled clients | nothing but log lines missed, budget kept, no stream hangs | `DeployLog`, proved |
| Deploy registry (`server.go`) | `deploys`, spooled contexts, timers | `Deploy`, `DeployStream`, `ReattachDeploy`, `driveDeploy`, `trimFinished` | repeated calls with one id, timers, file ownership | one run per id, context there while read and gone after | `DeployRegistry`, proved |
| Cron jobs (`job.go`, `marker.go`) | `jobs`, output buffers, variables files | `StartJob`, `PollJob`, `KillJob`, driver | client and command end apart, kill against finish, crash | record written once and settled, no secrets left, all jobs end | `CronJobs`, proved |
| Identity (`bootstrap.go`, `renewal.go`) | three PEM files, pair in memory, pending key | `bootstrap.Run`, `RenewalCSR`, `InstallRenewedCert` | several files written one by one, crash between them | the files load, and hold what is served | `AgentIdentity`, proved |
| Binary (`selfupdate.go`, `selfuninstall.go`) | binary, unit, state directory, timers | `SelfUpdate`, `SelfUninstall`, re-exec | racing updates, restarts in between | never downgrades, an uninstalled agent stays down | `AgentLifecycle`, proved |
| Link and port (`link/`, `listener.go`, `main.go`) | saved address pair, no-listener file, port, backoff | `Run`, `SetLinkAddresses`, `StopListening`, SIGTERM | pair replaced while dialling, closing the port under `Accept` | always a way in, signal ends it | `AgentLink`, proved |
| Stack operations (`deploy.go`, `server.go`) | stack and env files, containers, working copies, credential directories | `runDeployFrom`, `startStack`, `StopStack`, `StartStack`, `DestroyStack`, `Reroute` | a build outside the lock against everything inside it, fallbacks of each step, crash | a deploy starts its stack, containers keep their files, everybody answers | `StackOps`, proved; what a build method does is not modelled |
| Working copies (`compose_source.go`) | a folder per stack, the list of what was synced | `syncWorkingCopy`, `removeWorkingCopy` | services write beside it, links, a crash between entries and list | a sync that is reported took the whole source and none of the services' files | `WorkingCopy`, proved |
| Ready check (`ready_*.go`) | samples of one deploy | `newReadyCheck`, `observe`, `expire` | restarts, ports that come late, health checks | the verdict fits what the containers did | `Readiness`, proved |
| Backups (`backup*.go`, `restore_preflight.go`) | store directory, partial files, what an app holds | create, restore, verify, delete, sweep | one partial name per key, sweep and prune against writers, verify far from use | a committed artifact is whole, a restore opens what it verified | `Backups`, proved; formats, dumps and S3 not modelled |
| Pipes of a backup and a restore (`backup_artifact.go`, `backup_tar.go`) | goroutines, pipes, helper containers | produce, hash, pack, send; relay, unpack | any part ends first, the reader goes, the deadline | what counts as whole is whole, both end | `BackupPipe`, `RestorePipe`, proved |
| Copies (`volumecopy.go`, `hostpathcopy.go`, `filescopy.go`, `imagecopy.go`) | pipes, helper containers, one image lock | the four imports | broken and stalled streams, abandoned helpers | nothing half copied stays, a declared image is there | `Imports`, proved; exports and file calls not modelled |
| Cleanup (`cleanup*.go`) | none, a snapshot per call | `DockerCleanup` | decisions from an old listing | nothing in use is removed | `Cleanup`, `PulledImages`, `BuildCache`, `Networks`, proved; stopped helpers and temporary directories not modelled |
| Roster (`roster.go`) | entries, ids, OOM counts, dirty mark | event watcher, rebuild loop, backstop | events during a rebuild, a broken stream | an event leads to a rebuild after it | `Roster` |
| Interactive (`attach.go`, `exec.go`, `logs.go`) | goroutines and channels per session | `Attach` | blocked sends, exit code, a client that leaves | the exit code comes last, no goroutine stays | `Attach`, proved, without a terminal |
| Shells of the console (`exec.go`) | cache of a shell per container name | `Exec`, `ShellLabel` | containers made anew under a cached name, probes that fail | the plan fits the container, no shell that is there is missed for long | `ShellPlan`, proved |
| Metrics (`metricsstream.go`, `cgroupstats.go`, `sampler.go`) | baselines, count of bad ticks | `StreamMetrics` | a read that fails at any tick, counters that restart | a rate is the use of its window, or is left out | `Sampling`, proved; parsing not modelled |
| Docker client (`dockercli/`) | process group, pipe, deadline | `Run`, `Stream`, `RunLines`, pipes | a process that leaves the group keeps the pipe open, a client killed before its container starts | the output is whole unless the deadline or the caller cut it; a command that is read line by line returns after its deadline | `DockerCommand`; that the commands that copy their output (`Run`, the pipes) return is not claimed, parsing not modelled |
| Build memory cap | count of builds, watcher | `capBuildSteps` | last release against next build | the watcher runs exactly while builds do | `BuildMemory` |
| Traefik (`hostops.go`) | its stack file and backup, the tenants' networks | `TraefikConfig`, `ensureTenantNetwork`, removals | a rollback whose own steps may fail, a kill; an apply beside deploys, cleanup and destroys | one failed or killed call does not lose the good configuration, Traefik is on the network of every stack that is up | `TraefikConfig`, `Networks`, proved; single host commands not modelled |
| Screenshots (`capture.go`, `internal/capture`) | one slot, a socket per call, tunnels; in the container a page and its events | `CaptureScreenshot`, `Egress.Serve`, `capture` | a client that leaves, a browser docker cannot remove, a page that freezes or navigates on | one browser at a time, nothing of a call stays, the outcome is what was seen | `Capture`, `PageCapture`, proved; which addresses and credentials pass not modelled |
| Railpack, inventory, file browser, dormant calls | little or none | reads, host commands, text rewriting | | | not modelled, see below |

Components interact through the `Service`: `startStack` takes the stack lock
inside a run of the registry, whose events go to the run's log, and ends in the
ready check; a restore stops and starts the app's stack; cleanup decides beside
deploys; renewals change
the pair both the port's and the link's TLS handshakes use; `SetLinkAddresses`
and `StopListening` act on the link that carried them; self-update and
self-uninstall end the process all others live in. Each module takes the others
as an environment that may do anything the code lets it do.

"Proved" says that the safety of the component is; liveness never is.
Every component is listed in `PROJECT.json`, as is every hazard with its line
and the properties that watch it, or the reason none does.

## Modules

Variables carry the names of the fields they model. A step is the code between
two points where another goroutine can intervene: a critical section that does
not block is one step, a write of a file is one step, a blocking call is a guard.
Operators whose comment begins with "Bug" are unused variants of the definition
after them; replacing it by the variant breaks a property.

Deploys and stacks:

* `StackMutex`, `StackLock`, `StackLockProofs`. `StackMutex` is the promise: for
  each stack a set of waiters and at most one holder. `StackLock` is `lockStack`,
  step by step under `stackLocksMu`. A lock object is allocated from those
  nobody refers to, as the garbage collector allows.
* `StackOps`, `StackOpsProofs`. `StackOps` is the pipeline of a deploy around the stack's
  lock, and the calls under it. The lock is an instance of `StackMutex`. A file is known by the
  operation that wrote it, so that "another's stack" can be said; a request is a
  record of the fields the code branches on, and every docker command and every
  write may fail. A crash releases the lock and sweeps the credential directories.
* `WorkingCopy` is the copy of a source into a stack's folder, entry by entry,
  with the list of what was synced, beside services that write there themselves.
* `Networks` has the tenants' networks and Traefik's place on them: deploys,
  reroutes, a new Traefik container, destroyed previews and cleanup, unlocked.
* `DeployFeed`, `DeployLog`. `DeployFeed` is the promise to a client: events in
  order, each at most once, and only log lines may be missing. `DeployLog` is the
  buffer of `inflight.go`, a set of sequence numbers since the code keeps it
  sorted, with `f.mu` and `cond` explicit because a lost wake-up would sit there.
* `DeployRegistry` is the map of runs, its timers and the spooled contexts. A
  run's log is reduced to its size.
* `Readiness` is the ready check over a clock of whole units: each poll judges
  samples of containers that start, listen, die, come back and turn unhealthy.
* `BuildMemory`: builds that share one watcher through a count.
* `DeploysProofs` is about `DeployLog`, `DeployRegistry` and the screenshots; `Sums` has
  the facts about sums over finite sets, and least and greatest elements, that several
  proofs need. `StackLockProofs` is about the lock table, and `Roster` and `BuildMemory`,
  which are checked beside it.

Data:

* `Backups` is one folder of the store and the restores from it. A file is an
  inode: a writer goes on writing what it opened whatever happens to the name.
* `BackupPipe`, `RestorePipe` are the goroutines and pipes of a backup on its way
  out and of a restore on its way in. A pipe holds nothing, as `io.Pipe` does not;
  any part may fail or leave first.
* `Imports` has the copy into a volume, a directory, a single file or a service's
  files, and image imports under their lock.
* `Cleanup`, `PulledImages`, `BuildCache`: the scopes of `DockerCleanup`. The
  listing, the decision and each removal are steps apart, with deploys, stops and
  deletions of apps, registries and builds in between.

* `DataProofs` is about all of these but the pipes.

The host and the agent:

* `CronJobs` is the job table and one driver per job; the docker daemon, the
  processes of the command and the clock are the environment, and a command may
  fork, ignore SIGTERM and never end.
* `DockerCommand` is one command of the docker client: its process group, its
  pipe, its deadline and the helper container a killed client leaves.
* `Roster`, `Attach`: goroutines with channels of their capacities; docker and the
  clients are the environment.
* `ShellPlan`: the probes for a container's shell and the cache of what they found.
* `Sampling`: the baselines and rates of a metrics stream, whose reads may fail.
* `TraefikConfig`: rename, write, apply, move back and apply again. Each of them may fail,
  the move back included, and the agent may be killed between any two.
* `Capture`, `PageCapture` are the two sides of a screenshot: the call with its slot,
  socket and tunnels, and the run inside the container with its timeouts.
* `AgentIdentity` runs from the first install command over bootstraps and
  renewals to restarts. A key stands for its pair and its certificate.
* `AgentLifecycle`: versions are ranks, 0 being a build
  without a semantic version, which outranks nothing (`versionNewer`).
* `AgentLink`: `link.Run` and its store, the port, and
  `serveAgent`'s shutdown. A dial succeeds or fails; the backoff is a count of
  doublings.
* `AgentProofs` is about the link and the binary's life, `CommandsProofs` about cron
  jobs, `DockerCommand`, `Attach` and the two pipes, `ServicesProofs` about the identity, shells,
  metrics, the ready check, Traefik and the networks.

`MCServicesLive`, `MCServicesSafe`, `MCPipes`, `MCAgent`, `MCDeploys` and `MCFeeds`
put components that share no state side by side, with `focus` (`part` in `MCDeploys`)
telling which one runs: their states add up and do not multiply, and each component behaves as if
alone. The other `MC` modules only name finite sets and requests. A `.cfg` replaces
no definition of the project. Several of these runs check a conjunction that is
named in the `MC` module (`CleanupIsSafe`, `PipesAreWhole`, ...): its conjuncts are
stated, with what they are about, in the components' modules.

## Runs

| Run | Instance | Shows |
|---|---|---|
| `stack_ops` | 1 deploy of 7 kinds of request, 1 stop, destroy or reroute, 1 destroy, 1 crash | a deploy starts its own stack, containers keep their files, credentials stay as long as needed, every operation answers |
| `stack_admitted` (violation) | the same, no crash | a stack starts that nobody looked at |
| `deploy_log` | log: 1 client, 2 streams, 6 events, lines of 2 sizes, budget of 3 lines; 2 screenshots and a connection; a page of 4 documents | exact and bounded budget, refines `DeployFeed`; one browser at a time, no call or tunnel stuck, outcomes that fit what happened |
| `deploys` | streams: 2 clients, one may stop reading; registry: 2 ids, 2 calls, 3 runs, budget 3 | a cancelled or finished stream returns, a stalled client holds up neither the deploy nor the other client; one run per id, retained logs fit, ownership of contexts, runs are forgotten |
| `deploy_gap` (violation) | 1 client, 2 streams | a reattaching reader loses lines unannounced |
| `agent` | link: 2 pairs, 2 addresses, 2 StopListening calls, 2 starts; binary: 2 updates, 1 uninstall, 3 versions, 3 starts | a way in, remembered stop, no replacement missed, a signal ends it; no downgrade, an uninstalled agent stays down |
| `agent_identity_failed` (violation) | 1 renewal | a failed renewal leaves files that do not load |
| `backup_proven` (violation) | 2 writes of one key, 1 restore | a restore from the host's own store opens bytes it did not verify |
| `services_live` | lock table: 3 handlers, 2 stacks, 3 lock objects, operations on one stack may hang; 1 cron job of 2 processes, 1 crash; roster: 2 containers, 3 changes and 1 break of the stream; 2 builds, 1 step | no leaked entry, waiters of the other stack get in, refines `StackMutex`; settled output, owned variables files, answers that only move forward, every job is forgotten; no event is lost and the roster catches up; the cap follows the builds |
| `pipes` | a session of 1 chunk out and 2 in; a command of 2 lines; a backup of 2 volumes of 2 chunks, or a dump, to a stream, the store or a bucket; a restore of 2 entries into 2 volumes | the exit code comes last; what counts as whole is whole; sessions, commands, backups and restores end |
| `services_safe` | identity: 3 keys, 2 CAs, 2 calls, 2 crashes, 2 install commands; store: 3 writes of 2 keys, one overwriting, 1 crash; 1 restore; ready check: 2 containers; a copy of 2 parts; 2 image imports, 3 tags; 2 syncs of a tree of 3 paths, 1 crash; 2 apps, 2 images, a volume; 2 images pulled under 2 names; 3 cache records; 3 Traefik configurations, 1 kill; 2 networks; 2 console calls; metrics of 3 ticks | the files of the identity load, match memory and survive an answered renewal; artifacts are whole, a remote restore opens what it proved; the verdict fits; nothing half copied or half configured stays; cleanup takes nothing in use or out of reach; one failed or killed change of Traefik's configuration does not lose the one that worked; Traefik is on the network of what is up; the plan fits the shell; a rate is that of its window |
| `traefik_restored` (violation) | 2 configurations, one call at a time, no kill | "the previous Traefik config was restored" is said of one that is not in force |

The bounds are the smallest at which the hazards occur. Three handlers give a
holder, a waiter and one who comes after the entry is deleted. Six events pass
a budget of three lines with several trims, a phase and the result among them. Two
reinstalls of three keys give a renewal torn by a crash, retried, or sent twice.
Three starts give an update between two crashes. Cron jobs share nothing but the
cap on how many run, so one job, with two processes and a crash, meets every race.
One deploy against two calls has every order of a destroy and a second call around
the unlocked build. Two deploys of one stack at once are left out: the unlocked write
of the second falls between the locked write and the `compose up` of the first, which is
`stack_admitted` again and breaks `DeployRunsItsStack` too. A store with two writes of a
key, one overwriting, a third of another key in the same folder, a deletion and a sweep
has every use of a partial file's name; the restores' part leaves the third
write and the sweep out (`AboutOneKey`). Two images with one kept give a superseded one
and the one that runs; two pushes give a name whose registry moved on. Three configurations of
Traefik and a kill give a call that ends half done, one that answers ok over it, and one
more that fails or is killed. A folder, a file
in it and one beside it give every order in which a sync can meet a link, a folder that
became a file, and a service's own file. Two volumes with two entries have one helper
fail while the other works and while more entries come. Two screenshots and a
connection have a waiter for the slot while the other's tunnel is at any step; in
units of 15 seconds the page's deadline is its five, navigation two, the idle wait
and the grace one each, and a call's timeout is rounded up to two; one document is
let through after the load where the code lets two.

Deadlock is checked where the system never stops. `CHECK_DEADLOCK FALSE` stands
in `stack_ops`, `deploys`, `deploy_log`, `agent`, `pipes`, `services_live` and
`services_safe`, where it does: operations answer, deploys and their logs end, the
agent is removed or its last allowed start is over, sessions, copies, commands and
screenshots end, and bounded environments run out. That a component does not stop
earlier is what the liveness properties say, and for screenshots `CapturesEnd` and
`PageAnswers`: as long as a call, a tunnel or a page is not over, some step of the
agent's own (or of the page's clock) is enabled. Each of those steps brings its
goroutine forward, so nothing stays for ever.

These switches of the environment are off in the runs. With them on, properties
fail, which "Read or tried" below explains: `Overlapping` (`Backups`: two writes of
one key at once), `Reusing` (`Cleanup`: a new app under the slug of a deleted one),
`AtOnce` (`TraefikConfig`: two calls at once), `LookFails` (`Networks`: docker commands
that only look fail), `Renaming` (`PulledImages`: a build takes a name between its lookup
and its removal).
The type invariants (`TypeOK`, `CronTypeOK`, ...) hold on these instances and are left
out of the runs; most of them are proved.

### Fairness

Weak fairness is given to what a goroutine does once nothing holds it, to timers,
and to docker commands that have a deadline (`dockercli` gives every command
one). `sync.Mutex` hands a waiter the lock after a millisecond of starvation,
which is strong fairness of taking it. A stream's client may stop reading and a
command may run for ever; a stack operation on the stacks in `SlowSlugs` may too.
In `StackOps` what an operation does inside the lock is under the deadlines of its
docker commands, and a build under that of the deploy. In `AgentLink` a link may last
for ever, and no call need come. The roster's rebuild is strongly fair: docker may be
down and come back, and answers in the end. For `SessionEnds` the container reads its
input; a client may leave at any moment. For `BackupEnds` and `RestoreEnds` whoever is
at the other end takes what is sent to it and goes on sending, or is seen to leave:
gRPC itself gives no deadline, so a client that stalls without leaving holds a backup
or a relayed restore for as long as it likes. A tool or a helper ends once its pipe
does, by itself or by its deadline.

`MCServicesLive`, `MCPipes`, `MCAgent` and `MCDeploys` state fairness by turns: in a
behaviour only one component runs, so the turns of one formula are that component's own
fairness conditions, which its module states too. `MCServicesSafe` and `MCFeeds` check
safety and need none.

### Disagreements

* `deploy_gap`: the single trim note has the sequence number of the first line
  ever dropped, so a reader past it is not told of later losses
  (`inflight.go:80-82`, `144`; the comment in `inflight_test.go` promises the note).
* `agent_identity_failed`: the key is written before the certificate, and a failure
  or crash between them leaves a pair that no start accepts
  (`renewal.go:88-98`; `agent.proto:266-275` calls it an atomic no-op).
* `stack_admitted`: a deploy of a compose stack writes the stack file before it has
  the lock (`deploy.go:205`); a reroute's `compose up` can then start images that
  were not looked at, and a deploy can look at the reroute's (`image_labels.go:130`:
  "an unchecked image never starts").
* `backup_proven`: a restore from the host's store verifies the digest by path and
  opens the path again later (`backup_artifact.go:151`, `183`); an overwriting
  write that commits in between is restored unchecked (`restore_preflight.go:27`).
* `traefik_restored`: when the new configuration does not come up, the answer is "the
  previous Traefik config was restored" (`hostops.go:221`) also when the backup could not
  be moved back, after which nothing is applied again (`216`), and when the old
  configuration did not come up again, a result nobody looks at (`217`).
  `hostops_test.go:71` says "must leave the host running its OLD config". The second
  apply has the context of the call: one that has expired or was cancelled in the first
  apply fails the second at once.

Read or tried but not given a run. Jobs, identity and deploys:

* the variables file of a cron job is removed after `PollJob` can already say that the
  job is over (`job.go:173`, `203`; a test asserts it gone at `job_test.go:251`);
* `InstallRenewedCert` drops the pending key whatever it is by then (`renewal.go:184-186`);
* `KillMarked` can miss what forks after its last look (`marker.go:43-49`);
* the sweeps at start and in cleanup do not know the spooled contexts a killed
  agent leaves (`registryauth.go:72`, `cleanup_build_cache.go:52`); a crash while
  staging leaves the staged binary;
* the sweep of stale build directories goes by the root's time and takes one after two
  hours, while a deploy may wait longer than that for its stack's lock;
* the grace a port gets starts when it is first awaited and is not reset by a restart;
* files that a failed sync wrote, and that the next source lacks, are never pruned; a
  deploy of an upload rewrites the list without pruning; a folder that became a file in
  the source blocks every later sync; a crash inside `removeWorkingCopy` leaves a list of
  files that are gone;
* a file that a sync is to prune and cannot remove stays, as does every one when the list
  of the last sync cannot be read, and the sync counts as whole (`compose_source.go:195-199`):
  `Prune` takes both to succeed, and `SourceIsCopied` is about a file system that removes
  what it is told to;
* `compose rm` is one step in `StackOps`, done or not: neither a part of a stack's
  containers removed by a command that fails nor one removed by a command that outlives a
  killed agent is modelled.

Networks and Traefik:

* a look that fails counts as "no Traefik" or as an empty list (`LookFails`): a stack
  goes up where Traefik cannot reach it, and an apply is reported as good;
* a good new configuration is rolled back if a network that was listed vanishes before
  Traefik is connected to it;
* a preview's network shared by two stacks would lose Traefik when one is destroyed;
  the model takes the network of a preview to be its own, and a preview's name not to be
  used again while a call is about it;
* two `TraefikConfig` calls at once share one backup file (`AtOnce`);
* a `TraefikConfig` call that is killed, or that cannot move the backup back, leaves the
  good configuration in the backup only. With no stack file every later call answers that
  Deplo did not install Traefik here (`hostops.go:185-190`); with a new or half written
  one the next call that moves it overwrites the backup, and the good one is gone. Nothing
  at the start of the agent looks for this, so `GoodConfigIsKept` speaks of the time until
  the next call that moves the stack file, and again from the next one that answers ok;
* a restart that fails may leave the container stopped; the property is about which
  configuration the container is made from.

Backups, copies and cleanup:

* two writes of one key at once share a partial file (`Overlapping = TRUE` breaks
  `ArtifactsAreWhole`), and neither "overwrite" check is repeated at the commit;
* a backup's producer may log after the handler has sent its result
  (`proto/agent.proto:1211-1212`); the restore's helpers have 10 minutes where the
  backup's have 30; a link of a volume that leads out of it is archived and
  dropped at the restore (`backup_project.go:323`); the helper of a failed
  restore may still write shortly after the answer;
* an app created under the slug of a deleted one while a cleanup runs may lose its files
  (`Reusing = TRUE`; `proto/agent.proto:1803-1804`);
* a build that takes a pulled image's name between the lookup and the removal loses it
  (`Renaming = TRUE`);
* a build's tag made during an image import is removed as the import's own (`BuildTags`);
  `CopiesAreWhole` excepts it;
* an OOM kill of a container newer than the rebuild's list is dropped from the
  counts by that rebuild.

The host and the console:

* what docker prints for a missing `sh` counts as an error of docker and ends the probing,
  so bash, ash and busybox are never tried and `raw_mode` is true in a container that has
  a shell (`exec.go:99-101`, `exec_test.go:38-41`; `agent.proto:1505-1507` says "the image
  had no shell");
* a rebuild of the roster that docker does not answer uses up the mark of the events
  before it: nothing asks for another until the next event or the backstop. In
  `NothingHeardIsLost` such a rebuild counts as one that follows the event.

Screenshots, of which `Capture` leaves out the forwarding of plain HTTP (the tunnels are
modelled) and `PageCapture` the settle delay before the dark shot:

* the status reported is that of the first document that was parsed; a script may
  navigate on twice more before the picture is taken (`browser.go:31`), where
  `proto/agent.proto:2213` says "after redirects"; a status that was not seen counts as
  200 (`browser.go:281`);
* the picture and the thumbnail that is judged blank are two shots of a page that may
  have changed in between;
* a failed switch to the dark scheme discards the light picture already taken
  (`browser.go:301-304`), a failed dark shot does not (`308`);
* a browser that docker could not remove runs on while the slot goes to the next
  call; a killed agent leaves its `capture-` directory; idle upstream connections of
  plain HTTP outlive the call (`egress.go:151-156`).

## Proofs

The theorems hold for every value of the constants that satisfies the modules'
assumptions: any number of handlers, stacks, jobs, clients, files, containers. Every
safety invariant and action property of a passing run is stated by a theorem, but for
what `ScreenshotsAreSound` says about ENABLED. Each proof names an inductive invariant,
shows that the initial states satisfy it and that each action keeps each of its parts, and
draws the property from it. The parts below are those that a reader would not guess; the
type invariant always belongs to them.

The assumptions on constants are named in the modules that declare them: bounds are
numbers, and what stands for nobody or nothing is none of those it stands beside
(`CommandAssumption`, `BuildMemoryAssumption` and so on).

`StackLockProofs`: `MutualExclusion`, `NoLeakedEntry`, `ExactCount`, `Refinement`.
Exclusion is not inductive by itself: two holders of one stack are excluded only if
they hold the same object, so `IInv` adds that whoever refers to an object still finds
it in the table (`EntryStays`), that no object stands under two stacks, and that the
count is exactly the set of its users (`RefsCountUsers`), without which an entry could
go early. The last needs finite sets of handlers and the library's facts on
cardinality. `Refinement` maps a handler between request and mutex to a waiter, one
inside to the holder.

The same module has the services that are checked beside the locks:

* `EventsAreNotLost` (`NothingHeardIsLost`, the safety of `RosterCatchesUp`): a kill could be
  forgotten by a rebuild that was under way when it came. That it is not needs what such a
  rebuild may still publish: only containers that were there when it listed
  (`SeenBefore`), and one whose kills were counted leaves the roster only for good
  (`ForgottenForGood`).
* `BuildStepsAreWatched` (`NoStepIsMissed` and `SparedIsUncapped`, the safety of
  `CapFollowsBuilds`): the count is the number of builds that are counted, so that the
  watcher is there while there is one (`WatchInv`); what ran before it is known to it also
  in the middle of a look, and what a counted build began is not before it has the cap
  (`KnownInv`).

`StackOpsProofs`: `OneOperationInside`, `FilesOutliveContainers`,
`CredentialsAreDropped`, `DeploysSendOneResult`, `DeploysRunTheirStack`. `PlacesInv` says
what an operation can have done at each of its places, `FilesInv` whose files are there
and in which order a destroy takes them. The last theorem assumes `StackDeploysAlone`: no
two deploys of a compose stack of one name at once, since their first write takes no lock.
Then a deploy inside the lock finds its own files (`RunsOf`), whatever calls came while
it built.

`DeploysProofs`:

* `FeedIsKept` is the refinement of `DeployFeed` by `DeployLog`. `RecordInv` says what the
  buffer is: everything emitted but dropped log lines, then `Following` where each reader
  stands in it. A send of the log is a `Deliver`, a subscription a `Follow`, an append an
  `Emit`, and all the rest stutters (`FeedStep`). A trim keeps readers going because it
  drops log lines alone (`OnlyLogsDropped`).
* `BudgetIsKept`: after each trim the retained lines fit the budget and no more was
  dropped than that needed. The sizes are a sum over a set, about which the module proves
  what a trim by one step more would have left (`DropIsEnough`).
* `LeaversAreWoken`: a cancelled reader that sleeps has its watcher (`WakeInv`).
* `RegistryIsKept`: a running deploy is what its id means (`RunsInv`), a spooled context is
  one call's or one run's (`ContextInv`), and the logs that are retained fit (`FitStep`).

* `BrowsersRunAlone` (`OneBrowser`): a call has the slot exactly from taking it to its
  release, and its directory from its making to its removal (`ShotInv`).
* `CapturesReachTheirEnd` (`EndsAreReached`): where no guard of a step of the agent's own
  holds, all calls have ended and no connection is left. An egress begins with the run of
  its call and `stop` comes before all that is behind the run, so its context has ended by
  then; a connection that is spliced with an end open is one that this context cuts
  (`EgressInv`).
* `PicturesAreHonest` (`PictureIsHonest`): until a page freezes, the time that is spent is
  that of the waits it may draw out, and leaves some (`TimeInv`). The theorem assumes that
  the timeouts of navigation, idle network and banner add up to less than the deadline:
  the code's are 30, 10 and 4 seconds of 75 (`browser.go:27-34`). `WaitsAreBounded`
  (`WaitsEnd`) needs no such assumption.

`Sums` proves what those and `CeilingStaysKept` need. A sum is a fold, whose value for a
set cannot be had by the library's induction theorems here, since those take an operator.
The module defines it by a function on subsets instead, shows by a least counterexample
that it exists, is unique and is the fold (`SumExists`, `SumUnique`, `TotalIsSum`), and how
it changes with one element or splits in two.

`CommandsProofs`:

* `JobsStayClean`, `AnswersOnlyMoveForward`: `CronInv` ties a driver's phase to its entry
  (`DriverHasEntry`), to the record it writes last (`RecordedLast`), to how the command
  ended (`VerdictByPhase`) and to what was said of it (`ToldOfEntry`).
* `ExitStaysLast`: no chunk of output is lost or twice anywhere on its way from the
  process to the client (`NoneLost`, an equation between counts), and the ends of the
  session come in their order (`EndsInOrder`), so that the exit code finds all output sent.
* `BackupStaysWhole`: `PartsInv` counts the parts the producer has made, `ChunksInv` what
  of them is in the pipes, hashed and sent; a sender that saw the end of its pipe saw all.
* `CommandsEndWhole` (`CommandIsOver`, the safety of `CommandReturns`): `EndsBefore` orders
  the ends of client, pipe and reader, `ReadToItsEnd` says what a reader that is done has
  read, `LeavesNoHelper` that only a context that ended kills a client.
* `RestoredStaysWhole`: `LoopInv` is what the relay has handed to each volume, `HelperInv`
  what its helper can have done with it, `JoinInv` what the answer rests on.

`AgentProofs`:

* `UpdatesNeverDowngrade`, `UninstallIsForGood`. An update is compared with the running
  version when it starts, and renamed over the binary much later. That is enough because
  the running version changes only with the process, which takes its handlers along
  (`NothingOutlives`); so neither the binary nor what waits to replace it ranks below it
  (`NotOutranked`). `RemovalsAreDone` says what each stage of an uninstall has removed.
* `AlwaysAWayIn`, `StopIsSafe`. `WayIn` is kept because the calls that close the port come
  over the link only, and a link needs an address: `LinkedHasAddress` and
  `CallHasAddress` carry that from the dial to the handler, `ClosedHasAddress` to the
  next start. That the port's closing is remembered and never ends serving follows from
  the order of `Port.Stop` (`StopsInOrder`, `ClosedIsStopped`).

`ServicesProofs`:

* `IdentityStaysKept`, `ServesItsOwnPair`: `HandlersInv` says that all handlers at
  work install one key and what each step leaves to the next, `DiskInv` which files a
  bootstrap has written, `ServedInv` that a file differs from what is served only while the
  handler that writes it is still before it, `OkInv` that an answered renewal is on disk.
* `RememberedPlansFit`: while a container stays the same, the shells tried so far do
  not work in it (`ProbesInv`); the cache is finite among any number of containers.
* `SentRatesAreHonest`: a baseline was read when it says, and the counter has risen
  above it by no more than what was used since (`SamplesInv`).
* `ReadyVerdictIsRight`: the base of a container lies before what docker says now
  (`BaseInv`), and a container that runs differs from its base exactly when it was started
  again since (`AgainInv`); `PollIsRight` draws the verdict from that.
* `GoodConfigStays`: `KeptWhere` says where the configuration that worked is while another
  is tried: in the stack file until it is moved, then in the backup. `KeptHalfDone` keeps it
  there once a call failed to move it back or was killed, and `KeptServing` says that the
  container is made from another one only while a call rolls back. The theorem has any number
  of calls and kills, one call at a time.
* `ProxyReachesAll`: `RaiseInv` follows a deploy from the network it made sure of,
  `ApplyInv` Traefik's own container, `RemovalInv` says that what is being removed belongs
  to no environment any more.

`DataProofs`:

* `BackupsAreSound`, `RemoteRestoresAreProven`: with one writer per key (`OneWriter`) the
  file it opened holds its own bytes and no other's, and stays under the partial name until
  it commits (`NamedForKey`, `NotOpened`, `NotCommitted`, `HoldsOwn`).
* `CopiesStayWhole`, of `ImportsStayWhole` and `SourceStaysCopied`: `WipeInv`, `ArrivedInv`
  and `HelperInv` follow a copy through its stages, `ImageInv` what a lock's holder has
  listed; `SyncInv` says that what the walk has passed is as in the source but for
  what the services did, `OwnInv` that what they made is in no source and on no list.
* `CleanupTakesNoMore`, of `CleanupStaysSafe`, `RemovedComeBack` and `CeilingStaysKept`:
  `ChosenInv` and `ScanInv` say what stays true of what was chosen while others work: an
  image is old, a proven volume is empty until a container has it, a name stands for what the
  scan saw or for what a registry has. For the cache, `EvictInv` sums what an
  eviction has left, `HoursAreEnough` says that the whole hours the code hands to docker
  take enough.

Some hypotheses are the switches that are off in the runs as well, for the reasons given
under "Read or tried": `~Overlapping` in `BackupsAreSound`, `~Reusing` and `~Renaming` in
`CleanupTakesNoMore` and its parts, `~AtOnce` in `GoodConfigStays`,
`~LookFails` in `ProxyReachesAll`. With them on, TLC finds the properties violated.

The runs check several components side by side, and the theorems above are of the
components' specifications. That these follow from the run's is proved as well: a step of the
run is a step of one component and leaves the variables of the others alone (`LiveStep`,
`FeedsStep`, `DeploysStep`, `PipesStep`, `AgentStep`, `SafeStepData`, `SafeStepServices`),
and its initial states are among theirs. So there is one theorem about each such run as a
whole: `LiveStaysSafe`, `FeedsStaySound`, `DeploysStaySound`, `PipesStayWhole` with
`PipesEndInOrder`, `AgentStaysSafe`, `DataStaysSafe` and `ServicesStaySafe`; `CopiesStayWhole`, `CleanupTakesNoMore` and
`ProxyStaysKept` state one property of such a run. For `stack_ops` the specification of the
run is that of the module, with fairness. Of `LiveSpec` the cron jobs' part follows too
(`LiveSpecParts`); their theorems are in `CommandsProofs`.

Only model-checked:

* liveness and everything under fairness, which the prover does not reach; the safety
  that `RosterCatchesUp`, `CapFollowsBuilds` and `CommandReturns` state beside it is proved;
* what is about ENABLED in `ScreenshotsAreSound`: that the guards in `MayGoOn` are those of
  the steps that are enabled (in `CapturesEnd`), and that a page which is not done has a step
  (in `PageAnswers`). The other conjuncts, `EndsAreReached` and `WaitsEnd` among them, are
  proved;
* `RemovedStaysDown`, a leads-to; its safety is `RemovedForGood`, which is proved;
* the five properties that the code violates, which are counterexamples.

## Plan

The model and its proofs are complete as far as they were planned. What would come next is
a proof that does without `StackDeploysAlone`: it would need the first write of a deploy
under the lock, in the code.

## Not modelled

Parts of modelled components: what a build method does with a source and its cache;
archive formats, dump commands and bucket requests of backups; exports and the file
browser's calls, which only read or are single calls below `safepath`'s check; stopped
helpers and temporary directories in cleanup, which are taken by age alone; terminal
sessions and logs, which run one docker command and forward it; which addresses a
screenshot's egress lets through and where its credentials go; the other host
operations. Whole components: Railpack (text rewriting of a build plan), the inventory
(a report from listings), dormant calls (they answer Unimplemented) and the generated
protocol code.

The generated code alone (`gen/agent.pb.go`, `gen/agent_grpc.pb.go`) is 16,505 of the
35,480 lines that count as implementation. The map covers about a third of the other
19,000. Most of the rest turns docker's, the kernel's and git's output into records,
builds argument lists, and checks or rewrites text: it has no state of its own, and
the models take from it only what their properties tell apart.

Taken as given: docker, the kernel, TLS and the file system below atomic rename,
which are assumed to do what the code relies on; wording of messages; the scripts
that dismiss consent banners; the parse of host readings.
