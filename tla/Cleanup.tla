------------------------------ MODULE Cleanup ------------------------------
(***************************************************************************)
(* DockerCleanup (internal/server/cleanup.go and its scopes in             *)
(* cleanup_images.go, cleanup_volumes.go, cleanup_leftovers.go) while the  *)
(* apps it clears up after are deployed, stopped and deleted: old images   *)
(* of an app, empty volumes, the files of apps that are gone.  What it     *)
(* removes was chosen from a snapshot, and docker itself refuses to remove *)
(* what a container uses.                                                  *)
(*                                                                         *)
(* An age is fresh or old, on either side of the hour's grace.  A deploy   *)
(* brings its app up within that hour of building the image, and builds an *)
(* image that is new; a volume's container is not both made and removed    *)
(* while the volume is looked at.                                          *)
(***************************************************************************)
EXTENDS Naturals, FiniteSets

CONSTANTS Apps,     \* slugs
          Owner,    \* an app whose images are followed
          Images,   \* them, the later built the greater
          Keep,     \* how many of them the request keeps
          Reusing   \* may a new app have the slug of one whose files are left

ASSUME CleanupAssumption == Owner \in Apps /\ Images \in Nat /\ Keep \in Nat \ {0} /\ Reusing \in BOOLEAN

VARIABLES
    image, runs,      \* each image: absent, fresh or old; the images containers use
    deploying,        \* the image of a deploy that is built and not up, or 0
    volume,           \* a named volume: absent, empty or full
    mounted, mounts,  \* a container has it; since the volume was looked at
    app, files,       \* apps there are; each files directory: none, fresh or old
    cleaning,         \* a cleanup runs
    live,             \* the slugs the control plane sent with it
    index,            \* containerIndex: images and volume in use when it was built, or none yet
    chosen,           \* images picked from the list, directories looked at, the volume proven
    lostData          \* a volume was removed with data in it

apps == <<image, runs, deploying, volume, mounted, mounts, app, files>>
cleanup == <<cleaning, live, index, chosen>>
cleanupVars == <<apps, cleanup, lostData>>

NoIndex == [built |-> FALSE, images |-> {}, volume |-> FALSE]
NothingChosen == [images |-> {}, dirs |-> {}, volume |-> FALSE]

CleanupInit ==
    /\ image \in [1..Images -> {"absent", "old"}] /\ runs \in SUBSET (1..Images)
    /\ \A i \in runs : image[i] = "old"
    /\ deploying = 0
    /\ volume \in {"absent", "empty", "full"} /\ mounted = FALSE /\ mounts = 0
    /\ app \in SUBSET Apps /\ files \in [Apps -> {"none", "old"}]
    /\ \A a \in app : files[a] = "old"
    /\ cleaning = FALSE /\ live = {} /\ index = NoIndex /\ chosen = NothingChosen
    /\ lostData = FALSE
-----------------------------------------------------------------------------
(* The apps.                                                               *)

AppsOnly == UNCHANGED <<cleanup, lostData>>

BuildImage(i) ==
    /\ deploying = 0 /\ Owner \in app /\ image[i] = "absent" /\ \A j \in i..Images : image[j] = "absent"
    /\ deploying' = i /\ image' = [image EXCEPT ![i] = "fresh"]
    /\ UNCHANGED <<runs, volume, mounted, mounts, app, files>> /\ AppsOnly

\* compose up replaces the container.
DeployUp ==
    /\ deploying # 0
    /\ runs' = IF image[deploying] = "absent" THEN runs ELSE {deploying}
    /\ deploying' = 0
    /\ UNCHANGED <<image, volume, mounted, mounts, app, files>> /\ AppsOnly

RemoveContainers ==
    /\ runs # {} /\ runs' = {}
    /\ UNCHANGED <<image, deploying, volume, mounted, mounts, app, files>> /\ AppsOnly

MountVolume ==
    /\ ~mounted /\ (chosen.volume => mounts = 0)
    /\ mounted' = TRUE /\ mounts' = IF chosen.volume THEN 1 ELSE 0
    /\ volume' = IF volume = "absent" THEN "empty" ELSE volume
    /\ UNCHANGED <<image, runs, deploying, app, files>> /\ AppsOnly

FillVolume ==
    /\ mounted /\ volume' = "full"
    /\ UNCHANGED <<image, runs, deploying, mounted, mounts, app, files>> /\ AppsOnly

UnmountVolume ==
    /\ mounted /\ mounts = 0 /\ mounted' = FALSE
    /\ UNCHANGED <<image, runs, deploying, volume, mounts, app, files>> /\ AppsOnly

\* An app is made and its files are written, or it is deleted and some are left.
MakeApp(a) ==
    /\ a \notin app /\ (Reusing \/ files[a] = "none")
    /\ app' = app \cup {a}
    /\ files' = [files EXCEPT ![a] = "fresh"]
    /\ UNCHANGED <<image, runs, deploying, volume, mounted, mounts>> /\ AppsOnly

DeleteApp(a) ==
    /\ a \in app /\ (a = Owner => deploying = 0)
    /\ app' = app \ {a}
    /\ files' \in {files, [files EXCEPT ![a] = "none"]}
    /\ UNCHANGED <<image, runs, deploying, volume, mounted, mounts>> /\ AppsOnly

\* Not what a deploy has just built or a running cleanup's list cannot know.
AnHour ==
    /\ image' = [i \in 1..Images |-> IF image[i] = "fresh" /\ i # deploying THEN "old" ELSE image[i]]
    /\ files' = [a \in Apps |-> IF files[a] = "fresh" /\ ~(cleaning /\ a \in app \ live) THEN "old" ELSE files[a]]
    /\ UNCHANGED <<runs, deploying, volume, mounted, mounts, app>> /\ AppsOnly
-----------------------------------------------------------------------------
(* DockerCleanup.                                                          *)

CleanupOnly == UNCHANGED <<runs, deploying, mounted, app>>

BeginCleanup ==
    /\ ~cleaning /\ cleaning' = TRUE /\ live' = app
    /\ UNCHANGED <<image, volume, mounts, files, index, chosen, lostData>> /\ CleanupOnly

\* buildContainerIndex, once per call; a scope that needs it is skipped if it fails.
BuildIndex ==
    /\ cleaning /\ ~index.built
    /\ index' = [built |-> TRUE, images |-> runs, volume |-> mounted]
    /\ UNCHANGED <<image, volume, mounts, files, cleaning, live, chosen, lostData>> /\ CleanupOnly

\* Bug: an image is superseded as soon as a newer one is there.
AnyAge(a) == TRUE
\* olderThan(appImageCutoff), and the same of a directory.
PastGrace(a) == a = "old"

\* Of an app that is not in the list none is kept.
KeepImagesFor(a) == IF live # {} /\ a \notin live THEN 0 ELSE Keep

Newer(i) == {j \in i + 1 .. Images : image[j] # "absent"}

ListImages ==
    /\ cleaning /\ index.built
    /\ chosen' = [chosen EXCEPT !.images =
          {i \in 1..Images : /\ image[i] # "absent" /\ PastGrace(image[i])
                             /\ Cardinality(Newer(i)) >= KeepImagesFor(Owner) /\ i \notin index.images}]
    /\ UNCHANGED <<image, volume, mounts, files, cleaning, live, index, lostData>> /\ CleanupOnly

\* docker rmi, refused while a container uses it.
RemoveImage(i) ==
    /\ i \in chosen.images
    /\ chosen' = [chosen EXCEPT !.images = @ \ {i}]
    /\ \/ UNCHANGED image
       \/ i \notin runs /\ image' = [image EXCEPT ![i] = "absent"]
    /\ UNCHANGED <<volume, mounts, files, cleaning, live, index, lostData>> /\ CleanupOnly

\* isEmptyDir.
Proof == volume = "empty"

\* volume ls --filter dangling, inspect and the proof.
ProveVolume ==
    /\ cleaning /\ index.built /\ ~chosen.volume
    /\ volume # "absent" /\ ~mounted /\ ~index.volume /\ Proof
    /\ chosen' = [chosen EXCEPT !.volume = TRUE] /\ mounts' = 0
    /\ UNCHANGED <<image, volume, files, cleaning, live, index, lostData>> /\ CleanupOnly

\* docker volume rm, refused while a container has it.
RemoveVolume ==
    /\ chosen.volume
    /\ chosen' = [chosen EXCEPT !.volume = FALSE] /\ mounts' = 0
    /\ \/ UNCHANGED <<volume, lostData>>
       \/ ~mounted /\ volume' = "absent" /\ lostData' = (lostData \/ volume = "full")
    /\ UNCHANGED <<image, files, cleaning, live, index>> /\ CleanupOnly

\* cleanLeftoverAppFiles does nothing without a list of live apps.
LookAtFiles(a) ==
    /\ cleaning /\ live # {} /\ a \notin live
    /\ files[a] # "none" /\ PastGrace(files[a])
    /\ chosen' = [chosen EXCEPT !.dirs = @ \cup {a}]
    /\ UNCHANGED <<image, volume, mounts, files, cleaning, live, index, lostData>> /\ CleanupOnly

RemoveFiles(a) ==
    /\ a \in chosen.dirs
    /\ chosen' = [chosen EXCEPT !.dirs = @ \ {a}]
    /\ files' \in {files, [files EXCEPT ![a] = "none"]}
    /\ UNCHANGED <<image, volume, mounts, cleaning, live, index, lostData>> /\ CleanupOnly

EndCleanup ==
    /\ cleaning /\ cleaning' = FALSE /\ live' = {} /\ index' = NoIndex /\ chosen' = NothingChosen
    /\ mounts' = 0
    /\ UNCHANGED <<image, volume, files, lostData>> /\ CleanupOnly

CleanupNext ==
    \/ \E i \in 1..Images : BuildImage(i) \/ RemoveImage(i)
    \/ \E a \in Apps : MakeApp(a) \/ DeleteApp(a) \/ LookAtFiles(a) \/ RemoveFiles(a)
    \/ DeployUp \/ RemoveContainers \/ MountVolume \/ FillVolume \/ UnmountVolume \/ AnHour
    \/ BeginCleanup \/ BuildIndex \/ ListImages \/ ProveVolume \/ RemoveVolume \/ EndCleanup

CleanupSpec == CleanupInit /\ [][CleanupNext]_cleanupVars
-----------------------------------------------------------------------------
(* A cleanup takes nothing anybody needs, though it decides on a snapshot: *)
(* not the image of a deploy that has built it and not started it yet, not *)
(* a volume with data, not the files of an app made since the control      *)
(* plane wrote its list ("so a stack being written right now is never a    *)
(* candidate").                                                            *)
CleanupLosesNothing ==
    /\ deploying # 0 => image[deploying] # "absent"
    /\ ~lostData
    /\ \A a \in app : files[a] # "none"

=============================================================================
