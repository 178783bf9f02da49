------------------------------ MODULE PulledImages ------------------------------
(***************************************************************************)
(* Cleanup's scope of pulled images (internal/server/cleanup_images.go,    *)
(* cleanUnusedPulledImages): an image no container uses goes name by name, *)
(* if a registry has it under every name.  docker gives an image that was  *)
(* built here a digest too, so a name and a digest prove nothing: each is  *)
(* asked for.  Meanwhile deploys pull and start images, others build them  *)
(* on this host, and a registry's names move on.                           *)
(*                                                                         *)
(* An image is its content, and a registry has a content under a           *)
(* repository for good once it was pushed there.                           *)
(***************************************************************************)
EXTENDS Naturals, FiniteSets

CONSTANTS Layers,   \* images, by their content
          Names,    \* names with a tag, but those of buildToolingImages, which stay
          RepoOf,   \* the repository of each
          NoLayer,  \* no image
          Renaming  \* may a build here take a name that a cleanup is about to remove

Repos == {RepoOf[n] : n \in Names}

ASSUME PulledImagesAssumption ==
    /\ NoLayer \notin Layers /\ Renaming \in BOOLEAN

VARIABLES
    local,                  \* the image each name stands for here
    digests, tagAge,        \* of an image here: repositories in RepoDigests; LastTagTime
    inUse,                  \* images of containers
    upstream,               \* the image each name stands for in its registry
    pushed,                 \* what a registry has: pairs of a repository and an image
    built,                  \* images Deplo made, by their label or their name
    scan,                   \* the scope: idle, list, next, ask or remove
    indexed,                \* containerIndex.images
    names,                  \* snapshot: the names of each image picked for a look
    looking, ask, toRemove, \* the image at hand, what to ask a registry for, names to remove
    unrecoverable           \* history: names removed whose image was in no registry

hostImages == <<local, digests, tagAge, inUse>>
registry == <<upstream, pushed>>
scope == <<scan, indexed, names, looking, ask, toRemove>>
pulledVars == <<hostImages, registry, built, scope, unrecoverable>>

NamesOf(i) == {n \in Names : local[n] = i}
Questions == (Names \X {"tag"}) \cup (Repos \X {"digest"})

PulledInit ==
    /\ pushed \in SUBSET (Repos \X Layers)
    /\ upstream \in [Names -> Layers \cup {NoLayer}]
    /\ \A n \in Names : upstream[n] # NoLayer => <<RepoOf[n], upstream[n]>> \in pushed
    /\ built \in SUBSET {i \in Layers : \A r \in Repos : <<r, i>> \notin pushed}
    /\ local = [n \in Names |-> NoLayer] /\ digests = [i \in Layers |-> {}]
    /\ tagAge = [i \in Layers |-> "old"] /\ inUse = {}
    /\ scan = "idle" /\ indexed = {} /\ names = [i \in Layers |-> {}] /\ looking = NoLayer
    /\ ask = {} /\ toRemove = {} /\ unrecoverable = {}
-----------------------------------------------------------------------------
(* docker, the registries and those who use them.                          *)

Others == UNCHANGED <<built, scope, unrecoverable>>
Tagged(n, i) ==
    /\ local' = [local EXCEPT ![n] = i]
    /\ digests' = [digests EXCEPT ![i] = @ \cup {RepoOf[n]}] /\ tagAge' = [tagAge EXCEPT ![i] = "fresh"]
    /\ UNCHANGED inUse

PullImage(n) ==
    /\ upstream[n] # NoLayer /\ local[n] # upstream[n] /\ Tagged(n, upstream[n])
    /\ UNCHANGED registry /\ Others

\* docker build -t, by an operator or a deploy: nothing is pushed.
BuildHere(n, i) ==
    /\ local[n] # i /\ \A r \in Repos : <<r, i>> \notin pushed
    /\ Renaming \/ n \notin toRemove \cup UNION {names[j] : j \in Layers}
    /\ Tagged(n, i) /\ UNCHANGED registry /\ Others

\* A name of a registry moves to another image.
Publish(n, i) ==
    /\ i \notin built /\ upstream[n] # i /\ upstream' = [upstream EXCEPT ![n] = i]
    /\ pushed' = pushed \cup {<<RepoOf[n], i>>} /\ UNCHANGED hostImages /\ Others

StartImage(n) ==
    /\ local[n] # NoLayer /\ inUse' = {local[n]}
    /\ UNCHANGED <<local, digests, tagAge>> /\ UNCHANGED registry /\ Others

StopImages ==
    /\ inUse # {} /\ inUse' = {} /\ UNCHANGED <<local, digests, tagAge>> /\ UNCHANGED registry /\ Others

ImagesAge ==
    /\ scan = "idle" /\ tagAge' = [i \in Layers |-> "old"]
    /\ UNCHANGED <<local, digests, inUse>> /\ UNCHANGED registry /\ Others
-----------------------------------------------------------------------------
(* The scope.                                                              *)

ScopeOnly == UNCHANGED <<registry, built>>

\* The index of containers is built once per call, before.
BeginScan ==
    /\ scan = "idle" /\ scan' = "list" /\ indexed' = inUse
    /\ UNCHANGED <<hostImages, names, looking, ask, toRemove, unrecoverable>> /\ ScopeOnly

\* A name's repository is in no digest of the image.
NeverRemote(i) == \E n \in NamesOf(i) : RepoOf[n] \notin digests[i]

ListPulled ==
    /\ scan = "list" /\ scan' = "next"
    /\ names' = [i \in Layers |->
          IF i \in indexed \cup built \/ tagAge[i] # "old" \/ NeverRemote(i) THEN {} ELSE NamesOf(i)]
    /\ UNCHANGED <<hostImages, indexed, looking, ask, toRemove, unrecoverable>> /\ ScopeOnly

\* Bug: names that a registry has are enough.
ByName(ns) == ns \X {"tag"}
\* recoverableFromRegistry: each name, and the image itself in each repository.
Proofs(ns) == ns \X {"tag"} \cup {RepoOf[n] : n \in ns} \X {"digest"}

LookAtPulled(i) ==
    /\ scan = "next" /\ names[i] # {} /\ looking' = i /\ toRemove' = names[i]
    /\ names' = [names EXCEPT ![i] = {}] /\ scan' = "ask" /\ ask' = Proofs(names[i])
    /\ UNCHANGED <<hostImages, indexed, unrecoverable>> /\ ScopeOnly

\* docker manifest inspect.
RegistryHas(p) == IF p[2] = "tag" THEN upstream[p[1]] # NoLayer ELSE <<p[1], looking>> \in pushed

AskRegistry(p) ==
    /\ scan = "ask" /\ p \in ask
    /\ \/ /\ RegistryHas(p) /\ ask' = ask \ {p}
          /\ scan' = IF ask' = {} THEN "remove" ELSE "ask"
          /\ UNCHANGED toRemove
       \/ scan' = "next" /\ ask' = {} /\ toRemove' = {}
    /\ UNCHANGED <<hostImages, indexed, names, looking, unrecoverable>> /\ ScopeOnly

\* docker rmi of a name, whatever it stands for by now: refused if it is the last of
\* an image a container uses.  The digests of the name's repository go with it.
RemoveName(n) ==
    /\ scan = "remove" /\ n \in toRemove
    /\ \/ /\ local[n] # NoLayer /\ (local[n] \in inUse => NamesOf(local[n]) # {n})
          /\ local' = [local EXCEPT ![n] = NoLayer]
          /\ digests' = [digests EXCEPT ![local[n]] = {RepoOf[m] : m \in NamesOf(local[n]) \ {n}}]
          /\ unrecoverable' = unrecoverable \cup (IF <<RepoOf[n], local[n]>> \in pushed THEN {} ELSE {n})
          /\ toRemove' = toRemove \ {n} /\ scan' = IF toRemove' = {} THEN "next" ELSE "remove"
       \/ toRemove' = {} /\ scan' = "next" /\ UNCHANGED <<local, digests, unrecoverable>>
    /\ UNCHANGED <<tagAge, inUse, indexed, names, looking, ask>> /\ ScopeOnly

EndScan ==
    /\ scan = "next" /\ scan' = "idle"
    /\ names' = [i \in Layers |-> {}] /\ indexed' = {} /\ looking' = NoLayer
    /\ UNCHANGED <<hostImages, ask, toRemove, unrecoverable>> /\ ScopeOnly

PulledNext ==
    \/ \E n \in Names :
          \/ PullImage(n) \/ StartImage(n) \/ RemoveName(n)
          \/ \E i \in Layers : BuildHere(n, i) \/ Publish(n, i)
    \/ StopImages \/ ImagesAge \/ BeginScan \/ ListPulled \/ EndScan
    \/ (\E i \in Layers : LookAtPulled(i)) \/ \E p \in Questions : AskRegistry(p)

PulledSpec == PulledInit /\ [][PulledNext]_pulledVars
-----------------------------------------------------------------------------
PulledTypeOK ==
    /\ {local, upstream} \subseteq [Names -> Layers \cup {NoLayer}] /\ digests \in [Layers -> SUBSET Repos]
    /\ tagAge \in [Layers -> {"fresh", "old"}] /\ names \in [Layers -> SUBSET Names]
    /\ pushed \subseteq Repos \X Layers /\ {inUse, built, indexed} \subseteq SUBSET Layers
    /\ scan \in {"idle", "list", "next", "ask", "remove"} /\ looking \in Layers \cup {NoLayer}
    /\ ask \subseteq Questions /\ {toRemove, unrecoverable} \subseteq SUBSET Names

(* A name this scope removed stood for an image its registry still has, so *)
(* that it can be pulled again: never one that was built here, though it   *)
(* bears a registry's name and docker gave it a digest ("Docker's          *)
(* containerd store also assigns RepoDigests to local-only builds").       *)
PulledComeBack == unrecoverable = {}

=============================================================================
