----------------------------- MODULE AgentProofs -----------------------------
(***************************************************************************)
(* Proofs about AgentLink and AgentLifecycle.  For any set of addresses    *)
(* and pairs, any number of StopListening calls and any bound on the       *)
(* starts, the agent never loses its last way in, and closing the port     *)
(* neither is forgotten nor ends the agent; for any sets of handlers and   *)
(* versions, an uninstalled agent has nothing left to start it, and no     *)
(* start runs an older version.  At the end, both as MCAgent runs them.    *)
(***************************************************************************)
EXTENDS MCAgent, TLAPS

USE DEF process, flags, store, dialer, listener

\* What is on disk is what the process dials.
SavedIsUsed == starts > 0 => saved = pair
UpHasStarted == Up => starts > 0

\* Run only has a link, or a call at work that came over one, with an address
\* to dial; and an address never goes away.
LinkedHasAddress ==
    run \in {"primary", "fallback", "offer", "linked"} => pair.primary # NoAddress /\ Up
CallHasAddress == \A c \in Calls : pc[c] # "idle" => starts > 0 /\ pair.primary # NoAddress
ClosedHasAddress == noListener => starts > 0 /\ saved.primary # NoAddress

\* An agent without --addr was installed with an address.
InstalledWithAddress == addr \/ saved.primary # NoAddress \/ installUrl # NoAddress

WayInInv ==
    /\ SavedIsUsed /\ UpHasStarted /\ LinkedHasAddress /\ CallHasAddress
    /\ ClosedHasAddress /\ InstalledWithAddress /\ WayIn

\* How far a Port.Stop has come.
StopsInOrder ==
    \A c \in Calls :
        /\ pc[c] = "mark" => noListener
        /\ pc[c] = "close" => stopped
ClosedIsStopped == port = "closed" => stopped

PortInv == StopIsRemembered /\ ClosingKeepsServing /\ StopsInOrder /\ ClosedIsStopped

(* Every pair there is can be stored: the empty one, those the panel sends, *)
(* and the one made of an install URL (NewStore, linkAddresses).            *)
LEMMA StoredPairs ==
    /\ NoPair \in Stored
    /\ Pairs \subseteq Stored
    /\ \A url \in Addresses \cup {NoAddress} : [NoPair EXCEPT !.primary = url] \in Stored
    /\ \A p \in Stored : {p.primary, p.fallback} \subseteq Addresses \cup {NoAddress}
<1>1. Pairs \subseteq Stored
  BY AgentLinkAssumption DEF Stored
<1>2. \A p \in Stored : {p.primary, p.fallback} \subseteq Addresses \cup {NoAddress}
  BY DEF Stored
<1>3. /\ NoPair \in Stored
      /\ \A url \in Addresses \cup {NoAddress} : [NoPair EXCEPT !.primary = url] \in Stored
  BY DEF Stored, NoPair
<1> QED
  BY <1>1, <1>2, <1>3

(* The processes, the files, the dialer and the calls have their types.     *)
THEOREM LinkTypeCorrect == Spec => []TypeOK
<1> USE DEF TypeOK
<1>1. Init => TypeOK
  <2> SUFFICES ASSUME Init PROVE TypeOK
    OBVIOUS
  <2>1. saved \in Stored /\ pair \in Stored /\ seen \in Stored
    BY StoredPairs DEF Init
  <2>2. /\ signalled \in BOOLEAN /\ addr \in BOOLEAN
        /\ noListener \in BOOLEAN /\ replaced \in BOOLEAN /\ stopped \in BOOLEAN
    BY DEF Init
  <2> QED
    BY <2>1, <2>2, AgentLinkAssumption DEF Init
<1>2. TypeOK /\ [Next]_vars => TypeOK'
  <2> SUFFICES ASSUME TypeOK, [Next]_vars PROVE TypeOK'
    OBVIOUS
  <2> USE AgentLinkAssumption DEF vars
  <2>1. CASE Start
    <3>1. saved' \in Stored /\ pair' \in Stored /\ seen' \in Stored
      BY <2>1, StoredPairs DEF Start
    <3>2. /\ signalled' \in BOOLEAN /\ addr' \in BOOLEAN /\ noListener' \in BOOLEAN
          /\ replaced' \in BOOLEAN /\ stopped' \in BOOLEAN
          /\ pc' \in [Calls -> {"idle", "asked", "stop", "mark", "close"}]
      BY <2>1 DEF Start
    <3>3. /\ starts' \in 0..MaxStarts /\ backoff' \in 0..MaxBackoff
          /\ installUrl' = installUrl /\ at' = NoAddress /\ mu' = Free
          /\ accept' = "accepting"
      BY <2>1 DEF Start
    <3>4. /\ life' \in {"serving", "down"} /\ run' \in {"look", "returned"}
          /\ port' \in {"open", "none"}
      BY <2>1 DEF Start
    <3> QED
      BY <3>1, <3>2, <3>3, <3>4
  <2>2. CASE Crash
    BY <2>2 DEF Crash, Ends
  <2>3. CASE Signal
    BY <2>3 DEF Signal
  <2>4. CASE CloseLink
    BY <2>4 DEF CloseLink
  <2>5. CASE Unlinked
    BY <2>5 DEF Unlinked
  <2>6. CASE Drained
    BY <2>6 DEF Drained, Ends
  <2>7. CASE ServeFails
    BY <2>7 DEF ServeFails, Ends
  <2>8. CASE Look
    <3>1. /\ seen' \in Stored /\ at' \in Addresses \cup {NoAddress}
          /\ run' \in {"arm", "primary"}
      BY <2>8, StoredPairs DEF Look, RunGoes
    <3>2. replaced' \in BOOLEAN
      BY <2>8 DEF Look
    <3>3. UNCHANGED <<process, flags, store, listener, backoff>>
      BY <2>8 DEF Look, RunGoes
    <3> QED
      BY <3>1, <3>2, <3>3
  <2>9. CASE Dial
    BY <2>9, StoredPairs DEF Dial, RunGoes, HasFallback
  <2>10. CASE Offer
    BY <2>10 DEF Offer, RunGoes
  <2>11. CASE Arm
    BY <2>11 DEF Arm, RunGoes
  <2>12. CASE WaitReplaced
    BY <2>12 DEF WaitReplaced, RunGoes
  <2>13. CASE WaitOver
    BY <2>13 DEF WaitOver, RunGoes, Doubled
  <2>14. CASE WaitStopped
    BY <2>14 DEF WaitStopped, RunGoes
  <2>15. CASE LinkEnds
    BY <2>15 DEF LinkEnds, RunGoes
  <2>16. ASSUME NEW p \in Pairs, SetLinkAddresses(p) PROVE TypeOK'
    BY <2>16, StoredPairs DEF SetLinkAddresses, ReplacedNow
  <2>17. ASSUME NEW c \in Calls, StopListening(c) PROVE TypeOK'
    BY <2>17 DEF StopListening, OverLink, Goes
  <2>18. ASSUME NEW c \in Calls, AskListening(c) PROVE TypeOK'
    BY <2>18 DEF AskListening, Goes
  <2>19. ASSUME NEW c \in Calls, Stop(c) PROVE TypeOK'
    <3>1. noListener' \in BOOLEAN
      BY <2>19 DEF Stop, Remembered
    <3>2. /\ mu' \in Calls \cup {Free}
          /\ pc' \in [Calls -> {"idle", "asked", "stop", "mark", "close"}]
      BY <2>19 DEF Stop, Goes
    <3> QED
      BY <2>19, <3>1, <3>2 DEF Stop
  <2>20. ASSUME NEW c \in Calls, Mark(c) PROVE TypeOK'
    BY <2>20 DEF Mark, Goes
  <2>21. ASSUME NEW c \in Calls, ClosePort(c) PROVE TypeOK'
    BY <2>21 DEF ClosePort, Goes
  <2>22. CASE AcceptFails
    BY <2>22 DEF AcceptFails
  <2>23. CASE UNCHANGED vars
    BY <2>23
  <2> QED
    BY <2>1, <2>2, <2>3, <2>4, <2>5, <2>6, <2>7, <2>8, <2>9, <2>10, <2>11, <2>12,
       <2>13, <2>14, <2>15, <2>16, <2>17, <2>18, <2>19, <2>20, <2>21, <2>22, <2>23 DEF Next, MainSteps, RunSteps
<1> QED
  BY <1>1, <1>2, PTL DEF Spec

(* An agent whose port is closed for good, or that has none, keeps an       *)
(* address to link to, on disk and in memory, whatever calls, replacements, *)
(* crashes and restarts come (StopListening, main).                         *)
THEOREM AlwaysAWayIn == Spec => []WayIn
<1> USE DEF WayInInv, SavedIsUsed, UpHasStarted, LinkedHasAddress, CallHasAddress,
           ClosedHasAddress, InstalledWithAddress, WayIn, Up
<1>1. Init => WayInInv
  BY AgentLinkAssumption DEF Init, NoPair
<1>2. TypeOK /\ WayInInv /\ [Next]_vars => WayInInv'
  <2> SUFFICES ASSUME TypeOK, WayInInv, [Next]_vars PROVE WayInInv'
    OBVIOUS
  <2> USE AgentLinkAssumption DEF vars, TypeOK
  <2>1. CASE Start
    BY <2>1 DEF Start, NoPair
  <2>2. CASE Crash
    BY <2>2 DEF Crash, Ends
  <2>3. CASE Signal
    BY <2>3 DEF Signal
  <2>4. CASE CloseLink
    BY <2>4 DEF CloseLink
  <2>5. CASE Unlinked
    BY <2>5 DEF Unlinked
  <2>6. CASE Drained
    BY <2>6 DEF Drained, Ends
  <2>7. CASE ServeFails
    BY <2>7 DEF ServeFails, Ends
  <2>8. CASE Look
    BY <2>8 DEF Look, RunGoes
  <2>9. CASE Dial
    BY <2>9 DEF Dial, RunGoes, HasFallback
  <2>10. CASE Offer
    BY <2>10 DEF Offer, RunGoes
  <2>11. CASE Arm
    BY <2>11 DEF Arm, RunGoes
  <2>12. CASE WaitReplaced
    BY <2>12 DEF WaitReplaced, RunGoes
  <2>13. CASE WaitOver
    BY <2>13 DEF WaitOver, RunGoes, Doubled
  <2>14. CASE WaitStopped
    BY <2>14 DEF WaitStopped, RunGoes
  <2>15. CASE LinkEnds
    BY <2>15 DEF LinkEnds, RunGoes
  <2>16. ASSUME NEW p \in Pairs, SetLinkAddresses(p) PROVE WayInInv'
    BY <2>16 DEF SetLinkAddresses, ReplacedNow
  <2>17. ASSUME NEW c \in Calls, StopListening(c) PROVE WayInInv'
    BY <2>17 DEF StopListening, OverLink, Goes
  <2>18. ASSUME NEW c \in Calls, AskListening(c) PROVE WayInInv'
    BY <2>18 DEF AskListening, Goes
  <2>19. ASSUME NEW c \in Calls, Stop(c) PROVE WayInInv'
    BY <2>19 DEF Stop, Goes, Remembered
  <2>20. ASSUME NEW c \in Calls, Mark(c) PROVE WayInInv'
    BY <2>20 DEF Mark, Goes
  <2>21. ASSUME NEW c \in Calls, ClosePort(c) PROVE WayInInv'
    BY <2>21 DEF ClosePort, Goes
  <2>22. CASE AcceptFails
    BY <2>22 DEF AcceptFails
  <2>23. CASE UNCHANGED vars
    BY <2>23
  <2> QED
    BY <2>1, <2>2, <2>3, <2>4, <2>5, <2>6, <2>7, <2>8, <2>9, <2>10, <2>11, <2>12,
       <2>13, <2>14, <2>15, <2>16, <2>17, <2>18, <2>19, <2>20, <2>21, <2>22, <2>23 DEF Next, MainSteps, RunSteps
<1> QED
  BY <1>1, <1>2, LinkTypeCorrect, PTL DEF Spec

(* A stopped port is on disk before it counts as stopped, and the Accept    *)
(* loop that fails because of it never ends the agent (Port.Stop, Accept).  *)
THEOREM StopIsSafe == Spec => [](StopIsRemembered /\ ClosingKeepsServing)
<1> USE DEF PortInv, StopIsRemembered, ClosingKeepsServing, StopsInOrder, ClosedIsStopped
<1>1. Init => PortInv
  BY AgentLinkAssumption DEF Init
<1>2. TypeOK /\ PortInv /\ [Next]_vars => PortInv'
  <2> SUFFICES ASSUME TypeOK, PortInv, [Next]_vars PROVE PortInv'
    OBVIOUS
  <2> USE AgentLinkAssumption DEF vars, TypeOK
  <2>1. CASE Start
    BY <2>1 DEF Start, NoPair
  <2>2. CASE Crash
    BY <2>2 DEF Crash, Ends
  <2>3. CASE Signal
    BY <2>3 DEF Signal
  <2>4. CASE CloseLink
    BY <2>4 DEF CloseLink
  <2>5. CASE Unlinked
    BY <2>5 DEF Unlinked
  <2>6. CASE Drained
    BY <2>6 DEF Drained, Ends
  <2>7. CASE ServeFails
    BY <2>7 DEF ServeFails, Ends
  <2>8. CASE Look
    BY <2>8 DEF Look, RunGoes
  <2>9. CASE Dial
    BY <2>9 DEF Dial, RunGoes, HasFallback
  <2>10. CASE Offer
    BY <2>10 DEF Offer, RunGoes
  <2>11. CASE Arm
    BY <2>11 DEF Arm, RunGoes
  <2>12. CASE WaitReplaced
    BY <2>12 DEF WaitReplaced, RunGoes
  <2>13. CASE WaitOver
    BY <2>13 DEF WaitOver, RunGoes, Doubled
  <2>14. CASE WaitStopped
    BY <2>14 DEF WaitStopped, RunGoes
  <2>15. CASE LinkEnds
    BY <2>15 DEF LinkEnds, RunGoes
  <2>16. ASSUME NEW p \in Pairs, SetLinkAddresses(p) PROVE PortInv'
    BY <2>16 DEF SetLinkAddresses, ReplacedNow
  <2>17. ASSUME NEW c \in Calls, StopListening(c) PROVE PortInv'
    BY <2>17 DEF StopListening, OverLink, Goes
  <2>18. ASSUME NEW c \in Calls, AskListening(c) PROVE PortInv'
    BY <2>18 DEF AskListening, Goes
  <2>19. ASSUME NEW c \in Calls, Stop(c) PROVE PortInv'
    BY <2>19 DEF Stop, Goes, Remembered
  <2>20. ASSUME NEW c \in Calls, Mark(c) PROVE PortInv'
    BY <2>20 DEF Mark, Goes
  <2>21. ASSUME NEW c \in Calls, ClosePort(c) PROVE PortInv'
    BY <2>21 DEF ClosePort, Goes
  <2>22. CASE AcceptFails
    BY <2>22 DEF AcceptFails, Parks, Listening
  <2>23. CASE UNCHANGED vars
    BY <2>23
  <2> QED
    BY <2>1, <2>2, <2>3, <2>4, <2>5, <2>6, <2>7, <2>8, <2>9, <2>10, <2>11, <2>12,
       <2>13, <2>14, <2>15, <2>16, <2>17, <2>18, <2>19, <2>20, <2>21, <2>22, <2>23 DEF Next, MainSteps, RunSteps
<1> QED
  BY <1>1, <1>2, LinkTypeCorrect, PTL DEF Spec
-----------------------------------------------------------------------------
(* The binary.                                                             *)

\* What a process leaves behind when it ends: nothing.
NothingOutlives == ~running => \A c \in Updates \cup Uninstalls : phase[c] = "idle"

\* The file and what may still be renamed over it do not rank below the process
\* that runs, or below the last one while none does.
NotOutranked ==
    /\ exe # NoBinary => ~VersionNewer(version, exe)
    /\ \A c \in Updates :
          phase[c] \in {"staging", "replace"} => ~VersionNewer(version, want[c])

\* An uninstall past a removal has removed it, and nothing puts it back.
RemovalsAreDone ==
    \A c \in Uninstalls :
        /\ phase[c] \in {"dir", "exe", "reload"} => ~unit
        /\ phase[c] \in {"exe", "reload"} => ~agentDir

LifeInv == NothingOutlives /\ NotOutranked
RemovalInv == RemovalsAreDone /\ RemovedForGood

HIDE DEF process, flags, store, dialer, listener
USE DEF disk, incarnation, timers, lifecycleVars

(* The state of every handler, the files and the process have their types. *)
THEOREM LifecycleTypeCorrect == LifecycleSpec => []LifecycleTypeOK
<1>1. LifecycleInit => LifecycleTypeOK
  <2> SUFFICES ASSUME LifecycleInit PROVE LifecycleTypeOK
    OBVIOUS
  <2>1. lives \in 0..MaxLives
    BY AgentLifecycleAssumption DEF LifecycleInit
  <2> QED
    BY <2>1 DEF LifecycleInit, LifecycleTypeOK
<1>2. LifecycleTypeOK /\ [LifecycleNext]_lifecycleVars => LifecycleTypeOK'
  <2> SUFFICES ASSUME LifecycleTypeOK, [LifecycleNext]_lifecycleVars PROVE LifecycleTypeOK'
    OBVIOUS
  <2> USE AgentLifecycleAssumption DEF LifecycleTypeOK, At, GoTo
  <2>1. ASSUME NEW c \in Updates, NEW v \in Versions, SelfUpdate(c, v) PROVE LifecycleTypeOK'
    BY <2>1 DEF SelfUpdate
  <2>2. ASSUME NEW c \in Updates, Stage(c) PROVE LifecycleTypeOK'
    BY <2>2 DEF Stage
  <2>3. ASSUME NEW c \in Updates, Replace(c) PROVE LifecycleTypeOK'
    BY <2>3 DEF Replace
  <2>4. ASSUME NEW c \in Updates, Reexec(c) PROVE LifecycleTypeOK'
    <3>1. UNCHANGED <<disk, want, removed>>
      BY <2>4 DEF Reexec
    <3>2. CASE reexec' = reexec \ {c} /\ UNCHANGED <<incarnation, phase, exit>>
      BY <3>1, <3>2
    <3>3. CASE /\ HasBinary /\ lives < MaxLives /\ ProcessEnds
               /\ running' = StartsServing /\ version' = exe /\ lives' = lives + 1
      <4>1. version' \in Versions /\ lives' \in 0..MaxLives
        BY <3>3 DEF HasBinary
      <4>2. running' \in BOOLEAN /\ exit' \in BOOLEAN
        BY <3>3 DEF StartsServing, ProcessEnds
      <4>3. reexec' \subseteq Updates
        BY <3>3 DEF ProcessEnds
      <4>4. phase' \in [Updates \cup Uninstalls ->
                      {"idle", "staging", "replace", "disable", "dir", "exe", "reload"}]
        BY <3>3 DEF ProcessEnds
      <4> QED
        BY <3>1, <4>1, <4>2, <4>3, <4>4
    <3> QED
      BY <2>4, <3>2, <3>3 DEF Reexec
  <2>5. ASSUME NEW c \in Uninstalls, SelfUninstall(c) PROVE LifecycleTypeOK'
    BY <2>5 DEF SelfUninstall
  <2>6. ASSUME NEW c \in Uninstalls, RemoveUnit(c) PROVE LifecycleTypeOK'
    BY <2>6 DEF RemoveUnit, Fails, UnitAfterRemoval
  <2>7. ASSUME NEW c \in Uninstalls, RemoveDir(c) PROVE LifecycleTypeOK'
    BY <2>7 DEF RemoveDir, Fails, DirAfterRemoval
  <2>8. ASSUME NEW c \in Uninstalls, RemoveExe(c) PROVE LifecycleTypeOK'
    BY <2>8 DEF RemoveExe, Fails
  <2>9. ASSUME NEW c \in Uninstalls, Reload(c) PROVE LifecycleTypeOK'
    BY <2>9 DEF Reload
  <2>10. CASE Exit
    BY <2>10 DEF Exit, ProcessEnds
  <2>11. CASE ProcessCrashes
    BY <2>11 DEF ProcessCrashes, ProcessEnds
  <2>12. CASE ProcessStarts
    BY <2>12 DEF ProcessStarts, HasBinary, StartsServing
  <2>13. CASE UNCHANGED lifecycleVars
    BY <2>13
  <2> QED
    BY <2>1, <2>2, <2>3, <2>4, <2>5, <2>6, <2>7, <2>8, <2>9, <2>10, <2>11, <2>12, <2>13
       DEF LifecycleNext
<1> QED
  BY <1>1, <1>2, PTL DEF LifecycleSpec

\* A version does not outrank itself.
LEMMA NotNewerThanItself == \A v \in Versions : ~VersionNewer(v, v)
  BY AgentLifecycleAssumption DEF VersionNewer

(* A process leaves no handler behind, and neither the file nor what the    *)
(* handlers may rename over it ranks below the version that runs.           *)
THEOREM NothingOlderWaits == LifecycleSpec => []LifeInv
<1> USE DEF LifeInv, NothingOutlives, NotOutranked
<1>1. LifecycleInit => LifeInv
  BY NotNewerThanItself DEF LifecycleInit
<1>2. LifecycleTypeOK /\ LifeInv /\ [LifecycleNext]_lifecycleVars => LifeInv'
  <2> SUFFICES ASSUME LifecycleTypeOK, LifeInv, [LifecycleNext]_lifecycleVars PROVE LifeInv'
    OBVIOUS
  <2> USE AgentLifecycleAssumption DEF LifecycleTypeOK, At, GoTo
  <2>1. ASSUME NEW c \in Updates, NEW v \in Versions, SelfUpdate(c, v) PROVE LifeInv'
    BY <2>1 DEF SelfUpdate
  <2>2. ASSUME NEW c \in Updates, Stage(c) PROVE LifeInv'
    BY <2>2 DEF Stage
  <2>3. ASSUME NEW c \in Updates, Replace(c) PROVE LifeInv'
    BY <2>3 DEF Replace
  <2>4. ASSUME NEW c \in Updates, Reexec(c) PROVE LifeInv'
    BY <2>4, NotNewerThanItself DEF Reexec, ProcessEnds, HasBinary
  <2>5. ASSUME NEW c \in Uninstalls, SelfUninstall(c) PROVE LifeInv'
    BY <2>5 DEF SelfUninstall
  <2>6. ASSUME NEW c \in Uninstalls, RemoveUnit(c) PROVE LifeInv'
    BY <2>6 DEF RemoveUnit, Fails
  <2>7. ASSUME NEW c \in Uninstalls, RemoveDir(c) PROVE LifeInv'
    BY <2>7 DEF RemoveDir, Fails
  <2>8. ASSUME NEW c \in Uninstalls, RemoveExe(c) PROVE LifeInv'
    BY <2>8 DEF RemoveExe, Fails
  <2>9. ASSUME NEW c \in Uninstalls, Reload(c) PROVE LifeInv'
    BY <2>9 DEF Reload
  <2>10. CASE Exit
    BY <2>10 DEF Exit, ProcessEnds
  <2>11. CASE ProcessCrashes
    BY <2>11 DEF ProcessCrashes, ProcessEnds
  <2>12. CASE ProcessStarts
    BY <2>12, NotNewerThanItself DEF ProcessStarts, HasBinary
  <2>13. CASE UNCHANGED lifecycleVars
    BY <2>13
  <2> QED
    BY <2>1, <2>2, <2>3, <2>4, <2>5, <2>6, <2>7, <2>8, <2>9, <2>10, <2>11, <2>12, <2>13
       DEF LifecycleNext
<1> QED
  BY <1>1, <1>2, LifecycleTypeCorrect, PTL DEF LifecycleSpec

(* No start of the agent runs a version that the one before it outranked,  *)
(* whatever updates, crashes and restarts came between (applyUpdate).      *)
THEOREM UpdatesNeverDowngrade == LifecycleSpec => NeverDowngrades
<1>1. LifecycleTypeOK /\ LifeInv /\ [LifecycleNext]_lifecycleVars => [version' # Dev => version' >= version]_lifecycleVars
  <2> SUFFICES ASSUME LifecycleTypeOK, LifeInv, LifecycleNext PROVE version' # Dev => version' >= version
    OBVIOUS
  <2> USE AgentLifecycleAssumption DEF LifecycleTypeOK
  <2>1. CASE version' = version
    BY <2>1
  <2>2. CASE version' = exe /\ HasBinary
    BY <2>2 DEF LifeInv, NotOutranked, HasBinary, VersionNewer, Dev
  <2>3. version' = version \/ (version' = exe /\ HasBinary)
    BY DEF LifecycleNext, SelfUpdate, Stage, Replace, Reexec, SelfUninstall, RemoveUnit, RemoveDir,
           RemoveExe, Reload, Exit, ProcessCrashes, ProcessStarts
  <2> QED
    BY <2>1, <2>2, <2>3
<1> QED
  BY <1>1, LifecycleTypeCorrect, NothingOlderWaits, PTL DEF LifecycleSpec, NeverDowngrades

(* Once an uninstall has answered, the unit and the mTLS materials are gone *)
(* for good: its removals come in that order, each ends the call when it    *)
(* fails, and no other handler makes either again (applyUninstall).         *)
THEOREM UninstallIsForGood == LifecycleSpec => []RemovedForGood
<1> USE DEF RemovalInv, RemovalsAreDone, RemovedForGood
<1>1. LifecycleInit => RemovalInv
  BY DEF LifecycleInit
<1>2. LifecycleTypeOK /\ RemovalInv /\ [LifecycleNext]_lifecycleVars => RemovalInv'
  <2> SUFFICES ASSUME LifecycleTypeOK, RemovalInv, [LifecycleNext]_lifecycleVars PROVE RemovalInv'
    OBVIOUS
  <2> USE AgentLifecycleAssumption DEF LifecycleTypeOK, At, GoTo
  <2>1. ASSUME NEW c \in Updates, NEW v \in Versions, SelfUpdate(c, v) PROVE RemovalInv'
    BY <2>1 DEF SelfUpdate
  <2>2. ASSUME NEW c \in Updates, Stage(c) PROVE RemovalInv'
    BY <2>2 DEF Stage
  <2>3. ASSUME NEW c \in Updates, Replace(c) PROVE RemovalInv'
    BY <2>3 DEF Replace
  <2>4. ASSUME NEW c \in Updates, Reexec(c) PROVE RemovalInv'
    BY <2>4 DEF Reexec, ProcessEnds
  <2>5. ASSUME NEW c \in Uninstalls, SelfUninstall(c) PROVE RemovalInv'
    BY <2>5 DEF SelfUninstall
  <2>6. ASSUME NEW c \in Uninstalls, RemoveUnit(c) PROVE RemovalInv'
    BY <2>6 DEF RemoveUnit, Fails, UnitAfterRemoval
  <2>7. ASSUME NEW c \in Uninstalls, RemoveDir(c) PROVE RemovalInv'
    BY <2>7 DEF RemoveDir, Fails, DirAfterRemoval
  <2>8. ASSUME NEW c \in Uninstalls, RemoveExe(c) PROVE RemovalInv'
    BY <2>8 DEF RemoveExe, Fails
  <2>9. ASSUME NEW c \in Uninstalls, Reload(c) PROVE RemovalInv'
    BY <2>9 DEF Reload
  <2>10. CASE Exit
    BY <2>10 DEF Exit, ProcessEnds
  <2>11. CASE ProcessCrashes
    BY <2>11 DEF ProcessCrashes, ProcessEnds
  <2>12. CASE ProcessStarts
    BY <2>12 DEF ProcessStarts
  <2>13. CASE UNCHANGED lifecycleVars
    BY <2>13
  <2> QED
    BY <2>1, <2>2, <2>3, <2>4, <2>5, <2>6, <2>7, <2>8, <2>9, <2>10, <2>11, <2>12, <2>13
       DEF LifecycleNext
<1> QED
  BY <1>1, <1>2, LifecycleTypeCorrect, PTL DEF LifecycleSpec
-----------------------------------------------------------------------------
(* The link and the binary, as the run has them.                           *)

\* A step of the run is one of the link or one in the binary's life.
LEMMA AgentStep ==
    ASSUME [AgentNext]_agent
    PROVE  [Next]_vars /\ [LifecycleNext]_lifecycleVars
<1>1. CASE UNCHANGED agent
  BY <1>1 DEF agent
<1>2. CASE Only("link") /\ Next
  BY <1>2 DEF Only
<1>3. CASE Only("lifecycle") /\ LifecycleNext
  BY <1>3 DEF Only
<1> QED
  BY <1>1, <1>2, <1>3 DEF AgentNext

(* The agent of the run, link and binary at once: the panel always has a   *)
(* way in, a stop that was asked for is not forgotten, no update goes back *)
(* to an older release, and an agent that said it was removed stays down.  *)
THEOREM AgentStaysSafe ==
    AgentSpec => /\ NeverDowngrades
                 /\ [](WayIn /\ StopIsRemembered /\ ClosingKeepsServing /\ RemovedForGood)
<1>1. AgentInit => Init /\ LifecycleInit
  BY DEF AgentInit
<1>2. AgentSpec => Spec /\ LifecycleSpec
  BY <1>1, AgentStep, PTL DEF AgentSpec, Spec, LifecycleSpec
<1> QED
  BY <1>2, AlwaysAWayIn, StopIsSafe, UpdatesNeverDowngrade, UninstallIsForGood, PTL
===============================================================================
