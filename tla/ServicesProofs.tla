----------------------------- MODULE ServicesProofs -----------------------------
(* Proofs about the services that MCServicesSafe checks side by side, each   *)
(* under its own specification: the agent's identity, the console's shells,  *)
(* the metrics and the ready check.                                          *)
EXTENDS MCServicesSafe, Integers, FiniteSetTheorems, TLAPS
-----------------------------------------------------------------------------
(* The agent's identity.                                                   *)


\* No handler outlives its process, all that work install one key, and each step
\* leaves what the next one counts on.
HandlersInv ==
    /\ life # "up" => Idle
    /\ \A c \in Calls : pc[c] # "idle" =>
          /\ key[c] \in made /\ pending \in {None, key[c]}
          /\ \A d \in Calls : pc[d] # "idle" => key[d] = key[c]
          /\ said.answer = "ok" => said.key = key[c]
    /\ \A c \in Calls : pc[c] \in {"key", "cert", "ca", "clear"} =>
          /\ served.key = key[c]
          /\ reply[key[c]] # None => served.ca = reply[key[c]]
    /\ \A c \in Calls : pc[c] \in {"cert", "ca", "clear"} => disk.key = key[c]
    /\ \A c \in Calls : pc[c] \in {"ca", "clear"} => disk.cert = key[c]
    /\ \A c \in Calls : pc[c] = "clear" /\ reply[key[c]] # None => disk.ca = reply[key[c]]
    /\ \A c \in Calls : pc[c] = "ca" => reply[key[c]] # None
    /\ pending # None => pending \in made

\* The CA is the last file of a bootstrap, and a host without it is not provisioned.
DiskInv ==
    /\ life \in Bootstrapping => disk.ca = None
    /\ life \in {"load", "up"} => disk.ca # None
    /\ life \in Bootstrapping \ {"call"} => enrolled \in made /\ reply[enrolled] # None
    /\ life \in {"key", "cert", "ca"} => link # None
    /\ life \in {"cert", "ca"} => disk.key = enrolled
    /\ life = "ca" => disk.cert = enrolled
    /\ disk.ca # None => disk.key \in made /\ disk.cert # None /\ link # None

\* The agent serves a pair; a file differs from it, unless an install was cut short,
\* only while the handler that writes the file is still before it.
ServedInv ==
    /\ life = "up" => served.key = served.cert /\ served.key \in made
    /\ life = "up" /\ ~torn =>
          /\ disk.key # served.key => \E c \in Calls : pc[c] = "key"
          /\ disk.cert # served.cert => \E c \in Calls : pc[c] \in {"key", "cert"}
          /\ disk.ca # served.ca => \E c \in Calls : pc[c] \in {"key", "cert", "ca"} /\ reply[key[c]] # None
    /\ life # "up" /\ ~torn /\ disk.ca # None => disk.key = disk.cert

\* What was answered ok is on disk.
OkInv == said.answer = "ok" => disk.ca # None /\ OkSurvivesRestart

IdentityInv == TypeOK /\ HandlersInv /\ DiskInv /\ ServedInv /\ OkInv

USE AgentIdentityAssumption DEF Bootstrapping, Idle, At, GoTo, install, start, calls, NewCA

\* Materials stay materials when one file is replaced.
LEMMA MaterialWith ==
    ASSUME NEW m \in Material, NEW k \in Keys \cup {None}, NEW a \in CAs \cup {None}
    PROVE  /\ [m EXCEPT !.key = k] \in Material
           /\ [m EXCEPT !.cert = k] \in Material
           /\ [m EXCEPT !.ca = a] \in Material
           /\ [key |-> k, cert |-> k, ca |-> a] \in Material
           /\ m.ca \in CAs \cup {None}
BY DEF Material

\* A step keeps the types.
LEMMA IdentityTypesStep ==
    ASSUME TypeOK, HandlersInv, DiskInv, [Next]_vars
    PROVE  TypeOK'
<1> USE DEF TypeOK
<1>a. life = "ca" => reply[enrolled] \in CAs
  BY DEF DiskInv, TypeOK
<1>b. \A c \in Calls : pc[c] # "idle" => key[c] \in Keys /\ reply[key[c]] \in CAs \cup {None}
  BY DEF HandlersInv, TypeOK
<1>1. CASE RunInstaller
  BY <1>1 DEF RunInstaller
<1>2. CASE Start
  BY <1>2 DEF Start, Provisioned
<1>3. ASSUME NEW k \in Keys, CallHome(k) PROVE TypeOK'
  BY <1>3 DEF CallHome
<1>4. CASE CallHomeFails
  BY <1>4 DEF CallHomeFails, Fatal
<1>5. CASE Stage
  BY <1>5 DEF Stage, BootstrapWrite, Fatal
<1>6. CASE SaveLink
  BY <1>6 DEF SaveLink, LinkSaved, BootstrapWrite, Fatal
<1>7. CASE CommitKey
  <2>1. life = "key" => [disk EXCEPT !.key = enrolled] \in Material
    BY <1>a, MaterialWith
  <2>2. disk' \in Material
    BY <1>7, <2>1 DEF CommitKey, BootstrapWrite, Fatal
  <2> QED
    BY <1>7, <2>2 DEF CommitKey, BootstrapWrite, Fatal
<1>8. CASE CommitCert
  <2>1. life = "cert" => [disk EXCEPT !.cert = enrolled] \in Material
    BY <1>a, MaterialWith
  <2>2. disk' \in Material
    BY <1>8, <2>1 DEF CommitCert, BootstrapWrite, Fatal
  <2> QED
    BY <1>8, <2>2 DEF CommitCert, BootstrapWrite, Fatal
<1>9. CASE CommitCA
  <2>1. life = "ca" => [disk EXCEPT !.ca = reply[enrolled]] \in Material
    BY <1>a, MaterialWith
  <2>2. disk' \in Material
    BY <1>9, <2>1 DEF CommitCA, BootstrapWrite, Fatal
  <2> QED
    BY <1>9, <2>2 DEF CommitCA, BootstrapWrite, Fatal
<1>10. CASE Load
  <2>1. life' = "up" => served' \in Material /\ served'.ca \in CAs
    BY <1>10, MaterialWith DEF Load, Loads
  <2> QED
    BY <1>10, <2>1 DEF Load
<1>11. ASSUME NEW k \in Keys, RenewalCSR(k) PROVE TypeOK'
  BY <1>11 DEF RenewalCSR
<1>12. ASSUME NEW c \in Calls, NEW k \in Keys, Install(c, k) PROVE TypeOK'
  BY <1>12 DEF Install, IsPending
<1>13. ASSUME NEW c \in Calls, Swap(c) PROVE TypeOK'
  <2>1. key[c] \in Keys /\ reply[key[c]] \in CAs \cup {None} /\ served.ca \in CAs
    BY <1>13, <1>b DEF Swap
  <2>2. NewCA(c, served.ca) \in CAs
    BY <2>1
  <2>3. [key |-> key[c], cert |-> key[c], ca |-> NewCA(c, served.ca)] \in Material
    BY <2>1, <2>2, MaterialWith
  <2>4. served' \in Material /\ served'.ca \in CAs
    BY <1>13, <2>2, <2>3 DEF Swap
  <2> QED
    BY <1>13, <2>4 DEF Swap
<1>14. ASSUME NEW c \in Calls, WriteKey(c) PROVE TypeOK'
  <2>0. key[c] \in Keys
    BY <1>14, <1>b DEF WriteKey
  <2>1. [disk EXCEPT !.key = key[c]] \in Material
    BY <2>0, MaterialWith
  <2>2. disk' \in Material
    BY <1>14, <2>1 DEF WriteKey, Write, DiskWithKey
  <2>3. said' \in [answer : {"nothing", "ok", "failed"}, key : Keys \cup {None}]
    BY <1>14 DEF WriteKey, Write, Answer
  <2> QED
    BY <1>14, <2>2, <2>3 DEF WriteKey, Write, Answer
<1>15. ASSUME NEW c \in Calls, WriteCert(c) PROVE TypeOK'
  <2>0. key[c] \in Keys
    BY <1>15, <1>b DEF WriteCert
  <2>1. [disk EXCEPT !.cert = key[c]] \in Material
    BY <2>0, MaterialWith
  <2>2. disk' \in Material
    BY <1>15, <2>1 DEF WriteCert, Write
  <2>3. said' \in [answer : {"nothing", "ok", "failed"}, key : Keys \cup {None}]
    BY <1>15 DEF WriteCert, Write, Answer
  <2> QED
    BY <1>15, <2>2, <2>3 DEF WriteCert, Write, Answer
<1>16. ASSUME NEW c \in Calls, WriteCA(c) PROVE TypeOK'
  <2>0. NewCA(c, disk.ca) \in CAs \cup {None}
    BY <1>16, <1>b, MaterialWith DEF WriteCA
  <2>1. [disk EXCEPT !.ca = NewCA(c, disk.ca)] \in Material
    BY <2>0, MaterialWith
  <2>2. disk' \in Material
    BY <1>16, <2>1 DEF WriteCA, Write, DiskWithCA
  <2>3. said' \in [answer : {"nothing", "ok", "failed"}, key : Keys \cup {None}]
    BY <1>16 DEF WriteCA, Write, Answer
  <2> QED
    BY <1>16, <2>2, <2>3 DEF WriteCA, Write, Answer
<1>17. ASSUME NEW c \in Calls, Clear(c) PROVE TypeOK'
  BY <1>17 DEF Clear, Answer
<1>18. CASE Crash
  BY <1>18 DEF Crash
<1>19. CASE UNCHANGED vars
  BY <1>19 DEF vars, install, start, calls
<1> QED
  BY <1>1, <1>2, <1>3, <1>4, <1>5, <1>6, <1>7, <1>8, <1>9, <1>10, <1>11, <1>12, <1>13, <1>14, <1>15, <1>16, <1>17, <1>18, <1>19 DEF Next

\* A step of a handler leaves what the next counts on.
LEMMA HandlersStep ==
    ASSUME TypeOK, DiskInv, HandlersInv, [Next]_vars
    PROVE  HandlersInv'
<1> USE DEF TypeOK, Material, HandlersInv
<1>1. CASE RunInstaller
  BY <1>1 DEF RunInstaller
<1>2. CASE Start
  BY <1>2 DEF Start, Provisioned
<1>3. ASSUME NEW k \in Keys, CallHome(k) PROVE HandlersInv'
  BY <1>3 DEF CallHome
<1>4. CASE CallHomeFails
  BY <1>4 DEF CallHomeFails, Fatal
<1>5. CASE Stage
  BY <1>5 DEF Stage, BootstrapWrite, Fatal
<1>6. CASE SaveLink
  BY <1>6 DEF SaveLink, LinkSaved, BootstrapWrite, Fatal
<1>7. CASE CommitKey
  BY <1>7 DEF CommitKey, BootstrapWrite, Fatal
<1>8. CASE CommitCert
  BY <1>8 DEF CommitCert, BootstrapWrite, Fatal
<1>9. CASE CommitCA
  BY <1>9 DEF CommitCA, BootstrapWrite, Fatal
<1>10. CASE Load
  BY <1>10 DEF Load, Loads
<1>11. ASSUME NEW k \in Keys, RenewalCSR(k) PROVE HandlersInv'
  BY <1>11 DEF RenewalCSR
<1>12. ASSUME NEW c \in Calls, NEW k \in Keys, Install(c, k) PROVE HandlersInv'
  BY <1>12 DEF Install, IsPending
<1>13. ASSUME NEW c \in Calls, Swap(c) PROVE HandlersInv'
  BY <1>13 DEF Swap
<1>14. ASSUME NEW c \in Calls, WriteKey(c) PROVE HandlersInv'
  BY <1>14 DEF WriteKey, Write, DiskWithKey, Answer
<1>15. ASSUME NEW c \in Calls, WriteCert(c) PROVE HandlersInv'
  BY <1>15 DEF WriteCert, Write, Answer
<1>16. ASSUME NEW c \in Calls, WriteCA(c) PROVE HandlersInv'
  BY <1>16 DEF WriteCA, Write, DiskWithCA, Answer
<1>17. ASSUME NEW c \in Calls, Clear(c) PROVE HandlersInv'
  BY <1>17 DEF Clear, Answer
<1>18. CASE Crash
  BY <1>18 DEF Crash
<1>19. CASE UNCHANGED vars
  BY <1>19 DEF vars, install, start, calls
<1> QED
  BY <1>1, <1>2, <1>3, <1>4, <1>5, <1>6, <1>7, <1>8, <1>9, <1>10, <1>11, <1>12, <1>13, <1>14, <1>15, <1>16, <1>17, <1>18, <1>19 DEF Next

\* The files of a bootstrap come in their order.
LEMMA DiskStep ==
    ASSUME TypeOK, HandlersInv, DiskInv, ServedInv, [Next]_vars
    PROVE  DiskInv'
<1> USE DEF TypeOK, Material, HandlersInv, DiskInv
<1>1. CASE RunInstaller
  BY <1>1 DEF RunInstaller
<1>2. CASE Start
  BY <1>2 DEF Start, Provisioned
<1>3. ASSUME NEW k \in Keys, CallHome(k) PROVE DiskInv'
  BY <1>3 DEF CallHome
<1>4. CASE CallHomeFails
  BY <1>4 DEF CallHomeFails, Fatal
<1>5. CASE Stage
  BY <1>5 DEF Stage, BootstrapWrite, Fatal
<1>6. CASE SaveLink
  BY <1>6 DEF SaveLink, LinkSaved, BootstrapWrite, Fatal
<1>7. CASE CommitKey
  BY <1>7 DEF CommitKey, BootstrapWrite, Fatal
<1>8. CASE CommitCert
  BY <1>8 DEF CommitCert, BootstrapWrite, Fatal
<1>9. CASE CommitCA
  BY <1>9 DEF CommitCA, BootstrapWrite, Fatal
<1>10. CASE Load
  BY <1>10 DEF Load, Loads
<1>11. ASSUME NEW k \in Keys, RenewalCSR(k) PROVE DiskInv'
  BY <1>11 DEF RenewalCSR
<1>12. ASSUME NEW c \in Calls, NEW k \in Keys, Install(c, k) PROVE DiskInv'
  BY <1>12 DEF Install, IsPending
<1>13. ASSUME NEW c \in Calls, Swap(c) PROVE DiskInv'
  BY <1>13 DEF Swap
<1>14. ASSUME NEW c \in Calls, WriteKey(c) PROVE DiskInv'
  BY <1>14 DEF WriteKey, Write, DiskWithKey, Answer
<1>15. ASSUME NEW c \in Calls, WriteCert(c) PROVE DiskInv'
  BY <1>15 DEF WriteCert, Write, Answer
<1>16. ASSUME NEW c \in Calls, WriteCA(c) PROVE DiskInv'
  BY <1>16 DEF WriteCA, Write, DiskWithCA, Answer
<1>17. ASSUME NEW c \in Calls, Clear(c) PROVE DiskInv'
  BY <1>17 DEF Clear, Answer
<1>18. CASE Crash
  BY <1>18 DEF Crash
<1>19. CASE UNCHANGED vars
  BY <1>19 DEF vars, install, start, calls
<1> QED
  BY <1>1, <1>2, <1>3, <1>4, <1>5, <1>6, <1>7, <1>8, <1>9, <1>10, <1>11, <1>12, <1>13, <1>14, <1>15, <1>16, <1>17, <1>18, <1>19 DEF Next

\* Served and stored pairs differ only during an install.
LEMMA ServedStep ==
    ASSUME TypeOK, HandlersInv, DiskInv, ServedInv, [Next]_vars
    PROVE  ServedInv'
<1> USE DEF TypeOK, Material, HandlersInv, DiskInv, ServedInv
<1>1. CASE RunInstaller
  BY <1>1 DEF RunInstaller
<1>2. CASE Start
  BY <1>2 DEF Start, Provisioned
<1>3. ASSUME NEW k \in Keys, CallHome(k) PROVE ServedInv'
  BY <1>3 DEF CallHome
<1>4. CASE CallHomeFails
  BY <1>4 DEF CallHomeFails, Fatal
<1>5. CASE Stage
  BY <1>5 DEF Stage, BootstrapWrite, Fatal
<1>6. CASE SaveLink
  BY <1>6 DEF SaveLink, LinkSaved, BootstrapWrite, Fatal
<1>7. CASE CommitKey
  BY <1>7 DEF CommitKey, BootstrapWrite, Fatal
<1>8. CASE CommitCert
  BY <1>8 DEF CommitCert, BootstrapWrite, Fatal
<1>9. CASE CommitCA
  BY <1>9 DEF CommitCA, BootstrapWrite, Fatal
<1>10. CASE Load
  BY <1>10 DEF Load, Loads
<1>11. ASSUME NEW k \in Keys, RenewalCSR(k) PROVE ServedInv'
  BY <1>11 DEF RenewalCSR
<1>12. ASSUME NEW c \in Calls, NEW k \in Keys, Install(c, k) PROVE ServedInv'
  BY <1>12 DEF Install, IsPending
<1>13. ASSUME NEW c \in Calls, Swap(c) PROVE ServedInv'
  BY <1>13 DEF Swap
<1>14. ASSUME NEW c \in Calls, WriteKey(c) PROVE ServedInv'
  BY <1>14 DEF WriteKey, Write, DiskWithKey, Answer
<1>15. ASSUME NEW c \in Calls, WriteCert(c) PROVE ServedInv'
  BY <1>15 DEF WriteCert, Write, Answer
<1>16. ASSUME NEW c \in Calls, WriteCA(c) PROVE ServedInv'
  BY <1>16 DEF WriteCA, Write, DiskWithCA, Answer
<1>17. ASSUME NEW c \in Calls, Clear(c) PROVE ServedInv'
  BY <1>17 DEF Clear, Answer
<1>18. CASE Crash
  BY <1>18 DEF Crash
<1>19. CASE UNCHANGED vars
  BY <1>19 DEF vars, install, start, calls
<1> QED
  BY <1>1, <1>2, <1>3, <1>4, <1>5, <1>6, <1>7, <1>8, <1>9, <1>10, <1>11, <1>12, <1>13, <1>14, <1>15, <1>16, <1>17, <1>18, <1>19 DEF Next

\* What was answered ok stays on disk.
LEMMA OkStep ==
    ASSUME TypeOK, HandlersInv, DiskInv, OkInv, [Next]_vars
    PROVE  OkInv'
<1> USE DEF TypeOK, Material, HandlersInv, DiskInv, OkInv, OkSurvivesRestart
<1>1. CASE RunInstaller
  BY <1>1 DEF RunInstaller
<1>2. CASE Start
  BY <1>2 DEF Start, Provisioned
<1>3. ASSUME NEW k \in Keys, CallHome(k) PROVE OkInv'
  BY <1>3 DEF CallHome
<1>4. CASE CallHomeFails
  BY <1>4 DEF CallHomeFails, Fatal
<1>5. CASE Stage
  BY <1>5 DEF Stage, BootstrapWrite, Fatal
<1>6. CASE SaveLink
  BY <1>6 DEF SaveLink, LinkSaved, BootstrapWrite, Fatal
<1>7. CASE CommitKey
  BY <1>7 DEF CommitKey, BootstrapWrite, Fatal
<1>8. CASE CommitCert
  BY <1>8 DEF CommitCert, BootstrapWrite, Fatal
<1>9. CASE CommitCA
  BY <1>9 DEF CommitCA, BootstrapWrite, Fatal
<1>10. CASE Load
  BY <1>10 DEF Load, Loads
<1>11. ASSUME NEW k \in Keys, RenewalCSR(k) PROVE OkInv'
  BY <1>11 DEF RenewalCSR
<1>12. ASSUME NEW c \in Calls, NEW k \in Keys, Install(c, k) PROVE OkInv'
  BY <1>12 DEF Install, IsPending
<1>13. ASSUME NEW c \in Calls, Swap(c) PROVE OkInv'
  BY <1>13 DEF Swap
<1>14. ASSUME NEW c \in Calls, WriteKey(c) PROVE OkInv'
  BY <1>14 DEF WriteKey, Write, DiskWithKey, Answer
<1>15. ASSUME NEW c \in Calls, WriteCert(c) PROVE OkInv'
  BY <1>15 DEF WriteCert, Write, Answer
<1>16. ASSUME NEW c \in Calls, WriteCA(c) PROVE OkInv'
  BY <1>16 DEF WriteCA, Write, DiskWithCA, Answer
<1>17. ASSUME NEW c \in Calls, Clear(c) PROVE OkInv'
  BY <1>17 DEF Clear, Answer
<1>18. CASE Crash
  BY <1>18 DEF Crash
<1>19. CASE UNCHANGED vars
  BY <1>19 DEF vars, install, start, calls
<1> QED
  BY <1>1, <1>2, <1>3, <1>4, <1>5, <1>6, <1>7, <1>8, <1>9, <1>10, <1>11, <1>12, <1>13, <1>14, <1>15, <1>16, <1>17, <1>18, <1>19 DEF Next

\* The first start of an agent.
LEMMA IdentityStarts == ASSUME Init PROVE IdentityInv
<1>1. Nothing \in Material
  BY DEF Material, Nothing
<1>2. [answer |-> "nothing", key |-> None] \in [answer : {"nothing", "ok", "failed"}, key : Keys \cup {None}]
  OBVIOUS
<1>3. TypeOK
  <2>1. /\ pc \in [Calls -> {"idle", "swap", "key", "cert", "ca", "clear"}]
        /\ key \in [Calls -> Keys \cup {None}]
    BY DEF Init
  <2>2. crashes \in 0..MaxCrashes /\ tokens \in 0..MaxTokens
    BY DEF Init
  <2> QED
    BY <1>1, <1>2, <2>1, <2>2 DEF Init, TypeOK
<1>4. HandlersInv /\ DiskInv /\ ServedInv /\ OkInv
  BY DEF Init, HandlersInv, DiskInv, ServedInv, OkInv, Nothing
<1> QED
  BY <1>3, <1>4 DEF IdentityInv

\* The handlers, the files and the pair the agent serves, together.
LEMMA IdentityHolds == Spec => []IdentityInv
<1>1. IdentityInv /\ [Next]_vars => IdentityInv'
  BY IdentityTypesStep, HandlersStep, DiskStep, ServedStep, OkStep DEF IdentityInv
<1> QED
  BY IdentityStarts, <1>1, PTL DEF Spec

(* The process, the files, the pair it serves and the handlers that renew  *)
(* it keep their types.                                                    *)
THEOREM IdentityTypeCorrect == Spec => []TypeOK
<1>1. IdentityInv => TypeOK
  BY DEF IdentityInv
<1> QED
  BY IdentityHolds, <1>1, PTL

(* A host counts as provisioned only with materials that load, the files   *)
(* hold what the agent serves whenever no install is at work or was cut    *)
(* short, and an install answered ok is on disk: for any number of keys,   *)
(* install commands, renewals sent twice, failed writes and crashes.       *)
THEOREM IdentityStaysKept == Spec => []IdentityIsKept
<1>1. ASSUME IdentityInv PROVE ProvisionedIsWhole
  BY <1>1 DEF IdentityInv, ProvisionedIsWhole, DiskInv, ServedInv, Provisioned, Loads, TypeOK, Material
<1>2. ASSUME IdentityInv PROVE QuietDiskIsServed
  BY <1>2 DEF IdentityInv, QuietDiskIsServed, ServedInv, TypeOK, Material
<1>3. ASSUME IdentityInv PROVE OkSurvivesRestart
  BY <1>3 DEF IdentityInv, OkInv, OkSurvivesRestart
<1>4. IdentityInv => IdentityIsKept
  BY <1>1, <1>2, <1>3 DEF IdentityIsKept
<1> QED
  BY IdentityHolds, <1>4, PTL

(* The agent serves a certificate only with the private key it belongs to, *)
(* a key it made itself, whatever writes fail and whatever a restart finds.*)
THEOREM ServesItsOwnPair == Spec => []ServesWhatItMade
<1>1. IdentityInv => ServesWhatItMade
  BY DEF IdentityInv, ServedInv, ServesWhatItMade
<1> QED
  BY IdentityHolds, <1>1, PTL

HIDE AgentIdentityAssumption DEF Bootstrapping, Idle, At, GoTo, install, start, calls, NewCA
-----------------------------------------------------------------------------
(* The console's shells.                                                   *)

\* While a container stays the same, the shells tried before the next one do not
\* work, and what was found says whether it has one.
ProbesInv ==
    \A c \in ExecCalls : ~ecall[c].remade =>
        /\ ecall[c].at = "probe" =>
              \A s \in Shells : s < ecall[c].next => shells[imageOf[ecall[c].name]][s] # "works"
        /\ ecall[c].at = "found" => (ecall[c].plan = Raw <=> ~ecall[c].hadShell)

\* PlanFits, and that the cache is finite: there may be any number of containers.
ShellCacheInv == IsFiniteSet(Cached) /\ PlanFits

Calling == [at : {"idle", "probe", "found", "answered"}, name : Boxes, image : BoxImages, next : Shells,
            plan : Shells \cup {Raw}, hadShell : BOOLEAN, remade : BOOLEAN]
Entries == [plan : Shells \cup {Raw}, image : BoxImages, at : 0..Moments, fits : BOOLEAN]

\* A call begins, and may be answered from the cache at once.
LEMMA AnsweredFromCache ==
    ASSUME NEW b \in Boxes, NEW i \in BoxImages, NEW plan \in Shells \cup {Raw}
    PROVE  /\ ExecCall("probe", b, i) \in Calling /\ ExecCall("idle", b, i) \in Calling
           /\ [ExecCall("answered", b, i) EXCEPT !.plan = plan] \in Calling
<1>1. \A a \in {"idle", "probe", "answered"} : ExecCall(a, b, i) \in Calling
  BY DEF Calling, ExecCall, Shells, Raw
<1>2. [ExecCall("answered", b, i) EXCEPT !.plan = plan] \in Calling
  <2> DEFINE a == ExecCall("answered", b, i)
  <2>1. a \in Calling
    BY <1>1
  <2> HIDE DEF a
  <2>2. [a EXCEPT !.plan = plan] \in Calling
    BY <2>1 DEF Calling
  <2> QED
    BY <2>2 DEF a
<1> QED
  BY <1>1, <1>2

\* What a probe leaves of its call: another shell to try, or an end, that of a shell
\* that works, of none that does, or one without an answer of the container's.
LEMMA ProbeShape ==
    ASSUME ShellPlanTypeOK, NEW c \in ExecCalls, Probe(c)
    PROVE  \E e \in Calling :
              /\ ecall' = [ecall EXCEPT ![c] = e]
              /\ e.name = ecall[c].name /\ e.remade = ecall[c].remade /\ ecall[c].at = "probe"
              /\ LET works == shells[imageOf[e.name]][ecall[c].next] = "works"
                     had == e.hadShell = (up[e.name] /\ HasShell(e.name))
                 IN  \/ e.at = "answered"
                     \/ e.at = "found" /\ e.plan = ecall[c].next /\ up[e.name] /\ works /\ had
                     \/ e.at = "found" /\ e.plan = Raw /\ ~works /\ ecall[c].next = 4 /\ had
                     \/ e.at = "probe" /\ ~works /\ e.next = ecall[c].next + 1
<1> DEFINE b == ecall[c].name
           s == ecall[c].next
           had == up[b] /\ HasShell(b)
           works == shells[imageOf[b]][s] = "works"
           Left(at, plan) == [ecall[c] EXCEPT !.at = at, !.plan = plan, !.hadShell = had]
           Further == [ecall[c] EXCEPT !.next = s + 1]
<1>1. ecall[c] \in Calling /\ b \in Boxes /\ s \in Shells /\ had \in BOOLEAN /\ works \in BOOLEAN
  BY DEF ShellPlanTypeOK, Calling, HasShell
<1>2. ASSUME NEW at \in {"found", "answered"}, NEW plan \in Shells \cup {Raw}
      PROVE  /\ Left(at, plan) \in Calling
             /\ Left(at, plan).at = at /\ Left(at, plan).plan = plan
             /\ Left(at, plan).name = b /\ Left(at, plan).remade = ecall[c].remade
             /\ Left(at, plan).hadShell = had
  <2> HIDE DEF had
  <2> QED
    BY <1>1 DEF Calling
<1>3. s < 4 => /\ Further \in Calling /\ Further.at = ecall[c].at /\ Further.next = s + 1
               /\ Further.name = b /\ Further.remade = ecall[c].remade
  BY <1>1 DEF Calling, Shells
<1>4. \/ ecall' = [ecall EXCEPT ![c] = Left("answered", Raw)]
      \/ ecall' = [ecall EXCEPT ![c] = Left("found", s)] /\ up[b] /\ works
      \/ ecall' = [ecall EXCEPT ![c] = Left("answered", Raw)]
      \/ ecall' = [ecall EXCEPT ![c] = Further] /\ s < 4 /\ ~works
      \/ ecall' = [ecall EXCEPT ![c] = Left("found", Raw)] /\ ~works /\ s = 4
  BY <1>1 DEF Probe, ErrorOfDocker
<1>5. ecall[c].at = "probe"
  BY DEF Probe
<1>6. Raw \in Shells \cup {Raw} /\ s \in Shells \cup {Raw}
  BY <1>1
<1> HIDE DEF Left, Further
<1>7. CASE ecall' = [ecall EXCEPT ![c] = Left("answered", Raw)]
  BY <1>2, <1>5, <1>6, <1>7
<1>8. CASE ecall' = [ecall EXCEPT ![c] = Left("found", s)] /\ up[b] /\ works
  <2> DEFINE e == Left("found", s)
  <2>1. /\ e \in Calling /\ e.at = "found" /\ e.name = b /\ e.remade = ecall[c].remade
        /\ e.hadShell = had /\ e.plan = s
    BY <1>2, <1>6
  <2> HIDE DEF e
  <2> QED
    BY <1>5, <1>8, <2>1 DEF e
<1>9. CASE ecall' = [ecall EXCEPT ![c] = Left("answered", Raw)]
  BY <1>2, <1>5, <1>6, <1>9
<1>10. CASE ecall' = [ecall EXCEPT ![c] = Further] /\ s < 4 /\ ~works
  BY <1>3, <1>5, <1>10
<1>11. CASE ecall' = [ecall EXCEPT ![c] = Left("found", Raw)] /\ ~works /\ s = 4
  <2> DEFINE e == Left("found", Raw)
  <2>1. /\ e \in Calling /\ e.at = "found" /\ e.name = b /\ e.remade = ecall[c].remade
        /\ e.hadShell = had /\ e.plan = Raw
    BY <1>2, <1>6
  <2> HIDE DEF e
  <2> QED
    BY <1>5, <1>11, <2>1 DEF e
<1> QED
  BY <1>4, <1>7, <1>8, <1>9, <1>10, <1>11

\* A call keeps its types, whatever it finds.
LEMMA ShellTypesStep ==
    ASSUME ShellPlanTypeOK, [ShellPlanNext]_shellVars
    PROVE  ShellPlanTypeOK'
<1> USE DEF ShellPlanTypeOK, boxVars
<1>a. ecall \in [ExecCalls -> Calling] /\ cache \in [Boxes -> {NoEntry} \cup Entries]
  BY DEF Calling, Entries
<1>b. /\ ecall' \in [ExecCalls -> Calling] /\ cache' \in [Boxes -> {NoEntry} \cup Entries]
      /\ shells' = shells /\ up' \in [Boxes -> BOOLEAN] /\ imageOf' \in [Boxes -> BoxImages]
      /\ moment' \in 0..Moments
      => ShellPlanTypeOK'
  BY DEF Calling, Entries
<1>1. ASSUME NEW b \in Boxes, Pauses(b) PROVE ShellPlanTypeOK'
  BY <1>1, <1>a, <1>b DEF Pauses
<1>2. ASSUME NEW b \in Boxes, Remade(b) PROVE ShellPlanTypeOK'
  <2>1. \A c \in ExecCalls : [ecall[c] EXCEPT !.remade = TRUE] \in Calling
    BY <1>a DEF Calling
  <2> QED
    BY <1>2, <1>a, <1>b, <2>1 DEF Remade
<1>3. CASE TimePasses
  BY <1>3, <1>a, <1>b, ShellPlanAssumption DEF TimePasses
<1>4. ASSUME NEW c \in ExecCalls, AskShell(c) PROVE ShellPlanTypeOK'
  <2>1. PICK b \in Boxes, i \in BoxImages : ecall' = [ecall EXCEPT ![c] =
            IF b \in Cached /\ cache[b].image = i /\ Fresh(b)
            THEN [ExecCall("answered", b, i) EXCEPT !.plan = cache[b].plan]
            ELSE ExecCall("probe", b, i)]
    BY <1>4 DEF AskShell
  <2>2. CASE b \in Cached /\ cache[b].image = i /\ Fresh(b)
    <3>1. cache[b].plan \in Shells \cup {Raw}
      BY <1>a, <2>2 DEF Cached, Entries
    <3>2. [ExecCall("answered", b, i) EXCEPT !.plan = cache[b].plan] \in Calling
      BY <3>1, AnsweredFromCache
    <3>3. ecall' \in [ExecCalls -> Calling]
      BY <1>a, <2>1, <2>2, <3>2
    <3> QED
      BY <1>4, <1>a, <1>b, <3>3 DEF AskShell
  <2>3. CASE ~(b \in Cached /\ cache[b].image = i /\ Fresh(b))
    <3>1. ecall' \in [ExecCalls -> Calling]
      BY <1>a, <2>1, <2>3, AnsweredFromCache
    <3> QED
      BY <1>4, <1>a, <1>b, <3>1 DEF AskShell
  <2> QED
    BY <2>2, <2>3
<1>5. ASSUME NEW c \in ExecCalls, Probe(c) PROVE ShellPlanTypeOK'
  <2>1. PICK e \in Calling : ecall' = [ecall EXCEPT ![c] = e]
    BY <1>5, <1>a, ProbeShape
  <2>2. ecall' \in [ExecCalls -> Calling]
    BY <1>a, <2>1
  <2> QED
    BY <1>5, <1>a, <1>b, <2>2 DEF Probe
<1>6. ASSUME NEW c \in ExecCalls, RememberPlan(c) PROVE ShellPlanTypeOK'
  <2>1. ecall' = [ecall EXCEPT ![c] = [ecall[c] EXCEPT !.at = "answered"]]
    BY <1>6 DEF RememberPlan
  <2>2. [ecall[c] EXCEPT !.at = "answered"] \in Calling
    BY <1>a DEF Calling
  <2>3. cache' \in [Boxes -> {NoEntry} \cup Entries]
    BY <1>6, <1>a DEF RememberPlan, Calling, Entries
  <2> QED
    BY <1>6, <1>a, <1>b, <2>1, <2>2, <2>3 DEF RememberPlan
<1>7. CASE UNCHANGED shellVars
  BY <1>7, <1>a, <1>b DEF shellVars
<1> QED
  BY <1>1, <1>2, <1>3, <1>4, <1>5, <1>6, <1>7 DEF ShellPlanNext

\* What a call remembers of its probes stays true, unless the container is made anew.
LEMMA ProbesStep ==
    ASSUME ShellPlanTypeOK, ProbesInv, [ShellPlanNext]_shellVars
    PROVE  ProbesInv'
<1> USE DEF boxVars
<1>a. ecall \in [ExecCalls -> Calling] /\ imageOf \in [Boxes -> BoxImages]
  BY DEF ShellPlanTypeOK, Calling
<1>1. ASSUME NEW b \in Boxes, Pauses(b) PROVE ProbesInv'
  BY <1>1 DEF Pauses, ProbesInv
<1>2. ASSUME NEW b \in Boxes, Remade(b) PROVE ProbesInv'
  <2>1. PICK i \in BoxImages : imageOf' = [imageOf EXCEPT ![b] = i]
    BY <1>2 DEF Remade
  <2> SUFFICES ASSUME NEW c \in ExecCalls, ~ecall'[c].remade
               PROVE  /\ ecall'[c].at = "probe" =>
                           \A s \in Shells : s < ecall'[c].next => shells'[imageOf'[ecall'[c].name]][s] # "works"
                      /\ ecall'[c].at = "found" => (ecall'[c].plan = Raw <=> ~ecall'[c].hadShell)
    BY DEF ProbesInv
  <2>2. CASE ecall[c].name = b /\ ecall[c].at # "idle"
    <3>1. ecall'[c] = [ecall[c] EXCEPT !.remade = TRUE]
      BY <1>2, <2>2 DEF Remade
    <3>2. ecall'[c].remade
      BY <1>a, <3>1 DEF Calling
    <3> QED
      BY <3>2
  <2>3. CASE ~(ecall[c].name = b /\ ecall[c].at # "idle")
    <3>1. ecall'[c] = ecall[c] /\ shells' = shells
      BY <1>2, <2>3 DEF Remade
    <3>2. ecall[c].at # "idle" => imageOf'[ecall[c].name] = imageOf[ecall[c].name]
      BY <1>a, <2>1, <2>3 DEF Calling
    <3> QED
      BY <3>1, <3>2 DEF ProbesInv
  <2> QED
    BY <2>2, <2>3
<1>3. CASE TimePasses
  BY <1>3 DEF TimePasses, ProbesInv
<1>4. ASSUME NEW c \in ExecCalls, AskShell(c) PROVE ProbesInv'
  <2>1. PICK b \in Boxes, i \in BoxImages : ecall' = [ecall EXCEPT ![c] =
            IF b \in Cached /\ cache[b].image = i /\ Fresh(b)
            THEN [ExecCall("answered", b, i) EXCEPT !.plan = cache[b].plan]
            ELSE ExecCall("probe", b, i)]
    BY <1>4 DEF AskShell
  <2>2. \/ ecall'[c].at = "answered"
        \/ ecall'[c].at = "probe" /\ ecall'[c].next = 1
    BY <1>a, <2>1 DEF ExecCall
  <2>3. \A d \in ExecCalls : d # c => ecall'[d] = ecall[d]
    BY <1>a, <2>1
  <2>4. shells' = shells /\ imageOf' = imageOf
    BY <1>4 DEF AskShell
  <2> QED
    BY <2>2, <2>3, <2>4 DEF ProbesInv, Shells
<1>5. ASSUME NEW c \in ExecCalls, Probe(c) PROVE ProbesInv'
  <2>1. PICK e \in Calling :
              /\ ecall' = [ecall EXCEPT ![c] = e]
              /\ e.name = ecall[c].name /\ e.remade = ecall[c].remade /\ ecall[c].at = "probe"
              /\ LET works == shells[imageOf[e.name]][ecall[c].next] = "works"
                     had == e.hadShell = (up[e.name] /\ HasShell(e.name))
                 IN  \/ e.at = "answered"
                     \/ e.at = "found" /\ e.plan = ecall[c].next /\ up[e.name] /\ works /\ had
                     \/ e.at = "found" /\ e.plan = Raw /\ ~works /\ ecall[c].next = 4 /\ had
                     \/ e.at = "probe" /\ ~works /\ e.next = ecall[c].next + 1
    BY <1>5, ProbeShape
  <2>2. ecall'[c] = e /\ \A d \in ExecCalls : d # c => ecall'[d] = ecall[d]
    BY <1>a, <2>1
  <2>3. shells' = shells /\ imageOf' = imageOf
    BY <1>5 DEF Probe
  <2>4. ecall[c].next \in Shells /\ e.hadShell \in BOOLEAN
    BY <1>a DEF Calling
  <2>5. ~e.remade /\ e.at = "probe" =>
            \A s \in Shells : s < e.next => shells[imageOf[e.name]][s] # "works"
    BY <2>1, <2>4 DEF ProbesInv, Shells
  <2>6. ~e.remade /\ e.at = "found" => (e.plan = Raw <=> ~e.hadShell)
    <3>1. CASE e.at = "found" /\ e.plan = ecall[c].next
      <4>1. shells[imageOf[e.name]][ecall[c].next] = "works" => e.hadShell
        BY <2>1, <2>4, <3>1 DEF HasShell, Raw, Shells
      <4> QED
        BY <2>1, <2>4, <3>1, <4>1 DEF Raw, Shells
    <3>2. CASE ~e.remade /\ e.at = "found" /\ e.plan = Raw
      <4>1. /\ shells[imageOf[e.name]][ecall[c].next] # "works" /\ ecall[c].next = 4
            /\ e.hadShell = (up[e.name] /\ HasShell(e.name))
        BY <2>1, <2>4, <3>2 DEF Raw, Shells
      <4>2. \A s \in Shells : shells[imageOf[e.name]][s] # "works"
        BY <2>1, <3>2, <4>1 DEF ProbesInv, Shells
      <4> QED
        BY <3>2, <4>1, <4>2 DEF HasShell
    <3> QED
      BY <2>1, <3>1, <3>2
  <2> QED
    BY <2>2, <2>3, <2>5, <2>6 DEF ProbesInv
<1>6. ASSUME NEW c \in ExecCalls, RememberPlan(c) PROVE ProbesInv'
  <2>1. ecall' = [ecall EXCEPT ![c] = [ecall[c] EXCEPT !.at = "answered"]]
    BY <1>6 DEF RememberPlan
  <2>2. ecall'[c].at = "answered" /\ \A d \in ExecCalls : d # c => ecall'[d] = ecall[d]
    BY <1>a, <2>1 DEF Calling
  <2> QED
    BY <1>6, <2>2 DEF RememberPlan, ProbesInv
<1>7. CASE UNCHANGED shellVars
  BY <1>7 DEF shellVars, ProbesInv
<1> QED
  BY <1>1, <1>2, <1>3, <1>4, <1>5, <1>6, <1>7 DEF ShellPlanNext

\* What is put into the cache fits its container, and what is evicted makes room.
LEMMA ShellCacheStep ==
    ASSUME ShellPlanTypeOK, ProbesInv, ShellCacheInv, [ShellPlanNext]_shellVars
    PROVE  ShellCacheInv'
<1> USE DEF boxVars
<1>1. ASSUME NEW c \in ExecCalls, RememberPlan(c) PROVE ShellCacheInv'
  <2> DEFINE b == ecall[c].name
             Full == b \notin Cached /\ Cardinality(Cached) >= ShellCacheMax
             found == [plan |-> ecall[c].plan, image |-> ecall[c].image, at |-> moment,
                       fits |-> ecall[c].remade \/ (ecall[c].plan = Raw <=> ~ecall[c].hadShell)]
  <2>1. PICK gone \in IF Full THEN Evictable ELSE {{}} :
            cache' = [d \in Boxes |-> IF d = b THEN found ELSE IF d \in gone THEN NoEntry ELSE cache[d]]
    BY <1>1 DEF RememberPlan
  <2>2. found.fits
    BY <1>1 DEF RememberPlan, ProbesInv
  <2>3. b \in Boxes /\ cache \in [Boxes -> {NoEntry} \cup Entries]
    BY DEF ShellPlanTypeOK, Entries
  <2>4. \A d \in Cached' : cache'[d].fits
    <3> HIDE DEF found, b, Full
    <3> QED
      BY <2>1, <2>2, <2>3 DEF Cached, ShellCacheInv, PlanFits
  <2>5. Cached' \subseteq (Cached \ gone) \cup {b}
    <3> HIDE DEF found, b, Full
    <3> QED
      BY <2>1 DEF Cached
  <2> HIDE DEF found
  <2>a. IsFiniteSet(Cached) /\ Cardinality(Cached) \in Nat /\ Cardinality(Cached) <= ShellCacheMax
    BY FS_CardinalityType DEF ShellCacheInv, PlanFits
  <2>6. \E S \in SUBSET Cached : Cached' \subseteq S \cup {b} /\ (b \in S \/ Cardinality(S) < ShellCacheMax)
    <3>1. CASE ~Full
      <4>1. gone = {}
        BY <2>1, <3>1
      <4> QED
        BY <2>5, <2>a, <3>1, <4>1, ShellPlanAssumption
    <3>2. CASE Full
      <4> DEFINE old == {d \in Cached : ~Fresh(d)}
      <4>1. gone \in Evictable
        BY <2>1, <3>2
      <4>2. CASE Cardinality(Cached \ old) < ShellCacheMax
        <5>1. gone = old
          BY <4>1, <4>2 DEF Evictable
        <5> QED
          BY <2>5, <4>2, <5>1
      <4>3. CASE ~(Cardinality(Cached \ old) < ShellCacheMax)
        <5>1. PICK x \in Cached \ old : gone = old \cup {x}
          BY <4>1, <4>3 DEF Evictable
        <5>2. /\ Cached \ gone \subseteq Cached \ {x} /\ IsFiniteSet(Cached \ {x})
              /\ Cardinality(Cached \ {x}) = Cardinality(Cached) - 1
          BY <2>a, <5>1, FS_RemoveElement
        <5>3. Cardinality(Cached \ {x}) < ShellCacheMax
          BY <2>a, <5>2, ShellPlanAssumption
        <5> QED
          BY <2>5, <5>2, <5>3
      <4> QED
        BY <4>2, <4>3
    <3> QED
      BY <3>1, <3>2
  <2>7. PICK S \in SUBSET Cached : Cached' \subseteq S \cup {b} /\ (b \in S \/ Cardinality(S) < ShellCacheMax)
    BY <2>6
  <2>8. IsFiniteSet(S) /\ Cardinality(S) \in Nat /\ Cardinality(S) <= Cardinality(Cached)
    BY <2>a, FS_Subset, FS_CardinalityType
  <2>9. IsFiniteSet(S \cup {b}) /\ Cardinality(S \cup {b}) \in Nat /\ Cardinality(S \cup {b}) <= ShellCacheMax
    <3>1. CASE b \in S
      <4>1. S \cup {b} = S
        BY <3>1
      <4> QED
        BY <2>a, <2>8, <4>1, ShellPlanAssumption
    <3>2. CASE b \notin S
      <4>1. Cardinality(S \cup {b}) = Cardinality(S) + 1 /\ IsFiniteSet(S \cup {b})
        BY <2>8, <3>2, FS_AddElement
      <4> QED
        BY <2>7, <2>8, <3>2, <4>1, ShellPlanAssumption
    <3> QED
      BY <3>1, <3>2
  <2>10. IsFiniteSet(Cached') /\ Cardinality(Cached') <= ShellCacheMax
    <3>1. IsFiniteSet(Cached') /\ Cardinality(Cached') <= Cardinality(S \cup {b}) /\ Cardinality(Cached') \in Nat
      BY <2>7, <2>9, FS_Subset, FS_CardinalityType
    <3> QED
      BY <2>9, <3>1, ShellPlanAssumption
  <2> QED
    BY <2>4, <2>10 DEF ShellCacheInv, PlanFits
<1>2. ASSUME UNCHANGED cache PROVE ShellCacheInv'
  BY <1>2 DEF ShellCacheInv, PlanFits, Cached
<1>3. (\E c \in ExecCalls : RememberPlan(c)) \/ UNCHANGED cache
  BY DEF ShellPlanNext, Pauses, Remade, TimePasses, AskShell, Probe, shellVars
<1> QED
  BY <1>1, <1>2, <1>3

\* The first call of the console.
LEMMA ShellPlanStarts == ASSUME ShellPlanInit PROVE ShellPlanTypeOK
<1>1. PICK b \in Boxes, i \in BoxImages : ecall = [c \in ExecCalls |-> ExecCall("idle", b, i)]
  BY DEF ShellPlanInit
<1>2. Raw \in Shells \cup {Raw}
  OBVIOUS
<1>3. ecall \in [ExecCalls -> Calling]
  BY <1>1, <1>2, AnsweredFromCache
<1> QED
  BY <1>3, ShellPlanAssumption DEF ShellPlanInit, ShellPlanTypeOK, Calling

(* The containers, the cache of their shells and the calls keep their      *)
(* types.                                                                  *)
THEOREM ShellPlanTypeCorrect == ShellPlanSpec => []ShellPlanTypeOK
BY ShellPlanStarts, ShellTypesStep, PTL DEF ShellPlanSpec

(* What the console remembers of a container's shells was so unless the    *)
(* container was made anew meanwhile, and no more than ShellCacheMax names *)
(* are remembered: for any number of containers and calls, probing at the  *)
(* same time.                                                              *)
THEOREM RememberedPlansFit == ShellPlanSpec => []PlanFits
<1> DEFINE Inv == ShellPlanTypeOK /\ ProbesInv /\ ShellCacheInv
<1>1. ShellPlanInit => Inv
  <2> SUFFICES ASSUME ShellPlanInit PROVE Inv
    OBVIOUS
  <2>1. ShellPlanTypeOK
    BY ShellPlanStarts
  <2>2. Cached = {}
    BY DEF ShellPlanInit, Cached
  <2>3. ShellCacheInv
    BY <2>2, FS_EmptySet, ShellPlanAssumption DEF ShellCacheInv, PlanFits
  <2>4. ProbesInv
    BY DEF ShellPlanInit, ProbesInv, ExecCall
  <2> QED
    BY <2>1, <2>3, <2>4
<1>2. Inv /\ [ShellPlanNext]_shellVars => Inv'
  BY ShellTypesStep, ProbesStep, ShellCacheStep
<1>3. Inv => PlanFits
  BY DEF ShellCacheInv
<1> QED
  BY <1>1, <1>2, <1>3, PTL DEF ShellPlanSpec
-----------------------------------------------------------------------------
(* The metrics.                                                            *)

Honest(r) == r.window > 0 /\ r.rise * r.really <= r.burnt * r.window
Baselines == [ok : BOOLEAN, value : Nat, at : Nat, burnt : Nat, really : Nat]
\* A baseline was read when it says, and a counter has risen above it by no more
\* than what was used since.
TrueTo(base, value, burnt) ==
    /\ base.at = base.really /\ base.at <= time /\ base.burnt <= burnt
    /\ value > base.value => value - base.value <= burnt - base.burnt

SamplesInv ==
    /\ prev \in [Metered -> Baselines] /\ prevNet \in Baselines
    /\ \A c \in Metered : counter[c] <= used[c] /\ TrueTo(prev[c], counter[c], used[c])
    /\ TrueTo(prevNet, traffic, traffic)

RatesInv == (\A c \in Metered : Honest(cpu[c])) /\ Honest(net)

\* cgroups that cannot be read are given up in time.
GivesUpInv ==
    /\ blank \in Nat /\ fails \in Nat /\ unhealthy \in BOOLEAN
    /\ blank <= fails /\ fails <= UnhealthyTicks
    /\ ~unhealthy => fails < UnhealthyTicks

\* The rate since a true baseline is honest.
LEMMA RateIsHonest ==
    ASSUME NEW base \in Baselines, NEW value \in Nat, NEW burnt \in Nat, time \in Nat,
           TrueTo(base, value, burnt)
    PROVE  Honest(Rate(base, value, burnt))
<1>1. CASE ~base.ok \/ time <= base.at
  BY <1>1 DEF Honest, Rate, NoRate
<1>2. CASE ~(~base.ok \/ time <= base.at)
  <2> DEFINE rise == IF value > base.value THEN value - base.value ELSE 0
             window == time - base.at
             more == burnt - base.burnt
  <2>1. /\ Rate(base, value, burnt).rise = rise /\ Rate(base, value, burnt).window = window
        /\ Rate(base, value, burnt).burnt = more /\ Rate(base, value, burnt).really = window
    BY <1>2 DEF Rate, TrueTo
  <2>2. rise \in Nat /\ window \in Nat \ {0} /\ more \in Nat /\ rise <= more
    BY <1>2 DEF TrueTo, Baselines
  <2>3. \A x, y \in Nat : x <= y => \A w \in Nat : x * w <= y * w
    OBVIOUS
  <2> HIDE DEF rise, window, more
  <2>4. rise * window <= more * window /\ window > 0
    BY <2>2, <2>3
  <2> QED
    BY <2>1, <2>4 DEF Honest
<1> QED
  BY <1>1, <1>2

\* What was just read is true.
LEMMA JustRead ==
    ASSUME NEW value \in Nat, NEW burnt \in Nat, time \in Nat
    PROVE  Baseline(TRUE, value, burnt) \in Baselines /\ TrueTo(Baseline(TRUE, value, burnt), value, burnt)
BY DEF Baseline, Baselines, TrueTo

\* Nothing was read, or a counter that stood at nothing.
LEMMA NothingRead ==
    ASSUME NEW base \in {NoBaseline, [NoBaseline EXCEPT !.ok = TRUE]}, time \in Nat,
           NEW value \in Nat, NEW burnt \in Nat, value <= burnt
    PROVE  base \in Baselines /\ TrueTo(base, value, burnt)
<1>1. NoBaseline \in Baselines
  BY DEF NoBaseline, Baselines
<1>2. /\ NoBaseline.value = 0 /\ NoBaseline.at = 0 /\ NoBaseline.burnt = 0 /\ NoBaseline.really = 0
  BY DEF NoBaseline
<1>3. /\ base \in Baselines /\ base.value = 0 /\ base.at = 0 /\ base.burnt = 0 /\ base.really = 0
  BY <1>1, <1>2 DEF Baselines
<1> QED
  BY <1>3 DEF TrueTo

\* What the host does to its counters leaves every baseline true.
LEMMA MetersStep ==
    ASSUME SamplingTypeOK, SamplesInv,
           (\E c \in Metered : Uses(c) \/ Changes(c)) \/ Carries \/ TimeGoes
    PROVE  SamplingTypeOK' /\ SamplesInv'
<1> USE SamplingAssumption DEF Meters
<1>1. /\ counter \in [Metered -> Nat] /\ used \in [Metered -> Nat] /\ traffic \in Nat /\ time \in Nat
      /\ prev \in [Metered -> Baselines] /\ prevNet \in Baselines
  BY DEF SamplingTypeOK, SamplesInv
<1>2. ASSUME NEW c \in Metered, Uses(c) PROVE SamplingTypeOK' /\ SamplesInv'
  <2>1. /\ used[c] < MaxUse /\ counter' = [counter EXCEPT ![c] = counter[c] + 1]
        /\ used' = [used EXCEPT ![c] = used[c] + 1]
        /\ UNCHANGED <<time, listed, traffic, prev, prevNet, fails, unhealthy, demoted>>
    BY <1>2 DEF Uses
  <2>2. \A d \in Metered : counter[d] <= used[d] /\ counter[d] \in Nat /\ used[d] \in Nat
    BY <1>1 DEF SamplesInv
  <2>3. SamplingTypeOK'
    BY <2>1, <2>2 DEF SamplingTypeOK
  <2>4. ASSUME NEW d \in Metered PROVE counter'[d] <= used'[d] /\ TrueTo(prev[d], counter'[d], used'[d])
    <3>1. TrueTo(prev[d], counter[d], used[d]) /\ prev[d] \in Baselines
      BY <1>1 DEF SamplesInv
    <3>2. \/ counter'[d] = counter[d] /\ used'[d] = used[d]
          \/ counter'[d] = counter[d] + 1 /\ used'[d] = used[d] + 1
      BY <1>1, <2>1
    <3>3. TrueTo(prev[d], counter[d] + 1, used[d] + 1)
      BY <2>2, <3>1 DEF TrueTo, Baselines
    <3> QED
      BY <2>2, <3>1, <3>2, <3>3
  <2>5. SamplesInv'
    BY <2>1, <2>4 DEF SamplesInv, TrueTo
  <2> QED
    BY <2>3, <2>5
<1>3. ASSUME NEW c \in Metered, Changes(c) PROVE SamplingTypeOK' /\ SamplesInv'
  <2>1. /\ counter' = [counter EXCEPT ![c] = 0]
        /\ UNCHANGED <<time, used, traffic, prev, prevNet, fails, unhealthy, demoted>>
        /\ \E s \in {"running", "stopped", "gone"} : listed' = [listed EXCEPT ![c] = s]
    BY <1>3 DEF Changes
  <2>2. SamplingTypeOK'
    BY <2>1 DEF SamplingTypeOK
  <2>3. ASSUME NEW d \in Metered PROVE counter'[d] <= used[d] /\ TrueTo(prev[d], counter'[d], used[d])
    <3>1. TrueTo(prev[d], counter[d], used[d]) /\ prev[d] \in Baselines /\ used[d] \in Nat /\ counter[d] <= used[d]
      BY <1>1 DEF SamplesInv
    <3>2. counter'[d] = counter[d] \/ counter'[d] = 0
      BY <1>1, <2>1
    <3> QED
      BY <3>1, <3>2 DEF TrueTo, Baselines
  <2>4. SamplesInv'
    BY <2>1, <2>3 DEF SamplesInv, TrueTo
  <2> QED
    BY <2>2, <2>4
<1>4. CASE Carries
  <2>1. TrueTo(prevNet, traffic + 1, traffic + 1)
    BY <1>1 DEF SamplesInv, TrueTo, Baselines
  <2> QED
    BY <1>1, <1>4, <2>1 DEF Carries, SamplingTypeOK, SamplesInv, TrueTo
<1>5. CASE TimeGoes
  <2>1. /\ time < Ticks /\ time' = time + 1
        /\ UNCHANGED <<listed, counter, used, traffic, prev, prevNet, fails, unhealthy, demoted>>
    BY <1>5 DEF TimeGoes
  <2>2. SamplingTypeOK'
    BY <2>1 DEF SamplingTypeOK
  <2>3. \A base \in Baselines : \A value, burnt \in Nat :
            TrueTo(base, value, burnt) => TrueTo(base, value, burnt)'
    BY <1>1, <2>1 DEF TrueTo, Baselines
  <2> QED
    BY <1>1, <2>1, <2>2, <2>3 DEF SamplesInv, TrueTo, Baselines
<1> QED
  BY <1>2, <1>3, <1>4, <1>5

\* A frame reads anew or keeps what it had, and reports honest rates.
LEMMA FrameStep ==
    ASSUME SamplingTypeOK, SamplesInv, RatesInv, GivesUpInv, Frame
    PROVE  SamplingTypeOK' /\ SamplesInv' /\ RatesInv' /\ GivesUpInv'
<1> USE SamplingAssumption
<1>1. /\ counter \in [Metered -> Nat] /\ used \in [Metered -> Nat] /\ traffic \in Nat /\ time \in Nat
      /\ prev \in [Metered -> Baselines] /\ prevNet \in Baselines
  BY DEF SamplingTypeOK, SamplesInv
<1>2. UNCHANGED <<time, listed, counter, used, traffic>>
  BY DEF Frame, meters
<1>3. Honest(NoRate)
  BY DEF Honest, NoRate
<1>4. prevNet' \in Baselines /\ TrueTo(prevNet', traffic, traffic) /\ Honest(net')
  <2>1. TrueTo(prevNet, traffic, traffic)
    BY DEF SamplesInv
  <2>2. \/ net' = NoRate /\ prevNet' = prevNet
        \/ net' = Rate(prevNet, traffic, traffic) /\ prevNet' = Baseline(TRUE, traffic, traffic)
    BY DEF Frame, SampleHost
  <2> QED
    BY <1>1, <1>3, <2>1, <2>2, RateIsHonest, JustRead
<1>5. /\ prev' \in [Metered -> Baselines]
      /\ \A c \in Metered : TrueTo(prev'[c], counter[c], used[c]) /\ Honest(cpu'[c])
  <2>1. \A c \in Metered : TrueTo(prev[c], counter[c], used[c]) /\ counter[c] <= used[c]
    BY DEF SamplesInv
  <2>2. CASE prev' = prev /\ cpu' = [c \in Metered |-> NoRate]
    BY <1>1, <1>3, <2>1, <2>2
  <2>3. CASE SampleCgroups
    <3>1. PICK counted \in SUBSET Metered :
             /\ prev' = [c \in Metered |->
                  IF listed[c] = "gone" THEN NoBaseline
                  ELSE IF c \in counted THEN Baseline(TRUE, counter[c], used[c]) ELSE CarriedBaseline(c)]
             /\ cpu' = [c \in Metered |->
                  IF c \in counted THEN Rate(prev[c], counter[c], used[c]) ELSE NoRate]
      BY <2>3 DEF SampleCgroups
    <3>2. ASSUME NEW c \in Metered
          PROVE  prev'[c] \in Baselines /\ TrueTo(prev'[c], counter[c], used[c]) /\ Honest(cpu'[c])
      <4>1. prev'[c] \in {NoBaseline, Baseline(TRUE, counter[c], used[c]), prev[c]}
        BY <3>1 DEF CarriedBaseline
      <4>2. prev'[c] \in Baselines /\ TrueTo(prev'[c], counter[c], used[c])
        BY <1>1, <2>1, <4>1, JustRead, NothingRead
      <4>3. cpu'[c] \in {NoRate, Rate(prev[c], counter[c], used[c])}
        BY <3>1
      <4> QED
        BY <1>1, <1>3, <2>1, <4>2, <4>3, RateIsHonest
    <3>3. prev' \in [Metered -> Baselines]
      <4>1. prev' = [c \in Metered |-> prev'[c]]
        BY <3>1
      <4> QED
        BY <3>2, <4>1
    <3> QED
      BY <3>2, <3>3
  <2> QED
    BY <2>2, <2>3 DEF Frame, SampleContainers
<1>6. SamplesInv' /\ RatesInv'
  BY <1>2, <1>4, <1>5 DEF SamplesInv, RatesInv, TrueTo
<1>7. \/ blank' = 0 /\ fails' = fails /\ unhealthy' = unhealthy
      \/ blank' = 0 /\ fails' = 0 /\ unhealthy' = unhealthy
      \/ /\ blank' = blank + 1 /\ fails' = fails + 1 /\ ~unhealthy
         /\ unhealthy' \in BOOLEAN /\ (~unhealthy' => fails + 1 < UnhealthyTicks)
  <2>1. CASE SampleCgroups /\ ~unhealthy
    <3>1. PICK AllFailed \in BOOLEAN :
             /\ fails' = IF AllFailed THEN fails + 1 ELSE 0
             /\ unhealthy' = (unhealthy \/ (AllFailed /\ fails + 1 >= UnhealthyTicks))
             /\ blank' = IF AllFailed THEN blank + 1 ELSE 0
      BY <2>1 DEF SampleCgroups
    <3> QED
      BY <2>1, <3>1 DEF GivesUpInv
  <2>2. CASE blank' = 0 /\ fails' = fails /\ unhealthy' = unhealthy
    BY <2>2
  <2> QED
    BY <2>1, <2>2 DEF Frame, SampleContainers
<1>8. GivesUpInv'
  <2>1. blank \in Nat /\ fails \in Nat /\ blank <= fails /\ fails <= UnhealthyTicks /\ unhealthy \in BOOLEAN
        /\ (~unhealthy => fails < UnhealthyTicks) /\ UnhealthyTicks \in Nat \ {0}
    BY DEF GivesUpInv
  <2> QED
    BY <1>7, <2>1 DEF GivesUpInv
<1>9. demoted' \in BOOLEAN
  BY DEF Frame, SampleContainers, SamplingTypeOK
<1>10. SamplingTypeOK'
  BY <1>2, <1>8, <1>9 DEF SamplingTypeOK, GivesUpInv
<1> QED
  BY <1>6, <1>8, <1>10

\* A stream's first reads.
LEMMA SamplingStarts ==
    ASSUME SamplingInit PROVE SamplingTypeOK /\ SamplesInv /\ RatesInv /\ GivesUpInv
<1> USE SamplingAssumption
<1>a. /\ time = 0 /\ listed = [c \in Metered |-> "running"]
      /\ counter = [c \in Metered |-> 0] /\ used = [c \in Metered |-> 0] /\ traffic = 0
      /\ fails = 0 /\ unhealthy = FALSE /\ demoted = FALSE /\ blank = 0
      /\ cpu = [c \in Metered |-> NoRate] /\ net = NoRate
  BY DEF SamplingInit
<1>b. 0 \in 0..Ticks /\ 0 \in 0..MaxUse /\ 0 \in 0..UnhealthyTicks
  OBVIOUS
<1>d. time \in Nat /\ 0 \in Nat /\ 0 <= 0 /\ traffic \in Nat /\ UnhealthyTicks \in Nat \ {0}
  BY <1>a
<1>1. SamplingTypeOK
  BY <1>a, <1>b DEF SamplingTypeOK
<1> HIDE DEF NoBaseline
<1>c. /\ prev \in [Metered -> {NoBaseline, [NoBaseline EXCEPT !.ok = TRUE]}]
      /\ prevNet \in {NoBaseline, [NoBaseline EXCEPT !.ok = TRUE]}
  BY DEF SamplingInit
<1>2. prevNet \in Baselines /\ TrueTo(prevNet, traffic, traffic)
  BY <1>a, <1>c, NothingRead, <1>d
<1>3. ASSUME NEW c \in Metered
      PROVE  prev[c] \in Baselines /\ TrueTo(prev[c], counter[c], used[c]) /\ counter[c] = 0 /\ used[c] = 0
  <2>1. prev[c] \in {NoBaseline, [NoBaseline EXCEPT !.ok = TRUE]} /\ counter[c] = 0 /\ used[c] = 0
    BY <1>a, <1>c
  <2> QED
    BY <1>a, <2>1, NothingRead, <1>d
<1>4. prev \in [Metered -> Baselines]
  BY <1>3, <1>c
<1>5. SamplesInv
  BY <1>2, <1>3, <1>4 DEF SamplesInv
<1>6. Honest(NoRate)
  BY DEF Honest, NoRate
<1>7. RatesInv
  BY <1>a, <1>6 DEF RatesInv
<1>8. GivesUpInv
  <2>1. blank \in Nat /\ fails \in Nat /\ blank <= fails /\ fails <= UnhealthyTicks /\ fails < UnhealthyTicks
    BY <1>a, <1>d
  <2>2. unhealthy \in BOOLEAN
    BY <1>a
  <2> QED
    BY <2>1, <2>2 DEF GivesUpInv
<1> QED
  BY <1>1, <1>5, <1>7, <1>8

\* The counters, the baselines and the rates, together.
LEMMA SamplingHolds == SamplingSpec => [](SamplingTypeOK /\ SamplesInv /\ RatesInv /\ GivesUpInv)
<1> DEFINE Inv == SamplingTypeOK /\ SamplesInv /\ RatesInv /\ GivesUpInv
<1>1. ASSUME Inv, [SamplingNext]_samplingVars PROVE Inv'
  <2>1. CASE (\E c \in Metered : Uses(c) \/ Changes(c)) \/ Carries \/ TimeGoes
    <3>1. UNCHANGED <<cpu, net, fails, unhealthy, blank>>
      BY <2>1 DEF Uses, Changes, Carries, TimeGoes, Meters
    <3> QED
      BY <1>1, <2>1, <3>1, MetersStep DEF RatesInv, Honest, GivesUpInv
  <2>2. CASE Frame
    BY <1>1, <2>2, FrameStep
  <2>3. CASE UNCHANGED samplingVars
    BY <1>1, <2>3 DEF samplingVars, meters, SamplingTypeOK, SamplesInv, TrueTo, RatesInv, Honest, GivesUpInv
  <2> QED
    BY <1>1, <2>1, <2>2, <2>3 DEF SamplingNext
<1> QED
  BY SamplingStarts, <1>1, PTL DEF SamplingSpec

(* The clock, the roster and the counters keep their types and bounds.     *)
THEOREM SamplingTypeCorrect == SamplingSpec => []SamplingTypeOK
BY SamplingHolds, PTL

(* No rate that is sent lies above what was used on average since its      *)
(* baseline was read, whatever fails, stops or begins anew in between, and *)
(* unreadable cgroups are given up after UnhealthyTicks frames: for any    *)
(* number of containers and any counters.                                  *)
THEOREM SentRatesAreHonest == SamplingSpec => []MetricsAreHonest
<1>1. RatesInv /\ GivesUpInv => MetricsAreHonest
  BY SamplingAssumption DEF RatesInv, Honest, GivesUpInv, MetricsAreHonest
<1> QED
  BY SamplingHolds, <1>1, PTL
-----------------------------------------------------------------------------
(* The ready check.                                                        *)

BoxStates == [status : {"created", "running", "restarting", "exited"}, starts : Nat, started : Nat,
              restarts : Nat, oom : BOOLEAN, clean : BOOLEAN,
              health : {"none", "starting", "healthy", "unhealthy"},
              listens : {"none", "port", "other", "loop"}]
ReadyTypes ==
    /\ box \in [Containers -> BoxStates] /\ clock \in Nat /\ again \subseteq Containers
    /\ first \in [Containers -> [known : BOOLEAN, starts : Nat, restarts : Nat]]
    /\ ours \subseteq Containers /\ isStack \in BOOLEAN

\* The base lies before what docker says now, and before the first start it is bare.
BaseInv(c) ==
    /\ first[c].starts <= box[c].starts
    /\ first[c].starts > 0 => first[c].known
    /\ first[c].starts = 0 \/ isStack => first[c].restarts = 0
    /\ box[c].status = "created" => box[c].starts = 0 /\ box[c].restarts = 0
    /\ box[c].starts = 0 => box[c].status = "created"
    /\ box[c].status = "restarting" => box[c].restarts > 0

\* A container that was started again differs from its base, and one that runs and
\* differs from its base was started again.
AgainInv(c) ==
    LET restarted == \/ first[c].known /\ box[c].restarts > first[c].restarts
                     \/ ~first[c].known /\ isStack /\ box[c].restarts > 0
                     \/ first[c].starts > 0 /\ box[c].starts # first[c].starts
    IN  /\ c \in again => restarted
        /\ box[c].status = "running" /\ restarted => c \in again

ReadyInv == ReadyTypes /\ \A c \in Containers : BaseInv(c) /\ AgainInv(c)

\* A container that listens elsewhere, or whose health turns, is else the same.
LEMMA BoxTurns ==
    ASSUME NEW b \in BoxStates
    PROVE  /\ \A l \in {"none", "port", "other", "loop"} :
                 LET e == [b EXCEPT !.listens = l]
                 IN  e \in BoxStates /\ e.status = b.status /\ e.starts = b.starts /\ e.restarts = b.restarts
           /\ \A h \in {"healthy", "unhealthy"} :
                 LET e == [b EXCEPT !.health = h]
                 IN  e \in BoxStates /\ e.status = b.status /\ e.starts = b.starts /\ e.restarts = b.restarts
BY DEF BoxStates

\* What docker and the app do to a container.
LEMMA ContainersStep ==
    ASSUME ReadyInv, NEW c \in ours,
           FirstStart(c) \/ Dies(c) \/ DockerRestarts(c) \/ RestartedByHand(c) \/ Listens(c) \/ HealthTurns(c)
    PROVE  ReadyInv'
<1>1. /\ c \in Containers /\ box \in [Containers -> BoxStates] /\ box[c] \in BoxStates /\ clock \in Nat
      /\ again \subseteq Containers
      /\ first \in [Containers -> [known : BOOLEAN, starts : Nat, restarts : Nat]] /\ isStack \in BOOLEAN
  BY DEF ReadyInv, ReadyTypes
<1>2. UNCHANGED <<clock, first, ours, isStack, port, verdict>>
  BY DEF FirstStart, Dies, DockerRestarts, RestartedByHand, Listens, HealthTurns, request, check
<1>3. BaseInv(c) /\ AgainInv(c)
  BY <1>1 DEF ReadyInv
<1>4. ASSUME NEW e \in BoxStates, box' = [box EXCEPT ![c] = e], again' \subseteq Containers,
             \A q \in Containers \ {c} : q \in again' <=> q \in again,
             BaseInv(c)', AgainInv(c)'
      PROVE  ReadyInv'
  <2>1. ReadyTypes'
    BY <1>1, <1>2, <1>4 DEF ReadyInv, ReadyTypes
  <2>2. ASSUME NEW q \in Containers, q # c PROVE BaseInv(q)' /\ AgainInv(q)'
    <3>1. box'[q] = box[q] /\ (q \in again' <=> q \in again) /\ BaseInv(q) /\ AgainInv(q)
      BY <1>1, <1>4, <2>2 DEF ReadyInv
    <3> QED
      BY <1>2, <3>1 DEF BaseInv, AgainInv
  <2> QED
    BY <1>4, <2>1, <2>2 DEF ReadyInv
<1>5. CASE FirstStart(c) \/ DockerRestarts(c)
  <2> DEFINE health == IF c \in HealthChecks THEN "starting" ELSE "none"
             b == box[c]
             n == b.starts + 1
             e == [b EXCEPT !.status = "running", !.starts = n, !.started = clock,
                       !.oom = FALSE, !.listens = "none", !.health = health]
  <2>1. box' = [box EXCEPT ![c] = e]
    BY <1>5, <1>1 DEF FirstStart, DockerRestarts, StartsNow
  <2>2. /\ e \in BoxStates /\ e.status = "running" /\ e.starts = n
        /\ e.restarts = b.restarts
    <3>1. b \in BoxStates /\ n \in Nat /\ health \in {"none", "starting", "healthy", "unhealthy"}
      BY <1>1 DEF BoxStates
    <3> HIDE DEF health, b, n
    <3> QED
      BY <1>1, <3>1 DEF BoxStates
  <2> HIDE DEF e
  <2>3. box'[c] = e
    BY <1>1, <2>1
  <2>4. box[c].starts \in Nat /\ box[c].restarts \in Nat /\ first[c].starts \in Nat /\ first[c].restarts \in Nat
        /\ first[c].known \in BOOLEAN
    BY <1>1 DEF BoxStates
  <2>5. BaseInv(c)'
    BY <1>2, <1>3, <2>2, <2>3, <2>4 DEF BaseInv
  <2>6. CASE FirstStart(c)
    <3>1. again' = again /\ box[c].status = "created"
      BY <2>6 DEF FirstStart
    <3>2. AgainInv(c)'
      BY <1>2, <1>3, <2>2, <2>3, <2>4, <3>1 DEF AgainInv, BaseInv
    <3> QED
      BY <1>1, <1>4, <2>1, <2>2, <2>5, <3>1, <3>2
  <2>7. CASE DockerRestarts(c)
    <3>1. again' = (IF first[c].known \/ isStack THEN again \cup {c} ELSE again) /\ box[c].status = "restarting"
      BY <2>7 DEF DockerRestarts
    <3>2. AgainInv(c)'
      BY <1>1, <1>2, <1>3, <2>2, <2>3, <2>4, <3>1 DEF AgainInv, BaseInv
    <3> QED
      BY <1>1, <1>4, <2>1, <2>2, <2>5, <3>1, <3>2
  <2> QED
    BY <1>5, <2>6, <2>7
<1>6. CASE Dies(c)
  <2>1. PICK oom, clean \in BOOLEAN :
          box' = [box EXCEPT ![c].oom = oom, ![c].clean = clean, ![c].listens = "none",
                              ![c].status = IF c \in OneShots THEN "exited" ELSE "restarting",
                              ![c].restarts = IF c \in OneShots THEN @ ELSE @ + 1]
    BY <1>6 DEF Dies
  <2> DEFINE status == IF c \in OneShots THEN "exited" ELSE "restarting"
             b == box[c]
             restarts == IF c \in OneShots THEN b.restarts ELSE b.restarts + 1
             e == [b EXCEPT !.oom = oom, !.clean = clean, !.listens = "none",
                       !.status = status, !.restarts = restarts]
  <2>2. box' = [box EXCEPT ![c] = e]
    BY <1>1, <2>1
  <2>3. /\ e \in BoxStates /\ e.starts = b.starts /\ e.restarts >= b.restarts
        /\ e.status = "exited" \/ (e.status = "restarting" /\ e.restarts > 0)
    <3>1. /\ restarts \in Nat /\ restarts >= b.restarts /\ status \in {"restarting", "exited"}
          /\ status = "exited" \/ (status = "restarting" /\ restarts > 0)
      BY <1>1 DEF BoxStates
    <3>a. b \in BoxStates
      BY <1>1
    <3>2. e \in BoxStates /\ e.status = status /\ e.starts = b.starts /\ e.restarts = restarts
      <4> HIDE DEF status, restarts, b
      <4> QED
        BY <3>1, <3>a DEF BoxStates
    <3> HIDE DEF status, restarts, e
    <3> QED
      BY <3>1, <3>2
  <2> HIDE DEF e
  <2>4. box'[c] = e /\ box[c].status = "running" /\ again' = again
    BY <1>1, <1>6, <2>2 DEF Dies, Running
  <2>5. box[c].starts \in Nat /\ box[c].restarts \in Nat /\ first[c].starts \in Nat /\ first[c].restarts \in Nat
        /\ first[c].known \in BOOLEAN /\ e.restarts \in Nat
    BY <1>1, <2>3 DEF BoxStates
  <2>6. BaseInv(c)' /\ AgainInv(c)'
    BY <1>2, <1>3, <2>3, <2>4, <2>5 DEF BaseInv, AgainInv
  <2> QED
    BY <1>1, <1>4, <2>2, <2>3, <2>4, <2>6
<1>7. CASE RestartedByHand(c)
  <2> DEFINE health == IF c \in HealthChecks THEN "starting" ELSE "none"
             b == box[c]
             n == b.starts + 1
             e == [b EXCEPT !.starts = n, !.started = clock, !.restarts = 0,
                       !.listens = "none", !.health = health]
  <2>1. box' = [box EXCEPT ![c] = e]
    BY <1>1, <1>7 DEF RestartedByHand
  <2>2. /\ e \in BoxStates /\ e.status = b.status /\ e.starts = n /\ e.restarts = 0
    <3>1. b \in BoxStates /\ n \in Nat /\ health \in {"none", "starting", "healthy", "unhealthy"}
      BY <1>1 DEF BoxStates
    <3> HIDE DEF health, b, n
    <3> QED
      BY <1>1, <3>1 DEF BoxStates
  <2> HIDE DEF e
  <2>3. /\ box'[c] = e /\ box[c].status = "running"
        /\ again' = IF first[c].starts > 0 THEN again \cup {c} ELSE again \ {c}
    BY <1>1, <1>7, <2>1 DEF RestartedByHand, Running
  <2>4. box[c].starts \in Nat /\ first[c].starts \in Nat /\ first[c].restarts \in Nat /\ first[c].known \in BOOLEAN
    BY <1>1 DEF BoxStates
  <2>5. BaseInv(c)' /\ AgainInv(c)'
    BY <1>2, <1>3, <2>2, <2>3, <2>4 DEF BaseInv, AgainInv
  <2> QED
    BY <1>1, <1>4, <2>1, <2>2, <2>3, <2>5
<1>8. CASE Listens(c) \/ HealthTurns(c)
  <2>1. PICK e \in BoxStates : /\ box' = [box EXCEPT ![c] = e] /\ e.status = box[c].status
                               /\ e.starts = box[c].starts /\ e.restarts = box[c].restarts
    <3>1. CASE Listens(c)
      <4>1. PICK l \in {"none", "port", "other", "loop"} : box' = [box EXCEPT ![c] = [box[c] EXCEPT !.listens = l]]
        BY <1>1, <3>1 DEF Listens
      <4> QED
        BY <1>1, <4>1, BoxTurns
    <3>2. CASE HealthTurns(c)
      <4>1. PICK h \in {"healthy", "unhealthy"} : box' = [box EXCEPT ![c] = [box[c] EXCEPT !.health = h]]
        BY <1>1, <3>2 DEF HealthTurns
      <4> QED
        BY <1>1, <4>1, BoxTurns
    <3> QED
      BY <1>8, <3>1, <3>2
  <2>2. box'[c] = e /\ again' = again
    BY <1>1, <1>8, <2>1 DEF Listens, HealthTurns
  <2>3. BaseInv(c)' /\ AgainInv(c)'
    BY <1>2, <1>3, <2>1, <2>2 DEF BaseInv, AgainInv
  <2> QED
    BY <1>1, <1>4, <2>1, <2>2, <2>3
<1> QED
  BY <1>5, <1>6, <1>7, <1>8

\* A poll compares each container with its base as the base will be.
LEMMA PollStep ==
    ASSUME ReadyInv, Poll
    PROVE  ReadyInv'
<1>1. UNCHANGED <<box, clock, again, ours, isStack>> /\ first' = [c \in Containers |-> Base(c)]
  BY DEF Poll, containers, request
<1>2. ASSUME NEW c \in Containers
      PROVE  /\ first'[c] \in [known : BOOLEAN, starts : Nat, restarts : Nat]
             /\ first'[c].known /\ first'[c].starts = IF first[c].starts = 0 THEN box[c].starts ELSE first[c].starts
             /\ first'[c].restarts = IF first[c].known THEN first[c].restarts
                                     ELSE IF isStack THEN 0 ELSE box[c].restarts
  <2>1. box[c] \in BoxStates /\ first[c] \in [known : BOOLEAN, starts : Nat, restarts : Nat] /\ BaseInv(c)
    BY DEF ReadyInv, ReadyTypes
  <2>2. first'[c] = Base(c)
    BY <1>1
  <2> QED
    BY <2>1, <2>2 DEF Base, Seen, BoxStates, BaseInv
<1>3. ReadyTypes'
  <2>1. first' \in [Containers -> [known : BOOLEAN, starts : Nat, restarts : Nat]]
    BY <1>1, <1>2
  <2> QED
    BY <1>1, <2>1 DEF ReadyInv, ReadyTypes
<1>4. ASSUME NEW c \in Containers PROVE BaseInv(c)' /\ AgainInv(c)'
  <2>1. box[c] \in BoxStates /\ first[c] \in [known : BOOLEAN, starts : Nat, restarts : Nat] /\ isStack \in BOOLEAN
        /\ BaseInv(c) /\ AgainInv(c)
    BY DEF ReadyInv, ReadyTypes
  <2>2. box[c].starts \in Nat /\ box[c].restarts \in Nat /\ first[c].starts \in Nat /\ first[c].restarts \in Nat
        /\ first[c].known \in BOOLEAN
    BY <2>1 DEF BoxStates
  <2>3. BaseInv(c)'
    BY <1>1, <1>2, <2>1, <2>2 DEF BaseInv
  <2>4. AgainInv(c)'
    BY <1>1, <1>2, <2>1, <2>2 DEF BaseInv, AgainInv
  <2> QED
    BY <2>3, <2>4
<1> QED
  BY <1>3, <1>4 DEF ReadyInv

\* Nothing happens after the verdict, and a step before it keeps the invariant.
LEMMA ReadyStep ==
    ASSUME ReadyInv, [ReadyNext]_readyVars
    PROVE  ReadyInv'
<1> USE DEF ReadyInv, ReadyTypes
<1>1. CASE Poll
  BY <1>1, PollStep
<1>2. CASE PollNothing \/ CancelDeploy \/ UNCHANGED readyVars
  <2>1. UNCHANGED <<box, clock, again, ours, isStack, first>>
    BY <1>2 DEF PollNothing, CancelDeploy, readyVars, containers, request, check
  <2> QED
    BY <2>1 DEF BaseInv, AgainInv
<1>3. CASE ClockTicks
  <2>1. UNCHANGED <<box, again, ours, isStack, first>> /\ clock' = clock + 1
    BY <1>3 DEF ClockTicks, request, check
  <2> QED
    BY <2>1 DEF BaseInv, AgainInv
<1>4. ASSUME NEW c \in ours,
             FirstStart(c) \/ Dies(c) \/ DockerRestarts(c) \/ RestartedByHand(c) \/ Listens(c) \/ HealthTurns(c)
      PROVE  ReadyInv'
  <2> HIDE DEF ReadyInv
  <2> QED
    BY <1>4, ContainersStep
<1> QED
  BY <1>1, <1>2, <1>3, <1>4 DEF ReadyNext

\* What a poll that ends the deploy has seen.
LEMMA PollIsRight ==
    ASSUME ReadyInv, Poll
    PROVE  VerdictIsRight'
<1>1. UNCHANGED <<box, clock, again, ours, isStack, port>>
  BY DEF Poll, containers, request
<1> DEFINE ps == {c \in Routed \cap ours : ~FinishedOneShot(c)}
<1>2. ASSUME NEW c \in ours
      PROVE  /\ c \in Containers /\ box[c] \in BoxStates /\ BaseInv(c) /\ AgainInv(c) /\ isStack \in BOOLEAN
             /\ first[c] \in [known : BOOLEAN, starts : Nat, restarts : Nat]
             /\ clock \in Nat /\ Up(c) \in Int
  BY DEF ReadyInv, ReadyTypes, BoxStates, Up
<1>3. ASSUME NEW c \in ours
      PROVE  /\ c \in again => Restarted(c)
             /\ Restarted(c) /\ Running(c) => c \in again
             /\ Restarted(c) => box[c].status # "created"
  <2>1. /\ Base(c).starts = IF first[c].starts = 0 THEN box[c].starts ELSE first[c].starts
        /\ Base(c).restarts = IF first[c].known THEN first[c].restarts
                              ELSE IF isStack THEN 0 ELSE box[c].restarts
    BY <1>2 DEF Base, Seen, BaseInv, BoxStates
  <2>2. box[c].starts \in Nat /\ box[c].restarts \in Nat /\ first[c].starts \in Nat /\ first[c].restarts \in Nat
        /\ first[c].known \in BOOLEAN
    BY <1>2 DEF BoxStates
  <2> QED
    BY <1>2, <2>1, <2>2 DEF Restarted, Running, BaseInv, AgainInv
<1>4. ASSUME verdict' \in Ok
      PROVE  \A c \in ours : ~Fails(c) /\ Settled(c)
  BY <1>4 DEF Poll, Expired, Ok
<1>5. ReadyMeansStayedUp'
  <2> SUFFICES ASSUME verdict' \in Ok, NEW c \in ours, ~FinishedOneShot(c)
               PROVE  /\ Running(c) /\ Up(c) >= Quick /\ box[c].health \notin {"starting", "unhealthy"}
                      /\ c \in again => isStack /\ Up(c) >= Settle
    BY <1>1 DEF ReadyMeansStayedUp, FinishedOneShot, Running, Up
  <2>1. Running(c) /\ box[c].health # "starting" /\ Up(c) >= SettleFor(c) /\ ~Fails(c)
    BY <1>4 DEF Settled
  <2>2. Quick \in Nat /\ Settle \in Nat /\ Quick < Settle
    BY ReadinessAssumption
  <2>3. Up(c) >= Quick /\ (Restarted(c) => Up(c) >= Settle)
    BY <1>2, <2>1, <2>2 DEF SettleFor
  <2>4. ~Settling(c)
    BY <1>2, <2>1, <2>2, <2>3 DEF Settling, Running
  <2>5. box[c].health # "unhealthy" /\ (Restarted(c) => isStack)
    BY <2>1, <2>4 DEF Fails, TooOften
  <2> QED
    BY <1>3, <2>1, <2>3, <2>5
<1>6. FailsForACause'
  <2> SUFFICES ASSUME verdict' = "failed"
               PROVE  \/ \E c \in ours : \/ c \in again \/ box[c].status \in {"restarting", "exited"}
                                         \/ box[c].health = "unhealthy"
                      \/ port = "required" /\ \E c \in Routed \cap ours : box[c].listens = "loop"
    BY <1>1 DEF FailsForACause
  <2>1. (\E c \in ours : Fails(c)) \/ PortVerdict(ps) = "failed"
    BY DEF Poll, Expired
  <2>2. ASSUME NEW c \in ours, Fails(c)
        PROVE  c \in again \/ box[c].status \in {"restarting", "exited"} \/ box[c].health = "unhealthy"
    BY <1>2, <1>3, <2>2 DEF Fails, Running, BoxStates
  <2>3. ASSUME PortVerdict(ps) = "failed"
        PROVE  port = "required" /\ \E c \in Routed \cap ours : box[c].listens = "loop"
    BY <2>3 DEF PortVerdict
  <2> QED
    BY <2>1, <2>2, <2>3
<1> QED
  BY <1>5, <1>6 DEF VerdictIsRight

(* A deploy that is called ready has every container up and settled, none  *)
(* of an app's started again since it was known, and one that is called    *)
(* failed has a cause of its own: for any number of containers, any        *)
(* windows, and however often they die and are started again.              *)
THEOREM ReadyVerdictIsRight == ReadySpec => []VerdictIsRight
<1> DEFINE Inv == ReadyInv /\ VerdictIsRight
<1>1. ASSUME ReadyInit PROVE Inv
  <2>1. ours \subseteq Containers /\ isStack \in BOOLEAN /\ verdict = "none" /\ again = {} /\ clock = 0
    BY <1>1, ReadinessAssumption DEF ReadyInit
  <2>2. ASSUME NEW c \in Containers
        PROVE  /\ box[c] = [status |-> "created", starts |-> 0, started |-> 0, restarts |-> 0, oom |-> FALSE,
                            clean |-> FALSE, health |-> "none", listens |-> "none"]
               /\ first[c] = [known |-> FALSE, starts |-> 0, restarts |-> 0]
    BY <1>1 DEF ReadyInit
  <2>3. box \in [Containers -> BoxStates] /\ first \in [Containers -> [known : BOOLEAN, starts : Nat, restarts : Nat]]
    BY <1>1 DEF ReadyInit, BoxStates
  <2>4. \A c \in Containers : BaseInv(c) /\ AgainInv(c)
    BY <2>1, <2>2 DEF BaseInv, AgainInv
  <2>5. VerdictIsRight
    BY <2>1 DEF VerdictIsRight, ReadyMeansStayedUp, FailsForACause, Ok
  <2> QED
    BY <2>1, <2>3, <2>4, <2>5 DEF ReadyInv, ReadyTypes
<1>2. ASSUME Inv, [ReadyNext]_readyVars PROVE Inv'
  <2>1. ReadyInv'
    BY <1>2, ReadyStep
  <2>2. CASE Poll
    BY <1>2, <2>2, PollIsRight, <2>1
  <2>3. CASE ReadyNext /\ ~Poll
    <3>1. verdict' \in {"none", "expired", "cancelled"}
      BY <2>3 DEF ReadyNext, PollNothing, CancelDeploy, ClockTicks, FirstStart, Dies, DockerRestarts,
         RestartedByHand, Listens, HealthTurns, Expired, check
    <3>2. VerdictIsRight'
      BY <3>1 DEF VerdictIsRight, ReadyMeansStayedUp, FailsForACause, Ok
    <3> QED
      BY <2>1, <3>2
  <2>4. CASE UNCHANGED readyVars
    <3>1. VerdictIsRight'
      BY <1>2, <2>4 DEF readyVars, containers, request, check, VerdictIsRight, ReadyMeansStayedUp,
         FailsForACause, FinishedOneShot, Running, Up
    <3> QED
      BY <2>1, <3>1
  <2> QED
    BY <1>2, <2>2, <2>3, <2>4
<1> QED
  BY <1>1, <1>2, PTL DEF ReadySpec

HIDE AgentIdentityAssumption DEF Bootstrapping, Idle, At, GoTo, install, start, calls, NewCA
-----------------------------------------------------------------------------
(* Traefik's configuration.                                                *)

Steps == {"rename", "restart", "write", "giveBack", "apply", "rollBack", "reapply"}

(* Where the configuration last known to work is, by where the one call is *)
(* that runs: in the stack file until it is moved, then in the backup.     *)
KeptWhere(c) ==
    /\ tpc[c] \in {"write", "giveBack", "apply", "rollBack", "reapply"} => mover = c
    /\ tpc[c] = "apply" => stack = c
    /\ half = "none" =>
          /\ tpc[c] \in {"rename", "restart", "reapply"} => stack = good
          /\ tpc[c] \in {"write", "giveBack", "apply", "rollBack"} => backup = good

(* And where it is once a call has left it half done, until another one    *)
(* moves the stack file; the call that did has answered.                   *)
KeptHalfDone ==
    half # "none" => /\ half \in Configs /\ tpc[half] \in {"failed", "restored"}
                     /\ half = mover => backup = good

(* The container is made from another one only while a call rolls back.    *)
KeptServing ==
    ~unsure /\ half \in {"none", mover} =>
        serves = good \/ \E c \in Configs : tpc[c] \in {"rollBack", "reapply"}

TraefikInv ==
    /\ tpc \in [Configs -> Answered \cup Steps]
    /\ \A c, d \in Configs : tpc[c] \in Steps /\ tpc[d] \in Steps => c = d
    /\ \A c \in Configs : KeptWhere(c)
    /\ KeptHalfDone /\ KeptServing
    /\ Quiet /\ half = "none" => stack = good
    /\ unsure \in BOOLEAN

(* A step of the one call that runs is one of three kinds, and the places  *)
(* of the others do not change.                                            *)
LEMMA OneCallGoes ==
    ASSUME tpc \in [Configs -> Answered \cup Steps],
           \A c, d \in Configs : tpc[c] \in Steps /\ tpc[d] \in Steps => c = d,
           NEW c \in Configs, NEW p \in Answered \cup Steps, TGoes(c, p),
           tpc[c] \in Steps \/ Quiet
    PROVE  /\ tpc' \in [Configs -> Answered \cup Steps] /\ tpc'[c] = p
           /\ \A d \in Configs : d # c => tpc[d] \in Answered /\ tpc'[d] = tpc[d]
           /\ \A d, e \in Configs : tpc'[d] \in Steps /\ tpc'[e] \in Steps => d = e
BY DEF TGoes, Quiet, Answered, Steps

(* Every step of a call, and a kill, keep the configuration where the      *)
(* invariant says.                                                         *)
LEMMA TraefikStep ==
    ASSUME ~AtOnce, TraefikInv, [TraefikNext]_traefikVars
    PROVE  TraefikInv'
<1> USE DEF TraefikInv
<1>1. ASSUME NEW c \in Configs, NEW p \in Answered \cup Steps, TGoes(c, p),
             tpc[c] \in Steps \/ Quiet,
             p \in {"write", "giveBack", "apply", "rollBack", "reapply"} => mover' = c,
             p = "apply" => stack' = c,
             half' = "none" =>
                 /\ p \in {"rename", "restart", "reapply"} \cup Answered => stack' = good'
                 /\ p \in {"write", "giveBack", "apply", "rollBack"} => backup' = good',
             half' # "none" =>
                 /\ half' \in {c, half} \cap Configs
                 /\ half' = c => p \in {"failed", "restored"}
                 /\ half' = mover' => backup' = good',
             unsure' \in BOOLEAN,
             ~unsure' /\ half' \in {"none", mover'} =>
                 serves' = good' \/ p \in {"rollBack", "reapply"}
      PROVE  TraefikInv'
  <2>1. /\ tpc' \in [Configs -> Answered \cup Steps] /\ tpc'[c] = p
        /\ \A d \in Configs : d # c => tpc[d] \in Answered /\ tpc'[d] = tpc[d]
        /\ \A d, e \in Configs : tpc'[d] \in Steps /\ tpc'[e] \in Steps => d = e
    BY <1>1, OneCallGoes
  <2>2. \A d \in Configs : KeptWhere(d)'
    BY <1>1, <2>1 DEF KeptWhere, Answered
  <2>3. KeptHalfDone'
    BY <1>1, <2>1 DEF KeptHalfDone
  <2>4. KeptServing'
    BY <1>1, <2>1 DEF KeptServing
  <2>5. Quiet' /\ half' = "none" => stack' = good'
    BY <1>1, <2>1 DEF Quiet
  <2> QED
    BY <1>1, <2>1, <2>2, <2>3, <2>4, <2>5
<1>2. ASSUME NEW c \in Configs, tpc[c] \in Steps PROVE /\ half # c /\ (half # "none" => half \in Configs)
                                                       /\ c # "none" /\ KeptWhere(c)
  BY <1>2, TraefikAssumption DEF KeptHalfDone, Answered, Steps
<1>3. ASSUME NEW c \in Configs, tpc[c] \in {"rename", "restart", "write", "giveBack", "apply"},
             ~unsure, half \in {"none", mover}
      PROVE  serves = good
  BY <1>3 DEF KeptServing, Steps
<1>4. ASSUME NEW c \in Configs, StatStack(c) PROVE TraefikInv'
  <2>1. Quiet /\ tpc[c] = "idle"
    BY <1>4 DEF StatStack, Quiet
  <2>2. half # "none" => half \in Configs /\ (half = mover => backup = good)
    BY DEF KeptHalfDone
  <2>3. ~unsure /\ half \in {"none", mover} => serves = good
    BY <2>1 DEF KeptServing, Quiet, Answered
  <2>4. PICK p \in {"failed", "rename", "restart"} : TGoes(c, p)
    BY <1>4 DEF StatStack
  <2>5. half # c /\ c # "none"
    BY <2>1, TraefikAssumption DEF KeptHalfDone
  <2> QED
    BY <1>4, <1>1, <2>1, <2>2, <2>3, <2>4, <2>5 DEF StatStack, history, Answered, Steps
<1>5. ASSUME NEW c \in Configs, MoveToBackup(c) PROVE TraefikInv'
  BY <1>5, <1>1, <1>2, <1>3 DEF MoveToBackup, Answered, Steps, KeptWhere, KeptHalfDone
<1>6. ASSUME NEW c \in Configs, WriteStackFile(c) PROVE TraefikInv'
  BY <1>6, <1>1, <1>2, <1>3 DEF WriteStackFile, history, Answered, Steps, KeptWhere, KeptHalfDone
<1>7. ASSUME NEW c \in Configs, GiveBack(c) PROVE TraefikInv'
  BY <1>7, <1>1, <1>2, <1>3
  DEF GiveBack, MovesBack, LeavesHalfDone, Answered, Steps, KeptWhere, KeptHalfDone
<1>8. ASSUME NEW c \in Configs, ApplyStack(c) PROVE TraefikInv'
  BY <1>8, <1>1, <1>2, <1>3 DEF ApplyStack, Answered, Steps, KeptWhere, KeptHalfDone
<1>9. ASSUME NEW c \in Configs, RollBack(c) PROVE TraefikInv'
  BY <1>9, <1>1, <1>2
  DEF RollBack, MovesBack, LeavesHalfDone, Answered, Steps, KeptWhere, KeptHalfDone
<1>10. ASSUME NEW c \in Configs, ApplyAgain(c) PROVE TraefikInv'
  BY <1>10, <1>1, <1>2 DEF ApplyAgain, Answered, Steps, KeptWhere, KeptHalfDone
<1>11. ASSUME NEW c \in Configs, RestartTraefik(c) PROVE TraefikInv'
  BY <1>11, <1>1, <1>2, <1>3 DEF RestartTraefik, history, Answered, Steps, KeptWhere, KeptHalfDone
<1>12. CASE AgentStops
  <2>1. /\ tpc' \in [Configs -> Answered \cup Steps]
        /\ \A c \in Configs : tpc'[c] = IF tpc[c] \in Answered THEN tpc[c] ELSE "failed"
        /\ UNCHANGED <<backup, good, mover>>
    BY <1>12 DEF AgentStops, Answered
  <2>2. /\ CallsAt({"write"}) # {} \/ stack' = stack
        /\ CallsAt({"apply", "reapply"}) # {} \/ serves' = serves
        /\ unsure' = (unsure \/ CallsAt({"apply", "rollBack", "reapply"}) # {})
        /\ half' \in IF half = "none" /\ CallsAt({"write", "giveBack", "apply", "rollBack"}) # {}
                     THEN CallsAt({"write", "giveBack", "apply", "rollBack"}) ELSE {half}
    BY <1>12 DEF AgentStops
  <2>3. CASE Quiet
    <3>1. tpc' = tpc
      BY <2>1, <2>3 DEF Quiet
    <3>2. /\ CallsAt({"write"}) = {} /\ CallsAt({"apply", "reapply"}) = {}
          /\ CallsAt({"apply", "rollBack", "reapply"}) = {}
          /\ CallsAt({"write", "giveBack", "apply", "rollBack"}) = {}
      BY <2>3 DEF CallsAt, Quiet, Answered
    <3>3. UNCHANGED <<stack, serves, half>> /\ unsure' = unsure
      <4>1. unsure \in BOOLEAN
        BY DEF TraefikInv
      <4> QED
        BY <2>2, <3>2, <4>1
    <3> QED
      BY <2>1, <3>1, <3>3 DEF KeptWhere, KeptHalfDone, KeptServing, Quiet
  <2>4. ASSUME NEW c \in Configs, tpc[c] \in Steps PROVE TraefikInv'
    <3>1. \A d \in Configs : tpc'[d] \in Answered /\ (d # c => tpc[d] \in Answered)
      BY <2>1, <2>4 DEF Answered, Steps
    <3>2. half' # "none" => /\ half' \in Configs /\ tpc'[half'] \in {"failed", "restored"}
                            /\ half' = mover => backup = good
      <4>1. CASE half' = half
        BY <4>1, <2>1 DEF KeptHalfDone, Answered
      <4>2. CASE half = "none" /\ half' \in CallsAt({"write", "giveBack", "apply", "rollBack"})
        <5>1. half' = c /\ tpc[c] \in {"write", "giveBack", "apply", "rollBack"}
          BY <4>2, <2>4, <3>1 DEF CallsAt, Answered
        <5> QED
          BY <5>1, <4>2, <2>1, <2>4 DEF KeptWhere, Answered
      <4> QED
        BY <2>2, <4>1, <4>2
    <3>3. half' = "none" => half = "none" /\ tpc[c] \in {"rename", "restart", "reapply"}
      BY <1>2, <2>2, <2>4, TraefikAssumption DEF CallsAt, Steps
    <3>4. half' = "none" => stack' = good
      BY <3>1, <3>3, <2>2, <2>4 DEF CallsAt, KeptWhere, Answered
    <3>5. ~unsure' /\ half' \in {"none", mover} => serves' = good
      <4> SUFFICES ASSUME ~unsure', half' \in {"none", mover} PROVE serves' = good
        OBVIOUS
      <4>1. ~unsure /\ tpc[c] \in {"rename", "restart", "write", "giveBack"}
        BY <2>2, <2>4 DEF CallsAt, Steps
      <4>2. serves' = serves
        BY <2>2, <3>1, <4>1 DEF CallsAt, Answered
      <4>3. half \in {"none", mover}
        BY <2>2
      <4> QED
        BY <1>3, <4>1, <4>2, <4>3
    <3> QED
      BY <2>1, <2>2, <3>1, <3>2, <3>4, <3>5
      DEF KeptWhere, KeptHalfDone, KeptServing, Answered, Steps
  <2> QED
    BY <2>3, <2>4 DEF Quiet
<1>13. CASE UNCHANGED traefikVars
  BY <1>13 DEF traefikVars, KeptWhere, KeptHalfDone, KeptServing, Quiet
<1> QED
  BY <1>4, <1>5, <1>6, <1>7, <1>8, <1>9, <1>10, <1>11, <1>12, <1>13 DEF TraefikNext

(* When calls of TraefikConfig come one at a time: a call that fails in    *)
(* any of its steps, the move back among them, or is killed in one leaves  *)
(* the configuration last known to work on disk until another call moves   *)
(* the stack file; and the container is made from it, unless the apply of  *)
(* the restored file failed, was skipped or was cut off.  For any number   *)
(* of calls and kills.                                                     *)
THEOREM GoodConfigStays ==
    ASSUME ~AtOnce
    PROVE  TraefikSpec => []GoodConfigIsKept
<1>1. TraefikInit => TraefikInv
  BY TraefikAssumption
  DEF TraefikInit, TraefikInv, KeptWhere, KeptHalfDone, KeptServing, Quiet, Answered, Steps
<1>2. TraefikInv /\ [TraefikNext]_traefikVars => TraefikInv'
  BY TraefikStep
<1>3. TraefikInv => GoodConfigIsKept
  <2> SUFFICES ASSUME TraefikInv, half \in {"none", mover} PROVE GoodConfigIsKept
    BY DEF GoodConfigIsKept
  <2>1. half # "none" => backup = good
    BY DEF TraefikInv, KeptHalfDone
  <2>2. half = "none" => good \in {stack, backup}
    BY DEF TraefikInv, KeptWhere, Quiet, Answered, Steps
  <2>3. Quiet /\ ~unsure => serves = good
    BY DEF TraefikInv, KeptServing, Quiet, Answered
  <2> QED
    BY <2>1, <2>2, <2>3 DEF TraefikInv, GoodConfigIsKept
<1> QED
  BY <1>1, <1>2, <1>3, PTL DEF TraefikSpec

-----------------------------------------------------------------------------
(* The networks.                                                           *)

\* The apply that runs, or the next one, puts Traefik on the network, or it is there.
Reached(n) ==
    n \in tenants => /\ n \in There
                     /\ n \in proxyOn \/ (~applied /\ (apply = "connect" => n \in applyOn))

(* Traefik is gone only while an apply makes it anew, and an apply counts  *)
(* once it has connected it.                                               *)
ApplyInv ==
    /\ apply \in {"idle", "recreate", "list", "connect"}
    /\ apply # "idle" => ~applied
    /\ ~proxy => ~applied /\ apply \in {"idle", "recreate"}

(* What is removed belongs to no environment: a preview whose stack is     *)
(* destroyed is gone before, and cleanup, whose list is old, takes no      *)
(* network that was made after the list was.                               *)
RemovalInv ==
    /\ \A a \in NetApps : tear[a] # "idle" /\ NetOf[a] \in Previews => NetOf[a] \notin tenants
    /\ \A a \in NetApps : tear[a] \in {"unplug", "remove"} => NetOf[a] \in Previews
    /\ sweep # "idle" => \A n \in tenants \ sweepLive : netAge[n] # "old"
    /\ sweep \in {"unplug", "remove"} => sweepAt \notin tenants

(* A deploy that has made sure of its network may count on it, and a stack *)
(* that is up may.                                                         *)
RaiseInv ==
    /\ \A a \in NetApps : raise[a] \in {"look", "connect"} /\ NetOf[a] \in tenants => NetOf[a] \in There
    /\ \A a \in NetApps : raise[a] \in {"list", "join", "up"} \/ a \in stackUp => Reached(NetOf[a])
    /\ stranded = {}

NetTypes ==
    /\ netAge \in [Nets -> {"none", "fresh", "old"}] /\ tenants \subseteq Nets
    /\ raise \in [NetApps -> {"idle", "ensure", "create", "look", "connect", "list", "join", "up"}]
    /\ tear \in [NetApps -> {"idle", "down", "unplug", "remove"}]
    /\ stackUp \subseteq NetApps

NetworksInv == NetTypes /\ ApplyInv /\ RemovalInv /\ RaiseInv

USE NetworksAssumption DEF dockerNets, raises, applies, sweeps, There

(* The networks' types.                                                    *)
LEMMA NetTypesStep ==
    ASSUME NetTypes, [NetworksNext]_netVars
    PROVE  NetTypes'
<1> USE DEF NetTypes
<1>1. ASSUME NEW a \in NetApps, BeginRaise(a) PROVE NetTypes'
  BY <1>1 DEF BeginRaise, Going, RaiseOnly
<1>2. ASSUME NEW a \in NetApps, InspectNetwork(a) PROVE NetTypes'
  BY <1>2 DEF InspectNetwork, Going, RaiseOnly
<1>3. ASSUME NEW a \in NetApps, CreateNetwork(a) PROVE NetTypes'
  BY <1>3 DEF CreateNetwork, GivesUpRaise, Connect, Going, RaiseOnly
<1>4. ASSUME NEW a \in NetApps, LookForProxy(a) PROVE NetTypes'
  BY <1>4 DEF LookForProxy, Going, RaiseOnly
<1>5. ASSUME NEW a \in NetApps, ConnectOwn(a) PROVE NetTypes'
  BY <1>5 DEF ConnectOwn, GivesUpRaise, Connect, Going, RaiseOnly
<1>6. ASSUME NEW a \in NetApps, RerouteNow(a) PROVE NetTypes'
  BY <1>6 DEF RerouteNow, Going, RaiseOnly
<1>7. ASSUME NEW a \in NetApps, ListMissing(a) PROVE NetTypes'
  BY <1>7 DEF ListMissing, Going, RaiseOnly
<1>8. ASSUME NEW a \in NetApps, NEW n \in Nets, JoinMissing(a, n) PROVE NetTypes'
  BY <1>8 DEF JoinMissing, Connect, Going, RaiseOnly
<1>9. ASSUME NEW a \in NetApps, Built(a) PROVE NetTypes'
  BY <1>9 DEF Built, Going, RaiseOnly
<1>10. ASSUME NEW a \in NetApps, RaiseStack(a) PROVE NetTypes'
  BY <1>10 DEF RaiseStack, Going
<1>11. ASSUME NEW a \in NetApps, BeginDestroy(a) PROVE NetTypes'
  BY <1>11 DEF BeginDestroy
<1>12. ASSUME NEW a \in NetApps, Down(a) PROVE NetTypes'
  BY <1>12 DEF Down
<1>13. ASSUME NEW a \in NetApps, Unplug(a) PROVE NetTypes'
  BY <1>13 DEF Unplug, Unplugged
<1>14. ASSUME NEW a \in NetApps, RemovePreviewNetwork(a) PROVE NetTypes'
  BY <1>14 DEF RemovePreviewNetwork, Removed
<1>15. ASSUME NEW n \in Nets, ConnectTenant(n) PROVE NetTypes'
  BY <1>15 DEF ConnectTenant, Connect, ApplyOnly
<1>16. ASSUME NEW n \in Nets, MakeTenant(n) PROVE NetTypes'
  BY <1>16 DEF MakeTenant, Unused
<1>17. ASSUME NEW n \in Nets, DeleteTenant(n) PROVE NetTypes'
  BY <1>17 DEF DeleteTenant, Unused
<1>18. ASSUME NEW n \in Nets, LookAtNetwork(n) PROVE NetTypes'
  BY <1>18 DEF LookAtNetwork, LeftoverNet, SweepOnly
<1>19. CASE BeginApply
  BY <1>19 DEF BeginApply, ApplyOnly
<1>20. CASE RemoveProxy
  BY <1>20 DEF RemoveProxy, ApplyOnly
<1>21. CASE RecreateProxy
  BY <1>21 DEF RecreateProxy, ApplyOnly
<1>22. CASE ListTenants
  BY <1>22 DEF ListTenants, ApplyOnly
<1>23. CASE ApplyFails
  BY <1>23 DEF ApplyFails, ApplyOnly
<1>24. CASE EndApply
  BY <1>24 DEF EndApply, ApplyOnly
<1>25. CASE BeginSweep
  BY <1>25 DEF BeginSweep, SweepOnly
<1>26. CASE UnplugLeftover
  BY <1>26 DEF UnplugLeftover, Unplugged, SweepOnly
<1>27. CASE RemoveLeftover
  BY <1>27 DEF RemoveLeftover, Removed, SweepOnly
<1>28. CASE EndSweep
  BY <1>28 DEF EndSweep, SweepOnly
<1>29. CASE NetworksAge
  BY <1>29 DEF NetworksAge
<1>30. CASE UNCHANGED netVars
  BY <1>30 DEF netVars
<1> QED
  BY <1>1, <1>2, <1>3, <1>4, <1>5, <1>6, <1>7, <1>8, <1>9, <1>10, <1>11, <1>12, <1>13, <1>14, <1>15, <1>16, <1>17, <1>18, <1>19, <1>20, <1>21, <1>22, <1>23, <1>24, <1>25, <1>26, <1>27, <1>28, <1>29, <1>30
     DEF NetworksNext

(* Only an apply takes Traefik away, and gives it back.                    *)
LEMMA ApplyStep ==
    ASSUME ApplyInv, [NetworksNext]_netVars
    PROVE  ApplyInv'
<1> USE DEF ApplyInv
<1>1. ASSUME NEW a \in NetApps, BeginRaise(a) PROVE ApplyInv'
  BY <1>1 DEF BeginRaise, Going, RaiseOnly
<1>2. ASSUME NEW a \in NetApps, InspectNetwork(a) PROVE ApplyInv'
  BY <1>2 DEF InspectNetwork, Going, RaiseOnly
<1>3. ASSUME NEW a \in NetApps, CreateNetwork(a) PROVE ApplyInv'
  BY <1>3 DEF CreateNetwork, GivesUpRaise, Connect, Going, RaiseOnly
<1>4. ASSUME NEW a \in NetApps, LookForProxy(a) PROVE ApplyInv'
  BY <1>4 DEF LookForProxy, Going, RaiseOnly
<1>5. ASSUME NEW a \in NetApps, ConnectOwn(a) PROVE ApplyInv'
  BY <1>5 DEF ConnectOwn, GivesUpRaise, Connect, Going, RaiseOnly
<1>6. ASSUME NEW a \in NetApps, RerouteNow(a) PROVE ApplyInv'
  BY <1>6 DEF RerouteNow, Going, RaiseOnly
<1>7. ASSUME NEW a \in NetApps, ListMissing(a) PROVE ApplyInv'
  BY <1>7 DEF ListMissing, Going, RaiseOnly
<1>8. ASSUME NEW a \in NetApps, NEW n \in Nets, JoinMissing(a, n) PROVE ApplyInv'
  BY <1>8 DEF JoinMissing, Connect, Going, RaiseOnly
<1>9. ASSUME NEW a \in NetApps, Built(a) PROVE ApplyInv'
  BY <1>9 DEF Built, Going, RaiseOnly
<1>10. ASSUME NEW a \in NetApps, RaiseStack(a) PROVE ApplyInv'
  BY <1>10 DEF RaiseStack, Going
<1>11. ASSUME NEW a \in NetApps, BeginDestroy(a) PROVE ApplyInv'
  BY <1>11 DEF BeginDestroy
<1>12. ASSUME NEW a \in NetApps, Down(a) PROVE ApplyInv'
  BY <1>12 DEF Down
<1>13. ASSUME NEW a \in NetApps, Unplug(a) PROVE ApplyInv'
  BY <1>13 DEF Unplug, Unplugged
<1>14. ASSUME NEW a \in NetApps, RemovePreviewNetwork(a) PROVE ApplyInv'
  BY <1>14 DEF RemovePreviewNetwork, Removed
<1>15. ASSUME NEW n \in Nets, ConnectTenant(n) PROVE ApplyInv'
  BY <1>15 DEF ConnectTenant, Connect, ApplyOnly
<1>16. ASSUME NEW n \in Nets, MakeTenant(n) PROVE ApplyInv'
  BY <1>16 DEF MakeTenant, Unused
<1>17. ASSUME NEW n \in Nets, DeleteTenant(n) PROVE ApplyInv'
  BY <1>17 DEF DeleteTenant, Unused
<1>18. ASSUME NEW n \in Nets, LookAtNetwork(n) PROVE ApplyInv'
  BY <1>18 DEF LookAtNetwork, LeftoverNet, SweepOnly
<1>19. CASE BeginApply
  BY <1>19 DEF BeginApply, ApplyOnly
<1>20. CASE RemoveProxy
  BY <1>20 DEF RemoveProxy, ApplyOnly
<1>21. CASE RecreateProxy
  BY <1>21 DEF RecreateProxy, ApplyOnly
<1>22. CASE ListTenants
  BY <1>22 DEF ListTenants, ApplyOnly
<1>23. CASE ApplyFails
  BY <1>23 DEF ApplyFails, ApplyOnly
<1>24. CASE EndApply
  BY <1>24 DEF EndApply, ApplyOnly
<1>25. CASE BeginSweep
  BY <1>25 DEF BeginSweep, SweepOnly
<1>26. CASE UnplugLeftover
  BY <1>26 DEF UnplugLeftover, Unplugged, SweepOnly
<1>27. CASE RemoveLeftover
  BY <1>27 DEF RemoveLeftover, Removed, SweepOnly
<1>28. CASE EndSweep
  BY <1>28 DEF EndSweep, SweepOnly
<1>29. CASE NetworksAge
  BY <1>29 DEF NetworksAge
<1>30. CASE UNCHANGED netVars
  BY <1>30 DEF netVars
<1> QED
  BY <1>1, <1>2, <1>3, <1>4, <1>5, <1>6, <1>7, <1>8, <1>9, <1>10, <1>11, <1>12, <1>13, <1>14, <1>15, <1>16, <1>17, <1>18, <1>19, <1>20, <1>21, <1>22, <1>23, <1>24, <1>25, <1>26, <1>27, <1>28, <1>29, <1>30
     DEF NetworksNext

(* Nothing that an environment has is about to be removed.                 *)
LEMMA RemovalStep ==
    ASSUME NetTypes, RemovalInv, [NetworksNext]_netVars
    PROVE  RemovalInv'
<1> USE DEF RemovalInv, NetTypes
<1>1. ASSUME NEW a \in NetApps, BeginRaise(a) PROVE RemovalInv'
  BY <1>1 DEF BeginRaise, Going, RaiseOnly
<1>2. ASSUME NEW a \in NetApps, InspectNetwork(a) PROVE RemovalInv'
  BY <1>2 DEF InspectNetwork, Going, RaiseOnly
<1>3. ASSUME NEW a \in NetApps, CreateNetwork(a) PROVE RemovalInv'
  BY <1>3 DEF CreateNetwork, GivesUpRaise, Connect, Going, RaiseOnly
<1>4. ASSUME NEW a \in NetApps, LookForProxy(a) PROVE RemovalInv'
  BY <1>4 DEF LookForProxy, Going, RaiseOnly
<1>5. ASSUME NEW a \in NetApps, ConnectOwn(a) PROVE RemovalInv'
  BY <1>5 DEF ConnectOwn, GivesUpRaise, Connect, Going, RaiseOnly
<1>6. ASSUME NEW a \in NetApps, RerouteNow(a) PROVE RemovalInv'
  BY <1>6 DEF RerouteNow, Going, RaiseOnly
<1>7. ASSUME NEW a \in NetApps, ListMissing(a) PROVE RemovalInv'
  BY <1>7 DEF ListMissing, Going, RaiseOnly
<1>8. ASSUME NEW a \in NetApps, NEW n \in Nets, JoinMissing(a, n) PROVE RemovalInv'
  BY <1>8 DEF JoinMissing, Connect, Going, RaiseOnly
<1>9. ASSUME NEW a \in NetApps, Built(a) PROVE RemovalInv'
  BY <1>9 DEF Built, Going, RaiseOnly
<1>10. ASSUME NEW a \in NetApps, RaiseStack(a) PROVE RemovalInv'
  BY <1>10 DEF RaiseStack, Going
<1>11. ASSUME NEW a \in NetApps, BeginDestroy(a) PROVE RemovalInv'
  BY <1>11 DEF BeginDestroy
<1>12. ASSUME NEW a \in NetApps, Down(a) PROVE RemovalInv'
  BY <1>12 DEF Down
<1>13. ASSUME NEW a \in NetApps, Unplug(a) PROVE RemovalInv'
  BY <1>13 DEF Unplug, Unplugged
<1>14. ASSUME NEW a \in NetApps, RemovePreviewNetwork(a) PROVE RemovalInv'
  BY <1>14 DEF RemovePreviewNetwork, Removed
<1>15. ASSUME NEW n \in Nets, ConnectTenant(n) PROVE RemovalInv'
  BY <1>15 DEF ConnectTenant, Connect, ApplyOnly
<1>16. ASSUME NEW n \in Nets, MakeTenant(n) PROVE RemovalInv'
  BY <1>16 DEF MakeTenant, Unused
<1>17. ASSUME NEW n \in Nets, DeleteTenant(n) PROVE RemovalInv'
  BY <1>17 DEF DeleteTenant, Unused
<1>18. ASSUME NEW n \in Nets, LookAtNetwork(n) PROVE RemovalInv'
  BY <1>18 DEF LookAtNetwork, LeftoverNet, SweepOnly
<1>19. CASE BeginApply
  BY <1>19 DEF BeginApply, ApplyOnly
<1>20. CASE RemoveProxy
  BY <1>20 DEF RemoveProxy, ApplyOnly
<1>21. CASE RecreateProxy
  BY <1>21 DEF RecreateProxy, ApplyOnly
<1>22. CASE ListTenants
  BY <1>22 DEF ListTenants, ApplyOnly
<1>23. CASE ApplyFails
  BY <1>23 DEF ApplyFails, ApplyOnly
<1>24. CASE EndApply
  BY <1>24 DEF EndApply, ApplyOnly
<1>25. CASE BeginSweep
  BY <1>25 DEF BeginSweep, SweepOnly
<1>26. CASE UnplugLeftover
  BY <1>26 DEF UnplugLeftover, Unplugged, SweepOnly
<1>27. CASE RemoveLeftover
  BY <1>27 DEF RemoveLeftover, Removed, SweepOnly
<1>28. CASE EndSweep
  BY <1>28 DEF EndSweep, SweepOnly
<1>29. CASE NetworksAge
  BY <1>29 DEF NetworksAge
<1>30. CASE UNCHANGED netVars
  BY <1>30 DEF netVars
<1> QED
  BY <1>1, <1>2, <1>3, <1>4, <1>5, <1>6, <1>7, <1>8, <1>9, <1>10, <1>11, <1>12, <1>13, <1>14, <1>15, <1>16, <1>17, <1>18, <1>19, <1>20, <1>21, <1>22, <1>23, <1>24, <1>25, <1>26, <1>27, <1>28, <1>29, <1>30
     DEF NetworksNext

(* What a deploy has made sure of stays so until its stack is up.          *)
LEMMA RaiseStep ==
    ASSUME ~LookFails, NetTypes, ApplyInv, RemovalInv, RaiseInv, [NetworksNext]_netVars
    PROVE  RaiseInv'
<1> USE DEF RaiseInv, NetTypes, Reached
<1>1. ASSUME NEW a \in NetApps, BeginRaise(a) PROVE RaiseInv'
  BY <1>1 DEF BeginRaise, Going, RaiseOnly
<1>2. ASSUME NEW a \in NetApps, InspectNetwork(a) PROVE RaiseInv'
  BY <1>2 DEF InspectNetwork, Going, RaiseOnly
<1>3. ASSUME NEW a \in NetApps, CreateNetwork(a) PROVE RaiseInv'
  BY <1>3 DEF CreateNetwork, GivesUpRaise, Connect, Going, RaiseOnly
<1>4. ASSUME NEW a \in NetApps, LookForProxy(a) PROVE RaiseInv'
  BY <1>4 DEF LookForProxy, Going, RaiseOnly, ApplyInv
<1>5. ASSUME NEW a \in NetApps, ConnectOwn(a) PROVE RaiseInv'
  BY <1>5 DEF ConnectOwn, GivesUpRaise, Connect, Going, RaiseOnly, ApplyInv
<1>6. ASSUME NEW a \in NetApps, RerouteNow(a) PROVE RaiseInv'
  BY <1>6 DEF RerouteNow, Going, RaiseOnly, ApplyInv
<1>7. ASSUME NEW a \in NetApps, ListMissing(a) PROVE RaiseInv'
  BY <1>7 DEF ListMissing, Going, RaiseOnly
<1>8. ASSUME NEW a \in NetApps, NEW n \in Nets, JoinMissing(a, n) PROVE RaiseInv'
  BY <1>8 DEF JoinMissing, Connect, Going, RaiseOnly
<1>9. ASSUME NEW a \in NetApps, Built(a) PROVE RaiseInv'
  BY <1>9 DEF Built, Going, RaiseOnly
<1>10. ASSUME NEW a \in NetApps, RaiseStack(a) PROVE RaiseInv'
  BY <1>10 DEF RaiseStack, Going, ApplyInv
<1>11. ASSUME NEW a \in NetApps, BeginDestroy(a) PROVE RaiseInv'
  BY <1>11 DEF BeginDestroy
<1>12. ASSUME NEW a \in NetApps, Down(a) PROVE RaiseInv'
  BY <1>12 DEF Down
<1>13. ASSUME NEW a \in NetApps, Unplug(a) PROVE RaiseInv'
  BY <1>13 DEF Unplug, Unplugged, RemovalInv
<1>14. ASSUME NEW a \in NetApps, RemovePreviewNetwork(a) PROVE RaiseInv'
  BY <1>14 DEF RemovePreviewNetwork, Removed, RemovalInv
<1>15. ASSUME NEW n \in Nets, ConnectTenant(n) PROVE RaiseInv'
  BY <1>15 DEF ConnectTenant, Connect, ApplyOnly, ApplyInv
<1>16. ASSUME NEW n \in Nets, MakeTenant(n) PROVE RaiseInv'
  BY <1>16 DEF MakeTenant, Unused
<1>17. ASSUME NEW n \in Nets, DeleteTenant(n) PROVE RaiseInv'
  BY <1>17 DEF DeleteTenant, Unused
<1>18. ASSUME NEW n \in Nets, LookAtNetwork(n) PROVE RaiseInv'
  BY <1>18 DEF LookAtNetwork, LeftoverNet, SweepOnly
<1>19. CASE BeginApply
  BY <1>19 DEF BeginApply, ApplyOnly, ApplyInv
<1>20. CASE RemoveProxy
  BY <1>20 DEF RemoveProxy, ApplyOnly, ApplyInv
<1>21. CASE RecreateProxy
  BY <1>21 DEF RecreateProxy, ApplyOnly, ApplyInv
<1>22. CASE ListTenants
  BY <1>22 DEF ListTenants, ApplyOnly, ApplyInv
<1>23. CASE ApplyFails
  BY <1>23 DEF ApplyFails, ApplyOnly, ApplyInv
<1>24. CASE EndApply
  BY <1>24 DEF EndApply, ApplyOnly, ApplyInv
<1>25. CASE BeginSweep
  BY <1>25 DEF BeginSweep, SweepOnly
<1>26. CASE UnplugLeftover
  BY <1>26 DEF UnplugLeftover, Unplugged, SweepOnly, RemovalInv
<1>27. CASE RemoveLeftover
  BY <1>27 DEF RemoveLeftover, Removed, SweepOnly, RemovalInv
<1>28. CASE EndSweep
  BY <1>28 DEF EndSweep, SweepOnly
<1>29. CASE NetworksAge
  BY <1>29 DEF NetworksAge
<1>30. CASE UNCHANGED netVars
  BY <1>30 DEF netVars
<1> QED
  BY <1>1, <1>2, <1>3, <1>4, <1>5, <1>6, <1>7, <1>8, <1>9, <1>10, <1>11, <1>12, <1>13, <1>14, <1>15, <1>16, <1>17, <1>18, <1>19, <1>20, <1>21, <1>22, <1>23, <1>24, <1>25, <1>26, <1>27, <1>28, <1>29, <1>30
     DEF NetworksNext

(* Before anything ran, nothing is up that Traefik would have to reach.    *)
LEMMA NetworksStart == ASSUME NetworksInit PROVE NetworksInv
BY DEF NetworksInit, NetworksInv, NetTypes, ApplyInv, RemovalInv, RaiseInv, Reached

(* When docker's answers to a look can be trusted, Traefik is on the       *)
(* network of every stack of an environment that is up once its last       *)
(* configuration is in place, and no stack is brought up without its       *)
(* network: for any networks and stacks and any number of calls at once.   *)
THEOREM ProxyReachesAll ==
    ASSUME ~LookFails
    PROVE  NetworksSpec => []ProxyReaches
<1>1. NetworksInv /\ [NetworksNext]_netVars => NetworksInv'
  BY NetTypesStep, ApplyStep, RemovalStep, RaiseStep DEF NetworksInv
<1>2. NetworksInv => ProxyReaches
  BY DEF NetworksInv, NetTypes, ProxyReaches, ApplyInv, RaiseInv, Reached
<1> QED
  BY NetworksStart, <1>1, <1>2, PTL DEF NetworksSpec

-----------------------------------------------------------------------------
(* All of them, as the run has them.                                       *)

\* A step of the run is one of one component, and changes nothing of the others.
LEMMA SafeStepServices ==
    ASSUME [SafeNext]_safes
    PROVE  /\ [Next]_vars /\ [ReadyNext]_readyVars /\ [TraefikNext]_traefikVars
           /\ [ShellPlanNext]_shellVars /\ [SamplingNext]_samplingVars /\ [NetworksNext]_netVars
<1>1. CASE UNCHANGED safes
  BY <1>1 DEF safes
<1>2. CASE /\ focus \in {"store", "restores", "copies", "images", "cleanup", "cache", "source", "pulled"}
           /\ Only(focus)
  BY <1>2 DEF Only
<1>3. CASE Only("identity") /\ Next
  BY <1>3 DEF Only
<1>4. CASE Only("ready") /\ ReadyNext
  BY <1>4 DEF Only
<1>5. CASE Only("traefik") /\ TraefikNext
  BY <1>5 DEF Only
<1>6. CASE Only("shells") /\ ShellPlanNext
  BY <1>6 DEF Only
<1>7. CASE Only("metrics") /\ SamplingNext
  BY <1>7 DEF Only
<1>8. CASE Only("networks") /\ NetworksNext
  BY <1>8 DEF Only
<1> QED
  BY <1>1, <1>2, <1>3, <1>4, <1>5, <1>6, <1>7, <1>8 DEF SafeNext

\* And it begins in the components' own initial states.
LEMMA SafeSpecServices ==
    SafeSpec => /\ Spec /\ ReadySpec /\ TraefikSpec
                /\ ShellPlanSpec /\ SamplingSpec /\ NetworksSpec
<1>1. SafeInit => /\ Init /\ ReadyInit /\ TraefikInit
                  /\ ShellPlanInit /\ SamplingInit /\ NetworksInit
  BY DEF SafeInit
<1> QED
  BY <1>1, SafeStepServices, PTL
  DEF SafeSpec, Spec, ReadySpec, TraefikSpec, ShellPlanSpec, SamplingSpec, NetworksSpec

(* What the run checks of the two: Traefik keeps its configuration and its *)
(* way to every stack.                                                     *)
THEOREM ProxyStaysKept ==
    ASSUME ~AtOnce, ~LookFails
    PROVE  SafeSpec => []ProxyIsKept
<1>1. TraefikSpec => []GoodConfigIsKept
  BY GoodConfigStays
<1>2. NetworksSpec => []ProxyReaches
  BY ProxyReachesAll
<1>3. GoodConfigIsKept /\ ProxyReaches => ProxyIsKept
  BY DEF ProxyIsKept
<1> QED
  BY <1>1, <1>2, <1>3, SafeSpecServices, PTL

(* The services of the run, all at once: what the agent is, what it calls  *)
(* ready, what the proxy reaches, what the console remembers and what the  *)
(* metrics say.                                                            *)
THEOREM ServicesStaySafe ==
    ASSUME ~AtOnce, ~LookFails
    PROVE  SafeSpec => [](/\ IdentityIsKept /\ VerdictIsRight /\ ProxyIsKept
                          /\ PlanFits /\ MetricsAreHonest)
<1>1. SafeSpec => []ProxyIsKept
  BY ProxyStaysKept
<1> QED
  BY <1>1, SafeSpecServices, IdentityStaysKept, ReadyVerdictIsRight, RememberedPlansFit,
     SentRatesAreHonest, PTL

================================================================================
