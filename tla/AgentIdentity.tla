---------------------------- MODULE AgentIdentity ----------------------------
(***************************************************************************)
(* The agent's mTLS materials, from the first call home to their renewals  *)
(* (internal/bootstrap/bootstrap.go, internal/server/renewal.go, main.go). *)
(*                                                                         *)
(* An agent that starts without materials spends the single-use token of   *)
(* the install command on a certificate, stages three files, saves the     *)
(* address it will link to and renames the files into place.  One that has *)
(* them loads them, and fails when the certificate is not for the key.     *)
(* RenewalCSR makes a key pair and keeps the private half pending; the     *)
(* control plane signs it; InstallRenewedCert swaps the pair the TLS       *)
(* config hands out and writes key, certificate and CA one after another.  *)
(*                                                                         *)
(* A key stands for its key pair and for the certificate signed for it.    *)
(* Handlers run concurrently; a write may fail, and the agent may die at   *)
(* any step, in which case systemd starts it again.                        *)
(***************************************************************************)
EXTENDS Naturals, FiniteSets

CONSTANTS Calls,       \* concurrent InstallRenewedCert handlers
          Keys,        \* key pairs
          CAs,         \* certificate authorities
          None,        \* no key, no CA
          MaxCrashes,  \* bound: times the agent is killed
          MaxTokens    \* bound: install commands the operator runs

ASSUME AgentIdentityAssumption ==
    /\ None \notin Keys \cup CAs
    /\ CAs # {}
    /\ MaxCrashes \in Nat /\ MaxTokens \in Nat

VARIABLES life,     \* how far the process has come
          crashes,  \* times it was killed
          fresh,    \* the token of the last install command is not spent
          tokens,   \* install commands run so far
          enrolled, \* the key and the CA bootstrap.Run holds
          link,     \* link-addresses.json: the key it was saved beside
          served,   \* CertManager.cert and pool
          disk,     \* agent.key, agent.crt, ca.crt
          pending,  \* Service.pendingKey
          made,     \* keys made so far
          reply,    \* the CA the control plane sends with each key's certificate
          pc, key,  \* the handlers, and the key each one installs
          said,     \* the answer to the last install, and its key
          torn      \* history: an install failed or died among its writes, and no
                    \* start or install of all three files came after it

install == <<tokens, fresh>>
start == <<life, crashes, enrolled, link>>
calls == <<pc, key, said>>
vars == <<install, start, served, disk, pending, made, reply, calls, torn>>

Material == [key : Keys \cup {None}, cert : Keys \cup {None}, ca : CAs \cup {None}]
Nothing == [key |-> None, cert |-> None, ca |-> None]

\* The steps of a start: the call home, then bootstrap.Run's writes in order.
Bootstrapping == {"call", "stage", "link", "key", "cert", "ca"}

TypeOK ==
    /\ life \in {"down", "load", "up"} \cup Bootstrapping
    /\ crashes \in 0..MaxCrashes /\ tokens \in 0..MaxTokens /\ fresh \in BOOLEAN
    /\ enrolled \in Keys \cup {None} /\ link \in Keys \cup {None}
    /\ served \in Material /\ disk \in Material
    /\ life = "up" => served.ca \in CAs
    /\ pending \in Keys \cup {None}
    /\ made \subseteq Keys
    /\ reply \in [Keys -> CAs \cup {None}]
    /\ pc \in [Calls -> {"idle", "swap", "key", "cert", "ca", "clear"}]
    /\ key \in [Calls -> Keys \cup {None}]
    /\ said \in [answer : {"nothing", "ok", "failed"}, key : Keys \cup {None}]
    /\ torn \in BOOLEAN

Init ==
    /\ life = "down" /\ crashes = 0 /\ tokens = 0 /\ fresh = FALSE
    /\ enrolled = None /\ link = None
    /\ served = Nothing /\ disk = Nothing
    /\ pending = None
    /\ made = {}
    /\ reply \in [Keys -> CAs \cup {None}]
    /\ pc = [c \in Calls |-> "idle"]
    /\ key = [c \in Calls |-> None]
    /\ said = [answer |-> "nothing", key |-> None]
    /\ torn = FALSE

Idle == \A c \in Calls : pc[c] = "idle"
-----------------------------------------------------------------------------
\* The operator runs the install command, with a new token.
RunInstaller ==
    /\ tokens < MaxTokens
    /\ tokens' = tokens + 1
    /\ fresh' = TRUE
    /\ UNCHANGED <<start, served, disk, pending, made, reply, calls, torn>>

\* Bug: the CA is not looked for.
ProvisionedPair == disk.key # None /\ disk.cert # None
\* Provisioned: all three files exist.
Provisioned == disk.key # None /\ disk.cert # None /\ disk.ca # None

\* main: bootstrap when there are no materials, which takes a token.
Start ==
    /\ life = "down" /\ tokens > 0
    /\ life' = IF Provisioned THEN "load" ELSE "call"
    /\ UNCHANGED <<install, crashes, enrolled, link, served, disk, pending, made, reply, calls, torn>>

\* log.Fatalf: nothing on disk changes, the staged files are removed.
Fatal ==
    /\ life' = "down"
    /\ enrolled' = None
    /\ UNCHANGED <<crashes, link, disk>>

\* callHome, whose response passes every check: a certificate for this key and
\* the CA that signed it.
CallHome(k) ==
    /\ life = "call"
    /\ fresh
    /\ k \notin made /\ reply[k] # None
    /\ fresh' = FALSE
    /\ made' = made \cup {k}
    /\ enrolled' = k
    /\ life' = "stage"
    /\ UNCHANGED <<tokens, crashes, link, served, disk, pending, reply, calls, torn>>

\* A refusal, as for a token spent before; or no response, or one that fails a
\* check, when the token may be spent all the same.
CallHomeFails ==
    /\ life = "call"
    /\ Fatal
    /\ fresh' \in {FALSE, fresh}
    /\ UNCHANGED <<tokens, served, pending, made, reply, calls, torn>>

\* One write of bootstrap.Run that leads to the next, or fails and ends the start.
BootstrapWrite(at, next, newLink, newDisk) ==
    /\ life = at
    /\ \/ /\ life' = next
          /\ link' = newLink
          /\ disk' = newDisk
          /\ UNCHANGED <<crashes, enrolled>>
       \/ Fatal
    /\ UNCHANGED <<install, served, pending, made, reply, calls, torn>>

\* Bug: the address goes nowhere.
LinkSavedNever == link
LinkSaved == enrolled

\* The three ".tmp" files; SaveAddresses; then the renames.
Stage == BootstrapWrite("stage", "link", link, disk)
SaveLink == BootstrapWrite("link", "key", LinkSaved, disk)
CommitKey == BootstrapWrite("key", "cert", link, [disk EXCEPT !.key = enrolled])
CommitCert == BootstrapWrite("cert", "ca", link, [disk EXCEPT !.cert = enrolled])
CommitCA == BootstrapWrite("ca", "load", link, [disk EXCEPT !.ca = reply[enrolled]])

\* tls.LoadX509KeyPair compares certificate and key; the CA must be there.
Loads == disk.key = disk.cert /\ disk.ca # None

\* NewCertManager, or log.Fatalf("mTLS setup").
Load ==
    /\ life = "load"
    /\ \/ Loads /\ life' = "up" /\ served' = disk /\ torn' = FALSE
       \/ ~Loads /\ life' = "down" /\ UNCHANGED <<served, torn>>
    /\ enrolled' = None
    /\ UNCHANGED <<install, crashes, link, disk, pending, made, reply, calls>>
-----------------------------------------------------------------------------
At(c, p) == life = "up" /\ pc[c] = p
GoTo(c, p) == pc' = [pc EXCEPT ![c] = p]
Answer(c, a) == GoTo(c, "idle") /\ said' = [answer |-> a, key |-> key[c]]

\* RenewalCSR: a fresh pair replaces whatever was pending.  The control plane
\* renews a server once at a time, though it may send an install twice.
RenewalCSR(k) ==
    /\ life = "up" /\ Idle
    /\ k \notin made
    /\ made' = made \cup {k}
    /\ pending' = k
    /\ UNCHANGED <<install, start, served, disk, reply, calls, torn>>

\* The certificate's public key is the pending one's.
IsPending(k) == pending = k

\* InstallRenewedCert up to the checks of install; the CA may be unreadable.
Install(c, k) ==
    /\ At(c, "idle")
    /\ k \in made
    /\ key' = [key EXCEPT ![c] = k]
    /\ \/ /\ IsPending(k)
          /\ GoTo(c, "swap")
          /\ said' = [answer |-> "nothing", key |-> k]
       \/ /\ said' = [answer |-> "failed", key |-> k]
          /\ UNCHANGED pc
    /\ UNCHANGED <<install, start, served, disk, pending, made, reply, torn>>

\* The CA in force once c's reply is installed over ca.
NewCA(c, ca) == IF reply[key[c]] = None THEN ca ELSE reply[key[c]]

\* Under m.mu: the next handshake uses the new pair and pool.
Swap(c) ==
    /\ At(c, "swap")
    /\ served' = [key |-> key[c], cert |-> key[c], ca |-> NewCA(c, served.ca)]
    /\ GoTo(c, "key")
    /\ UNCHANGED <<install, start, disk, pending, made, reply, key, said, torn>>

\* atomicWriteFile: the file is replaced whole, or the write fails and
\* InstallRenewedCert answers ok = false with nothing undone.
Write(c, file, new) ==
    \/ /\ disk' = new
       /\ GoTo(c, file)
       /\ UNCHANGED <<said, torn>>
    \/ /\ Answer(c, "failed")
       /\ torn' = TRUE
       /\ UNCHANGED disk

\* Bug: the key stays in memory, only the certificate is written.
DiskWithKeyKept(c) == disk
DiskWithKey(c) == [disk EXCEPT !.key = key[c]]

WriteKey(c) ==
    /\ At(c, "key")
    /\ Write(c, "cert", DiskWithKey(c))
    /\ UNCHANGED <<install, start, served, pending, made, reply, key>>

WriteCert(c) ==
    /\ At(c, "cert")
    /\ Write(c, IF reply[key[c]] = None THEN "clear" ELSE "ca", [disk EXCEPT !.cert = key[c]])
    /\ UNCHANGED <<install, start, served, pending, made, reply, key>>

\* Bug: a rotated CA is swapped in memory only.
DiskWithCAKept(c) == disk
DiskWithCA(c) == [disk EXCEPT !.ca = NewCA(c, disk.ca)]

\* Only when the request brings a CA.
WriteCA(c) ==
    /\ At(c, "ca")
    /\ Write(c, "clear", DiskWithCA(c))
    /\ UNCHANGED <<install, start, served, pending, made, reply, key>>

\* s.pendingKey = nil, whatever it is by now, and ok = true.
Clear(c) ==
    /\ At(c, "clear")
    /\ pending' = None
    /\ Answer(c, "ok")
    /\ torn' = (torn /\ reply[key[c]] = None)
    /\ UNCHANGED <<install, start, served, disk, made, reply, key>>
-----------------------------------------------------------------------------
\* The agent dies at any step: memory goes, what it wrote stays.
Crash ==
    /\ life # "down"
    /\ crashes < MaxCrashes
    /\ life' = "down"
    /\ crashes' = crashes + 1
    /\ torn' = (torn \/ \E c \in Calls : pc[c] \in {"key", "cert", "ca"})
    /\ enrolled' = None
    /\ pending' = None
    /\ pc' = [c \in Calls |-> "idle"]
    /\ UNCHANGED <<install, link, served, disk, made, reply, key, said>>

Next ==
    \/ RunInstaller
    \/ Start
    \/ (\E k \in Keys : CallHome(k)) \/ CallHomeFails
    \/ Stage \/ SaveLink \/ CommitKey \/ CommitCert \/ CommitCA
    \/ Load
    \/ \E k \in Keys : RenewalCSR(k)
    \/ \E c \in Calls :
        \/ \E k \in Keys : Install(c, k)
        \/ Swap(c) \/ WriteKey(c) \/ WriteCert(c) \/ WriteCA(c) \/ Clear(c)
    \/ Crash

Spec == Init /\ [][Next]_vars
-----------------------------------------------------------------------------
(* A host counts as provisioned only when its materials load and the       *)
(* address to link to was saved with them, whatever a killed or failed     *)
(* bootstrap, or several of them, left behind (bootstrap.Run, Provisioned):*)
(* only a renewal cut short among its writes can spoil them.               *)
ProvisionedIsWhole == Provisioned /\ ~torn /\ Idle => Loads /\ link # None

(* While no install is under way and none was cut short, the files hold    *)
(* what the agent serves: a restart brings back the same key, certificate  *)
(* and CA, also when a renewal was sent twice and both were at work.       *)
QuietDiskIsServed == life = "up" /\ ~torn /\ Idle => disk = served

(* An install that was answered ok is on disk, key, certificate and CA,    *)
(* even when an earlier one failed between its writes: asking again        *)
(* repairs the files.                                                      *)
OkSurvivesRestart ==
    said.answer = "ok" => /\ disk.key = said.key /\ disk.cert = said.key
                          /\ reply[said.key] # None => disk.ca = reply[said.key]

(* What the agent has on disk is what it was given and what it serves,     *)
(* through crashes, failed writes and repeated calls.                      *)
IdentityIsKept == ProvisionedIsWhole /\ QuietDiskIsServed /\ OkSurvivesRestart

(* The agent always serves a certificate whose private key it has, one of  *)
(* the keys it made itself: no failed write, race or restart on half of a  *)
(* renewal mixes two pairs (install, NewCertManager).                      *)
ServesWhatItMade == life = "up" => served.key = served.cert /\ served.key \in made

(* proto/agent.proto of InstallRenewedCert: "atomically swaps cert+key on  *)
(* disk", and "A failed renewal is a no-op": the files load after it.      *)
FailedRenewalIsNoOp == said.answer = "failed" /\ Idle => Loads

=============================================================================
