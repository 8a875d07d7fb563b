---------------------------- MODULE LifecycleProofs ----------------------------
(***************************************************************************)
(* What the bind runtime, the installation of a joined identity, the       *)
(* shutdown of a node, invitations, CA rotation and the peer registry      *)
(* guarantee, for any number of callers, servers, jobs, secrets, join      *)
(* requests, peers, handlers, faults and crashes.                          *)
(***************************************************************************)
EXTENDS BindRuntime, JoinInstall, Lifetime, Invites, Rotation, Membership, TLAPS

\* The time a leaf may take, by default.
USE ZenonT(5), SMTT(60)

(* ----------------------------- the bind runtime -------------------------- *)

(***************************************************************************)
(* A server that is not up yet has no finalizer and is not published; a    *)
(* finalizer that waits for the work has closed its server; one start at a *)
(* time brings a server up.                                                *)
(***************************************************************************)
BRInv ==
  /\ srv \in 0..MaxServers
  /\ finalizer \in [Servers -> {"none", "run", "wait", "done"}]
  /\ server \in [Servers -> {"none", "starting", "serving", "ended", "closed"}]
  /\ bg \subseteq Servers
  /\ RuntimeExclusive
  /\ \A g \in Servers :
       /\ server[g] \in {"none", "starting"} => finalizer[g] = "none" /\ srv # g
       /\ finalizer[g] = "wait" => server[g] = "closed"
       /\ \A h \in Servers : server[g] = "starting" /\ server[h] = "starting" => g = h

\* No call, monitor, finalizer or background work breaks the invariant.
LEMMA BRNextInv == BRInv /\ [BRNext]_brVars => BRInv'
<1> SUFFICES ASSUME BRInv, [BRNext]_brVars PROVE BRInv'
  OBVIOUS
<1> USE BindRuntimeAssumption DEF Servers
<1>1. CASE UNCHANGED brVars
  BY <1>1 DEF brVars, BRInv, RuntimeExclusive, Unlocked
<1>2. ASSUME NEW c \in Callers, \/ StartNode(c) \/ StopNode(c) \/ StopAwait(c) \/ JoinCluster(c)
      PROVE  BRInv'
  <2>1. UNCHANGED <<srv, finalizer, server, bg, srvLock>>
    BY <1>2 DEF StartNode, StopNode, StopAwait, JoinCluster, Globals
  <2> QED BY <2>1 DEF BRInv, RuntimeExclusive, Unlocked
<1>3. ASSUME NEW c \in Callers, StartEnter(c) PROVE BRInv'
  <2>1. CASE UNCHANGED <<server, srvLock>>
    <3>1. UNCHANGED <<srv, finalizer, server, bg, srvLock>>
      BY <1>3, <2>1 DEF StartEnter, Globals
    <3> QED BY <3>1 DEF BRInv, RuntimeExclusive, Unlocked
  <2>2. ASSUME NEW g \in Servers, srv = 0, Unlocked, server[g] = "none",
               server' = [server EXCEPT ![g] = "starting"], srvLock' = c
        PROVE  BRInv'
    <3>1. UNCHANGED <<srv, finalizer, bg>>
      BY <1>3 DEF StartEnter, Globals
    <3> QED BY <2>2, <3>1 DEF BRInv, RuntimeExclusive, Unlocked
  <2> QED BY <1>3, <2>1, <2>2 DEF StartEnter
<1>4. ASSUME NEW c \in Callers, StartPublish(c) PROVE BRInv'
  BY <1>4 DEF StartPublish, BRInv, RuntimeExclusive, Unlocked
<1>5. ASSUME NEW c \in Callers, StartFails(c) PROVE BRInv'
  BY <1>5 DEF StartFails, BRInv, RuntimeExclusive, Unlocked, Globals
<1>6. ASSUME NEW c \in Callers, StopFind(c) PROVE BRInv'
  BY <1>6 DEF StopFind, EnsureNodeFinalizer, BRInv, RuntimeExclusive, Unlocked
<1>7. ASSUME NEW g \in Servers,
             \/ ServeEnds(g) \/ FinalizerShutdown(g)
             \/ StartBackgroundWork(g) \/ BackgroundWorkEnds(g)
      PROVE  BRInv'
  <2>1. CASE ServeEnds(g)
    BY <2>1 DEF ServeEnds, Globals, BRInv, RuntimeExclusive, Unlocked
  <2>2. CASE FinalizerShutdown(g)
    BY <2>2 DEF FinalizerShutdown, BRInv, RuntimeExclusive, Unlocked
  <2>3. CASE StartBackgroundWork(g) \/ BackgroundWorkEnds(g)
    BY <2>3 DEF StartBackgroundWork, BackgroundWorkEnds, Globals, BRInv, RuntimeExclusive, Unlocked
  <2> QED BY <1>7, <2>1, <2>2, <2>3
<1>8. ASSUME NEW g \in Servers, MonitorStartedServer(g) PROVE BRInv'
  BY <1>8 DEF MonitorStartedServer, EnsureNodeFinalizer, BRInv, RuntimeExclusive, Unlocked
<1>9. ASSUME NEW g \in Servers, FinalizerClears(g) PROVE BRInv'
  BY <1>9 DEF FinalizerClears, BRInv, RuntimeExclusive, Unlocked
<1> QED BY <1>1, <1>2, <1>3, <1>4, <1>5, <1>6, <1>7, <1>8, <1>9 DEF BRNext

(***************************************************************************)
(* At most one server exists, whatever the callers, the monitors and the   *)
(* finalizers do: one that is gone from the globals is closed and has no   *)
(* work left (StartNode, StopNode, JoinCluster, ensureNodeFinalizer).      *)
(***************************************************************************)
THEOREM OneRuntime == BRSpec => []RuntimeExclusive
<1>1. BRInit => BRInv
  BY BindRuntimeAssumption DEF BRInit, BRInv, RuntimeExclusive, Servers, Unlocked
<1>2. BRInv => RuntimeExclusive
  BY DEF BRInv
<1> QED BY <1>1, <1>2, BRNextInv, PTL DEF BRSpec

(* ------------------ the installation of a joined identity ---------------- *)

Installations ==
  [phase : {"staged", "installing", "installed", "committed"}, by : {"join", "recovery"},
   backedUp : SUBSET Items, installed : SUBSET Items, had : SUBSET Items, failed : BOOLEAN]

\* The places an item can be in: where it was, in the backup, or replaced.
Kept(i) == final[i] = started[i] /\ backup[i] = "none"
Out(i)  == final[i] = "none" /\ backup[i] = started[i]
New(i)  == final[i] = "new" /\ backup[i] = started[i]

\* Every item is in one of them, and in the staging directory until it is moved in.
Swap == \A i \in Items : /\ Kept(i) \/ Out(i) \/ New(i)
                         /\ i \in staged <=> final[i] # "new"

\* The installation in memory knows what was moved.
Tracked == /\ ~ inst.failed
           /\ \A i \in Items : /\ i \in inst.backedUp <=> backup[i] # "none"
                               /\ i \in inst.installed <=> final[i] = "new"
                               /\ i \in inst.had <=> started[i] # "none"

\* The journal knows what was there, and of no move that was not made; before the
\* first move it may still say staged.
JournalOK ==
  /\ journal \in Installations
  /\ journal.phase # "committed"
  /\ journal.phase = "staged" => \A i \in Items : Kept(i)
  /\ \A i \in Items : /\ i \in journal.backedUp => backup[i] # "none"
                      /\ i \in journal.installed => final[i] = "new"
                      /\ i \in journal.had <=> started[i] # "none"

InstallSet == {"stop", "install", "back certs", "back config", "move certs", "move config",
               "start", "commit", "rm config"}

\* What each step of the transaction and of the rollback finds.
InstallAt ==
  /\ jpc \in InstallSet => Swap /\ Tracked /\ JournalOK
  /\ jpc \in {"stop", "install"} => \A i \in Items : Kept(i)
  /\ jpc \in InstallSet \ {"stop", "install", "rm config"} =>
       inst.phase \in {"installing", "installed"} /\ journal.phase # "staged"
  /\ jpc = "back certs" => Kept("config") /\ final["certs"] # "new"
  /\ jpc = "back config" => Out("certs") /\ final["config"] # "new"
  /\ jpc = "move certs" => Out("config") /\ (Out("certs") \/ New("certs"))
  /\ jpc = "move config" => New("certs") /\ (Out("config") \/ New("config"))
  /\ jpc \in {"start", "commit"} => \A i \in Items : New(i)

RollbackAt ==
  /\ jpc \in {"rm certs", "put config", "put certs", "undone"} =>
       Tracked /\ \A i \in Items : Kept(i) \/ Out(i) \/ New(i)
  /\ jpc \in {"rm certs", "put config", "put certs", "undone"} => final["config"] # "new"
  /\ jpc \in {"put config", "put certs", "undone"} => final["certs"] # "new"
  /\ jpc \in {"put certs", "undone"} => Kept("config")
  /\ jpc = "undone" => Kept("certs")

\* No transaction under way: the old identity, or the new one as a whole.
Settled == final \in {started, AllNew} /\ \A i \in Items : backup[i] = "none"

RestAt ==
  /\ jpc = "clean" => final = AllNew /\ journal.phase = "committed"
  /\ jpc = "rest" => IF journal = NoJournal THEN Settled
                     ELSE final = AllNew /\ journal.phase = "committed"
  /\ jpc = "down" => CASE journal = NoJournal -> Settled
                       [] journal.phase = "committed" -> final = AllNew
                       [] OTHER -> Swap /\ JournalOK

JISteps == {"clean", "rm certs", "put config", "put certs", "undone"} \cup InstallSet

JITyped ==
  /\ final \in [Items -> {"none", "old", "new"}]
  /\ backup \in [Items -> {"none", "old", "new"}]
  /\ started \in [Items -> {"none", "old", "new"}]
  /\ journal \in Installations \cup {NoJournal}
  /\ (jpc \in JISteps /\ inst \in Installations) \/ jpc \in {"rest", "down"}

JIPlaces == /\ started \in [Items -> {"none", "old"}]
            /\ InstallAt /\ RollbackAt /\ RestAt

JIInv == JITyped /\ (~ broken => JIPlaces)

\* Under the invariant nothing is lost, and a join that is over is over as a whole.
LEMMA JIInvAtomic == JIInv => JoinAtomic
<1> SUFFICES ASSUME JIInv, ~ broken
             PROVE  /\ JoinRecoverable
                    /\ jpc = "rest" /\ journal = NoJournal => final \in {started, AllNew}
  BY DEF JoinAtomic
<1>1. \/ final = AllNew \/ final = started
      \/ \A i \in Items : Kept(i) \/ Out(i) \/ New(i)
  <2>1. CASE jpc \in InstallSet
    BY <2>1 DEF JIInv, JIPlaces, InstallAt, Swap
  <2>2. CASE jpc \in {"rm certs", "put config", "put certs", "undone"}
    BY <2>2 DEF JIInv, JIPlaces, RollbackAt
  <2>3. CASE jpc \in {"clean", "rest", "down"}
    BY <2>3 DEF JIInv, JIPlaces, RestAt, Settled, Swap
  <2> QED BY <2>1, <2>2, <2>3 DEF JIInv, JITyped, JISteps
<1>2. JoinRecoverable
  BY <1>1 DEF JoinRecoverable, Kept, Out, New
<1> QED BY <1>2 DEF JIInv, JIPlaces, RestAt, Settled

\* Noting a move, or a failure, leaves an installation an installation.
LEMMA InstallationEdit ==
  ASSUME NEW r \in Installations, NEW i \in Items
  PROVE  /\ [r EXCEPT !.backedUp = @ \cup {i}] \in Installations
         /\ [r EXCEPT !.backedUp = @ \ {i}] \in Installations
         /\ [r EXCEPT !.installed = @ \ {i}] \in Installations
         /\ [r EXCEPT !.failed = TRUE] \in Installations
         /\ [r EXCEPT !.installed = @ \ {i}, !.failed = TRUE] \in Installations
         /\ [r EXCEPT !.installed = @ \cup {i},
                      !.phase = IF i = "config" THEN "installed" ELSE @] \in Installations
<1>1. r.backedUp \cup {i} \in SUBSET Items /\ r.backedUp \ {i} \in SUBSET Items
  BY DEF Installations
<1>2. r.installed \cup {i} \in SUBSET Items /\ r.installed \ {i} \in SUBSET Items
  BY DEF Installations
<1>3. \A b \in SUBSET Items : [r EXCEPT !.backedUp = b] \in Installations
  BY DEF Installations
<1>4. \A b \in SUBSET Items : [r EXCEPT !.installed = b] \in Installations
  BY DEF Installations
<1>5. \A b \in SUBSET Items : [r EXCEPT !.installed = b, !.failed = TRUE] \in Installations
  BY DEF Installations
<1>6. [r EXCEPT !.failed = TRUE] \in Installations
  BY DEF Installations
<1>7. \A b \in SUBSET Items, f \in {r.phase, "installed"} :
        [r EXCEPT !.installed = b, !.phase = f] \in Installations
  BY DEF Installations
<1> QED BY <1>1, <1>2, <1>3, <1>4, <1>5, <1>6, <1>7

\* The records stay records.
LEMMA JITypes == JITyped /\ [JINext]_jiVars => JITyped'
<1> SUFFICES ASSUME JITyped, [JINext]_jiVars PROVE JITyped'
  OBVIOUS
<1>1. ASSUME NEW n \in JISteps, Persist(n)
      PROVE  journal' \in {inst', journal} /\ jpc' \in JISteps
  BY <1>1 DEF Persist, Then, JISteps, InstallSet
<1> USE DEF JITyped, History, KeepFiles, Then
<1>2. CASE UNCHANGED jiVars
  BY <1>2 DEF jiVars
<1>3. CASE StageJoin
  <2>1. inst' \in Installations
    BY <1>3 DEF StageJoin, Installation, Installations, Present
  <2> QED BY <1>3, <2>1 DEF StageJoin, JISteps, InstallSet
<1>4. CASE StopForJoin
  BY <1>4 DEF StopForJoin, RemoveTransaction, JISteps, InstallSet
<1>5. CASE InstallBegin
  <2>1. inst' \in Installations
    BY <1>5 DEF InstallBegin, Installations
  <2> QED BY <1>1, <1>5, <2>1 DEF InstallBegin, JISteps, InstallSet
<1>6. ASSUME NEW i \in Items, NEW h \in JISteps, NEW n \in JISteps, BackUp(i, h, n)
      PROVE  JITyped'
  <2>0. inst \in Installations
    BY <1>6 DEF BackUp, JISteps, InstallSet
  <2>1. inst' \in Installations
    <3> HIDE DEF JITyped, History, KeepFiles, Then
    <3>1. inst' \in {inst, [inst EXCEPT !.backedUp = @ \cup {i}]}
      BY <1>6 DEF BackUp
    <3> QED BY <2>0, <3>1, InstallationEdit
  <2>2. jpc' \in JISteps
    BY <1>6 DEF BackUp, JISteps, InstallSet
  <2>3. backup' \in [Items -> {"none", "old", "new"}] /\ final' \in [Items -> {"none", "old", "new"}]
    BY <1>6 DEF BackUp
  <2> QED BY <1>6, <2>0, <2>1, <2>2, <2>3 DEF BackUp
<1>7. ASSUME NEW i \in Items, NEW h \in JISteps, MoveIn(i, h)
      PROVE  JITyped'
  <2>0. inst \in Installations
    BY <1>7 DEF MoveIn, JISteps, InstallSet
  <2>1. inst' \in Installations
    <3> HIDE DEF JITyped, History, KeepFiles, Then
    <3>1. inst' \in {inst, [inst EXCEPT !.installed = @ \cup {i},
                                !.phase = IF i = "config" THEN "installed" ELSE @]}
      BY <1>7 DEF MoveIn
    <3> QED BY <2>0, <3>1, InstallationEdit
  <2>2. jpc' \in JISteps
    BY <1>7 DEF MoveIn, JISteps, InstallSet
  <2> QED BY <1>7, <2>0, <2>1, <2>2 DEF MoveIn
<1>8. ASSUME NEW i \in Items, NEW d, NEW h \in JISteps, NEW n \in JISteps,
             JournalMove(i, h, n, d)
      PROVE  JITyped'
  <2>1. inst \in Installations /\ inst' = inst
    BY <1>8 DEF JournalMove, JISteps, InstallSet
  <2> QED BY <1>1, <1>8, <2>1 DEF JournalMove
<1>9. CASE InstallSteps
  BY <1>6, <1>7, <1>8, <1>9 DEF InstallSteps, Items, JISteps, InstallSet
<1>10. CASE StartJoined
  BY <1>10 DEF StartJoined, JISteps, InstallSet
<1>11. CASE CommitJoin
  <2>1. inst' \in Installations
    BY <1>11 DEF CommitJoin, Installations
  <2> QED BY <1>1, <1>11, <2>1 DEF CommitJoin, JISteps, InstallSet
<1>12. CASE CleanupCommitted
  BY <1>12 DEF CleanupCommitted, RemoveTransaction
<1>13. ASSUME NEW i \in Items, NEW h \in JISteps, NEW n \in JISteps, RemoveNew(i, h, n)
       PROVE  JITyped'
  <2>0. inst \in Installations
    BY <1>13 DEF RemoveNew, JISteps, InstallSet
  <2>1. inst' \in Installations
    <3> HIDE DEF JITyped, History, KeepFiles, Then
    <3>1. inst' \in {inst, [inst EXCEPT !.installed = @ \ {i}],
                   [inst EXCEPT !.installed = @ \ {i}, !.failed = TRUE]}
      BY <1>13 DEF RemoveNew
    <3> QED BY <2>0, <3>1, InstallationEdit
  <2> QED BY <1>13, <2>0, <2>1 DEF RemoveNew
<1>14. ASSUME NEW i \in Items, NEW h \in JISteps, NEW n \in JISteps, PutBack(i, h, n)
       PROVE  JITyped'
  <2>0. inst \in Installations
    BY <1>14 DEF PutBack, JISteps, InstallSet
  <2>1. inst' \in Installations
    <3> HIDE DEF JITyped, History, KeepFiles, Then
    <3>1. inst' \in {inst, [inst EXCEPT !.backedUp = @ \ {i}], [inst EXCEPT !.failed = TRUE]}
      BY <1>14 DEF PutBack
    <3> QED BY <2>0, <3>1, InstallationEdit
  <2>2. backup' \in [Items -> {"none", "old", "new"}] /\ final' \in [Items -> {"none", "old", "new"}]
    BY <1>14 DEF PutBack
  <2> QED BY <1>14, <2>0, <2>1, <2>2 DEF PutBack
<1>15. CASE RollbackEnds
  BY <1>15 DEF RollbackEnds, RemoveTransaction
<1>16. CASE RollbackSteps
  BY <1>13, <1>14, <1>15, <1>16 DEF RollbackSteps, Items, JISteps, InstallSet
<1>17. CASE CrashInstall
  BY <1>17 DEF CrashInstall
<1>18. CASE RecoverJoinInstallation
  <2>1. CASE journal = NoJournal \/ journal.phase \in {"staged", "committed"}
    BY <1>18, <2>1 DEF RecoverJoinInstallation, RemoveTransaction, NoJournal
  <2>2. CASE ~ (journal = NoJournal \/ journal.phase \in {"staged", "committed"})
    <3>1. journal \in Installations
      BY <2>2
    <3>2. inst' = Installation(journal.phase, "recovery", MovedOut(journal), MovedIn(journal),
                               journal.had)
      BY <1>18, <2>2 DEF RecoverJoinInstallation
    <3>3. MovedOut(journal) \subseteq Items /\ MovedIn(journal) \subseteq Items
      BY <3>1 DEF MovedOut, MovedIn, Installations
    <3>4. inst' \in Installations
      BY <3>1, <3>2, <3>3 DEF Installation, Installations
    <3> QED BY <1>18, <2>2, <3>4 DEF RecoverJoinInstallation, JISteps, InstallSet
  <2> QED BY <2>1, <2>2
<1> QED BY <1>2, <1>3, <1>4, <1>5, <1>9, <1>10, <1>11, <1>12, <1>16, <1>17, <1>18 DEF JINext

\* A step of the transaction, as long as no rollback was cut off.
LEMMA JIInstallStep ==
  ASSUME JIInv, JITyped', ~ broken', ~ broken,
         \/ StageJoin \/ StopForJoin \/ InstallBegin \/ InstallSteps
         \/ StartJoined \/ CommitJoin \/ CleanupCommitted
  PROVE  JIPlaces'
<1>0. JIPlaces /\ JITyped
  BY DEF JIInv
<1>1. jpc' \in InstallSet => RollbackAt' /\ RestAt'
  BY DEF InstallSet, RollbackAt, RestAt
<1>2. jpc' \in {"clean", "rest"} => RollbackAt' /\ InstallAt'
  BY DEF InstallSet, RollbackAt, InstallAt
<1>3. Tracked' /\ inst' \in Installations /\ journal' = inst' /\ inst'.phase \in {"installing", "installed"}
      => JournalOK'
  BY DEF Tracked, JournalOK
<1>a. UNCHANGED <<final, backup, staged, started>> =>
        (Swap => Swap') /\ \A i \in Items : (Kept(i) => Kept(i)') /\ (Out(i) => Out(i)') /\ (New(i) => New(i)')
  BY DEF Swap, Kept, Out, New
<1>b. UNCHANGED <<final, backup, started, journal>> /\ JournalOK => JournalOK'
  BY DEF JournalOK, Kept
<1>c. /\ UNCHANGED <<final, backup, started>> /\ Tracked
      /\ inst'.failed = inst.failed /\ inst'.backedUp = inst.backedUp
      /\ inst'.installed = inst.installed /\ inst'.had = inst.had
      => Tracked'
  BY DEF Tracked
<1>d. jpc' = "rm config" /\ UNCHANGED started /\ Swap' /\ Tracked' /\ JournalOK' => JIPlaces'
  BY <1>0, <1>1 DEF JIPlaces, InstallAt, InstallSet
<1>e. jpc \in InstallSet => Swap /\ Tracked /\ JournalOK /\ inst \in Installations
  BY <1>0 DEF JIPlaces, InstallAt, JITyped, InstallSet
<1>4. CASE StageJoin
  <2>1. started' \in [Items -> {"none", "old"}] /\ jpc' = "stop"
    BY <1>0, <1>4 DEF StageJoin, JITyped, Then
  <2>2. \A i \in Items : Kept(i)'
    BY <1>0, <1>4 DEF StageJoin, JIPlaces, RestAt, Settled, Kept
  <2>3. Swap'
    BY <1>4, <2>1, <2>2 DEF StageJoin, Swap, Kept
  <2>4. Tracked' /\ JournalOK'
    BY <1>4, <2>2 DEF StageJoin, Installation, Tracked, JournalOK, Kept, Present, Installations
  <2>5. InstallAt'
    BY <2>1, <2>2, <2>3, <2>4 DEF InstallAt, InstallSet
  <2> QED BY <1>1, <2>1, <2>5 DEF JIPlaces, InstallSet
<1>5. CASE StopForJoin
  <2>0. Swap /\ Tracked /\ JournalOK /\ UNCHANGED <<final, started>> /\ \A i \in Items : Kept(i)
    BY <1>0, <1>5, <1>e DEF StopForJoin, InstallSet, JIPlaces, InstallAt, History
  <2>1. CASE jpc' = "install"
    <3>1. UNCHANGED <<backup, staged, journal, inst>>
      BY <1>5, <2>1 DEF StopForJoin, Then
    <3>2. Swap' /\ Tracked' /\ JournalOK' /\ \A i \in Items : Kept(i)'
      BY <2>0, <3>1, <1>a, <1>b, <1>c
    <3> QED BY <1>0, <1>1, <2>0, <2>1, <3>2 DEF JIPlaces, InstallAt, InstallSet
  <2>2. CASE jpc' = "rest"
    <3>1. journal' = NoJournal /\ backup' = [i \in Items |-> "none"]
      BY <1>5, <2>2 DEF StopForJoin, Then, RemoveTransaction
    <3>2. final' = started'
      BY <1>0, <2>0 DEF JITyped, Kept
    <3> QED BY <1>0, <1>2, <2>0, <2>2, <3>1, <3>2 DEF JIPlaces, RestAt, Settled
  <2> QED BY <1>5, <2>1, <2>2 DEF StopForJoin, Then
<1>6. CASE InstallBegin
  <2>0. Swap /\ Tracked /\ JournalOK /\ inst \in Installations /\ \A i \in Items : Kept(i)
    BY <1>0, <1>6, <1>e DEF InstallBegin, InstallSet, JIPlaces, InstallAt
  <2>1. UNCHANGED <<final, backup, staged, started>> /\ inst' = [inst EXCEPT !.phase = "installing"]
    BY <1>6 DEF InstallBegin, KeepFiles, History
  <2>2. inst' \in Installations /\ inst'.phase = "installing"
    BY <2>0, <2>1 DEF Installations
  <2>3. Swap' /\ Tracked' /\ \A i \in Items : Kept(i)'
    BY <2>0, <2>1, <1>a, <1>c DEF Installations
  <2>4. CASE jpc' = "back certs" /\ journal' = inst'
    <3>1. JournalOK'
      BY <1>3, <2>2, <2>3, <2>4
    <3>2. Kept("config")' /\ final'["certs"] # "new"
      BY <1>0, <2>1, <2>3 DEF Items, Kept, JIPlaces
    <3>3. InstallAt'
      BY <2>2, <2>3, <2>4, <3>1, <3>2 DEF InstallAt, InstallSet
    <3> QED BY <1>0, <1>1, <2>1, <2>4, <3>3 DEF JIPlaces, InstallSet
  <2>5. CASE jpc' = "rm config" /\ UNCHANGED journal
    BY <1>b, <1>d, <2>0, <2>1, <2>3, <2>5
  <2> QED BY <1>6, <2>4, <2>5 DEF InstallBegin, Persist, Then
<1>7. ASSUME NEW i \in Items, NEW h, NEW n, BackUp(i, h, n),
             \/ i = "certs" /\ h = "back certs" /\ n = "back config"
             \/ i = "config" /\ h = "back config" /\ n = "move certs"
      PROVE  JIPlaces'
  <2>0. /\ Swap /\ Tracked /\ JournalOK /\ inst \in Installations /\ UNCHANGED <<staged, journal, started>>
        /\ inst.phase \in {"installing", "installed"} /\ journal.phase # "staged" /\ jpc = h
    BY <1>0, <1>7, <1>e DEF BackUp, InstallSet, JIPlaces, InstallAt, History
  <2>1. Kept(i) /\ final[i] # "new"
    BY <1>0, <1>7, <2>0 DEF BackUp, JIPlaces, InstallAt, Kept, Swap, Tracked, Out, New
  <2>2. CASE i \notin Present /\ jpc' = n /\ UNCHANGED <<final, backup, inst>>
    <3>1. Swap' /\ Tracked' /\ JournalOK'
      BY <1>a, <1>b, <1>c, <2>0, <2>2
    <3>2. Out(i)'
      BY <2>0, <2>1, <2>2 DEF Kept, Out, Present
    <3>3. /\ n = "back config" => final'["config"] # "new"
          /\ n = "move certs" => Out("certs")'
      BY <1>0, <1>7, <1>a, <2>0, <2>2 DEF JIPlaces, InstallAt, Kept, Items
    <3>4. InstallAt'
      BY <1>7, <2>0, <2>2, <3>1, <3>2, <3>3 DEF InstallAt, InstallSet
    <3> QED BY <1>0, <1>1, <1>7, <2>0, <2>2, <3>4 DEF JIPlaces, InstallSet
  <2>3. CASE /\ i \in Present /\ jpc' = jpc
             /\ backup' = [backup EXCEPT ![i] = final[i]]
             /\ final' = [final EXCEPT ![i] = "none"]
             /\ inst' = [inst EXCEPT !.backedUp = @ \cup {i}]
    <3>1. Out(i)' /\ backup'[i] # "none" /\ final'[i] = "none"
      BY <1>0, <2>0, <2>1, <2>3 DEF JITyped, Kept, Out, Present
    <3>2. \A k \in Items \ {i} : final'[k] = final[k] /\ backup'[k] = backup[k]
      BY <1>0, <2>3 DEF JITyped
    <3>3. Swap'
      BY <1>0, <2>0, <2>1, <3>1, <3>2 DEF Swap, Kept, Out, New
    <3>4. Tracked'
      BY <2>0, <2>1, <2>3, <3>1, <3>2 DEF Tracked, Installations
    <3>5. JournalOK'
      BY <2>0, <2>1, <3>1, <3>2 DEF JournalOK
    <3>6. inst'.phase = inst.phase
      BY <2>0, <2>3 DEF Installations
    <3>7. /\ i = "certs" => Kept("config")'
          /\ i = "config" => Out("certs")'
      BY <1>0, <1>7, <2>0, <3>2 DEF JIPlaces, InstallAt, Kept, Out, Items
    <3>8. InstallAt'
      BY <1>7, <2>0, <2>3, <3>1, <3>3, <3>4, <3>5, <3>6, <3>7 DEF InstallAt, InstallSet
    <3> QED BY <1>0, <1>1, <1>7, <2>0, <2>3, <3>8 DEF JIPlaces, InstallSet
  <2>4. CASE jpc' = "rm config" /\ UNCHANGED <<final, backup, inst>>
    BY <1>a, <1>b, <1>c, <1>d, <2>0, <2>4
  <2> QED BY <1>7, <2>2, <2>3, <2>4 DEF BackUp, Then
<1>8. ASSUME NEW i \in Items, NEW h, MoveIn(i, h),
             \/ i = "certs" /\ h = "move certs"
             \/ i = "config" /\ h = "move config"
      PROVE  JIPlaces'
  <2>0. /\ Swap /\ Tracked /\ JournalOK /\ inst \in Installations /\ UNCHANGED <<backup, journal, started>>
        /\ inst.phase \in {"installing", "installed"} /\ journal.phase # "staged" /\ jpc = h
    BY <1>0, <1>8, <1>e DEF MoveIn, InstallSet, JIPlaces, InstallAt, History
  <2>1. Out(i)
    BY <1>0, <1>8, <2>0 DEF MoveIn, JIPlaces, InstallAt, Out, New, Tracked
  <2>2. CASE /\ jpc' = jpc
             /\ final' = [final EXCEPT ![i] = "new"] /\ staged' = staged \ {i}
             /\ inst' = [inst EXCEPT !.installed = @ \cup {i},
                                     !.phase = IF i = "config" THEN "installed" ELSE @]
    <3>1. New(i)'
      BY <1>0, <2>0, <2>1, <2>2 DEF JITyped, Out, New
    <3>2. \A k \in Items \ {i} : final'[k] = final[k] /\ (k \in staged' <=> k \in staged)
      BY <1>0, <2>2 DEF JITyped
    <3>3. Swap'
      BY <2>0, <2>2, <3>1, <3>2 DEF Swap, Kept, Out, New
    <3>4. Tracked'
      BY <2>0, <2>2, <3>1, <3>2 DEF Tracked, Installations, New
    <3>5. JournalOK'
      BY <2>0, <2>1, <3>1, <3>2 DEF JournalOK, New
    <3>6. inst'.phase \in {"installing", "installed"}
      BY <2>0, <2>2 DEF Installations
    <3>7. /\ i = "certs" => Out("config")'
          /\ i = "config" => New("certs")'
      BY <1>0, <1>8, <2>0, <3>2 DEF JIPlaces, InstallAt, New, Out, Items
    <3>8. InstallAt'
      BY <1>8, <2>0, <2>2, <3>1, <3>3, <3>4, <3>5, <3>6, <3>7 DEF InstallAt, InstallSet
    <3> QED BY <1>0, <1>1, <1>8, <2>0, <2>2, <3>8 DEF JIPlaces, InstallSet
  <2>3. CASE jpc' = "rm config" /\ UNCHANGED <<final, staged, inst>>
    BY <1>a, <1>b, <1>c, <1>d, <2>0, <2>3
  <2> QED BY <1>8, <2>2, <2>3 DEF MoveIn, Then
<1>9. ASSUME NEW i \in Items, NEW d, NEW h, NEW n, JournalMove(i, h, n, d),
             h \in {"back certs", "back config", "move certs", "move config"},
             n \in {"back config", "move certs", "move config", "start"},
             \/ i = "certs" /\ h = "back certs" /\ n = "back config" /\ d = inst.backedUp
             \/ i = "config" /\ h = "back config" /\ n = "move certs" /\ d = inst.backedUp
             \/ i = "certs" /\ h = "move certs" /\ n = "move config" /\ d = inst.installed
             \/ i = "config" /\ h = "move config" /\ n = "start" /\ d = inst.installed
      PROVE  JIPlaces'
  <2>0. /\ Swap /\ Tracked /\ JournalOK /\ inst \in Installations
        /\ UNCHANGED <<final, backup, staged, inst, started>>
        /\ inst.phase \in {"installing", "installed"} /\ journal.phase # "staged" /\ jpc = h /\ i \in d
    BY <1>0, <1>9, <1>e DEF JournalMove, InstallSet, JIPlaces, InstallAt, History, KeepFiles
  <2>1. Swap' /\ Tracked'
    BY <1>a, <1>c, <2>0
  <2>2. CASE jpc' = n /\ journal' = inst'
    <3>1. JournalOK'
      BY <1>3, <2>0, <2>1, <2>2
    <3>2. /\ n = "back config" => Out("certs") /\ final["config"] # "new"
          /\ n = "move certs" => Out("config") /\ Out("certs")
          /\ n = "move config" => New("certs") /\ Out("config")
          /\ n = "start" => New("certs") /\ New("config")
      BY <1>0, <1>9, <2>0 DEF JIPlaces, InstallAt, Tracked, Swap, Kept, Out, New, Items
    <3>3. InstallAt'
      BY <1>9, <1>a, <2>0, <2>1, <2>2, <3>1, <3>2 DEF InstallAt, InstallSet, Items
    <3> QED BY <1>0, <1>1, <1>9, <2>0, <2>2, <3>3 DEF JIPlaces, InstallSet
  <2>3. CASE jpc' = "rm config" /\ UNCHANGED journal
    BY <1>b, <1>d, <2>0, <2>1, <2>3
  <2> QED BY <1>9, <2>2, <2>3 DEF JournalMove, Persist, Then
<1>11. CASE InstallSteps
  BY <1>7, <1>8, <1>9, <1>11 DEF InstallSteps, Items
<1>12. CASE StartJoined
  <2>0. /\ Swap /\ Tracked /\ JournalOK /\ UNCHANGED <<final, backup, staged, journal, inst, started>>
        /\ inst.phase \in {"installing", "installed"} /\ journal.phase # "staged"
        /\ \A i \in Items : New(i)
    BY <1>0, <1>12, <1>e DEF StartJoined, InstallSet, JIPlaces, InstallAt, History, KeepFiles
  <2>1. Swap' /\ Tracked' /\ JournalOK' /\ \A i \in Items : New(i)'
    BY <1>a, <1>b, <1>c, <2>0
  <2>2. CASE jpc' = "commit"
    <3>1. InstallAt'
      BY <2>0, <2>1, <2>2 DEF InstallAt, InstallSet
    <3> QED BY <1>0, <1>1, <2>0, <2>2, <3>1 DEF JIPlaces, InstallSet
  <2>3. CASE jpc' = "rm config"
    BY <1>d, <2>0, <2>1, <2>3
  <2> QED BY <1>12, <2>2, <2>3 DEF StartJoined, Then
<1>13. CASE CommitJoin
  <2>0. /\ Swap /\ Tracked /\ JournalOK /\ UNCHANGED <<final, backup, staged, started>>
        /\ inst \in Installations /\ \A i \in Items : New(i)
        /\ inst' = [inst EXCEPT !.phase = "committed"]
    BY <1>0, <1>13, <1>e DEF CommitJoin, InstallSet, JIPlaces, InstallAt, History, KeepFiles
  <2>1. Swap' /\ Tracked' /\ inst'.phase = "committed"
    BY <1>a, <1>c, <2>0 DEF Installations
  <2>2. CASE jpc' = "clean" /\ journal' = inst'
    <3>1. final' = AllNew
      BY <1>0, <2>0 DEF JITyped, New, AllNew
    <3> QED BY <1>0, <1>2, <2>0, <2>1, <2>2, <3>1 DEF JIPlaces, RestAt
  <2>3. CASE jpc' = "rm config" /\ UNCHANGED journal
    BY <1>b, <1>d, <2>0, <2>1, <2>3
  <2> QED BY <1>13, <2>2, <2>3 DEF CommitJoin, Persist, Then
<1>14. CASE CleanupCommitted
  <2>0. jpc' = "rest" /\ final' = AllNew /\ UNCHANGED started /\ journal.phase = "committed"
    BY <1>0, <1>14 DEF CleanupCommitted, JIPlaces, RestAt, Then, History
  <2>1. CASE RemoveTransaction
    BY <1>0, <1>2, <2>0, <2>1 DEF RemoveTransaction, JIPlaces, RestAt, Settled
  <2>2. CASE UNCHANGED journal
    BY <1>0, <1>2, <2>0, <2>2 DEF JIPlaces, RestAt, NoJournal
  <2> QED BY <1>14, <2>1, <2>2 DEF CleanupCommitted
<1> QED BY <1>4, <1>5, <1>6, <1>11, <1>12, <1>13, <1>14

\* A step of the rollback.
LEMMA JIRollbackStep ==
  ASSUME JIInv, JITyped', ~ broken', ~ broken, RollbackSteps
  PROVE  JIPlaces'
<1>0. JIPlaces /\ JITyped
  BY DEF JIInv
<1>1. jpc' \in {"rm certs", "put config", "put certs", "undone"} => InstallAt' /\ RestAt'
  BY DEF InstallSet, InstallAt, RestAt
<1>2. jpc' = "rest" => RollbackAt' /\ InstallAt'
  BY DEF InstallSet, RollbackAt, InstallAt
<1>3. jpc \in {"rm config", "rm certs", "put config", "put certs", "undone"} =>
        /\ Tracked /\ inst \in Installations
        /\ \A i \in Items : Kept(i) \/ Out(i) \/ New(i)
  BY <1>0 DEF JIPlaces, InstallAt, RollbackAt, Swap, InstallSet, JITyped
<1>4. ASSUME NEW i \in Items, NEW h, NEW n, RemoveNew(i, h, n),
             \/ i = "config" /\ h = "rm config" /\ n = "rm certs"
             \/ i = "certs" /\ h = "rm certs" /\ n = "put config"
      PROVE  JIPlaces'
  <2>1. jpc = h /\ jpc' = n /\ UNCHANGED <<backup, started>>
    BY <1>4 DEF RemoveNew, Then, History
  <2>2. /\ Tracked' /\ final'[i] # "new"
        /\ \A k \in Items : Kept(k)' \/ Out(k)' \/ New(k)'
        /\ \A k \in Items \ {i} : final'[k] = final[k]
    <3>1. CASE /\ i \in inst.installed
               /\ final' = [final EXCEPT ![i] = "none"]
               /\ inst' = [inst EXCEPT !.installed = @ \ {i}]
      <4>1. Out(i)' /\ final'[i] = "none" /\ \A k \in Items \ {i} : final'[k] = final[k]
        BY <1>0, <1>3, <1>4, <2>1, <3>1 DEF JITyped, JIPlaces, Tracked, Kept, Out, New
      <4>2. Tracked'
        BY <1>3, <1>4, <2>1, <3>1, <4>1 DEF Tracked, Installations
      <4> QED BY <1>3, <1>4, <2>1, <4>1, <4>2 DEF Kept, Out, New
    <3>2. CASE i \notin inst.installed /\ UNCHANGED <<final, inst>>
      BY <1>3, <1>4, <2>1, <3>2 DEF Tracked, Kept, Out, New
    <3> QED BY <1>4, <3>1, <3>2 DEF RemoveNew
  <2>3. RollbackAt'
    BY <1>0, <1>4, <2>1, <2>2 DEF JIPlaces, RollbackAt, Items
  <2> QED BY <1>0, <1>1, <1>4, <2>1, <2>3 DEF JIPlaces
<1>5. ASSUME NEW i \in Items, NEW h, NEW n, PutBack(i, h, n),
             \/ i = "config" /\ h = "put config" /\ n = "put certs"
             \/ i = "certs" /\ h = "put certs" /\ n = "undone"
      PROVE  JIPlaces'
  <2>1. jpc = h /\ jpc' = n /\ UNCHANGED started
    BY <1>5 DEF PutBack, Then, History
  <2>2. final["config"] # "new" /\ final["certs"] # "new"
    BY <1>0, <1>5, <2>1 DEF JIPlaces, RollbackAt
  <2>3. /\ Tracked' /\ Kept(i)'
        /\ \A k \in Items : Kept(k)' \/ Out(k)' \/ New(k)'
        /\ \A k \in Items \ {i} : final'[k] = final[k] /\ backup'[k] = backup[k]
    <3>1. CASE /\ i \in inst.backedUp /\ backup[i] # "none"
               /\ final' = [final EXCEPT ![i] = backup[i]]
               /\ backup' = [backup EXCEPT ![i] = "none"]
               /\ inst' = [inst EXCEPT !.backedUp = @ \ {i}]
      <4>1. /\ Kept(i)' /\ backup'[i] = "none"
            /\ \A k \in Items \ {i} : final'[k] = final[k] /\ backup'[k] = backup[k]
        BY <1>0, <1>3, <1>5, <2>1, <2>2, <3>1 DEF JITyped, Tracked, Kept, Out, New, Items
      <4>2. final'[i] # "new"
        BY <1>0, <2>1, <4>1 DEF Kept, JIPlaces
      <4>3. Tracked'
        <5>1. /\ ~ inst'.failed /\ inst'.installed = inst.installed /\ inst'.had = inst.had
              /\ \A k \in Items : k \in inst'.backedUp <=> k \in inst.backedUp /\ k # i
          BY <1>3, <1>5, <2>1, <3>1 DEF Tracked, Installations
        <5>2. final[i] # "new"
          BY <2>2 DEF Items
        <5> QED BY <1>3, <1>5, <2>1, <4>1, <4>2, <5>1, <5>2 DEF Tracked
      <4> QED BY <1>3, <1>5, <2>1, <4>1, <4>3 DEF Kept, Out, New
    <3>2. CASE i \notin inst.backedUp /\ UNCHANGED <<final, backup, inst>>
      <4>1. Kept(i)
        BY <1>3, <1>5, <2>1, <2>2, <3>2 DEF Tracked, Kept, Out, New, Items
      <4> QED BY <1>3, <1>5, <2>1, <3>2, <4>1 DEF Tracked, Kept, Out, New
    <3> QED BY <1>5, <3>1, <3>2 DEF PutBack
  <2>4. final'["config"] # "new" /\ final'["certs"] # "new"
    BY <1>0, <2>1, <2>2, <2>3 DEF Kept, JIPlaces, Items
  <2>5. RollbackAt'
    BY <1>0, <1>5, <2>1, <2>3, <2>4 DEF JIPlaces, RollbackAt, Kept, Items
  <2> QED BY <1>0, <1>1, <1>5, <2>1, <2>5 DEF JIPlaces
<1>6. CASE RollbackEnds
  <2>1. jpc' = "rest" /\ RemoveTransaction /\ UNCHANGED <<final, started>>
    BY <1>3, <1>6 DEF RollbackEnds, Then, History, Tracked
  <2>2. final = started
    BY <1>0, <1>6 DEF RollbackEnds, JIPlaces, RollbackAt, Kept, JITyped, Items
  <2> QED BY <1>0, <1>2, <2>1, <2>2 DEF JIPlaces, RestAt, Settled, RemoveTransaction
<1> QED BY <1>4, <1>5, <1>6 DEF RollbackSteps, Items

\* A crash, and the recovery.
LEMMA JIRecoverStep ==
  ASSUME JIInv, JITyped', ~ broken', ~ broken, CrashInstall \/ RecoverJoinInstallation
  PROVE  JIPlaces'
<1>0. JIPlaces /\ JITyped
  BY DEF JIInv
<1>1. jpc' \in {"rest", "down"} => RollbackAt' /\ InstallAt'
  BY DEF InstallSet, RollbackAt, InstallAt
<1>2. CASE CrashInstall
  <2>1. /\ jpc' = "down" /\ UNCHANGED <<final, backup, staged, journal, started>>
        /\ jpc \in InstallSet \cup {"clean", "rest"}
    BY <1>0, <1>2 DEF CrashInstall, Then, KeepFiles, JITyped, JISteps
  <2>2. CASE jpc \in InstallSet
    <3>1. Swap' /\ JournalOK' /\ journal' # NoJournal /\ journal'.phase # "committed"
      <4>1. Swap /\ JournalOK
        BY <1>0, <2>2 DEF JIPlaces, InstallAt
      <4>2. Swap' /\ JournalOK'
        BY <2>1, <4>1 DEF Swap, JournalOK, Kept, Out, New
      <4>3. NoJournal \notin Installations
        BY DEF NoJournal, Installations
      <4> QED BY <4>2, <4>3 DEF JournalOK
    <3>2. RestAt'
      BY <2>1, <3>1 DEF RestAt
    <3> QED BY <1>0, <1>1, <2>1, <3>2 DEF JIPlaces
  <2>3. CASE jpc \in {"clean", "rest"}
    <3>1. RestAt'
      BY <1>0, <2>1, <2>3 DEF JIPlaces, RestAt, Settled, NoJournal
    <3> QED BY <1>0, <1>1, <2>1, <3>1 DEF JIPlaces
  <2> QED BY <2>1, <2>2, <2>3
<1>3. CASE RecoverJoinInstallation
  <2>0. UNCHANGED <<final, started>> /\ jpc \in {"down", "rest"} /\ (jpc = "rest" => journal # NoJournal)
    BY <1>3 DEF RecoverJoinInstallation, History
  <2>1. CASE journal = NoJournal
    <3>1. jpc' = "rest" /\ UNCHANGED <<backup, journal>> /\ jpc = "down"
      BY <1>3, <2>0, <2>1 DEF RecoverJoinInstallation, Then, NoJournal
    <3>2. Settled
      BY <1>0, <2>1, <3>1 DEF JIPlaces, RestAt, NoJournal
    <3> QED BY <1>0, <1>1, <2>0, <2>1, <3>1, <3>2 DEF JIPlaces, RestAt, Settled
  <2>2. CASE journal # NoJournal /\ journal.phase \in {"staged", "committed"}
    <3>1. jpc' = "rest" /\ RemoveTransaction
      BY <1>3, <2>2 DEF RecoverJoinInstallation, Then
    <3>2. final \in {started, AllNew}
      BY <1>0, <2>0, <2>2 DEF JIPlaces, RestAt, JournalOK, Kept, JITyped
    <3> QED BY <1>0, <1>1, <2>0, <3>1, <3>2 DEF JIPlaces, RestAt, Settled, RemoveTransaction
  <2>3. CASE journal # NoJournal /\ journal.phase \notin {"staged", "committed"}
    <3>1. /\ jpc' = "rm config" /\ UNCHANGED <<backup, staged, journal>>
          /\ inst' = Installation(journal.phase, "recovery", MovedOut(journal), MovedIn(journal),
                                  journal.had)
      BY <1>3, <2>3 DEF RecoverJoinInstallation, Then
    <3>2. Swap /\ JournalOK
      BY <1>0, <2>0, <2>3 DEF JIPlaces, RestAt
    <3>3. Swap' /\ JournalOK'
      BY <2>0, <3>1, <3>2 DEF Swap, JournalOK, Kept, Out, New
    <3>4. \A i \in Items : i \in MovedOut(journal) <=> backup[i] # "none"
      BY <3>2 DEF MovedOut, JournalOK
    <3>5. \A i \in Items : i \in MovedIn(journal) <=> final[i] = "new"
      BY <1>0, <3>2 DEF MovedIn, Present, Swap, JournalOK, Kept, Out, New, JIPlaces
    <3>6. Tracked'
      <4>1. /\ ~ inst'.failed /\ inst'.backedUp = MovedOut(journal)
            /\ inst'.installed = MovedIn(journal) /\ inst'.had = journal.had
        BY <3>1 DEF Installation
      <4> QED BY <2>0, <3>1, <3>2, <3>4, <3>5, <4>1 DEF Tracked, JournalOK
    <3> QED BY <1>0, <2>0, <3>1, <3>3, <3>6 DEF JIPlaces, InstallAt, InstallSet, RollbackAt, RestAt
  <2> QED BY <2>1, <2>2, <2>3
<1> QED BY <1>2, <1>3

\* No step, failure or crash of the installation breaks the invariant.
LEMMA JINextInv == JIInv /\ [JINext]_jiVars => JIInv'
<1> SUFFICES ASSUME JIInv, [JINext]_jiVars PROVE JIInv'
  OBVIOUS
<1>1. JITyped'
  BY JITypes DEF JIInv
<1>2. CASE UNCHANGED jiVars
  <2>1. InstallAt <=> InstallAt'
    BY <1>2 DEF jiVars, InstallAt, Swap, Tracked, JournalOK, Kept, Out, New
  <2>2. RollbackAt <=> RollbackAt'
    BY <1>2 DEF jiVars, RollbackAt, Tracked, Kept, Out, New
  <2>3. Swap = Swap' /\ JournalOK = JournalOK' /\ Settled = Settled'
    BY <1>2 DEF jiVars, Swap, JournalOK, Settled, Kept, Out, New
  <2>4. RestAt <=> RestAt'
    BY <1>2, <2>3 DEF jiVars, RestAt
  <2> QED BY <1>1, <1>2, <2>1, <2>2, <2>4 DEF JIInv, JIPlaces, jiVars
<1>3. ASSUME JINext, broken PROVE broken'
  BY <1>3 DEF JINext, StageJoin, StopForJoin, InstallBegin, InstallSteps, BackUp, MoveIn,
     JournalMove, StartJoined, CommitJoin, CleanupCommitted, RollbackSteps, RemoveNew, PutBack,
     RollbackEnds, CrashInstall, RecoverJoinInstallation
<1>4. ASSUME JINext, ~ broken, ~ broken' PROVE JIPlaces'
  BY <1>1, <1>4, JIInstallStep, JIRollbackStep, JIRecoverStep DEF JINext
<1> QED BY <1>1, <1>2, <1>3, <1>4 DEF JIInv

(***************************************************************************)
(* Wherever operations fail and crashes fall, the identity the node had is *)
(* in place or in the backup until the new one is there as a whole, and a  *)
(* join that is over leaves one of them, unless a rollback was itself cut  *)
(* off (JoinCluster, recoverJoinInstallation).                             *)
(***************************************************************************)
THEOREM JoinIsAtomic == JISpec => []JoinAtomic
<1>1. JIInit => JIInv
  <2> SUFFICES ASSUME JIInit PROVE JIInv
    OBVIOUS
  <2>1. JITyped
    BY DEF JIInit, JITyped
  <2>2. JIPlaces
    BY DEF JIInit, JIPlaces, InstallAt, RollbackAt, RestAt, Settled, InstallSet
  <2> QED BY <2>1, <2>2 DEF JIInv
<1> QED BY <1>1, JINextInv, JIInvAtomic, PTL DEF JISpec

(* ------------------------------ the shutdown ------------------------------ *)

SDMapper == SDSteps \ {"none", "stop", "cancel", "unix", "http", "nat"}
SDRouter == {"router", "quic", "turn", "storage", "done"}

\* What the steps of finishShutdown have closed or waited for.
LTOrder ==
  /\ sd \in SDSteps
  /\ requested <=> sd # "none"
  /\ admit => sd \in {"none", "stop"}
  /\ cancelled <=> sd \notin {"none", "stop", "cancel"}
  /\ bound \subseteq {"unix", "tcp"}
  /\ "unix" \in bound => sd \in {"none", "stop", "cancel", "unix"}
  /\ "tcp" \in bound => sd \in {"none", "stop", "cancel", "unix", "http"}
  /\ sd \in SDMapper => nat \in {"idle", "done"}
  /\ sd \in SDRouter => offline = "done" /\ \A j \in Jobs : job[j] = "idle"
  /\ "router" \in up <=> sd \notin SDRouter \ {"router"}
  /\ "storage" \in up <=> sd # "done"

\* Who owns what the network setup opened: the setup itself, until it is
\* published, and then the shutdown.
LTOwned ==
  /\ sock = "open" => quic = "published" \/ nat \notin {"idle", "open", "probe", "done"}
  /\ quic = "made" => nat = "quicpub"
  /\ turnSrv = "made" => nat = "turnpub"
  /\ quic = "published" => sd \notin {"turn", "storage", "done"}
  /\ turnSrv = "published" => sd \notin {"storage", "done"}
  /\ quic \in {"none", "made", "published", "closed"}
  /\ turnSrv \in {"none", "made", "published", "closed"}
  /\ alloc => "router" \in up

\* A mapper that runs or remembers a mapping is published, or somebody joins it.
LTMapping ==
  /\ mapper \in [pub : BOOLEAN, stop : BOOLEAN, run : {"none", "discover", "map", "idle", "off"}]
  /\ gateway = "held" => mapped
  /\ mapper.pub => sd \notin SDMapper \ {"mapper"}
  /\ mapped \/ mapper.run \notin {"none", "off"} =>
       mapper.pub \/ (mapper.stop /\ (nat = "discard" \/ sd = "joinmapper"))

LTInv == LTOrder /\ LTOwned /\ LTMapping

\* Each step of the node keeps the order of the shutdown.
LEMMA LTOrderInv == LTInv /\ [LTNext]_ltVars => LTOrder'
<1> SUFFICES ASSUME LTInv, [LTNext]_ltVars PROVE LTOrder'
  OBVIOUS
<1> USE DEF LTInv, core, net, gate, SD, LTOrder, SDMapper, SDRouter, SDSteps
<1>1. CASE UNCHANGED ltVars
  BY <1>1 DEF ltVars
<1>2. CASE ListenAndServe
  BY <1>2 DEF ListenAndServe
<1>3. CASE BeginNATWork
  BY <1>3 DEF BeginNATWork
<1>4. CASE OpenUDPEndpoint
  BY <1>4 DEF OpenUDPEndpoint
<1>5. CASE MakeMapper
  BY <1>5 DEF MakeMapper
<1>6. CASE PublishMapper
  BY <1>6 DEF PublishMapper
<1>7. CASE WaitReady
  BY <1>7 DEF WaitReady
<1>8. CASE SetOnMapped
  BY <1>8 DEF SetOnMapped
<1>9. CASE DiscardMapper
  BY <1>9 DEF DiscardMapper, Unmapped
<1>10. CASE StartTURNServer
  BY <1>10 DEF StartTURNServer
<1>11. CASE PublishTURNServer
  BY <1>11 DEF PublishTURNServer
<1>12. CASE StartQUIC
  BY <1>12 DEF StartQUIC
<1>13. CASE PublishQUIC
  BY <1>13 DEF PublishQUIC
<1>14. CASE ProbeDone
  BY <1>14 DEF ProbeDone
<1>15. CASE Discover
  BY <1>15 DEF Discover
<1>16. CASE MapPort
  BY <1>16 DEF MapPort, RefreshPublicUDP
<1>17. CASE MapperTick
  BY <1>17 DEF MapperTick
<1>18. CASE Shutdown
  BY <1>18 DEF Shutdown
<1>19. CASE StopAdmission
  BY <1>19 DEF StopAdmission
<1>20. CASE AnnounceOffline
  BY <1>20 DEF AnnounceOffline
<1>21. CASE CancelLifetime
  BY <1>21 DEF CancelLifetime
<1>22. CASE CloseUnix
  BY <1>22 DEF CloseUnix
<1>23. CASE CloseHTTP
  BY <1>23 DEF CloseHTTP
<1>24. CASE StopNATWork
  BY <1>24 DEF StopNATWork
<1>25. CASE StopMapper
  BY <1>25 DEF StopMapper
<1>26. CASE JoinMapper
  BY <1>26 DEF JoinMapper, Unmapped
<1>27. CASE CloseCompute
  BY <1>27 DEF CloseCompute, ClosePart
<1>28. CASE JoinDownloads
  BY <1>28 DEF JoinDownloads, ClosePart
<1>29. CASE JoinListeners
  BY <1>29 DEF JoinListeners
<1>30. CASE JoinWork
  BY <1>30 DEF JoinWork
<1>31. CASE CloseRouter
  BY <1>31 DEF CloseRouter, ClosePart
<1>32. CASE CloseQUIC
  BY <1>32 DEF CloseQUIC
<1>33. CASE CloseTURN
  BY <1>33 DEF CloseTURN
<1>34. CASE CloseStorage
  BY <1>34 DEF CloseStorage, ClosePart
<1>35. ASSUME NEW j \in Jobs, BeginOwnedWork(j) PROVE LTOrder'
  BY <1>35 DEF BeginOwnedWork
<1>36. ASSUME NEW j \in Jobs, BeginUnixWork(j) PROVE LTOrder'
  BY <1>36 DEF BeginUnixWork
<1>37. ASSUME NEW j \in Jobs, FinishOwnedWork(j) PROVE LTOrder'
  BY <1>37 DEF FinishOwnedWork
<1>38. ASSUME NEW j \in Jobs, EnsureAllocation(j) PROVE LTOrder'
  BY <1>38 DEF EnsureAllocation
<1> QED BY <1>1, <1>2, <1>3, <1>4, <1>5, <1>6, <1>7, <1>8, <1>9, <1>10, <1>11, <1>12, <1>13,
    <1>14, <1>15, <1>16, <1>17, <1>18, <1>19, <1>20, <1>21, <1>22, <1>23, <1>24, <1>25, <1>26,
    <1>27, <1>28, <1>29, <1>30, <1>31, <1>32, <1>33, <1>34, <1>35, <1>36, <1>37, <1>38 DEF
    LTNext, NATStep, MapperStep, ShutdownStep

\* Each step keeps track of the sockets, managers and allocations.
LEMMA LTOwnedInv == LTInv /\ [LTNext]_ltVars => LTOwned'
<1> SUFFICES ASSUME LTInv, [LTNext]_ltVars PROVE LTOwned'
  OBVIOUS
<1> USE DEF LTInv, core, net, gate, SD, LTOwned
<1>1. CASE UNCHANGED ltVars
  BY <1>1 DEF ltVars
<1>2. CASE ListenAndServe
  BY <1>2 DEF ListenAndServe
<1>3. CASE BeginNATWork
  BY <1>3 DEF BeginNATWork
<1>4. CASE OpenUDPEndpoint
  BY <1>4 DEF OpenUDPEndpoint
<1>5. CASE MakeMapper
  BY <1>5 DEF MakeMapper
<1>6. CASE PublishMapper
  BY <1>6 DEF PublishMapper
<1>7. CASE WaitReady
  BY <1>7 DEF WaitReady
<1>8. CASE SetOnMapped
  BY <1>8 DEF SetOnMapped
<1>9. CASE DiscardMapper
  BY <1>9 DEF DiscardMapper, Unmapped
<1>10. CASE StartTURNServer
  BY <1>10 DEF StartTURNServer
<1>11. CASE PublishTURNServer
  BY <1>11 DEF PublishTURNServer, LTOrder, SDMapper, SDSteps
<1>12. CASE StartQUIC
  BY <1>12 DEF StartQUIC
<1>13. CASE PublishQUIC
  BY <1>13 DEF PublishQUIC, LTOrder, SDMapper, SDSteps
<1>14. CASE ProbeDone
  BY <1>14 DEF ProbeDone
<1>15. CASE Discover
  BY <1>15 DEF Discover
<1>16. CASE MapPort
  BY <1>16 DEF MapPort, RefreshPublicUDP
<1>17. CASE MapperTick
  BY <1>17 DEF MapperTick
<1>18. CASE Shutdown
  BY <1>18 DEF Shutdown
<1>19. CASE StopAdmission
  BY <1>19 DEF StopAdmission
<1>20. CASE AnnounceOffline
  BY <1>20 DEF AnnounceOffline
<1>21. CASE CancelLifetime
  BY <1>21 DEF CancelLifetime
<1>22. CASE CloseUnix
  BY <1>22 DEF CloseUnix
<1>23. CASE CloseHTTP
  BY <1>23 DEF CloseHTTP
<1>24. CASE StopNATWork
  BY <1>24 DEF StopNATWork
<1>25. CASE StopMapper
  BY <1>25 DEF StopMapper
<1>26. CASE JoinMapper
  BY <1>26 DEF JoinMapper, Unmapped
<1>27. CASE CloseCompute
  BY <1>27 DEF CloseCompute, ClosePart
<1>28. CASE JoinDownloads
  BY <1>28 DEF JoinDownloads, ClosePart
<1>29. CASE JoinListeners
  BY <1>29 DEF JoinListeners
<1>30. CASE JoinWork
  BY <1>30 DEF JoinWork
<1>31. CASE CloseRouter
  BY <1>31 DEF CloseRouter, ClosePart
<1>32. CASE CloseQUIC
  BY <1>32 DEF CloseQUIC
<1>33. CASE CloseTURN
  BY <1>33 DEF CloseTURN
<1>34. CASE CloseStorage
  BY <1>34 DEF CloseStorage, ClosePart
<1>35. ASSUME NEW j \in Jobs, BeginOwnedWork(j) PROVE LTOwned'
  BY <1>35 DEF BeginOwnedWork
<1>36. ASSUME NEW j \in Jobs, BeginUnixWork(j) PROVE LTOwned'
  BY <1>36 DEF BeginUnixWork
<1>37. ASSUME NEW j \in Jobs, FinishOwnedWork(j) PROVE LTOwned'
  BY <1>37 DEF FinishOwnedWork
<1>38. ASSUME NEW j \in Jobs, EnsureAllocation(j) PROVE LTOwned'
  BY <1>38 DEF EnsureAllocation
<1> QED BY <1>1, <1>2, <1>3, <1>4, <1>5, <1>6, <1>7, <1>8, <1>9, <1>10, <1>11, <1>12, <1>13,
    <1>14, <1>15, <1>16, <1>17, <1>18, <1>19, <1>20, <1>21, <1>22, <1>23, <1>24, <1>25, <1>26,
    <1>27, <1>28, <1>29, <1>30, <1>31, <1>32, <1>33, <1>34, <1>35, <1>36, <1>37, <1>38 DEF
    LTNext, NATStep, MapperStep, ShutdownStep

\* Each step keeps track of the mapper.
LEMMA LTMappingInv == LTInv /\ [LTNext]_ltVars => LTMapping'
<1> SUFFICES ASSUME LTInv, [LTNext]_ltVars PROVE LTMapping'
  OBVIOUS
<1> USE DEF LTInv, core, net, gate, SD, LTMapping
<1>1. CASE UNCHANGED ltVars
  BY <1>1 DEF ltVars
<1>2. CASE ListenAndServe
  BY <1>2 DEF ListenAndServe
<1>3. CASE BeginNATWork
  BY <1>3 DEF BeginNATWork
<1>4. CASE OpenUDPEndpoint
  BY <1>4 DEF OpenUDPEndpoint
<1>5. CASE MakeMapper
  BY <1>5 DEF MakeMapper
<1>6. CASE PublishMapper
  <2>1. sd \notin SDMapper /\ UNCHANGED <<sd, gateway, mapped>>
    BY <1>6 DEF PublishMapper, LTOrder
  <2>2. CASE UNCHANGED mapper /\ nat = "publish"
    BY <2>1, <2>2
  <2>3. CASE mapper' = [pub |-> TRUE, stop |-> FALSE, run |-> "discover"]
    BY <2>1, <2>3
  <2> QED BY <1>6, <2>2, <2>3 DEF PublishMapper
<1>7. CASE WaitReady
  BY <1>7 DEF WaitReady
<1>8. CASE SetOnMapped
  BY <1>8 DEF SetOnMapped
<1>9. CASE DiscardMapper
  BY <1>9 DEF DiscardMapper, Unmapped
<1>10. CASE StartTURNServer
  BY <1>10 DEF StartTURNServer
<1>11. CASE PublishTURNServer
  BY <1>11 DEF PublishTURNServer
<1>12. CASE StartQUIC
  BY <1>12 DEF StartQUIC
<1>13. CASE PublishQUIC
  BY <1>13 DEF PublishQUIC
<1>14. CASE ProbeDone
  BY <1>14 DEF ProbeDone
<1>15. CASE Discover
  BY <1>15 DEF Discover
<1>16. CASE MapPort
  BY <1>16 DEF MapPort, RefreshPublicUDP
<1>17. CASE MapperTick
  BY <1>17 DEF MapperTick
<1>18. CASE Shutdown
  BY <1>18 DEF Shutdown, SDMapper, SDSteps, LTOrder
<1>19. CASE StopAdmission
  BY <1>19 DEF StopAdmission, SDMapper, SDSteps
<1>20. CASE AnnounceOffline
  BY <1>20 DEF AnnounceOffline
<1>21. CASE CancelLifetime
  BY <1>21 DEF CancelLifetime, SDMapper, SDSteps
<1>22. CASE CloseUnix
  BY <1>22 DEF CloseUnix, SDMapper, SDSteps
<1>23. CASE CloseHTTP
  BY <1>23 DEF CloseHTTP, SDMapper, SDSteps
<1>24. CASE StopNATWork
  BY <1>24 DEF StopNATWork
<1>25. CASE StopMapper
  BY <1>25 DEF StopMapper
<1>26. CASE JoinMapper
  BY <1>26 DEF JoinMapper, Unmapped, SDMapper, SDSteps
<1>27. CASE CloseCompute
  BY <1>27 DEF CloseCompute, ClosePart, SDMapper, SDSteps
<1>28. CASE JoinDownloads
  BY <1>28 DEF JoinDownloads, ClosePart, SDMapper, SDSteps
<1>29. CASE JoinListeners
  BY <1>29 DEF JoinListeners, SDMapper, SDSteps
<1>30. CASE JoinWork
  BY <1>30 DEF JoinWork, SDMapper, SDSteps
<1>31. CASE CloseRouter
  BY <1>31 DEF CloseRouter, ClosePart, SDMapper, SDSteps
<1>32. CASE CloseQUIC
  BY <1>32 DEF CloseQUIC, SDMapper, SDSteps
<1>33. CASE CloseTURN
  BY <1>33 DEF CloseTURN, SDMapper, SDSteps
<1>34. CASE CloseStorage
  BY <1>34 DEF CloseStorage, ClosePart, SDMapper, SDSteps
<1>35. ASSUME NEW j \in Jobs, BeginOwnedWork(j) PROVE LTMapping'
  BY <1>35 DEF BeginOwnedWork
<1>36. ASSUME NEW j \in Jobs, BeginUnixWork(j) PROVE LTMapping'
  BY <1>36 DEF BeginUnixWork
<1>37. ASSUME NEW j \in Jobs, FinishOwnedWork(j) PROVE LTMapping'
  BY <1>37 DEF FinishOwnedWork
<1>38. ASSUME NEW j \in Jobs, EnsureAllocation(j) PROVE LTMapping'
  BY <1>38 DEF EnsureAllocation
<1> QED BY <1>1, <1>2, <1>3, <1>4, <1>5, <1>6, <1>7, <1>8, <1>9, <1>10, <1>11, <1>12, <1>13,
    <1>14, <1>15, <1>16, <1>17, <1>18, <1>19, <1>20, <1>21, <1>22, <1>23, <1>24, <1>25, <1>26,
    <1>27, <1>28, <1>29, <1>30, <1>31, <1>32, <1>33, <1>34, <1>35, <1>36, <1>37, <1>38 DEF
    LTNext, NATStep, MapperStep, ShutdownStep

(***************************************************************************)
(* The shutdown of a node, raced by jobs, NAT setup, port mapper and TURN, *)
(* closes storage and router only after their users have ended, and is     *)
(* done only after every resource is released (finishShutdown).            *)
(***************************************************************************)
THEOREM ShutdownIsClean == LTSpec => []ShutdownClean
<1>1. LTInit => LTInv
  BY DEF LTInit, LTInv, LTOrder, LTOwned, LTMapping, SDMapper, SDRouter, SDSteps, Parts
<1>2. LTInv => ShutdownClean
  BY DEF LTInv, LTOrder, LTOwned, LTMapping, ShutdownClean, SDMapper, SDRouter, SDSteps, IsReady
<1>3. LTInv /\ [LTNext]_ltVars => LTInv'
  BY LTOrderInv, LTOwnedInv, LTMappingInv DEF LTInv
<1> QED BY <1>1, <1>2, <1>3, PTL DEF LTSpec

(* ------------------------------- invitations ----------------------------- *)

\* Where a join can stand; what it holds once the invitation is consumed.
JoinStates ==
  {NoJoin} \cup [pc : {"checked"}, secret : Secrets]
           \cup [pc : {"held", "signed"}, secret : Secrets, expiration : Nat]

Holds(j, s) == joins[j].pc \in {"held", "signed"} /\ joins[j].secret = s

(***************************************************************************)
(* The two copies agree.  An invitation that a certificate was issued for, *)
(* or that a join holds, is not pending; one join holds it, with the       *)
(* expiration it was minted with, and puts that back.                      *)
(***************************************************************************)
IVInv ==
  /\ now \in Nat
  /\ pending \in [Secrets -> Nat] /\ inviteDB = pending
  /\ minted \in [Secrets -> Nat] /\ issued \in [Secrets -> Nat]
  /\ joins \in [Joins -> JoinStates]
  /\ \A s \in Secrets :
       /\ pending[s] \in {0, minted[s]}
       /\ minted[s] = 0 => issued[s] = 0
       /\ issued[s] # 0 => pending[s] = 0
  /\ \A j \in Joins, s \in Secrets : Holds(j, s) =>
       /\ pending[s] = 0 /\ issued[s] = 0
       /\ joins[j].expiration = minted[s] /\ minted[s] # 0
       /\ \A k \in Joins : Holds(k, s) => k = j
  /\ InviteBuysOne

\* The invariant when neither the joins nor the issued certificates change.
LEMMA InvitesOnly ==
  ASSUME IVInv, UNCHANGED <<joins, issued, minted>>, now' \in Nat, now <= now', dropped' = dropped,
         pending' \in [Secrets -> Nat], inviteDB' = pending',
         \A s \in Secrets : \/ pending'[s] = pending[s]
                            \/ pending'[s] = 0 /\ minted[s] <= now
  PROVE  IVInv'
<1>1. \A j \in Joins, s \in Secrets : Holds(j, s)' <=> Holds(j, s)
  BY DEF Holds
<1>2. InviteBuysOne'
  BY DEF InviteBuysOne, IVInv
<1> QED BY <1>1, <1>2 DEF IVInv

\* No request, failure, sweep or restart breaks the invariant.
LEMMA IVNextInv == IVInv /\ [IVNext]_ivVars => IVInv'
<1> SUFFICES ASSUME IVInv, [IVNext]_ivVars PROVE IVInv'
  OBVIOUS
<1> USE InvitesAssumption
<1>1. CASE UNCHANGED ivVars
  <2>1. UNCHANGED <<now, pending, inviteDB, minted, joins, issued, dropped>>
    BY <1>1 DEF ivVars
  <2>2. /\ now' \in Nat /\ now <= now'
        /\ pending' \in [Secrets -> Nat] /\ inviteDB' = pending'
    BY <2>1 DEF IVInv
  <2> QED BY <2>1, <2>2, InvitesOnly
<1>2. CASE Advance
  <2>1. UNCHANGED <<pending, inviteDB, minted, joins, issued, dropped>> /\ now' = now + 1
    BY <1>2 DEF Advance
  <2>2. /\ now' \in Nat /\ now <= now'
        /\ pending' \in [Secrets -> Nat] /\ inviteDB' = pending'
    BY <2>1 DEF IVInv
  <2> QED BY <2>1, <2>2, InvitesOnly
<1>3. CASE Sweep
  <2>1. /\ pending' \in [Secrets -> Nat] /\ inviteDB' = pending'
        /\ \A s \in Secrets : \/ pending'[s] = pending[s]
                              \/ pending'[s] = 0 /\ minted[s] <= now
    BY <1>3 DEF Sweep, Without, Expired, IVInv
  <2>2. UNCHANGED <<now, minted, joins, issued, dropped>>
    BY <1>3 DEF Sweep
  <2>3. now' \in Nat /\ now <= now'
    BY <2>2 DEF IVInv
  <2> QED BY <2>1, <2>2, <2>3, InvitesOnly
<1>4. ASSUME NEW t \in Secrets, HandleGenerateInvite(t) PROVE IVInv'
  <2>1. /\ pending' = [pending EXCEPT ![t] = now + ValidFor] /\ inviteDB' = pending'
        /\ minted' = [minted EXCEPT ![t] = now + ValidFor]
        /\ minted[t] = 0 /\ UNCHANGED <<now, joins, issued, dropped>>
    BY <1>4 DEF HandleGenerateInvite, Add, IVInv
  <2>2. \A j \in Joins, s \in Secrets : (Holds(j, s)' <=> Holds(j, s)) /\ ~ Holds(j, t)
    BY <2>1 DEF Holds, IVInv
  <2>3. InviteBuysOne'
    BY <2>1 DEF InviteBuysOne, IVInv
  <2> QED BY <2>1, <2>2, <2>3 DEF IVInv
<1>5. ASSUME NEW j \in Joins, NEW t \in Secrets, JoinCheck(j, t) PROVE IVInv'
  <2>1. /\ joins' = [joins EXCEPT ![j] = [pc |-> "checked", secret |-> t]]
        /\ joins[j] = NoJoin
        /\ UNCHANGED <<now, pending, inviteDB, minted, issued, dropped>>
    BY <1>5 DEF JoinCheck
  <2>2. joins' \in [Joins -> JoinStates]
    BY <2>1 DEF IVInv, JoinStates
  <2>3. \A k \in Joins, s \in Secrets : Holds(k, s)' <=> Holds(k, s)
    BY <2>1 DEF Holds, IVInv, NoJoin
  <2>4. \A k \in Joins, s \in Secrets : Holds(k, s) => joins'[k] = joins[k]
    BY <2>1 DEF Holds, IVInv, NoJoin
  <2>5. InviteBuysOne'
    BY <2>1, <2>3 DEF InviteBuysOne, IVInv, Holds
  <2> QED BY <2>1, <2>2, <2>3, <2>4, <2>5 DEF IVInv
<1>6. ASSUME NEW j \in Joins, CheckAndConsume(j) PROVE IVInv'
  <2> DEFINE t == joins[j].secret
  <2>1. joins[j].pc = "checked" /\ t \in Secrets /\ UNCHANGED <<now, minted, issued, dropped>>
    BY <1>6 DEF CheckAndConsume, IVInv, JoinStates, NoJoin
  <2>2. CASE Valid(t) /\ Consume(t)
               /\ joins' = [joins EXCEPT ![j] = [pc |-> "held", secret |-> t,
                                                 expiration |-> pending[t]]]
    <3>1. /\ pending' = [pending EXCEPT ![t] = 0] /\ inviteDB' = pending'
          /\ pending[t] # 0 /\ pending[t] = minted[t] /\ issued[t] = 0
      BY <2>1, <2>2 DEF Valid, Consume, IVInv
    <3>2. /\ joins' \in [Joins -> JoinStates]
          /\ joins'[j].pc = "held" /\ joins'[j].secret = t /\ joins'[j].expiration = minted[t]
          /\ \A k \in Joins : k # j => joins'[k] = joins[k]
      BY <2>1, <2>2, <3>1 DEF IVInv, JoinStates
    <3>3. \A k \in Joins, s \in Secrets : Holds(k, s)' <=> IF k = j THEN s = t ELSE Holds(k, s)
      BY <3>2 DEF Holds
    <3>4. \A k \in Joins : ~ Holds(k, t)
      BY <2>1, <3>1 DEF IVInv
    <3> HIDE DEF t
    <3>5. InviteBuysOne'
      BY <2>1, <3>1, <3>2, <3>3 DEF InviteBuysOne, IVInv, Holds
    <3>6. ASSUME NEW k \in Joins, NEW s \in Secrets, Holds(k, s)'
          PROVE  /\ pending'[s] = 0 /\ issued'[s] = 0
                 /\ joins'[k].expiration = minted'[s] /\ minted'[s] # 0
                 /\ \A i \in Joins : Holds(i, s)' => i = k
      BY <2>1, <3>1, <3>2, <3>3, <3>4, <3>6 DEF IVInv
    <3> QED BY <2>1, <3>1, <3>2, <3>5, <3>6 DEF IVInv
  <2>3. CASE /\ joins' = [joins EXCEPT ![j] = NoJoin] /\ inviteDB' = pending'
             /\ \/ pending' = pending
                \/ pending[t] # 0 /\ ~ Valid(t) /\ pending' = [pending EXCEPT ![t] = 0]
    <3>1. /\ joins' \in [Joins -> JoinStates]
          /\ \A k \in Joins, s \in Secrets : Holds(k, s)' <=> Holds(k, s)
          /\ \A k \in Joins, s \in Secrets : Holds(k, s) => joins'[k] = joins[k]
      BY <2>1, <2>3 DEF IVInv, JoinStates, NoJoin, Holds
    <3>2. /\ pending' \in [Secrets -> Nat]
          /\ \A s \in Secrets : pending'[s] = pending[s] \/ (pending'[s] = 0 /\ minted[s] <= now)
      BY <2>1, <2>3 DEF IVInv, Valid
    <3>3. InviteBuysOne'
      BY <2>1, <2>3, <3>1, <3>2 DEF InviteBuysOne, IVInv, Holds
    <3> QED BY <2>1, <2>3, <3>1, <3>2, <3>3 DEF IVInv
  <2> QED BY <1>6, <2>2, <2>3 DEF CheckAndConsume, Consume, IVInv
<1>7. ASSUME NEW j \in Joins, Sign(j) PROVE IVInv'
  <2>1. joins[j].pc = "held" /\ UNCHANGED <<now, pending, inviteDB, minted, issued, dropped>>
    BY <1>7 DEF Sign
  <2>2. joins' = [joins EXCEPT ![j] = [joins[j] EXCEPT !.pc = "signed"]]
    BY <1>7 DEF Sign
  <2>3. /\ joins' \in [Joins -> JoinStates]
        /\ joins'[j].pc = "signed" /\ joins'[j].secret = joins[j].secret
        /\ joins'[j].expiration = joins[j].expiration
        /\ \A k \in Joins : k # j => joins'[k] = joins[k]
    BY <2>1, <2>2 DEF IVInv, JoinStates, NoJoin
  <2>4. \A k \in Joins, s \in Secrets : /\ Holds(k, s)' <=> Holds(k, s)
                                        /\ Holds(k, s) => joins'[k].expiration = joins[k].expiration
    BY <2>1, <2>3 DEF Holds
  <2>5. InviteBuysOne'
    BY <2>1, <2>4 DEF InviteBuysOne, IVInv, Holds
  <2> QED BY <2>1, <2>3, <2>4, <2>5 DEF IVInv
<1>8. ASSUME NEW j \in Joins, RestoreInvite(j) PROVE IVInv'
  <2> DEFINE t == joins[j].secret
  <2>1. /\ t \in Secrets /\ Holds(j, t) /\ UNCHANGED <<now, minted, issued>>
        /\ joins' = [joins EXCEPT ![j] = NoJoin]
        /\ joins[j].expiration = minted[t]
    BY <1>8 DEF RestoreInvite, IVInv, JoinStates, NoJoin, Holds
  <2>2. /\ inviteDB' = pending'
        /\ \/ pending' = [pending EXCEPT ![t] = minted[t]] /\ dropped' = dropped
           \/ pending' = pending /\ dropped' = dropped \cup {t}
    BY <1>8, <2>1 DEF RestoreInvite, Add, IVInv
  <2>3. /\ joins' \in [Joins -> JoinStates]
        /\ \A k \in Joins : k # j => joins'[k] = joins[k]
        /\ joins'[j].pc = "idle"
    BY <2>1 DEF IVInv, JoinStates, NoJoin
  <2>4. \A k \in Joins, s \in Secrets : /\ Holds(k, s)' <=> Holds(k, s) /\ k # j
                                        /\ Holds(k, s)' => joins'[k] = joins[k] /\ s # t
    BY <2>1, <2>3 DEF Holds, IVInv
  <2>5. pending[t] = 0 /\ issued[t] = 0 /\ minted[t] \in Nat
    BY <2>1 DEF IVInv
  <2> HIDE DEF t
  <2>6. InviteBuysOne'
    BY <2>1, <2>2, <2>4, <2>5 DEF InviteBuysOne, IVInv, Holds
  <2> QED BY <2>1, <2>2, <2>3, <2>4, <2>5, <2>6 DEF IVInv
<1>9. ASSUME NEW j \in Joins, Respond(j) PROVE IVInv'
  <2> DEFINE t == joins[j].secret
  <2>1. /\ t \in Secrets /\ Holds(j, t)
        /\ UNCHANGED <<now, pending, inviteDB, minted, dropped>>
        /\ joins' = [joins EXCEPT ![j] = NoJoin]
        /\ issued' = [issued EXCEPT ![t] = issued[t] + 1]
    BY <1>9 DEF Respond, IVInv, JoinStates, NoJoin, Holds
  <2>2. pending[t] = 0 /\ issued[t] = 0 /\ minted[t] # 0
    BY <2>1 DEF IVInv
  <2>3. /\ joins' \in [Joins -> JoinStates]
        /\ \A k \in Joins : k # j => joins'[k] = joins[k]
        /\ joins'[j].pc = "idle"
    BY <2>1 DEF IVInv, JoinStates, NoJoin
  <2>4. \A k \in Joins, s \in Secrets : /\ Holds(k, s)' <=> Holds(k, s) /\ k # j
                                        /\ Holds(k, s)' => joins'[k] = joins[k] /\ s # t
    BY <2>1, <2>3 DEF Holds, IVInv
  <2> HIDE DEF t
  <2>5. issued' \in [Secrets -> Nat] /\ issued'[t] = 1 /\ \A s \in Secrets \ {t} : issued'[s] = issued[s]
    BY <2>1, <2>2 DEF IVInv
  <2>6. InviteBuysOne'
    BY <2>1, <2>4, <2>5 DEF InviteBuysOne, IVInv, Holds
  <2> QED BY <2>1, <2>2, <2>3, <2>4, <2>5, <2>6 DEF IVInv
<1>10. CASE Reopen
  <2>1. /\ UNCHANGED <<now, minted, issued>> /\ inviteDB' = pending'
        /\ pending' \in [Secrets -> Nat]
        /\ \A s \in Secrets : \/ pending'[s] = pending[s]
                              \/ pending'[s] = 0 /\ minted[s] <= now
    BY <1>10 DEF Reopen, Without, Expired, IVInv
  <2>2. /\ joins' \in [Joins -> JoinStates]
        /\ \A k \in Joins, s \in Secrets : ~ Holds(k, s)' /\ (Holds(k, s) => s \in dropped')
        /\ dropped \subseteq dropped'
    BY <1>10 DEF Reopen, Holds, JoinStates, NoJoin
  <2>3. InviteBuysOne'
    BY <2>1, <2>2 DEF InviteBuysOne, IVInv, Holds
  <2> QED BY <2>1, <2>2, <2>3 DEF IVInv
<1> QED BY <1>1, <1>2, <1>3, <1>4, <1>5, <1>6, <1>7, <1>8, <1>9, <1>10 DEF IVNext

(***************************************************************************)
(* An invitation buys exactly one certificate, whatever joins, failures    *)
(* and restarts come together, and its token stays good until then         *)
(* (CheckAndConsume, HandleClusterJoin, NewInviteManager).                 *)
(***************************************************************************)
THEOREM InvitationBuysOne == IVSpec => []InviteBuysOne
<1>1. IVInit => IVInv
  BY DEF IVInit, IVInv, InviteBuysOne, JoinStates, Holds, NoJoin
<1>2. IVInv => InviteBuysOne
  BY DEF IVInv
<1> QED BY <1>1, <1>2, IVNextInv, PTL DEF IVSpec

(* ------------------------------- CA rotation ----------------------------- *)

\* Where a run can stand, and what it remembers there.
RotStates ==
  [pc : {"idle", "end"}] \cup [pc : {"staged"}, oldCA : CAs]
    \cup [pc : {"pushing", "key", "undo"}, saved : Materials]
    \cup [pc : {"ca", "cert", "nodekey", "reload"}, saved : Materials, oldKey : CAs]

\* CA x is the first one, or all peers acknowledged it.
Acknowledged(x) == x \in Runs => acked[x] = Members

\* No other run than r has begun.
Alone(r) == \A o \in Runs \ {r} : rot[o].pc = "idle"

(***************************************************************************)
(* What the files and the runs hold was acknowledged; a run that writes    *)
(* files has all its acknowledgements; only its last write puts r under    *)
(* key.  A run that is alone wrote every file before, and the peers, whose *)
(* handlers write in the same order, took what it pushed.                  *)
(***************************************************************************)
RunOK(r) ==
  /\ rot[r].pc \in {"key", "ca", "cert", "nodekey", "reload"} => acked[r] = Members
  /\ rot[r].pc \in {"ca", "cert", "nodekey", "reload"} => Acknowledged(rot[r].oldKey)
  /\ files.key = r => rot[r].pc \in {"reload", "end"}
  /\ rot[r].pc = "idle" => \A p \in Members : push[r][p] = "to do"

PushOK(r, p) ==
  /\ p \in acked[r] <=> push[r][p] = "acked"
  /\ push[r][p] = "to do" => serve[r][p] = "none"
  /\ push[r][p] = "acked" => serve[r][p] = "done"

CommitOK(r) ==
  /\ rot[r].pc \in {"cert", "nodekey", "reload"} => files.ca = r
  /\ rot[r].pc \in {"nodekey", "reload"} => files.cert = r
  /\ rot[r].pc = "reload" => files.key = r
  /\ rot[r].pc = "end" /\ files.key = r => material = [cert |-> r, trust |-> {r}]

ServeOK(r, p) ==
  /\ serve[r][p] \in {"cert", "reload", "done"} => member[p].ca = r
  /\ serve[r][p] \in {"reload", "done"} => member[p].cert = r
  /\ serve[r][p] = "done" => member[p].mem = [cert |-> r, trust |-> {r}]

ROInv ==
  /\ ROTypeOK /\ rot \in [Runs -> RotStates]
  /\ \A x \in {files.caKey, files.ca, files.cert, files.key} : Acknowledged(x)
  /\ \A r \in Runs : RunOK(r)
  /\ \A r \in Runs, p \in Members : PushOK(r, p)
  /\ \A r \in Runs : Alone(r) => CommitOK(r) /\ \A p \in Members : ServeOK(r, p)

\* Under the invariant a rotation that is on disk and over connects everyone.
LEMMA ROInvConnects == ROInv => RotationConnects
<1> SUFFICES ASSUME ROInv, NEW r \in Runs
             PROVE  /\ r \in {files.caKey, files.ca, files.cert, files.key} => acked[r] = Members
                    /\ (\A x \in {files.caKey, files.ca, files.cert, files.key} : x = r)
                         /\ rot[r].pc = "end" /\ Alone(r)
                       => \A p \in Members : Connects(material, member[p].mem)
  BY DEF RotationConnects, Alone
<1>1. r \in {files.caKey, files.ca, files.cert, files.key} => acked[r] = Members
  BY DEF ROInv, Acknowledged
<1>2. ASSUME files.key = r, rot[r].pc = "end", Alone(r), NEW p \in Members
      PROVE  Connects(material, member[p].mem)
  <2>1. acked[r] = Members
    BY <1>1, <1>2
  <2>2. material = [cert |-> r, trust |-> {r}] /\ member[p].mem = [cert |-> r, trust |-> {r}]
    <3>1. PushOK(r, p) /\ CommitOK(r) /\ ServeOK(r, p)
      BY <1>2 DEF ROInv
    <3> QED BY <1>2, <2>1, <3>1 DEF PushOK, CommitOK, ServeOK
  <2> QED BY <2>2 DEF Connects
<1> QED BY <1>1, <1>2

(***************************************************************************)
(* A step of run r itself: it goes to st, which is not idle, and may       *)
(* change the CA node's files and material, not the peers.                 *)
(***************************************************************************)
RunGoes(r, st) ==
  /\ rot' = [rot EXCEPT ![r] = st] /\ st \in RotStates /\ st.pc # "idle"
  /\ UNCHANGED <<member, push, serve, acked>>
  /\ material' \in Materials /\ files' \in [caKey : CAs, ca : CAs, cert : CAs, key : CAs]
  /\ \A x \in {files'.caKey, files'.ca, files'.cert, files'.key} : Acknowledged(x)
  /\ st.pc \in {"key", "ca", "cert", "nodekey", "reload"} => acked[r] = Members
  /\ st.pc \in {"ca", "cert", "nodekey", "reload"} => Acknowledged(st.oldKey)
  /\ files'.key = r => st.pc \in {"reload", "end"}
  /\ files'.key \in {r, files.key}
  /\ Alone(r) => /\ st.pc \in {"cert", "nodekey", "reload"} => files'.ca = r
                 /\ st.pc \in {"nodekey", "reload"} => files'.cert = r
                 /\ st.pc = "reload" => files'.key = r
                 /\ st.pc = "end" /\ files'.key = r => material' = [cert |-> r, trust |-> {r}]

\* Such a step keeps the invariant: no other run is alone any more.
LEMMA RunGoesInv == ASSUME ROInv, NEW r \in Runs, NEW st, RunGoes(r, st) PROVE ROInv'
<1>1. /\ rot' \in [Runs -> RotStates] /\ rot'[r] = st
      /\ \A o \in Runs : o # r => rot'[o] = rot[o]
  <2>1. rot' = [rot EXCEPT ![r] = st] /\ st \in RotStates /\ rot \in [Runs -> RotStates]
    BY DEF RunGoes, ROInv
  <2> QED BY <2>1
<1>2. \A o \in Runs : Alone(o)' <=> o = r /\ Alone(r)
  BY <1>1 DEF Alone, RunGoes
<1>3. \A o \in Runs : rot'[o].pc \in {"idle", "staged", "pushing", "key", "ca", "cert", "nodekey",
                                      "reload", "undo", "end"}
  BY <1>1 DEF RotStates
<1>4. ROTypeOK'
  BY <1>3, Zenon DEF ROTypeOK, ROInv, RunGoes
<1>5. \A x : Acknowledged(x)' <=> Acknowledged(x)
  BY DEF Acknowledged, RunGoes
<1>6. ASSUME NEW o \in Runs PROVE RunOK(o)'
  <2>1. RunOK(o) /\ acked' = acked /\ push' = push
    BY DEF ROInv, RunGoes
  <2>2. CASE o = r
    BY <1>1, <1>5, <2>1, <2>2 DEF RunOK, RunGoes
  <2>3. CASE o # r
    BY <1>1, <1>5, <2>1, <2>3 DEF RunOK, RunGoes
  <2> QED BY <2>2, <2>3
<1>7. ASSUME NEW o \in Runs, NEW p \in Members PROVE PushOK(o, p)'
  BY DEF RunGoes, ROInv, PushOK
<1>8. ASSUME NEW o \in Runs, Alone(o)' PROVE CommitOK(o)'
  BY <1>1, <1>2, <1>8 DEF RunGoes, CommitOK
<1>9. ASSUME NEW o \in Runs, Alone(o)', NEW p \in Members PROVE ServeOK(o, p)'
  <2>1. ServeOK(o, p) /\ UNCHANGED <<serve, member>>
    BY <1>2, <1>9 DEF RunGoes, ROInv
  <2> QED BY <2>1 DEF ServeOK
<1>10. \A x \in {files'.caKey, files'.ca, files'.cert, files'.key} : Acknowledged(x)'
  BY <1>5 DEF RunGoes
<1> QED BY <1>1, <1>4, <1>6, <1>7, <1>8, <1>9, <1>10 DEF ROInv

\* The steps of the CA node, the commit's file writes and failures included.
LEMMA RunStepInv ==
  ASSUME ROInv, NEW r \in Runs,
         \/ StageRotation(r) \/ InstallTransitional(r) \/ PushesDone(r) \/ Undo(r) \/ CommitKey(r)
         \/ CommitFile(r) \/ CommitFails(r) \/ CommitReload(r) \/ StagedUnreadable(r)
  PROVE  ROInv'
<1>0. /\ rot[r] \in RotStates /\ rot \in [Runs -> RotStates]
      /\ files \in [caKey : CAs, ca : CAs, cert : CAs, key : CAs] /\ material \in Materials
      /\ r \in CAs /\ 0 \in CAs /\ r # 0
  BY RotationAssumption DEF ROInv, ROTypeOK, CAs
<1>1. CASE StageRotation(r)
  <2> DEFINE st == [pc |-> "staged", oldCA |-> files.ca]
  <2>1. st \in RotStates /\ st.pc = "staged"
    BY <1>0 DEF RotStates
  <2>g. RunGoes(r, st)
    BY <1>0, <1>1, <2>1 DEF RunGoes, StageRotation, ROInv, RunOK
  <2> QED BY <2>g, RunGoesInv
<1>2. CASE InstallTransitional(r)
  <2> DEFINE st == [pc |-> "pushing", saved |-> material]
  <2>1. st \in RotStates /\ st.pc = "pushing"
    BY <1>0 DEF RotStates
  <2>2. material' \in Materials
    BY <1>0, <1>2 DEF InstallTransitional, RotStates, Materials
  <2>g. RunGoes(r, st)
    BY <1>0, <1>2, <2>1, <2>2 DEF RunGoes, InstallTransitional, ROInv, RunOK
  <2> QED BY <2>g, RunGoesInv
<1>3. CASE PushesDone(r)
  <2> DEFINE st == [rot[r] EXCEPT !.pc = IF \E p \in Members : push[r][p] = "failed"
                                         THEN "undo" ELSE "key"]
  <2>1. st \in RotStates /\ st.pc \in {"undo", "key"} /\ rot' = [rot EXCEPT ![r] = st]
    BY <1>0, <1>3 DEF RotStates, PushesDone
  <2>2. st.pc = "key" => acked[r] = Members
    <3>1. ASSUME st.pc = "key", NEW p \in Members PROVE p \in acked[r]
      <4>1. ~ \E q \in Members : push[r][q] = "failed"
        BY <1>0, <1>3, <3>1 DEF PushesDone, RotStates
      <4>2. PushOK(r, p) /\ push[r][p] \in {"acked", "failed"}
        BY <1>3 DEF PushesDone, ROInv
      <4> QED BY <4>1, <4>2 DEF PushOK
    <3>2. acked[r] \subseteq Members
      BY DEF ROInv, ROTypeOK
    <3> QED BY <3>1, <3>2
  <2> HIDE DEF st
  <2>g. RunGoes(r, st)
    BY <1>0, <1>3, <2>1, <2>2 DEF RunGoes, PushesDone, ROInv, RunOK
  <2> QED BY <2>g, RunGoesInv
<1>4. CASE Undo(r)
  <2> DEFINE st == [pc |-> "end"]
  <2>1. st \in RotStates /\ st.pc = "end" /\ files.key # r
    BY <1>4 DEF RotStates, Undo, ROInv, RunOK
  <2>2. material' \in Materials
    BY <1>0, <1>4 DEF Undo, RotStates
  <2>g. RunGoes(r, st)
    BY <1>0, <1>4, <2>1, <2>2 DEF RunGoes, Undo, ROInv, RunOK
  <2> QED BY <2>g, RunGoesInv
<1>5. CASE CommitKey(r)
  <2> DEFINE st == [pc |-> "ca", saved |-> rot[r].saved, oldKey |-> files.caKey]
  <2>1. /\ st \in RotStates /\ st.pc = "ca" /\ st.oldKey = files.caKey
        /\ rot' = [rot EXCEPT ![r] = st]
    BY <1>0, <1>5 DEF RotStates, CommitKey
  <2>2. /\ files' \in [caKey : CAs, ca : CAs, cert : CAs, key : CAs]
        /\ files'.caKey = r /\ files'.ca = files.ca
        /\ files'.cert = files.cert /\ files'.key = files.key
    BY <1>0, <1>5 DEF CommitKey
  <2>3. acked[r] = Members /\ Acknowledged(r) /\ files.key # r
    BY <1>5 DEF CommitKey, ROInv, RunOK, Acknowledged
  <2> HIDE DEF st
  <2>g. RunGoes(r, st)
    <3>1. \A x \in {files'.caKey, files'.ca, files'.cert, files'.key} : Acknowledged(x)
      BY <2>2, <2>3 DEF ROInv
    <3>2. UNCHANGED <<material, member, push, serve, acked>>
      BY <1>5 DEF CommitKey
    <3>3. Acknowledged(st.oldKey)
      BY <2>1 DEF ROInv
    <3> QED BY <1>0, <2>1, <2>2, <2>3, <3>1, <3>2, <3>3 DEF RunGoes
  <2> QED BY <2>g, RunGoesInv
<1>6. CASE CommitFile(r)
  <2> DEFINE st == [rot[r] EXCEPT !.pc = CASE rot[r].pc = "ca"      -> "cert"
                                           [] rot[r].pc = "cert"    -> "nodekey"
                                           [] rot[r].pc = "nodekey" -> "reload"]
  <2>1. /\ rot' = [rot EXCEPT ![r] = st]
        /\ rot[r].pc \in {"ca", "cert", "nodekey"}
    BY <1>6 DEF CommitFile
  <2>2. /\ st \in RotStates /\ st.oldKey = rot[r].oldKey
        /\ rot[r].pc = "ca" => st.pc = "cert"
        /\ rot[r].pc = "cert" => st.pc = "nodekey"
        /\ rot[r].pc = "nodekey" => st.pc = "reload"
    BY <1>0, <2>1 DEF RotStates
  <2>3. /\ files' \in [caKey : CAs, ca : CAs, cert : CAs, key : CAs]
        /\ files'.caKey = files.caKey
        /\ files'.ca = IF rot[r].pc = "ca" THEN r ELSE files.ca
        /\ files'.cert = IF rot[r].pc = "cert" THEN r ELSE files.cert
        /\ files'.key = IF rot[r].pc = "nodekey" THEN r ELSE files.key
    BY <1>0, <1>6, <2>1 DEF CommitFile
  <2>4. acked[r] = Members /\ Acknowledged(r) /\ files.key # r /\ Acknowledged(rot[r].oldKey)
    BY <2>1 DEF ROInv, RunOK, Acknowledged
  <2> HIDE DEF st
  <2>g. RunGoes(r, st)
    <3>1. \A x \in {files'.caKey, files'.ca, files'.cert, files'.key} : Acknowledged(x)
      BY <2>3, <2>4 DEF ROInv
    <3>2. Alone(r) => CommitOK(r)
      BY DEF ROInv
    <3> QED BY <1>0, <1>6, <2>1, <2>2, <2>3, <2>4, <3>1, <3>2 DEF RunGoes, CommitFile, CommitOK
  <2> QED BY <2>g, RunGoesInv
<1>7. CASE CommitFails(r)
  <2> DEFINE st == [pc |-> "undo", saved |-> rot[r].saved]
  <2>1. st \in RotStates /\ st.pc = "undo" /\ rot' = [rot EXCEPT ![r] = st]
    BY <1>0, <1>7 DEF RotStates, CommitFails
  <2>2. /\ files' \in [caKey : CAs, ca : CAs, cert : CAs, key : CAs]
        /\ files'.ca = files.ca /\ files'.cert = files.cert /\ files'.key = files.key
        /\ Acknowledged(files'.caKey) /\ files.key # r
    BY <1>0, <1>7 DEF CommitFails, RotStates, ROInv, RunOK
  <2> HIDE DEF st
  <2>g. RunGoes(r, st)
    <3>1. \A x \in {files'.caKey, files'.ca, files'.cert, files'.key} : Acknowledged(x)
      BY <2>2 DEF ROInv
    <3>2. Alone(r) => CommitOK(r)
      BY DEF ROInv
    <3> QED BY <1>0, <1>7, <2>1, <2>2, <3>1, <3>2 DEF RunGoes, CommitFails, CommitOK
  <2> QED BY <2>g, RunGoesInv
<1>8. CASE CommitReload(r)
  <2> DEFINE st == [pc |-> "end"]
  <2>1. st \in RotStates /\ st.pc = "end"
    BY DEF RotStates
  <2>2. material' \in Materials /\ (Alone(r) => material' = [cert |-> r, trust |-> {r}])
    BY <1>0, <1>8 DEF CommitReload, Materials, ROInv, CommitOK
  <2>g. RunGoes(r, st)
    BY <1>0, <1>8, <2>1, <2>2 DEF RunGoes, CommitReload, ROInv, RunOK
  <2> QED BY <2>g, RunGoesInv
<1>9. CASE StagedUnreadable(r)
  <2> DEFINE st == [pc |-> "end"]
  <2>1. st \in RotStates /\ st.pc = "end" /\ files.key # r
    BY <1>9 DEF RotStates, StagedUnreadable, ROInv, RunOK
  <2>g. RunGoes(r, st)
    BY <1>0, <1>9, <2>1 DEF RunGoes, StagedUnreadable, ROInv, RunOK
  <2> QED BY <2>g, RunGoesInv
<1> QED BY <1>1, <1>2, <1>3, <1>4, <1>5, <1>6, <1>7, <1>8, <1>9

\* The call of p as run r sees it goes to a, its handler to b.
Table(r, p, a, b) ==
  /\ push' \in [Runs -> [Members -> {"to do", "sent", "acked", "failed"}]] /\ push'[r][p] = a
  /\ \A o \in Runs, q \in Members : o # r \/ q # p => push'[o][q] = push[o][q]
  /\ serve' \in [Runs -> [Members -> {"none", "ca", "cert", "reload", "done"}]] /\ serve'[r][p] = b
  /\ \A o \in Runs, q \in Members : o # r \/ q # p => serve'[o][q] = serve[o][q]
  /\ acked' \in [Runs -> SUBSET Members]
  /\ \A o \in Runs : o # r => acked'[o] = acked[o]
  /\ acked'[r] = IF a = "acked" THEN acked[r] \cup {p} ELSE acked[r]

\* A push that starts, ends or fails, and a handler of it at the peer: run r has
\* begun, so that no other run is alone.
LEMMA PushStepInv ==
  ASSUME ROInv, NEW r \in Runs, NEW p \in Members,
         \/ PushStart(r, p) \/ RotateFile(r, p) \/ RotateReload(r, p) \/ RotateFails(r, p)
         \/ PushAcked(r, p) \/ PushFails(r, p)
  PROVE  ROInv'
<1>1. UNCHANGED <<material, files, rot>>
  BY DEF PushStart, RotateFile, RotateReload, RotateFails, PushAcked, PushFails
<1>2. rot[r].pc # "idle" /\ \A o \in Runs : Alone(o) => o = r
  <2>1. rot[r].pc = "idle" => push[r][p] = "to do" /\ serve[r][p] = "none"
    BY DEF ROInv, RunOK, PushOK
  <2>2. rot[r].pc # "idle"
    BY <2>1 DEF PushStart, RotateFile, RotateReload, RotateFails, PushAcked, PushFails
  <2> QED BY <2>2 DEF Alone
<1>3. \A o \in Runs : Alone(o)' <=> Alone(o)
  BY <1>1 DEF Alone
<1>4. /\ push \in [Runs -> [Members -> {"to do", "sent", "acked", "failed"}]]
      /\ serve \in [Runs -> [Members -> {"none", "ca", "cert", "reload", "done"}]]
      /\ acked \in [Runs -> SUBSET Members]
      /\ member \in [Members -> [mem : Materials, ca : CAs, cert : CAs]]
      /\ r \in CAs /\ PushOK(r, p)
  BY DEF ROInv, ROTypeOK, CAs
\* The call, its handler and its acknowledgement.
\* The call, its handler and what the peer has.
<1> DEFINE Mem == [mem : Materials, ca : CAs, cert : CAs]
<1>5. \E a, b : /\ Table(r, p, a, b)
                /\ a = "acked" <=> p \in acked'[r]
                /\ a = "acked" => b = "done"
                /\ a = "to do" => b = "none"
                /\ member' \in [Members -> Mem]
                /\ \A q \in Members : q # p => member'[q] = member[q]
                /\ Alone(r) => ServeOK(r, p)'
  <2>0. /\ p \in acked[r] <=> push[r][p] = "acked"
        /\ push[r][p] = "to do" => serve[r][p] = "none"
        /\ push[r][p] = "acked" => serve[r][p] = "done"
    BY <1>4 DEF PushOK
  <2>s. Alone(r) => ServeOK(r, p)
    BY DEF ROInv
  <2>1. CASE PushStart(r, p)
    <3>1. push[r][p] = "to do" /\ UNCHANGED <<member, acked>>
      BY <2>1 DEF PushStart
    <3>2. CASE push' = [push EXCEPT ![r][p] = "sent"] /\ serve' = [serve EXCEPT ![r][p] = "ca"]
      <4>1. Table(r, p, "sent", "ca")
        BY <1>4, <3>1, <3>2 DEF Table
      <4>2. p \notin acked'[r] /\ (Alone(r) => ServeOK(r, p)')
        BY <2>0, <3>1, <4>1 DEF Table, ServeOK
      <4> QED BY <1>4, <3>1, <4>1, <4>2
    <3>3. CASE push' = [push EXCEPT ![r][p] = "failed"] /\ UNCHANGED serve
      <4>1. Table(r, p, "failed", "none")
        BY <1>4, <2>0, <3>1, <3>3 DEF Table
      <4>2. p \notin acked'[r] /\ (Alone(r) => ServeOK(r, p)')
        BY <2>0, <3>1, <4>1 DEF Table, ServeOK
      <4> QED BY <1>4, <3>1, <4>1, <4>2
    <3> QED BY <2>1, <3>2, <3>3 DEF PushStart
  <2>2. CASE RotateFile(r, p)
    <3>1. serve[r][p] \in {"ca", "cert"} /\ UNCHANGED <<push, acked>> /\ push[r][p] \notin {"to do", "acked"}
      BY <2>0, <2>2 DEF RotateFile
    <3>2. CASE serve[r][p] = "ca"
      <4>1. /\ member' = [member EXCEPT ![p] = [member[p] EXCEPT !.ca = r]]
            /\ serve' = [serve EXCEPT ![r][p] = "cert"]
        BY <2>2, <3>2 DEF RotateFile
      <4>2. /\ member' \in [Members -> Mem] /\ \A q \in Members : q # p => member'[q] = member[q]
            /\ member'[p].ca = r
        BY <1>4, <4>1
      <4>3. Table(r, p, push[r][p], "cert")
        BY <1>4, <3>1, <4>1 DEF Table
      <4>4. p \notin acked'[r] /\ ServeOK(r, p)'
        BY <2>0, <3>1, <4>2, <4>3 DEF Table, ServeOK
      <4> QED BY <3>1, <4>2, <4>3, <4>4
    <3>3. CASE serve[r][p] = "cert"
      <4>1. /\ member' = [member EXCEPT ![p] = [member[p] EXCEPT !.cert = r]]
            /\ serve' = [serve EXCEPT ![r][p] = "reload"]
        BY <2>2, <3>3 DEF RotateFile
      <4>2. /\ member' \in [Members -> Mem] /\ \A q \in Members : q # p => member'[q] = member[q]
            /\ member'[p].cert = r /\ member'[p].ca = member[p].ca
        BY <1>4, <4>1
      <4>3. Table(r, p, push[r][p], "reload")
        BY <1>4, <3>1, <4>1 DEF Table
      <4>4. p \notin acked'[r] /\ (Alone(r) => ServeOK(r, p)')
        BY <2>0, <2>s, <3>1, <3>3, <4>2, <4>3 DEF Table, ServeOK
      <4> QED BY <3>1, <4>2, <4>3, <4>4
    <3> QED BY <3>1, <3>2, <3>3
  <2>3. CASE RotateReload(r, p)
    <3> DEFINE m == [cert |-> member[p].cert, trust |-> {member[p].ca}]
    <3>1. /\ serve[r][p] = "reload" /\ UNCHANGED <<push, acked>>
          /\ push[r][p] \notin {"to do", "acked"}
          /\ member' = [member EXCEPT ![p] = [member[p] EXCEPT !.mem = m]]
          /\ serve' = [serve EXCEPT ![r][p] = "done"]
      BY <2>0, <2>3 DEF RotateReload
    <3>2. m \in Materials
      BY <1>4 DEF Materials
    <3>3. /\ member' \in [Members -> Mem] /\ \A q \in Members : q # p => member'[q] = member[q]
          /\ member'[p].cert = member[p].cert /\ member'[p].ca = member[p].ca /\ member'[p].mem = m
      BY <1>4, <3>1, <3>2
    <3>4. Table(r, p, push[r][p], "done")
      BY <1>4, <3>1 DEF Table
    <3>5. p \notin acked'[r] /\ (Alone(r) => ServeOK(r, p)')
      BY <2>0, <2>s, <3>1, <3>3, <3>4 DEF Table, ServeOK
    <3> QED BY <3>1, <3>3, <3>4, <3>5
  <2>4. CASE RotateFails(r, p)
    <3>1. /\ serve' = [serve EXCEPT ![r][p] = "none"] /\ UNCHANGED <<push, member, acked>>
          /\ push[r][p] \notin {"to do", "acked"}
      BY <2>0, <2>4 DEF RotateFails
    <3>2. Table(r, p, push[r][p], "none")
      BY <1>4, <3>1 DEF Table
    <3>3. p \notin acked'[r] /\ ServeOK(r, p)'
      BY <2>0, <3>1, <3>2 DEF Table, ServeOK
    <3> QED BY <1>4, <3>1, <3>2, <3>3
  <2>5. CASE PushAcked(r, p)
    <3>1. /\ push' = [push EXCEPT ![r][p] = "acked"] /\ serve[r][p] = "done"
          /\ acked' = [acked EXCEPT ![r] = acked[r] \cup {p}] /\ UNCHANGED <<member, serve>>
      BY <2>5 DEF PushAcked
    <3>2. Table(r, p, "acked", "done")
      BY <1>4, <3>1 DEF Table
    <3>3. p \in acked'[r] /\ (Alone(r) => ServeOK(r, p)')
      BY <2>s, <3>1, <3>2 DEF Table, ServeOK
    <3> QED BY <1>4, <3>1, <3>2, <3>3
  <2>6. CASE PushFails(r, p)
    <3>1. /\ push' = [push EXCEPT ![r][p] = "failed"] /\ push[r][p] = "sent"
          /\ UNCHANGED <<member, serve, acked>>
      BY <2>6 DEF PushFails
    <3>2. Table(r, p, "failed", serve[r][p])
      BY <1>4, <3>1 DEF Table
    <3>3. p \notin acked'[r] /\ (Alone(r) => ServeOK(r, p)')
      BY <2>0, <2>s, <3>1, <3>2 DEF Table, ServeOK
    <3> QED BY <1>4, <3>1, <3>2, <3>3
  <2> QED BY <2>1, <2>2, <2>3, <2>4, <2>5, <2>6
<1>6. PICK a, b : /\ Table(r, p, a, b)
                  /\ a = "acked" <=> p \in acked'[r]
                  /\ a = "acked" => b = "done"
                  /\ a = "to do" => b = "none"
  BY <1>5
<1>7. /\ member' \in [Members -> Mem] /\ \A q \in Members : q # p => member'[q] = member[q]
      /\ Alone(r) => ServeOK(r, p)'
  BY <1>5
<1>8. ROTypeOK'
  BY <1>1, <1>6, <1>7 DEF ROTypeOK, ROInv, Table
<1>9. \A x : Acknowledged(x) => Acknowledged(x)'
  BY <1>4, <1>6 DEF Acknowledged, Table
<1>10. ASSUME NEW o \in Runs PROVE RunOK(o)'
  <2>1. RunOK(o) /\ (acked[o] = Members => acked'[o] = Members)
    BY <1>4, <1>6 DEF ROInv, Table
  <2>2. rot[o].pc = "idle" => o # r
    BY <1>2
  <2>3. rot[o].pc = "idle" => \A q \in Members : push'[o][q] = push[o][q]
    BY <1>6, <2>2 DEF Table
  <2>4. rot'[o] = rot[o] /\ files' = files
    BY <1>1
  <2> QED BY <1>9, <2>1, <2>3, <2>4 DEF RunOK
<1>11. ASSUME NEW o \in Runs, NEW q \in Members PROVE PushOK(o, q)'
  <2>1. CASE o = r /\ q = p
    BY <1>6, <2>1 DEF PushOK, Table
  <2>2. CASE o # r \/ q # p
    <3>1. PushOK(o, q)
      BY DEF ROInv
    <3>2. q \in acked'[o] <=> q \in acked[o]
      <4>1. CASE o = r
        <5>1. q # p /\ acked'[r] \in {acked[r], acked[r] \cup {p}}
          BY <1>6, <2>2, <4>1 DEF Table
        <5> QED BY <4>1, <5>1
      <4>2. CASE o # r
        BY <1>6, <4>2 DEF Table
      <4> QED BY <4>1, <4>2
    <3> QED BY <1>6, <2>2, <3>1, <3>2 DEF PushOK, Table
  <2> QED BY <2>1, <2>2
<1>12. ASSUME NEW o \in Runs, Alone(o)' PROVE CommitOK(o)' /\ \A q \in Members : ServeOK(o, q)'
  <2>1. o = r /\ Alone(r) /\ CommitOK(r) /\ \A q \in Members : ServeOK(r, q)
    BY <1>2, <1>3, <1>12 DEF ROInv
  <2>2. CommitOK(r)'
    BY <1>1, <2>1 DEF CommitOK
  <2>3. ASSUME NEW q \in Members, q # p PROVE ServeOK(r, q)'
    <3>1. serve'[r][q] = serve[r][q] /\ member'[q] = member[q]
      BY <1>6, <1>7, <2>3 DEF Table
    <3> QED BY <2>1, <3>1 DEF ServeOK
  <2> QED BY <1>7, <2>1, <2>2, <2>3
<1>13. \A x \in {files'.caKey, files'.ca, files'.cert, files'.key} : Acknowledged(x)'
  BY <1>1, <1>9 DEF ROInv
<1>14. rot' \in [Runs -> RotStates]
  BY <1>1 DEF ROInv
<1> QED BY <1>8, <1>10, <1>11, <1>12, <1>13, <1>14 DEF ROInv

(***************************************************************************)
(* The files of the CA node name only acknowledged CAs, however many runs  *)
(* overlap and fail, and a rotation that ran alone to its end leaves every *)
(* peer and the CA node accepting each other (RotateCAAndResignPeers,      *)
(* HandleClusterRotate).                                                   *)
(***************************************************************************)
THEOREM RotationHolds == ROSpec => []RotationConnects
<1>1. ROInit => ROInv
  <2> SUFFICES ASSUME ROInit PROVE ROInv
    OBVIOUS
  <2>1. rot \in [Runs -> RotStates] /\ \A r \in Runs : rot[r].pc = "idle"
    BY DEF ROInit, RotStates
  <2>2. ROTypeOK
    BY <2>1 DEF ROInit, ROTypeOK, CAs, Materials, Old
  <2>3. files.caKey = 0 /\ files.ca = 0 /\ files.cert = 0 /\ files.key = 0 /\ Acknowledged(0)
    BY RotationAssumption DEF ROInit, Acknowledged
  <2>4. \A r \in Runs, p \in Members : push[r][p] = "to do" /\ serve[r][p] = "none" /\ acked[r] = {}
    BY DEF ROInit
  <2>5. \A r \in Runs : r # 0
    BY RotationAssumption
  <2>6. \A r \in Runs : RunOK(r) /\ CommitOK(r)
    <3> TAKE r \in Runs
    <3>1. rot[r].pc = "idle"
      BY <2>1
    <3>2. files.key # r
      BY <2>3, <2>5
    <3>3. \A p \in Members : push[r][p] = "to do"
      BY <2>4
    <3> QED BY <3>1, <3>2, <3>3 DEF RunOK, CommitOK
  <2>7. \A r \in Runs, p \in Members : PushOK(r, p) /\ ServeOK(r, p)
    BY <2>4 DEF PushOK, ServeOK
  <2> QED BY <2>1, <2>2, <2>3, <2>6, <2>7 DEF ROInv
<1>2. ROInv /\ [RONext]_roVars => ROInv'
  <2> SUFFICES ASSUME ROInv, [RONext]_roVars PROVE ROInv'
    OBVIOUS
  <2>1. CASE UNCHANGED roVars
    <3>1. UNCHANGED <<material, files, member, rot, push, serve, acked>>
      BY <2>1 DEF roVars
    <3>2. ROTypeOK' /\ \A r \in Runs : (Alone(r)' <=> Alone(r)) /\ (CommitOK(r) => CommitOK(r)')
      BY <3>1 DEF ROInv, ROTypeOK, Alone, CommitOK
    <3>3. \A r \in Runs : RunOK(r) => RunOK(r)'
      BY <3>1 DEF RunOK, Acknowledged
    <3>4. \A r \in Runs, p \in Members : /\ PushOK(r, p) => PushOK(r, p)'
                                         /\ ServeOK(r, p) => ServeOK(r, p)'
      <4> TAKE r \in Runs, p \in Members
      <4>1. PushOK(r, p)' <=> PushOK(r, p)
        BY <3>1 DEF PushOK
      <4>2. ServeOK(r, p)' <=> ServeOK(r, p)
        BY <3>1 DEF ServeOK
      <4> QED BY <4>1, <4>2
    <3>5. \A x : Acknowledged(x)' <=> Acknowledged(x)
      BY <3>1 DEF Acknowledged
    <3> QED BY <3>1, <3>2, <3>3, <3>4, <3>5 DEF ROInv
  <2> QED BY <2>1, RunStepInv, PushStepInv DEF RONext
<1> QED BY <1>1, <1>2, ROInvConnects, PTL DEF ROSpec

-----------------------------------------------------------------------------
(* The peer registry: primary addresses (module Membership).               *)

\* The record a handler is about to register or to save.
HandlerOK(s) == s.pc \in {"add", "evict", "save"} => s.peer \in Peers /\ s.rec \in Records

Registries == [Peers -> Merged \cup {NoRecord}]

MBInv ==
  /\ registry \in Registries
  /\ peerDB \in [Peers -> Records \cup {NoRecord}]
  /\ hd = [h \in Handlers |-> hd[h]]
  /\ \A h \in Handlers : HandlerOK(hd[h])
  /\ \A p \in loading : p \in Peers /\ peerDB[p] # NoRecord
  /\ loading # {} => \A h \in Handlers : hd[h].pc = "free"
  /\ PrimaryUnique

\* A registry in which no two peers have the same primary address.
Unique(reg) == \A p, q \in Peers : p # q /\ reg[p] # NoRecord /\ reg[q] # NoRecord
                                     => reg[p].primary # reg[q].primary

\* PeerRegistry.AddPeer keeps primary addresses apart: it registers a record of
\* its own primary address only after it put the others that have it out.
LEMMA AddPeerUnique ==
  ASSUME NEW reg \in Registries, Unique(reg), NEW p \in Peers, NEW rec \in Records
  PROVE  AddPeer(reg, p, rec) \in Registries /\ Unique(AddPeer(reg, p, rec))
<1> DEFINE out == Evicted(reg, p, rec)
           new == IF reg[p] # NoRecord /\ rec.seq = reg[p].seq THEN Merge(reg[p], rec) ELSE rec
           f == AddPeer(reg, p, rec)
<1>1. rec \in Merged /\ rec # NoRecord
  BY MembershipAssumption, NoRecordAssumption DEF Records, Merged
<1>2. \A q \in Peers : f[q] = IF q \in out THEN NoRecord
                              ELSE IF q = p /\ Newer(reg, p, rec) THEN new ELSE reg[q]
  BY DEF AddPeer
<1>3. /\ new \in Merged /\ new # NoRecord
      /\ new.primary = rec.primary \/ (reg[p] # NoRecord /\ new.primary = reg[p].primary)
  <2>1. CASE reg[p] # NoRecord /\ rec.seq = reg[p].seq
    <3> DEFINE old == reg[p]
    <3>1. old \in Merged
      BY <2>1 DEF Registries
    <3>2. ((old.others \cup {rec.primary} \cup rec.others) \ {old.primary}) \in SUBSET Addresses
      BY <1>1, <3>1 DEF Merged
    <3>3. Merge(old, rec) \in Merged /\ Merge(old, rec).primary = old.primary
      BY <3>1, <3>2 DEF Merge, Merged
    <3> QED BY <2>1, <3>3, NoRecordAssumption
  <2>2. CASE ~ (reg[p] # NoRecord /\ rec.seq = reg[p].seq)
    BY <1>1, <2>2
  <2> QED BY <2>1, <2>2
<1> HIDE DEF new
<1>4. f \in Registries
  BY <1>2, <1>3 DEF AddPeer, Registries
<1>5. p \notin out /\ \A q \in Peers \ {p} : reg[q] # NoRecord /\ q \notin out
                                               => reg[q].primary # rec.primary
  BY DEF Evicted
<1> HIDE DEF f, out
<1>6. ASSUME NEW q \in Peers, q # p, f[p] # NoRecord, f[q] # NoRecord
      PROVE  f[p].primary # f[q].primary
  <2>1. q \notin out /\ f[q] = reg[q]
    BY <1>2, <1>6
  <2>2. reg[q].primary # rec.primary
    BY <1>5, <1>6, <2>1
  <2>3. reg[p] # NoRecord => reg[p].primary # reg[q].primary
    BY <1>6, <2>1 DEF Unique
  <2>4. f[p] \in {new, reg[p]}
    BY <1>2, <1>5
  <2> QED BY <1>3, <1>6, <2>1, <2>2, <2>3, <2>4
<1>7. ASSUME NEW q \in Peers, NEW r \in Peers, q # p, r # p, q # r,
             f[q] # NoRecord, f[r] # NoRecord
      PROVE  f[q].primary # f[r].primary
  <2>1. f[q] = reg[q] /\ f[r] = reg[r]
    BY <1>2, <1>7
  <2> QED BY <1>7, <2>1 DEF Unique
<1>8. Unique(f)
  BY <1>6, <1>7 DEF Unique
<1> QED BY <1>4, <1>8 DEF f

\* The two ways to say it.
LEMMA UniqueIs == PrimaryUnique <=> Unique(registry)
BY DEF PrimaryUnique, Unique, Registered

\* Nobody is registered at first.
LEMMA MBInitInv == MBInit => MBInv
<1> SUFFICES ASSUME MBInit PROVE MBInv
  OBVIOUS
<1>1. /\ registry = [p \in Peers |-> NoRecord] /\ peerDB = [p \in Peers |-> NoRecord]
      /\ hd = [h \in Handlers |-> Free] /\ loading = {}
  BY DEF MBInit
<1>2. registry \in Registries /\ peerDB \in [Peers -> Records \cup {NoRecord}] /\ PrimaryUnique
  BY <1>1 DEF Registries, PrimaryUnique, Registered
<1>3. hd = [h \in Handlers |-> hd[h]] /\ \A h \in Handlers : HandlerOK(hd[h])
  BY <1>1 DEF HandlerOK, Free
<1> QED BY <1>1, <1>2, <1>3 DEF MBInv

\* One handler moves.
LEMMA OneHandler ==
  ASSUME MBInv, NEW h \in Handlers, NEW s, hd' = [hd EXCEPT ![h] = s], HandlerOK(s)
  PROVE  hd' = [k \in Handlers |-> hd'[k]] /\ \A k \in Handlers : HandlerOK(hd'[k])
<1>1. hd = [k \in Handlers |-> hd[k]] /\ \A k \in Handlers : HandlerOK(hd[k])
  BY DEF MBInv
<1>2. hd'[h] = s /\ \A k \in Handlers \ {h} : hd'[k] = hd[k]
  BY <1>1
<1>3. hd' = [k \in Handlers |-> hd'[k]]
  BY <1>1
<1> QED BY <1>1, <1>2, <1>3

\* A request comes in: its record is one that is announced.
LEMMA RequestInv ==
  ASSUME MBInv, NEW h \in Handlers, NEW p \in Peers, NEW rec \in Records,
         HandleAnnounce(h, p, rec) \/ HandleAddPeer(h, p, rec)
  PROVE  MBInv'
<1>1. loading = {} /\ registry' = registry /\ peerDB' = peerDB /\ loading' = loading
  BY DEF HandleAnnounce, HandleAddPeer, Idle
<1> DEFINE n == IF Registered(p) /\ rec.seq > registry[p].seq THEN registry[p].seq ELSE rec.seq
<1>2. n \in 0..MaxSeq /\ rec = [rec EXCEPT !.seq = rec.seq]
  BY DEF MBInv, Registries, Registered, Records, Merged
<1>3. [rec EXCEPT !.seq = n] \in Records
  BY <1>2 DEF Records
<1>4. PICK r \in Records : hd' = [hd EXCEPT ![h] = [pc |-> "add", peer |-> p, rec |-> r]]
  <2>1. CASE HandleAnnounce(h, p, rec)
    BY <2>1 DEF HandleAnnounce, Move
  <2>2. CASE HandleAddPeer(h, p, rec)
    <3>1. hd' = [hd EXCEPT ![h] = [pc |-> "add", peer |-> p, rec |-> [rec EXCEPT !.seq = n]]]
      BY <2>2 DEF HandleAddPeer, Move, Records
    <3> QED BY <1>3, <3>1
  <2> QED BY <2>1, <2>2
<1>5. HandlerOK([pc |-> "add", peer |-> p, rec |-> r])
  BY DEF HandlerOK
<1>6. hd' = [k \in Handlers |-> hd'[k]] /\ \A k \in Handlers : HandlerOK(hd'[k])
  BY <1>4, <1>5, OneHandler
<1>7. PrimaryUnique'
  BY <1>1 DEF MBInv, PrimaryUnique, Registered
<1> QED BY <1>1, <1>6, <1>7 DEF MBInv

\* The registry takes the record of the request.
LEMMA AddPeerRegisterInv == ASSUME MBInv, NEW h \in Handlers, AddPeerRegister(h) PROVE MBInv'
<1> DEFINE p == hd[h].peer
           rec == hd[h].rec
           s == [pc |-> "evict", peer |-> p, rec |-> rec, out |-> Evicted(registry, p, rec),
                 updated |-> Newer(registry, p, rec)]
<1>1. /\ hd[h].pc = "add" /\ registry' = AddPeer(registry, p, rec)
      /\ hd' = [hd EXCEPT ![h] = s] /\ peerDB' = peerDB /\ loading' = loading
  BY DEF AddPeerRegister, At, Move
<1>2. p \in Peers /\ rec \in Records /\ loading = {}
  BY <1>1 DEF MBInv, HandlerOK
<1>3. registry' \in Registries /\ Unique(registry')
  BY <1>1, <1>2, AddPeerUnique, UniqueIs DEF MBInv
<1>4. HandlerOK(s)
  BY <1>2 DEF HandlerOK
<1> HIDE DEF s, p, rec
<1>5. hd' = [k \in Handlers |-> hd'[k]] /\ \A k \in Handlers : HandlerOK(hd'[k])
  BY <1>1, <1>4, OneHandler
<1>6. PrimaryUnique'
  BY <1>3 DEF PrimaryUnique, Unique, Registered
<1> QED BY <1>1, <1>2, <1>3, <1>5, <1>6 DEF MBInv

\* The writes to the database do not touch the registry.
LEMMA DatabaseInv ==
  ASSUME MBInv, NEW h \in Handlers, AddPeerEvict(h) \/ AddPeerSave(h) \/ RemovePeerDelete(h)
  PROVE  MBInv'
<1>1. registry' = registry /\ loading' = loading /\ hd[h].pc # "free"
  BY DEF AddPeerEvict, AddPeerSave, RemovePeerDelete, At
<1>2. loading = {} /\ peerDB \in [Peers -> Records \cup {NoRecord}]
  BY <1>1 DEF MBInv
<1>3. PrimaryUnique'
  BY <1>1 DEF MBInv, PrimaryUnique, Registered
<1>4. HandlerOK(Free)
  BY DEF HandlerOK, Free
<1>5. CASE AddPeerEvict(h)
  <2> DEFINE t == [pc |-> "save", peer |-> hd[h].peer, rec |-> hd[h].rec]
             s == IF hd[h].updated THEN t ELSE Free
  <2>1. HandlerOK(t)
    BY <1>5 DEF MBInv, HandlerOK, AddPeerEvict, At
  <2>2. hd' = [hd EXCEPT ![h] = s] /\ HandlerOK(s)
    BY <1>4, <1>5, <2>1 DEF AddPeerEvict, Move
  <2> HIDE DEF s
  <2>3. hd' = [k \in Handlers |-> hd'[k]] /\ \A k \in Handlers : HandlerOK(hd'[k])
    BY <2>2, OneHandler
  <2>4. peerDB' \in [Peers -> Records \cup {NoRecord}]
    BY <1>2, <1>5 DEF AddPeerEvict
  <2> QED BY <1>1, <1>2, <1>3, <2>3, <2>4 DEF MBInv
<1>6. CASE AddPeerSave(h) \/ RemovePeerDelete(h)
  <2>1. hd' = [hd EXCEPT ![h] = Free]
    BY <1>6 DEF AddPeerSave, RemovePeerDelete, Move
  <2>2. hd' = [k \in Handlers |-> hd'[k]] /\ \A k \in Handlers : HandlerOK(hd'[k])
    BY <1>4, <2>1, OneHandler
  <2>3. peerDB' \in [Peers -> Records \cup {NoRecord}]
    <3>1. CASE AddPeerSave(h)
      <4>1. hd[h].rec \in Records /\ peerDB' = [peerDB EXCEPT ![hd[h].peer] = hd[h].rec]
        BY <3>1 DEF AddPeerSave, At, MBInv, HandlerOK
      <4> QED BY <1>2, <4>1
    <3>2. CASE RemovePeerDelete(h)
      BY <1>2, <3>2 DEF RemovePeerDelete
    <3> QED BY <1>6, <3>1, <3>2
  <2> QED BY <1>1, <1>2, <1>3, <2>2, <2>3 DEF MBInv
<1> QED BY <1>5, <1>6

\* A peer that leaves is registered no more.
LEMMA HandleLeavePeerInv ==
  ASSUME MBInv, NEW h \in Handlers, NEW p \in Peers, HandleLeavePeer(h, p) PROVE MBInv'
<1> DEFINE s == [pc |-> "delete", peer |-> p]
<1>1. /\ loading = {} /\ loading' = loading /\ peerDB' = peerDB
      /\ registry' = [registry EXCEPT ![p] = NoRecord] /\ hd' = [hd EXCEPT ![h] = s]
  BY DEF HandleLeavePeer, Idle, Move
<1>2. HandlerOK(s)
  BY DEF HandlerOK
<1> HIDE DEF s
<1>3. hd' = [k \in Handlers |-> hd'[k]] /\ \A k \in Handlers : HandlerOK(hd'[k])
  BY <1>1, <1>2, OneHandler
<1>4. registry' \in Registries /\ \A q \in Peers : registry'[q] \in {registry[q], NoRecord}
  BY <1>1 DEF MBInv, Registries
<1>5. PrimaryUnique'
  BY <1>4 DEF MBInv, PrimaryUnique, Registered
<1> QED BY <1>1, <1>3, <1>4, <1>5 DEF MBInv

\* A restart empties the registry, and loads the records one at a time.
LEMMA RestartInv == ASSUME MBInv, Restart \/ \E p \in Peers : LoadPeer(p) PROVE MBInv'
<1>1. CASE Restart
  <2>1. /\ registry' = [p \in Peers |-> NoRecord] /\ hd' = [h \in Handlers |-> Free]
        /\ peerDB' = peerDB /\ loading' \in {{p \in Peers : peerDB[p] # NoRecord}, {}}
    BY <1>1 DEF Restart
  <2>2. registry' \in Registries /\ PrimaryUnique'
    BY <2>1 DEF Registries, PrimaryUnique, Registered
  <2>3. /\ hd' = [k \in Handlers |-> hd'[k]]
        /\ \A k \in Handlers : HandlerOK(hd'[k]) /\ hd'[k].pc = "free"
    BY <2>1 DEF HandlerOK, Free
  <2>4. \A p \in loading' : p \in Peers /\ peerDB[p] # NoRecord
    BY <2>1
  <2> QED BY <2>1, <2>2, <2>3, <2>4 DEF MBInv
<1>2. ASSUME NEW p \in Peers, LoadPeer(p) PROVE MBInv'
  <2>1. /\ p \in loading /\ registry' = AddPeer(registry, p, peerDB[p])
        /\ loading' = loading \ {p} /\ peerDB' = peerDB /\ hd' = hd
    BY <1>2 DEF LoadPeer
  <2>2. peerDB[p] \in Records
    BY <2>1 DEF MBInv
  <2>3. registry' \in Registries /\ Unique(registry')
    BY <2>1, <2>2, AddPeerUnique, UniqueIs DEF MBInv
  <2>4. PrimaryUnique'
    BY <2>3 DEF PrimaryUnique, Unique, Registered
  <2> QED BY <2>1, <2>3, <2>4 DEF MBInv
<1> QED BY <1>1, <1>2

\* No two registered peers ever have the same primary address, whatever is
\* announced, passed on and merged by any number of concurrent requests, and
\* whenever the node restarts from its database (PeerRegistry.AddPeer, New).
THEOREM PrimaryStaysUnique == MBSpec => []PrimaryUnique
<1>1. MBInv /\ [MBNext]_mbVars => MBInv'
  <2> SUFFICES ASSUME MBInv, [MBNext]_mbVars PROVE MBInv'
    OBVIOUS
  <2>1. CASE UNCHANGED mbVars
    <3>1. registry' = registry /\ peerDB' = peerDB /\ hd' = hd /\ loading' = loading
      BY <2>1 DEF mbVars
    <3> QED BY <3>1 DEF MBInv, PrimaryUnique, Registered
  <2>2. CASE MBNext
    BY <2>2, RequestInv, AddPeerRegisterInv, DatabaseInv, HandleLeavePeerInv, RestartInv DEF MBNext
  <2> QED BY <2>1, <2>2
<1>2. MBInv => PrimaryUnique
  BY DEF MBInv
<1> QED BY <1>1, <1>2, MBInitInv, PTL DEF MBSpec
=============================================================================
