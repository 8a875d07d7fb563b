----------------------------- MODULE JoinInstall ------------------------------
(* The installation of a joined identity: JoinCluster of the bind runtime     *)
(* stages the certificates and the configuration the cluster returned, stops  *)
(* the node, moves the present ones into a backup and the staged ones into    *)
(* place, starts the node on them and commits.  A journal file is written     *)
(* after every move, so that the next start can undo a swap a crash cut off.  *)
(* Each file system operation is a step and may fail; a crash may come        *)
(* between any two.                                                           *)
EXTENDS Naturals, FiniteSets

CONSTANTS MaxFaults, \* bound on failed operations
          MaxCrashes \* bound on crashes

ASSUME JoinInstallAssumption == MaxFaults \in Nat /\ MaxCrashes \in Nat

VARIABLES final,    \* final[i]: the item in place: none, old or new
          backup,   \* backup[i]: the item in the transaction's backup directory
          staged,   \* the items in the transaction's staging directory
          journal,  \* the journal file, or none
          inst,     \* the joinInstallation in memory
          jpc,      \* the next step of JoinCluster or of the recovery
          started,  \* what was in place before the transaction
          broken,   \* a rollback was cut off after it had begun
          faults, crashes

jiVars == <<final, backup, staged, journal, inst, jpc, started, broken, faults,
            crashes>>

Items == {"certs", "config"}
NoJournal == [phase |-> "none"]
Installation(phase, by, backedUp, installed, had) ==
  [phase |-> phase, by |-> by, backedUp |-> backedUp, installed |-> installed,
   had |-> had, failed |-> FALSE]
Present == {i \in Items : final[i] # "none"}

JITypeOK ==
  /\ final \in [Items -> {"none", "old", "new"}]
  /\ backup \in [Items -> {"none", "old"}]
  /\ staged \subseteq Items
  /\ jpc \in {"rest", "down", "stop", "install", "back certs",
              "back config", "move certs", "move config", "start", "commit",
              "clean", "rm config", "rm certs", "put config", "put certs", "undone"}
  /\ inst.phase \in {"none", "staged", "installing", "installed", "committed"}
  /\ journal.phase \in {"none", "staged", "installing", "installed", "committed"}
  /\ faults \in 0..MaxFaults /\ crashes \in 0..MaxCrashes

\* A first join, or the join of a node that has an identity.
JIInit == /\ final \in {[i \in Items |-> "none"], [i \in Items |-> "old"]}
          /\ started = final
          /\ backup = [i \in Items |-> "none"] /\ staged = {}
          /\ journal = NoJournal /\ inst = NoJournal /\ jpc = "rest"
          /\ broken = FALSE /\ faults = 0 /\ crashes = 0

Fault == faults < MaxFaults /\ faults' = faults + 1
Works == UNCHANGED faults
Then(step) == jpc' = step
KeepFiles == UNCHANGED <<final, backup, staged>>
History == UNCHANGED <<started, crashes>>

\* persistJournal, then the step next, or the rollback when it fails.
Persist(next) ==
  \/ journal' = inst' /\ Works /\ Then(next)
  \/ UNCHANGED journal /\ Fault /\ Then("rm config")

(* ------------------------------ the transaction -------------------------- *)

\* stageJoinInstallation, after the remote join: journal "staged".  When it
\* fails it leaves nothing behind.
StageJoin ==
  /\ jpc = "rest" /\ journal = NoJournal /\ \A i \in Items : final[i] # "new"
  /\ inst' = Installation("staged", "join", {}, {}, Present)
  /\ journal' = inst' /\ staged' = Items /\ Then("stop")
  /\ started' = final
  /\ UNCHANGED <<final, backup, broken, faults, crashes>>

\* The transaction directory, with what is in it, and the journal are removed.
RemoveTransaction == /\ staged' = {} /\ backup' = [i \in Items |-> "none"]
                     /\ journal' = NoJournal

\* StopNodeWithError; when it times out, cleanupUncommitted.
StopForJoin ==
  /\ jpc = "stop"
  /\ \/ Then("install") /\ Works /\ UNCHANGED <<backup, staged, journal, inst>>
     \/ Then("rest") /\ Fault /\ RemoveTransaction /\ inst' = NoJournal
  /\ UNCHANGED <<final, broken>> /\ History

\* install: the phase, then one move and one journal write per item.
InstallBegin ==
  /\ jpc = "install"
  /\ inst' = [inst EXCEPT !.phase = "installing"]
  /\ Persist("back certs")
  /\ KeepFiles /\ UNCHANGED broken /\ History

\* The present item is moved to the backup: the move, and its journal write.
BackUp(i, here, next) ==
  /\ jpc = here /\ i \notin inst.backedUp
  /\ \/ /\ i \notin Present /\ Then(next) /\ Works
        /\ UNCHANGED <<final, backup, inst>>
     \/ /\ i \in Present /\ Works /\ UNCHANGED jpc
        /\ backup' = [backup EXCEPT ![i] = final[i]]
        /\ final' = [final EXCEPT ![i] = "none"]
        /\ inst' = [inst EXCEPT !.backedUp = @ \cup {i}]
     \/ /\ i \in Present /\ Fault /\ Then("rm config")
        /\ UNCHANGED <<final, backup, inst>>
  /\ UNCHANGED <<staged, journal, broken>> /\ History

\* The staged item is moved into place.
MoveIn(i, here) ==
  /\ jpc = here /\ i \notin inst.installed
  /\ \/ /\ Works /\ UNCHANGED jpc
        /\ final' = [final EXCEPT ![i] = "new"] /\ staged' = staged \ {i}
        /\ inst' = [inst EXCEPT !.installed = @ \cup {i},
                                !.phase = IF i = "config" THEN "installed" ELSE @]
     \/ Fault /\ Then("rm config") /\ UNCHANGED <<final, staged, inst>>
  /\ UNCHANGED <<backup, journal, broken>> /\ History

\* The journal write after either.
JournalMove(i, here, next, done) ==
  /\ jpc = here /\ i \in done
  /\ UNCHANGED inst /\ Persist(next)
  /\ KeepFiles /\ UNCHANGED broken /\ History

InstallSteps ==
  \/ BackUp("certs", "back certs", "back config")
  \/ JournalMove("certs", "back certs", "back config", inst.backedUp)
  \/ BackUp("config", "back config", "move certs")
  \/ JournalMove("config", "back config", "move certs", inst.backedUp)
  \/ MoveIn("certs", "move certs")
  \/ JournalMove("certs", "move certs", "move config", inst.installed)
  \/ MoveIn("config", "move config")
  \/ JournalMove("config", "move config", "start", inst.installed)

\* startJoinedNode, then commit; a failure of either stops the node and rolls
\* back.
StartJoined ==
  /\ jpc = "start"
  /\ \/ Then("commit") /\ Works
     \/ Then("rm config") /\ Fault
  /\ KeepFiles /\ UNCHANGED <<journal, inst, broken>> /\ History

CommitJoin ==
  /\ jpc = "commit"
  /\ inst' = [inst EXCEPT !.phase = "committed"]
  /\ Persist("clean")
  /\ KeepFiles /\ UNCHANGED broken /\ History

\* cleanupCommitted.  When it fails the journal stays for the next start.
CleanupCommitted ==
  /\ jpc = "clean" /\ Then("rest") /\ inst' = NoJournal
  /\ \/ RemoveTransaction /\ Works
     \/ Fault /\ UNCHANGED <<backup, staged, journal>>
  /\ UNCHANGED <<final, broken>> /\ History

(* ------------------------------- the rollback ---------------------------- *)

\* The new items are removed and the old ones put back, configuration first.  A
\* step that fails is skipped; moving back what is not there fails.
RemoveNew(i, here, next) ==
  /\ jpc = here /\ Then(next)
  /\ \/ /\ i \in inst.installed /\ Works /\ UNCHANGED broken
        /\ final' = [final EXCEPT ![i] = "none"]
        /\ inst' = [inst EXCEPT !.installed = @ \ {i}]
     \/ /\ i \in inst.installed /\ Fault /\ broken' = TRUE /\ UNCHANGED final
        /\ inst' = [inst EXCEPT !.installed = @ \ {i}, !.failed = TRUE]
     \/ i \notin inst.installed /\ Works /\ UNCHANGED <<final, inst, broken>>
  /\ UNCHANGED <<backup, staged, journal>> /\ History

PutBack(i, here, next) ==
  /\ jpc = here /\ Then(next)
  /\ \/ /\ i \in inst.backedUp /\ backup[i] # "none" /\ Works /\ UNCHANGED broken
        /\ final' = [final EXCEPT ![i] = backup[i]]
        /\ backup' = [backup EXCEPT ![i] = "none"]
        /\ inst' = [inst EXCEPT !.backedUp = @ \ {i}]
     \/ /\ i \in inst.backedUp /\ (IF backup[i] = "none" THEN Works ELSE Fault)
        /\ broken' = TRUE /\ inst' = [inst EXCEPT !.failed = TRUE]
        /\ UNCHANGED <<final, backup>>
     \/ i \notin inst.backedUp /\ Works /\ UNCHANGED <<final, backup, inst, broken>>
  /\ UNCHANGED <<staged, journal>> /\ History

\* A rollback without an error removes the transaction; else the journal stays
\* for another try, unless JoinCluster finds nothing in the backup
\* (cleanupUncommitted).
RollbackEnds ==
  /\ jpc = "undone" /\ Then("rest") /\ inst' = NoJournal
  /\ IF ~ inst.failed \/ (inst.by = "join" /\ inst.backedUp = {})
     THEN RemoveTransaction ELSE UNCHANGED <<backup, staged, journal>>
  /\ UNCHANGED <<final, broken, faults>> /\ History

RollbackSteps == \/ RemoveNew("config", "rm config", "rm certs")
                 \/ RemoveNew("certs", "rm certs", "put config")
                 \/ PutBack("config", "put config", "put certs")
                 \/ PutBack("certs", "put certs", "undone")
                 \/ RollbackEnds

(* -------------------------- crash and recovery --------------------------- *)

CrashInstall ==
  /\ jpc # "down" /\ crashes < MaxCrashes /\ crashes' = crashes + 1
  /\ broken' = (broken \/ jpc \in {"rm certs", "put config", "put certs", "undone"})
  /\ Then("down") /\ inst' = NoJournal
  /\ KeepFiles /\ UNCHANGED <<journal, started, faults>>

\* Mutant of MovedOut: the journal alone is believed.
MovedOutJournal(j) == j.backedUp

\* What recoverJoinInstallation takes as moved: what the journal says and what
\* the directories show.
MovedOut(j) == j.backedUp \cup {i \in Items : backup[i] # "none"}
MovedIn(j) ==
  j.installed \cup {i \in Items : /\ i \notin staged /\ i \in Present
                                  /\ i \notin j.had \/ backup[i] # "none"}

\* recoverJoinInstallation, before a start and before a join.
RecoverJoinInstallation ==
  /\ jpc \in {"down", "rest"} /\ (jpc = "rest" => journal # NoJournal)
  /\ CASE journal = NoJournal ->
            Then("rest") /\ UNCHANGED <<inst, backup, staged, journal>>
       [] journal.phase \in {"staged", "committed"} ->
            Then("rest") /\ UNCHANGED inst /\ RemoveTransaction
       [] OTHER ->
            /\ inst' = Installation(journal.phase, "recovery", MovedOut(journal),
                                    MovedIn(journal), journal.had)
            /\ Then("rm config") /\ UNCHANGED <<backup, staged, journal>>
  /\ UNCHANGED <<final, broken, faults>> /\ History

JINext == \/ StageJoin \/ StopForJoin \/ InstallBegin
          \/ InstallSteps \/ StartJoined \/ CommitJoin \/ CleanupCommitted
          \/ RollbackSteps \/ CrashInstall \/ RecoverJoinInstallation

JISpec == JIInit /\ [][JINext]_jiVars

(* ------------------------------- properties ------------------------------ *)

AllNew == [i \in Items |-> "new"]

\* Wherever crashes and failed operations cut the installation off, the identity
\* the node had is still there, in place or in the backup, unless the new one
\* took its place as a whole.
JoinRecoverable ==
  final = AllNew \/ \A i \in Items : started[i] \in {"none", final[i], backup[i]}

\* As long as no rollback was itself cut off after it had begun: nothing is lost,
\* and once the join is over or recovered, certificates and configuration are
\* both the new ones or both what they were.
JoinAtomic ==
  broken \/ /\ JoinRecoverable
            /\ jpc = "rest" /\ journal = NoJournal => final \in {started, AllNew}
===============================================================================
