------------------------------- MODULE Rotation -------------------------------
(* CA rotation.  Every leave of a peer starts a run of                        *)
(* RotateCAAndResignPeers on the node that has the CA key, and nothing keeps  *)
(* two runs apart.  A run stages a CA of its own, trusts it besides the       *)
(* current one, pushes it with a new certificate to every peer, and, when all *)
(* of them took it, writes its key and certificates and reloads; else it puts *)
(* back the TLS material it found.  CAs are numbered, 0 the first; run r      *)
(* stages CA r.                                                               *)
EXTENDS Naturals, FiniteSets

CONSTANTS Members, \* the registered peers
          Runs     \* the runs of the rotation: 1, 2, ...

ASSUME RotationAssumption == Runs \subseteq Nat \ {0}

VARIABLES material,  \* the CA node's TLS material: its certificate's CA, trusted CAs
          files,     \* its files: CA key, CA certificate, node certificate and key
          member,    \* member[p]: the same of peer p: in memory, and its files
          rot,       \* rot[r]: where run r stands
          push,      \* push[r][p]: the call of p as run r sees it
          serve,     \* serve[r][p]: the handler of that call at p
          acked      \* acked[r]: the peers that acknowledged CA r to run r

roVars == <<material, files, member, rot, push, serve, acked>>

CAs == {0} \cup Runs
Materials == [cert : CAs, trust : SUBSET CAs]
Old == [cert |-> 0, trust |-> {0}]

ROTypeOK == /\ material \in Materials
            /\ files \in [caKey : CAs, ca : CAs, cert : CAs, key : CAs]
            /\ member \in [Members -> [mem : Materials, ca : CAs, cert : CAs]]
            /\ \A r \in Runs : rot[r].pc \in {"idle", "staged", "pushing", "key",
                               "ca", "cert", "nodekey", "reload", "undo", "end"}
            /\ push \in [Runs -> [Members -> {"to do", "sent", "acked", "failed"}]]
            /\ serve \in [Runs -> [Members -> {"none", "ca", "cert", "reload",
                                               "done"}]]
            /\ acked \in [Runs -> SUBSET Members]

ROInit == /\ material = Old
          /\ files = [caKey |-> 0, ca |-> 0, cert |-> 0, key |-> 0]
          /\ member = [p \in Members |-> [mem |-> Old, ca |-> 0, cert |-> 0]]
          /\ rot = [r \in Runs |-> [pc |-> "idle"]]
          /\ push = [r \in Runs |-> [p \in Members |-> "to do"]]
          /\ serve = [r \in Runs |-> [p \in Members |-> "none"]]
          /\ acked = [r \in Runs |-> {}]

\* A handshake: both sides verify the other's certificate.
Connects(a, b) == a.cert \in b.trust /\ b.cert \in a.trust

\* The staging directory, the new CA and the own certificate, and the CA file as
\* it is now.
StageRotation(r) ==
  /\ rot[r].pc = "idle"
  /\ rot' = [rot EXCEPT ![r] = [pc |-> "staged", oldCA |-> files.ca]]
  /\ UNCHANGED <<material, files, member, push, serve, acked>>

\* Under the TLS lock: the material there is is saved, and the transitional one
\* put in place: the same certificate, both CAs trusted.
InstallTransitional(r) ==
  /\ rot[r].pc = "staged"
  /\ material' = [cert |-> material.cert, trust |-> {rot[r].oldCA, r}]
  /\ rot' = [rot EXCEPT ![r] = [pc |-> "pushing", saved |-> material]]
  /\ UNCHANGED <<files, member, push, serve, acked>>

\* The push reaches p: a handshake, and HandleClusterRotate begins; or it fails
\* (no cached certificate, no connection, refused).
PushStart(r, p) ==
  /\ rot[r].pc = "pushing" /\ push[r][p] = "to do"
  /\ \/ /\ Connects(material, member[p].mem)
        /\ push' = [push EXCEPT ![r][p] = "sent"]
        /\ serve' = [serve EXCEPT ![r][p] = "ca"]
     \/ push' = [push EXCEPT ![r][p] = "failed"] /\ UNCHANGED serve
  /\ UNCHANGED <<material, files, member, rot, acked>>

\* HandleClusterRotate at p: WriteNodePEMs writes the CA, then the certificate;
\* ReloadTLSConfig then loads both.
RotateFile(r, p) ==
  /\ serve[r][p] \in {"ca", "cert"}
  /\ IF serve[r][p] = "ca"
     THEN /\ member' = [member EXCEPT ![p].ca = r]
          /\ serve' = [serve EXCEPT ![r][p] = "cert"]
     ELSE /\ member' = [member EXCEPT ![p].cert = r]
          /\ serve' = [serve EXCEPT ![r][p] = "reload"]
  /\ UNCHANGED <<material, files, rot, push, acked>>

RotateReload(r, p) ==
  /\ serve[r][p] = "reload"
  /\ member' = [member EXCEPT ![p].mem = [cert |-> member[p].cert,
                                          trust |-> {member[p].ca}]]
  /\ serve' = [serve EXCEPT ![r][p] = "done"]
  /\ UNCHANGED <<material, files, rot, push, acked>>

\* A write or the reload fails at p, or p stops: what it wrote stays.
RotateFails(r, p) ==
  /\ serve[r][p] \in {"ca", "cert", "reload"}
  /\ serve' = [serve EXCEPT ![r][p] = "none"]
  /\ UNCHANGED <<material, files, member, rot, push, acked>>

\* The answer of p arrives.
PushAcked(r, p) ==
  /\ push[r][p] = "sent" /\ serve[r][p] = "done"
  /\ push' = [push EXCEPT ![r][p] = "acked"]
  /\ acked' = [acked EXCEPT ![r] = @ \cup {p}]
  /\ UNCHANGED <<material, files, member, rot, serve>>

\* The push times out, or its answer is an error or is lost; p goes on with it.
PushFails(r, p) ==
  /\ push[r][p] = "sent"
  /\ push' = [push EXCEPT ![r][p] = "failed"]
  /\ UNCHANGED <<material, files, member, rot, serve, acked>>

\* Mutant of PushesDone: the rotation is committed when some peer took it.
PushesDoneAny(r) ==
  /\ rot[r].pc = "pushing"
  /\ \A p \in Members : push[r][p] \in {"acked", "failed"}
  /\ rot' = [rot EXCEPT ![r].pc = IF \A p \in Members : push[r][p] = "failed"
                                  THEN "undo" ELSE "key"]
  /\ UNCHANGED <<material, files, member, push, serve, acked>>

\* All pushes returned.  One failure is enough to give up.
PushesDone(r) ==
  /\ rot[r].pc = "pushing"
  /\ \A p \in Members : push[r][p] \in {"acked", "failed"}
  /\ rot' = [rot EXCEPT ![r].pc = IF \E p \in Members : push[r][p] = "failed"
                                  THEN "undo" ELSE "key"]
  /\ UNCHANGED <<material, files, member, push, serve, acked>>

Undo(r) ==
  /\ rot[r].pc = "undo"
  /\ material' = rot[r].saved
  /\ rot' = [rot EXCEPT ![r] = [pc |-> "end"]]
  /\ UNCHANGED <<files, member, push, serve, acked>>

\* The commit: the CA key, then WriteNodePEMs' three files.  A file that cannot
\* be written ends it: the old CA key is put back, if that works, and the old
\* material.
CommitKey(r) ==
  /\ rot[r].pc = "key"
  /\ files' = [files EXCEPT !.caKey = r]
  /\ rot' = [rot EXCEPT ![r] = [pc |-> "ca", saved |-> rot[r].saved,
                                oldKey |-> files.caKey]]
  /\ UNCHANGED <<material, member, push, serve, acked>>

CommitFile(r) ==
  /\ rot[r].pc \in {"ca", "cert", "nodekey"}
  /\ files' = CASE rot[r].pc = "ca"      -> [files EXCEPT !.ca = r]
                [] rot[r].pc = "cert"    -> [files EXCEPT !.cert = r]
                [] rot[r].pc = "nodekey" -> [files EXCEPT !.key = r]
  /\ rot' = [rot EXCEPT ![r].pc = CASE rot[r].pc = "ca"      -> "cert"
                                    [] rot[r].pc = "cert"    -> "nodekey"
                                    [] rot[r].pc = "nodekey" -> "reload"]
  /\ UNCHANGED <<material, member, push, serve, acked>>

CommitFails(r) ==
  /\ rot[r].pc \in {"key", "ca", "cert", "nodekey"}
  /\ \/ rot[r].pc # "key" /\ files' = [files EXCEPT !.caKey = rot[r].oldKey]
     \/ UNCHANGED files
  /\ rot' = [rot EXCEPT ![r] = [pc |-> "undo", saved |-> rot[r].saved]]
  /\ UNCHANGED <<material, member, push, serve, acked>>

\* A staged file cannot be read back: the run ends where it stands.
StagedUnreadable(r) ==
  /\ rot[r].pc = "key"
  /\ rot' = [rot EXCEPT ![r] = [pc |-> "end"]]
  /\ UNCHANGED <<material, files, member, push, serve, acked>>

\* ReloadTLSConfig from the files: refused when the certificate and the key are
\* not a pair.
CommitReload(r) ==
  /\ rot[r].pc = "reload"
  /\ material' = IF files.cert = files.key
                 THEN [cert |-> files.cert, trust |-> {files.ca}] ELSE material
  /\ rot' = [rot EXCEPT ![r] = [pc |-> "end"]]
  /\ UNCHANGED <<files, member, push, serve, acked>>

RONext == \/ \E r \in Runs : \/ StageRotation(r) \/ InstallTransitional(r)
                             \/ PushesDone(r) \/ Undo(r) \/ CommitKey(r)
                             \/ CommitFile(r) \/ CommitFails(r) \/ CommitReload(r)
                             \/ StagedUnreadable(r)
          \/ \E r \in Runs, p \in Members : \/ PushStart(r, p) \/ RotateFile(r, p)
                                            \/ RotateReload(r, p) \/ RotateFails(r, p)
                                            \/ PushAcked(r, p) \/ PushFails(r, p)

ROSpec == ROInit /\ [][RONext]_roVars

(* ------------------------------- properties ------------------------------ *)

\* The files of the CA node never name a CA that some peer did not acknowledge:
\* a push that fails leaves them as they were.  And once a rotation is on disk
\* and over, and no other one began, every peer and the CA node accept each
\* other, whatever was lost (RotateCAAndResignPeers, HandleClusterRotate).
RotationConnects ==
  \A r \in Runs :
    /\ r \in {files.caKey, files.ca, files.cert, files.key} => acked[r] = Members
    /\ (\A x \in {files.caKey, files.ca, files.cert, files.key} : x = r) /\ rot[r].pc = "end"
       /\ (\A o \in Runs \ {r} : rot[o].pc = "idle")
         => \A p \in Members : Connects(material, member[p].mem)

\* While the transitional trust is in place the CA node and a peer, rotated or
\* not, accept each other.
TransitionOpen ==
  \A r \in Runs : rot[r].pc = "pushing"
    => \A p \in Members : push[r][p] \in {"to do", "acked"}
                            => Connects(material, member[p].mem)
===============================================================================
