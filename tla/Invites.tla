------------------------------- MODULE Invites --------------------------------
(* Invitations to the cluster and the certificates they are exchanged for.    *)
(* The InviteManager keeps the pending invitations in memory and in the       *)
(* database and changes both under one lock, the database first; a join       *)
(* request consumes its invitation, signs the certificate and reads the CA,   *)
(* and puts the invitation back when one of these fails.  A crash loses what  *)
(* is in memory, and every join under way.                                    *)
EXTENDS Naturals, FiniteSets

CONSTANTS Secrets,  \* the secrets of the invitations
          Joins,    \* the join requests served at the same time
          ValidFor, \* how long an invitation is valid
          MaxTime   \* bound on the clock

ASSUME InvitesAssumption == ValidFor \in Nat \ {0} /\ MaxTime \in Nat

VARIABLES now,
          pending,  \* pendingInvites: secret -> expiration, 0 when absent
          inviteDB, \* the same in the database
          minted,   \* minted[s]: when the invitation s expires, 0 before
          joins,    \* joins[j]: where join request j stands
          issued,   \* issued[s]: the certificates returned for s
          dropped   \* secrets a crash or a failed write lost while consumed

ivVars == <<now, pending, inviteDB, minted, joins, issued, dropped>>

NoJoin == [pc |-> "idle"]

IVTypeOK == /\ now \in 1..MaxTime
            /\ pending \in [Secrets -> 0..(MaxTime + ValidFor)]
            /\ inviteDB \in [Secrets -> 0..(MaxTime + ValidFor)]
            /\ minted \in [Secrets -> 0..(MaxTime + ValidFor)]
            /\ dropped \subseteq Secrets
            /\ \A j \in Joins : joins[j].pc \in {"idle", "checked", "held", "signed"}
            /\ issued \in [Secrets -> 0..Cardinality(Joins) + 1]

IVInit == /\ now = 1 /\ dropped = {}
          /\ minted = [s \in Secrets |-> 0]
          /\ pending = [s \in Secrets |-> 0]
          /\ inviteDB = [s \in Secrets |-> 0]
          /\ joins = [j \in Joins |-> NoJoin]
          /\ issued = [s \in Secrets |-> 0]

Valid(s) == pending[s] # 0 /\ now < pending[s]

\* Mutant of Add: the invitation is registered in memory only.
AddVolatile(s, expiration) ==
  /\ pending' = [pending EXCEPT ![s] = expiration]
  /\ UNCHANGED inviteDB

\* InviteManager.Add: the database, then the map, under the lock.
Add(s, expiration) ==
  /\ inviteDB' = [inviteDB EXCEPT ![s] = expiration]
  /\ pending' = [pending EXCEPT ![s] = expiration]

\* LocalInviteGenerate on the node with the CA key: a fresh secret.  When the
\* write fails no token is returned and nothing is registered.
HandleGenerateInvite(s) ==
  /\ minted[s] = 0
  /\ Add(s, now + ValidFor)
  /\ minted' = [minted EXCEPT ![s] = now + ValidFor]
  /\ UNCHANGED <<now, joins, issued, dropped>>

\* HandleClusterJoin up to the consumption: Check, then the other validations.
JoinCheck(j, s) ==
  /\ joins[j] = NoJoin
  /\ Valid(s)
  /\ joins' = [joins EXCEPT ![j] = [pc |-> "checked", secret |-> s]]
  /\ UNCHANGED <<now, pending, inviteDB, minted, issued, dropped>>

\* Mutant of Consume: the invitation is consumed in memory and deleted when it is swept.
ConsumeVolatile(s) == pending' = [pending EXCEPT ![s] = 0] /\ UNCHANGED inviteDB

\* CheckAndConsume: the database first; a failed delete keeps the invitation.
Consume(s) == /\ inviteDB' = [inviteDB EXCEPT ![s] = 0]
              /\ pending' = [pending EXCEPT ![s] = 0]

CheckAndConsume(j) ==
  LET s == joins[j].secret IN
  /\ joins[j].pc = "checked"
  /\ \/ /\ Valid(s) /\ Consume(s)
        /\ joins' = [joins EXCEPT ![j] = [pc |-> "held", secret |-> s,
                                          expiration |-> pending[s]]]
     \/ /\ pending[s] # 0 /\ ~ Valid(s) /\ Consume(s)
        /\ joins' = [joins EXCEPT ![j] = NoJoin]
     \/ /\ pending[s] = 0 /\ UNCHANGED <<pending, inviteDB>>
        /\ joins' = [joins EXCEPT ![j] = NoJoin]
     \/ /\ pending[s] # 0 /\ UNCHANGED <<pending, inviteDB>>
        /\ joins' = [joins EXCEPT ![j] = NoJoin]
  /\ UNCHANGED <<now, minted, issued, dropped>>

\* SignCSR succeeds.
Sign(j) ==
  /\ joins[j].pc = "held"
  /\ joins' = [joins EXCEPT ![j].pc = "signed"]
  /\ UNCHANGED <<now, pending, inviteDB, minted, issued, dropped>>

\* SignCSR or ReadCAPEM fails: the invitation is put back, unless that fails
\* too, with the expiration it had.
RestoreInvite(j) ==
  LET s == joins[j].secret IN
  /\ joins[j].pc \in {"held", "signed"}
  /\ joins' = [joins EXCEPT ![j] = NoJoin]
  /\ \/ Add(s, joins[j].expiration) /\ UNCHANGED dropped
     \/ dropped' = dropped \cup {s} /\ UNCHANGED <<pending, inviteDB>>
  /\ UNCHANGED <<now, minted, issued>>

\* ReadCAPEM succeeds and the response goes out.
Respond(j) ==
  /\ joins[j].pc = "signed"
  /\ issued' = [issued EXCEPT ![joins[j].secret] = @ + 1]
  /\ joins' = [joins EXCEPT ![j] = NoJoin]
  /\ UNCHANGED <<now, pending, inviteDB, minted, dropped>>

\* Sweep, every few minutes: what expired is deleted, database first; a delete
\* that fails keeps that invitation.
Expired(map) == {s \in Secrets : map[s] # 0 /\ now >= map[s]}
Without(map, gone) == [s \in Secrets |-> IF s \in gone THEN 0 ELSE map[s]]
Sweep ==
  \E gone \in SUBSET Expired(pending) :
    /\ gone # {}
    /\ inviteDB' = Without(inviteDB, gone)
    /\ pending' = Without(pending, gone)
    /\ UNCHANGED <<now, minted, joins, issued, dropped>>

\* A crash and NewInviteManager: the invitations of the database, swept.
Reopen ==
  /\ pending' = Without(inviteDB, Expired(inviteDB))
  /\ inviteDB' = Without(inviteDB, Expired(inviteDB))
  /\ joins' = [j \in Joins |-> NoJoin]
  /\ dropped' = dropped \cup {joins[j].secret :
                    j \in {i \in Joins : joins[i].pc \in {"held", "signed"}}}
  /\ UNCHANGED <<now, minted, issued>>

Advance == /\ now < MaxTime /\ now' = now + 1
           /\ UNCHANGED <<pending, inviteDB, minted, joins, issued, dropped>>

IVNext == \/ \E s \in Secrets : HandleGenerateInvite(s)
          \/ \E j \in Joins, s \in Secrets : JoinCheck(j, s)
          \/ \E j \in Joins : \/ CheckAndConsume(j) \/ Sign(j)
                              \/ RestoreInvite(j) \/ Respond(j)
          \/ Sweep \/ Reopen \/ Advance

IVSpec == IVInit /\ [][IVNext]_ivVars

(* ------------------------------- properties ------------------------------ *)

\* An invitation buys exactly one certificate.  Not a second one, by joins that
\* checked it together, a join that failed and put it back, or a restart in
\* between; and until it expires its token is good for the first one: it is
\* pending, in memory and in the database, or a join holds it or was cut off
\* holding it (CheckAndConsume, HandleClusterJoin, NewInviteManager).
InviteBuysOne ==
  \A s \in Secrets :
    /\ issued[s] <= 1
    /\ \/ minted[s] <= now
       \/ pending[s] = minted[s] /\ inviteDB[s] = minted[s]
       \/ issued[s] = 1 \/ s \in dropped
       \/ \E j \in Joins : joins[j].pc \in {"held", "signed"} /\ joins[j].secret = s
===============================================================================
