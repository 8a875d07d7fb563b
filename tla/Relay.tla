-------------------------------- MODULE Relay --------------------------------
(***************************************************************************)
(* HTTP requests tunnelled through a sponsor (internal/server/relay.go)    *)
(* to one node that polls, and the choice of the sponsor it polls          *)
(* (internal/server/sponsor.go).                                           *)
(*                                                                         *)
(* A sponsor keeps a bounded queue for the node and a waiter for every     *)
(* forwarded request; the node takes a work slot, polls, and answers from  *)
(* a goroutine of its own.  Every forward has a request ID of its own      *)
(* (NewRelayRequest).                                                      *)
(***************************************************************************)
EXTENDS Naturals, Sequences, FiniteSets, SequencesExt

CONSTANTS
  Sponsors,  \* sponsor-capable peers, a set of naturals: their IDs are ordered
  Forwards,  \* requests that other peers forward
  NoSponsor,
  RelayCap,  \* capacity of a queue
  RelaySlots \* capacity of workSlots; in the code both are relayQueueSize

RelayAssumption ==
  Sponsors \subseteq Nat /\ NoSponsor \notin Sponsors /\ {RelayCap, RelaySlots} \subseteq Nat \ {0}
ASSUME RelayAssumption

VARIABLES
  alive,    \* sponsors that answer (external)
  online,   \* sponsors the registry believes online
  capable,  \* sponsors the registry believes sponsor-capable
  polled,   \* sponsorAddr of the polling loop
  adopted,  \* SponsorAddress of the router
  loop,     \* where the polling loop is
  slots,    \* work slots taken
  queue,    \* the queue of the node at each sponsor
  fwd,      \* HandleRelayForward: [st, sp, full] with full its response channel
  work,     \* requests the node handles: [f, sp, st]
  runs,     \* how often the node served each request
  answered  \* requests whose reply reached the sponsor it was sent to

rlVars == <<alive, online, capable, polled, adopted, loop, slots, queue, fwd, work, runs, answered>>
choice == <<online, capable, polled, adopted>>

FwdIdle == [st |-> "idle", sp |-> NoSponsor, full |-> FALSE]

RLTypeOK ==
  /\ alive \subseteq Sponsors /\ online \subseteq Sponsors /\ capable \subseteq Sponsors
  /\ {polled, adopted} \subseteq Sponsors \cup {NoSponsor}
  /\ loop \in {"sleep", "slot", "failed"} /\ slots \in 0..RelaySlots
  /\ queue \in [Sponsors -> SeqOf(Forwards, RelayCap)]
  /\ fwd \in [Forwards -> [st : {"idle", "registered", "waiting", "served", "timeout", "refused"},
                           sp : Sponsors \cup {NoSponsor}, full : BOOLEAN]]
  /\ \A w \in work : w.f \in Forwards /\ w.sp \in Sponsors /\ w.st \in {"run", "reply", "found"}
  /\ runs \in [Forwards -> 0..2] /\ answered \subseteq Forwards

RLInit ==
  /\ alive \in SUBSET Sponsors \ {{}} /\ online \in SUBSET Sponsors /\ capable = Sponsors
  /\ polled \in Sponsors /\ adopted = polled
  /\ loop = "sleep" /\ slots = 0
  /\ queue = [s \in Sponsors |-> << >>]
  /\ fwd = [f \in Forwards |-> FwdIdle]
  /\ work = {} /\ runs = [f \in Forwards |-> 0] /\ answered = {}

-----------------------------------------------------------------------------
(* The choice of a sponsor.                                                *)

First(S) == CHOOSE s \in S : \A t \in S : s <= t

\* Mutant of Select: whether a candidate is online plays no part.
SelectAny(S, on, current) ==
  IF S \ {current} = {} THEN NoSponsor ELSE First(S \ {current})

\* FirstOnlineSponsorSelector: the first online candidate that is not current,
\* else the first one.
Select(S, on, current) ==
  LET others == S \ {current}
  IN CASE others \cap on # {} -> First(others \cap on)
       [] others \cap on = {} /\ others # {} -> First(others)
       [] OTHER -> NoSponsor

\* reconcileSponsor: the router keeps a sponsor that is still capable.
Reconciled(S) ==
  LET next == Select(S, online, adopted)
  IN IF adopted \in S \/ next = NoSponsor THEN adopted ELSE next

\* A peer record with or without the sponsor role is applied; the polling loop
\* keeps its own sponsor.
TopologyUpdate ==
  /\ \E s \in Sponsors : capable' = IF s \in capable THEN capable \ {s} ELSE capable \cup {s}
  /\ adopted' = Reconciled(capable')
  /\ UNCHANGED <<alive, online, polled, loop, slots, queue, fwd, work, runs, answered>>

\* Other calls to or from a sponsor tell whether it is online (callPeer, mTLSGuard).
Observe(s) ==
  /\ online' = IF s \in alive THEN online \cup {s} ELSE online \ {s}
  /\ UNCHANGED <<alive, capable, polled, adopted, loop, slots, queue, fwd, work, runs, answered>>

-----------------------------------------------------------------------------
(* The sponsor.                                                            *)

\* HandleRelayForward registers the waiter ...
Register(f, s) ==
  /\ fwd[f] = FwdIdle /\ s \in alive
  /\ fwd' = [fwd EXCEPT ![f] = [st |-> "registered", sp |-> s, full |-> FALSE]]
  /\ UNCHANGED <<alive, choice, loop, slots, queue, work, runs, answered>>

\* Mutant of Enqueue: a full queue grows.
EnqueueAlways(f) ==
  /\ fwd[f].st = "registered"
  /\ queue' = [queue EXCEPT ![fwd[f].sp] = Append(@, f)]
  /\ fwd' = [fwd EXCEPT ![f].st = "waiting"]
  /\ UNCHANGED <<alive, choice, loop, slots, work, runs, answered>>

\* ... and enqueues the request, unless the queue is full.
Enqueue(f) ==
  /\ fwd[f].st = "registered"
  /\ IF Len(queue[fwd[f].sp]) < RelayCap
     THEN /\ queue' = [queue EXCEPT ![fwd[f].sp] = Append(@, f)]
          /\ fwd' = [fwd EXCEPT ![f].st = "waiting"]
     ELSE fwd' = [fwd EXCEPT ![f].st = "refused"] /\ UNCHANGED queue
  /\ UNCHANGED <<alive, choice, loop, slots, work, runs, answered>>

\* The response or the timeout; the waiter is removed, a queued request is not.
ForwardEnds(f) ==
  /\ fwd[f].st = "waiting"
  /\ \/ fwd[f].full /\ fwd' = [fwd EXCEPT ![f].st = "served"]
     \/ fwd' = [fwd EXCEPT ![f].st = "timeout"]
  /\ UNCHANGED <<alive, choice, loop, slots, queue, work, runs, answered>>

-----------------------------------------------------------------------------
(* The node.                                                               *)

\* beginWork: the polling loop takes a slot before it polls.
TakeSlot ==
  /\ loop = "sleep" /\ slots < RelaySlots
  /\ loop' = "slot" /\ slots' = slots + 1
  /\ UNCHANGED <<alive, choice, queue, fwd, work, runs, answered>>

\* PollRelay fails, finds nothing, or takes a request, which is lost with the
\* answer when the connection breaks (HandleRelayPoll).
Poll ==
  /\ loop = "slot"
  /\ \/ /\ polled \notin alive
        /\ loop' = "failed" /\ slots' = slots - 1 /\ UNCHANGED <<queue, work>>
     \/ /\ polled \in alive /\ queue[polled] = << >>
        /\ loop' = "sleep" /\ slots' = slots - 1 /\ UNCHANGED <<queue, work>>
     \/ /\ polled \in alive /\ queue[polled] # << >>
        /\ queue' = [queue EXCEPT ![polled] = Tail(@)]
        /\ \/ /\ loop' = "sleep" /\ UNCHANGED slots
              /\ work' = work \cup {[f |-> Head(queue[polled]), sp |-> polled, st |-> "run"]}
           \/ loop' = "failed" /\ slots' = slots - 1 /\ UNCHANGED work
  /\ UNCHANGED <<alive, choice, fwd, runs, answered>>

\* After a failed poll the loop and the router move to the next sponsor.
Failover ==
  /\ loop = "failed"
  /\ LET next == Select(capable, online, polled)
     IN IF next = NoSponsor THEN UNCHANGED <<polled, adopted>>
        ELSE polled' = next /\ adopted' = next
  /\ loop' = "sleep"
  /\ UNCHANGED <<alive, online, capable, slots, queue, fwd, work, runs, answered>>

\* processRelayRequestContext serves the request with the node's own handler.
Serve(w) ==
  /\ w \in work /\ w.st = "run"
  /\ runs' = [runs EXCEPT ![w.f] = @ + 1]
  /\ work' = (work \ {w}) \cup {[w EXCEPT !.st = "reply"]}
  /\ UNCHANGED <<alive, choice, loop, slots, queue, fwd, answered>>

Waiting(f, s) == fwd[f].sp = s /\ fwd[f].st \in {"registered", "waiting"}

\* Mutant of ReplySponsor: the sponsor polled now.
ReplySponsorNow(w) == polled

\* requestSponsor: the sponsor the request came from.
ReplySponsor(w) == w.sp

\* ReplyRelay fails, or HandleRelayReply looks the waiter up ...
Reply(w) ==
  /\ w \in work /\ w.st = "reply"
  /\ LET s == ReplySponsor(w)
     IN \/ /\ s \in alive /\ Waiting(w.f, s)
           /\ work' = (work \ {w}) \cup {[w EXCEPT !.st = "found"]}
           /\ UNCHANGED <<slots, answered>>
        \/ /\ s \in alive /\ ~Waiting(w.f, s) \* no waiter: the reply is refused
           /\ work' = work \ {w} /\ slots' = slots - 1 /\ answered' = answered \cup {w.f}
        \/ work' = work \ {w} /\ slots' = slots - 1 /\ UNCHANGED answered \* lost on the way
  /\ UNCHANGED <<alive, choice, loop, queue, fwd, runs>>

\* ... and fills its channel, which its forward may have left by now.
Deliver(w) ==
  /\ w \in work /\ w.st = "found"
  /\ fwd' = [fwd EXCEPT ![w.f].full = TRUE]
  /\ work' = work \ {w} /\ slots' = slots - 1 /\ answered' = answered \cup {w.f}
  /\ UNCHANGED <<alive, choice, loop, queue, runs>>

-----------------------------------------------------------------------------
PollStep == TakeSlot \/ Poll \/ Failover
WorkStep(w) == Serve(w) \/ Reply(w) \/ Deliver(w)

RLNext ==
  \/ TopologyUpdate \/ \E s \in Sponsors : Observe(s)
  \/ \E f \in Forwards : (\E s \in Sponsors : Register(f, s)) \/ Enqueue(f) \/ ForwardEnds(f)
  \/ PollStep
  \/ \E w \in work : WorkStep(w)

RLSpec == RLInit /\ [][RLNext]_rlVars

\* The loop polls again after every poll, work ends, and the presence of every
\* peer is found out by the periodic calls.
RLFairness ==
  /\ WF_rlVars(PollStep)
  /\ WF_rlVars(\E w \in work : WorkStep(w))
  /\ \A s \in Sponsors : WF_rlVars(Observe(s))

-----------------------------------------------------------------------------
\* Pending and active work are bounded, and no slot is lost or freed twice:
\* the slots taken are those of the poll in progress and of the requests the
\* node works on (workSlots, finishWork).
RelayBounded ==
  /\ slots = Cardinality(work) + (IF loop = "slot" THEN 1 ELSE 0)
  /\ slots <= RelaySlots
  /\ \A s \in Sponsors : Len(queue[s]) <= RelayCap

\* A request is served at most once, and a reply that arrived while its forward
\* was waiting is in its hands, even if the node has moved to another sponsor
\* in between (requestSponsor, RegisterWaiter, HandleRelayReply).
RepliesDelivered ==
  \A f \in Forwards : /\ runs[f] <= 1
                      /\ f \in answered /\ fwd[f].st = "waiting" => fwd[f].full
                      /\ fwd[f].st = "served" => runs[f] = 1

\* However many sponsors are gone, the node comes to poll one that answers, as
\* soon as the registry has the presence of its peers right, unless it knows
\* no such sponsor (StartRelayPolling, FirstOnlineSponsorSelector).
SponsorFound == []<>(polled \in alive \/ capable \cap alive = {})
=============================================================================
