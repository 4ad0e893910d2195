---------------------------- MODULE EventRouting ----------------------------
(***************************************************************************)
(* What happens to a market event after the ingestion peer has taken it:   *)
(* aws_ingestion looks up the peers of three capabilities one after the    *)
(* other, calls each of them with route_with_retries                       *)
(* (shared/runtime/service_runtime.py) and records the verdicts on the     *)
(* ledger.  Requests run in threads of the server's pool.                  *)
(*                                                                         *)
(* A call that times out is not undone: the target may still execute it,   *)
(* at any later time.  Ledger appends and discovery go through             *)
(* _request_json, which turns every failure into None.                     *)
(***************************************************************************)
EXTENDS Naturals, FiniteSets

CONSTANTS
    Thread,         \* threads serving POST /ingestion/messages
    Target,         \* the peers events are routed to
    Providers,      \* Providers[s]: the targets with the capability of stage s
    Retries,        \* attempts per target
    MaxEvents,      \* bound: events ingested
    MaxLost         \* bound: appends and discoveries that fail

\* detect_anomalies, store_market_events, compute_risk
Stage   == 1..3
Compute == 3
Event   == 1..MaxEvents

ASSUME RoutingAssumption ==
    /\ Providers \in [Stage -> SUBSET Target]
    /\ Retries \in Nat \ {0}
    /\ MaxEvents \in Nat /\ MaxLost \in Nat
    /\ Thread # {} /\ Target # {}

VARIABLES
    pc,             \* where each thread is
    job,            \* its local variables
    answer,         \* what the call it waits for has brought so far
    ingested,       \* events taken so far
    wire,           \* calls sent and not executed
    processed,      \* times each target executed each event at each stage
    blocks,         \* the ledger, as a set of [type, event, stage, target]
    outcome,        \* forwarded_events and routing_failures, by event
    undiscovered,   \* history: events for which a discovery failed
    lost            \* failed appends and discoveries so far

vars == <<pc, job, answer, ingested, wire, processed, blocks, outcome,
          undiscovered, lost>>

Job  == [event : 0..MaxEvents, stage : Stage, todo : SUBSET Target,
         target : Target, attempt : 1..Retries, failures : Nat]
Call == [event : Event, stage : Stage, target : Target, attempt : 1..Retries]
Type == {"market_event_ingested", "event_routed", "routing_failed"}
Block == [type : Type, event : Event, stage : Stage, target : Target]

TypeOK ==
    /\ pc \in [Thread -> {"idle", "ingested", "discover", "next", "call",
                          "waiting", "routed", "failed"}]
    /\ job \in [Thread -> Job]
    /\ answer \in [Thread -> {"none", "ok", "error"}]
    /\ ingested \in 0..MaxEvents
    /\ wire \subseteq Call
    /\ processed \in [Event \X Stage \X Target -> Nat]
    /\ blocks \subseteq Block
    /\ outcome \in [Event -> {"none", "forwarded", "failed"}]
    /\ undiscovered \subseteq Event
    /\ lost \in 0..MaxLost

NoTarget == CHOOSE t \in Target : TRUE

Init ==
    /\ pc = [t \in Thread |-> "idle"]
    /\ job = [t \in Thread |-> [event |-> 0, stage |-> 1, todo |-> {},
                                target |-> NoTarget, attempt |-> 1, failures |-> 0]]
    /\ answer = [t \in Thread |-> "none"]
    /\ ingested = 0
    /\ wire = {}
    /\ processed = [x \in Event \X Stage \X Target |-> 0]
    /\ blocks = {}
    /\ outcome = [e \in Event |-> "none"]
    /\ undiscovered = {}
    /\ lost = 0

Go(t, from, to) == pc[t] = from /\ pc' = [pc EXCEPT ![t] = to]

Lose == lost < MaxLost /\ lost' = lost + 1

\* append_ledger: the block is recorded, or the failure goes unnoticed.
AppendLedger(block) ==
    \/ blocks' = blocks \cup {block} /\ UNCHANGED lost
    \/ Lose /\ UNCHANGED blocks

Verdict(t, type) == [type |-> type, event |-> job[t].event,
                     stage |-> job[t].stage, target |-> job[t].target]

-----------------------------------------------------------------------------
(* The ingestion peer.                                                     *)

\* ingest_message up to the save.
Ingest(t) ==
    /\ ingested < MaxEvents
    /\ Go(t, "idle", "ingested")
    /\ ingested' = ingested + 1
    /\ job' = [job EXCEPT ![t] = [@ EXCEPT !.event = ingested + 1, !.stage = 1,
                                           !.failures = 0]]
    /\ UNCHANGED <<answer, wire, processed, blocks, outcome, undiscovered, lost>>

RecordIngested(t) ==
    /\ Go(t, "ingested", "discover")
    /\ AppendLedger([Verdict(t, "market_event_ingested") EXCEPT !.target = NoTarget])
    /\ UNCHANGED <<job, answer, ingested, wire, processed, outcome, undiscovered>>

\* peers_by_capability: the registry's answer, or no peer at all.
Discover(t) ==
    /\ Go(t, "discover", "next")
    /\ \/ /\ job' = [job EXCEPT ![t].todo = Providers[job[t].stage]]
          /\ UNCHANGED <<undiscovered, lost>>
       \/ /\ Lose
          /\ job' = [job EXCEPT ![t].todo = {}]
          /\ undiscovered' = undiscovered \cup {job[t].event}
    /\ UNCHANGED <<answer, ingested, wire, processed, blocks, outcome>>

NextPeer(t) ==
    /\ Go(t, "next", "call")
    /\ \E p \in job[t].todo :
           job' = [job EXCEPT ![t].target = p, ![t].attempt = 1, ![t].todo = @ \ {p}]
    /\ UNCHANGED <<answer, ingested, wire, processed, blocks, outcome,
                   undiscovered, lost>>

NextStage(t) ==
    /\ job[t].todo = {} /\ job[t].stage < Compute
    /\ Go(t, "next", "discover")
    /\ job' = [job EXCEPT ![t].stage = @ + 1]
    /\ UNCHANGED <<answer, ingested, wire, processed, blocks, outcome,
                   undiscovered, lost>>

\* route_event returns or raises; _forward_event counts one or the other.
Finish(t) ==
    /\ job[t].todo = {} /\ job[t].stage = Compute
    /\ Go(t, "next", "idle")
    /\ outcome' = [outcome EXCEPT ![job[t].event] =
                      IF job[t].failures = 0 THEN "forwarded" ELSE "failed"]
    /\ UNCHANGED <<job, answer, ingested, wire, processed, blocks,
                   undiscovered, lost>>

CallOf(t) == [event |-> job[t].event, stage |-> job[t].stage,
              target |-> job[t].target, attempt |-> job[t].attempt]

Send(t) ==
    /\ Go(t, "call", "waiting")
    /\ wire' = wire \cup {CallOf(t)}
    /\ UNCHANGED <<job, answer, ingested, processed, blocks, outcome,
                   undiscovered, lost>>

\* Mutant: any answer at all is taken for a success (no raise_for_status).
SucceedsUnchecked(t) ==
    /\ answer[t] # "none"
    /\ Go(t, "waiting", IF job[t].stage = Compute THEN "next" ELSE "routed")
    /\ answer' = [answer EXCEPT ![t] = "none"]
    /\ UNCHANGED <<job, ingested, wire, processed, blocks, outcome,
                   undiscovered, lost>>

Succeeds(t) ==
    /\ answer[t] = "ok"
    /\ Go(t, "waiting", IF job[t].stage = Compute THEN "next" ELSE "routed")
    /\ answer' = [answer EXCEPT ![t] = "none"]
    /\ UNCHANGED <<job, ingested, wire, processed, blocks, outcome,
                   undiscovered, lost>>

\* Mutant: range(retries + 1).
AttemptFailsOnceMore(t) ==
    /\ answer[t] # "ok"
    /\ \/ /\ job[t].attempt <= Retries
          /\ Go(t, "waiting", "call")
          /\ job' = [job EXCEPT ![t].attempt = @ + 1]
       \/ /\ job[t].attempt > Retries
          /\ Go(t, "waiting", "failed")
          /\ UNCHANGED job
    /\ answer' = [answer EXCEPT ![t] = "none"]
    /\ UNCHANGED <<ingested, wire, processed, blocks, outcome, undiscovered, lost>>

\* Mutant: an error answer ends the request, only timeouts are retried, and
\* there is no end to them.
AttemptFailsForever(t) ==
    /\ answer[t] # "ok"
    /\ \/ /\ answer[t] = "none"
          /\ Go(t, "waiting", "call")
          /\ UNCHANGED job
       \/ /\ answer[t] = "error"
          /\ Go(t, "waiting", "failed")
          /\ UNCHANGED job
    /\ answer' = [answer EXCEPT ![t] = "none"]
    /\ UNCHANGED <<ingested, wire, processed, blocks, outcome, undiscovered, lost>>

\* An error status, a lost connection or the client's timeout: back off and
\* try again, or give up.
AttemptFails(t) ==
    /\ answer[t] # "ok"
    /\ \/ /\ job[t].attempt < Retries
          /\ Go(t, "waiting", "call")
          /\ job' = [job EXCEPT ![t].attempt = @ + 1]
       \/ /\ job[t].attempt = Retries
          /\ Go(t, "waiting", "failed")
          /\ UNCHANGED job
    /\ answer' = [answer EXCEPT ![t] = "none"]
    /\ UNCHANGED <<ingested, wire, processed, blocks, outcome, undiscovered, lost>>

RecordRouted(t) ==
    /\ Go(t, "routed", "next")
    /\ AppendLedger(Verdict(t, "event_routed"))
    /\ UNCHANGED <<job, answer, ingested, wire, processed, outcome, undiscovered>>

\* Mutant: the failures of the compute stage are not counted, it being
\* "fire-and-forget".
RecordFailedUncounted(t) ==
    /\ Go(t, "failed", "next")
    /\ AppendLedger(Verdict(t, "routing_failed"))
    /\ job' = [job EXCEPT ![t].failures = IF job[t].stage = Compute THEN @ ELSE @ + 1]
    /\ UNCHANGED <<answer, ingested, wire, processed, outcome, undiscovered>>

RecordFailed(t) ==
    /\ Go(t, "failed", "next")
    /\ AppendLedger(Verdict(t, "routing_failed"))
    /\ job' = [job EXCEPT ![t].failures = @ + 1]
    /\ UNCHANGED <<answer, ingested, wire, processed, outcome, undiscovered>>

-----------------------------------------------------------------------------
(* The targets and the network.                                            *)

\* The call leaves the wire; a thread that still waits for it gets the answer.
Deliver(c, what) ==
    /\ wire' = wire \ {c}
    /\ answer' = [t \in Thread |-> IF pc[t] = "waiting" /\ CallOf(t) = c
                                   THEN what ELSE answer[t]]
    /\ UNCHANGED <<pc, job, ingested, blocks, outcome, undiscovered, lost>>

Executed(c) == processed' = [processed EXCEPT ![<<c.event, c.stage, c.target>>] = @ + 1]

\* The target does the work, and its answer is a success, or an error raised
\* after the work (a failed save), or lost.
Execute(c) ==
    /\ Executed(c)
    /\ \E what \in {"ok", "error", "none"} : Deliver(c, what)

\* The target refuses (no portfolio, a bad request), or the call is lost.
Refuse(c) ==
    /\ \E what \in {"error", "none"} : Deliver(c, what)
    /\ UNCHANGED processed

Step(t) == \/ RecordIngested(t) \/ Discover(t) \/ NextPeer(t) \/ NextStage(t)
           \/ Finish(t) \/ Send(t) \/ Succeeds(t) \/ AttemptFails(t)
           \/ RecordRouted(t) \/ RecordFailed(t)

Next == \/ \E t \in Thread : Ingest(t) \/ Step(t)
        \/ \E c \in wire : Execute(c) \/ Refuse(c)

Spec == Init /\ [][Next]_vars

\* Threads keep running: every wait ends with an answer or the timeout.
FairSpec == Spec /\ \A t \in Thread : WF_vars(Step(t))

-----------------------------------------------------------------------------
(* What must hold.                                                         *)

\* However late timed-out calls are executed, a target works on an event at
\* most as often as there are attempts, per stage it serves.
BoundedDuplication ==
    \A e \in Event, s \in Stage, p \in Target :
        processed[<<e, s, p>>]
          + Cardinality({c \in wire : c.event = e /\ c.stage = s /\ c.target = p})
        <= Retries

\* The ledger never claims a delivery that did not happen, and never claims
\* both that an event reached a target and that routing to it failed.
VerdictsAreTrue ==
    \A b \in blocks : b.type = "event_routed" =>
        /\ processed[<<b.event, b.stage, b.target>>] > 0
        /\ [b EXCEPT !.type = "routing_failed"] \notin blocks

\* An event counted in forwarded_events has been executed by every peer the
\* overlay offers for every stage, unless discovery failed for it, and the
\* ledger holds no failure for it.
ForwardedReachedAll ==
    \A e \in Event : outcome[e] = "forwarded" =>
        /\ e \in undiscovered
              \/ \A s \in Stage : \A p \in Providers[s] : processed[<<e, s, p>>] > 0
        /\ \A b \in blocks : b.event = e => b.type # "routing_failed"

\* Routing an event always comes to an end, with every target dead or silent.
RoutingEnds == \A t \in Thread : pc[t] # "idle" ~> pc[t] = "idle"

=============================================================================
