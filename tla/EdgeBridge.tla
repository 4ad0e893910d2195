----------------------------- MODULE EdgeBridge -----------------------------
(***************************************************************************)
(* MqttIngestionBridge (iot/bridge.py) over MqttSubscriber                 *)
(* (iot/mqtt_client.py), started and stopped by iot/main.py: publishers    *)
(* send market messages to a broker, the bridge takes them from its        *)
(* subscription one at a time and posts each to ingestion.                 *)
(*                                                                         *)
(* paho, the broker and ingestion are modelled by what the bridge relies   *)
(* on: one network thread that runs the callbacks and reconnects by        *)
(* itself, a session that ends with its connection, an HTTP client that    *)
(* gives up after request_timeout while the request may still be served.   *)
(* An exception that escapes a callback ends the network thread; the       *)
(* process and its /health go on without it.                               *)
(*                                                                         *)
(* Each counter is its own statement of a callback, and a thread of the    *)
(* server's pool that answers /health reads them one by one meanwhile.     *)
(***************************************************************************)
EXTENDS Naturals, FiniteSetsExt, SequencesExt

CONSTANTS MaxMessages, MaxResends,  \* bounds: messages published, sent again,
          MaxQueue,                 \* messages the broker holds for the bridge,
          MaxLinkLosses, MaxStops   \* connections lost, ends of the process

ASSUME BoundsAssumption ==
    {MaxMessages, MaxResends, MaxQueue, MaxLinkLosses, MaxStops} \subseteq Nat

\* "unparsable" is what json.loads rejects with JSONDecodeError or what is no
\* UTF-8; "raising" what it rejects otherwise: an integer of too many digits with
\* a plain ValueError, deep nesting with RecursionError.
Kind == {"valid", "invalid", "unparsable", "raising"}

VARIABLES
    published,      \* what was published: the kind of each message, in order
    copies,         \* history: how often each was sent to the broker
    queue,          \* messages the broker holds for the bridge
    process,        \* "down", "started", "failed": up, but start() raised, or
                    \* "dead": up, but its network thread has ended
    link,           \* whether the bridge's client is connected
    subscription,   \* "no", "asked" (SUBSCRIBE on its way), "yes"
    phase,          \* where the callback is: "idle" without one; the kind of its
                    \* message; "counted" when _handle_message is about to return
    current,        \* the POST the callback waits for, or NoPost
    stats,          \* the counters of /health
    report, read,   \* what a request for /health has read, and how many counters
                    \* (bound: one request per life of the process)
    inflight,       \* POSTs on their way to ingestion
    ingested,       \* POSTs ingestion has taken, in order
    deliveries,     \* history: messages taken from the queue, by any process
    before,         \* history: how many of them by earlier processes
    givenUp,        \* history: POSTs counted as failed
    cut,            \* history: POSTs a stop of the process interrupted
    takenBefore,    \* history: POSTs of this process ingested when the report began
    linkLosses, stops   \* counters of the bounds

broker  == <<published, copies>>
session == <<link, subscription>>
answer  == <<report, read, takenBefore>>
history == <<deliveries, before, givenUp, cut>>
bounds  == <<linkLosses, stops>>
vars    == <<broker, queue, process, session, phase, current, stats, answer, inflight,
             ingested, history, bounds>>

Message == [id : 1..MaxMessages, kind : Kind]
Post    == [id : 1..MaxMessages, delivery : Nat]
NoPost  == [id |-> 0, delivery |-> 0]
Counter == {"received", "handled", "errors", "forwarded", "failures", "invalid"}
Zero    == [c \in Counter |-> 0]

\* The order in which an answer reads the counters: the subscriber's before the
\* bridge's own.
Reported == <<"received", "handled", "errors", "forwarded", "failures", "invalid">>

\* What ingestion took of this process's POSTs, by place.
Taken == {i \in DOMAIN ingested : ingested[i].delivery > before}

TypeOK ==
    /\ published \in Seq(Kind) /\ copies \in [1..MaxMessages -> Nat]
    /\ queue \in Seq(Message)
    /\ process \in {"down", "started", "failed", "dead"}
    /\ link \in BOOLEAN /\ subscription \in {"no", "asked", "yes"}
    /\ phase \in Kind \cup {"idle", "counted"} /\ current \in Post \cup {NoPost}
    /\ stats \in [Counter -> Nat]
    /\ report \in [Counter -> Nat] /\ read \in 0..Len(Reported) /\ takenBefore \in Nat
    /\ inflight \subseteq Post /\ ingested \in Seq(Post)
    /\ givenUp \cup cut \subseteq 1..deliveries
    /\ {deliveries, before, linkLosses, stops} \subseteq Nat

Init ==
    /\ published = <<>> /\ copies = [n \in 1..MaxMessages |-> 0]
    /\ queue = <<>>
    /\ process = "down" /\ link = FALSE /\ subscription = "no"
    /\ phase = "idle" /\ current = NoPost /\ stats = Zero
    /\ report = Zero /\ read = 0 /\ takenBefore = 0
    /\ inflight = {} /\ ingested = <<>>
    /\ deliveries = 0 /\ before = 0 /\ givenUp = {} /\ cut = {}
    /\ linkLosses = 0 /\ stops = 0

Counted(counter) == stats' = [stats EXCEPT ![counter] = @ + 1]

-----------------------------------------------------------------------------
(* Publishers and the broker.  A message is kept only for a live           *)
(* subscription and while there is room.                                   *)

Route(n, kind) ==
    /\ copies' = [copies EXCEPT ![n] = @ + 1]
    /\ queue' = IF subscription = "yes" /\ Len(queue) < MaxQueue
                THEN Append(queue, [id |-> n, kind |-> kind]) ELSE queue
    /\ UNCHANGED <<process, session, phase, current, stats, answer, inflight, ingested,
                   history, bounds>>

Publish(kind) ==
    /\ Len(published) < MaxMessages
    /\ published' = Append(published, kind)
    /\ Route(Len(published) + 1, kind)

\* A publisher that lost its connection before the PUBACK sends again (QoS 1).
Resend(n) ==
    /\ Cardinality({k \in DOMAIN published : copies[k] > 1}) < MaxResends
    /\ published' = published
    /\ Route(n, published[n])

BrokerSubscribes ==
    /\ subscription = "asked"
    /\ subscription' = "yes"
    /\ UNCHANGED <<broker, queue, process, link, phase, current, stats, answer, inflight,
                   ingested, history, bounds>>

-----------------------------------------------------------------------------
(* The process and its connection.                                         *)

Start ==
    /\ process = "down"
    /\ process' \in {"started", "failed"}
    /\ stats' = Zero /\ before' = deliveries
    /\ report' = Zero /\ read' = 0 /\ takenBefore' = 0
    /\ UNCHANGED <<broker, queue, session, phase, current, inflight, ingested, deliveries,
                   givenUp, cut, bounds>>

\* Mutant: subscribes after the first connection only.
OnConnectFirst ==
    /\ process = "started" /\ ~link /\ phase = "idle"
    /\ link' = TRUE
    /\ subscription' = IF linkLosses = 0 THEN "asked" ELSE "no"
    /\ UNCHANGED <<broker, queue, process, phase, current, stats, answer, inflight,
                   ingested, history, bounds>>

\* The network thread connects (again), which it does between callbacks.  A
\* CONNACK with a failure code changes nothing.
OnConnect ==
    /\ process = "started" /\ ~link /\ phase = "idle"
    /\ link' = TRUE
    /\ subscription' = "asked"
    /\ UNCHANGED <<broker, queue, process, phase, current, stats, answer, inflight,
                   ingested, history, bounds>>

\* Mutant: the session survives and the message without an acknowledgement is
\* delivered again.
EndSessionKept ==
    /\ link' = FALSE /\ subscription' = "no"
    /\ queue' = IF current # NoPost
                THEN <<[id |-> current.id, kind |-> "valid"]>> \o queue ELSE queue

\* The connection ends and the session with it, what the broker held included.
EndSession == link' = FALSE /\ subscription' = "no" /\ queue' = <<>>

LinkLost ==
    /\ link
    /\ linkLosses < MaxLinkLosses
    /\ linkLosses' = linkLosses + 1
    /\ EndSession
    /\ UNCHANGED <<broker, process, phase, current, stats, answer, inflight, ingested,
                   history, stops>>

\* The lifespan ends: loop_stop waits for the callback, then disconnects.
Stop ==
    /\ process # "down" /\ phase = "idle"
    /\ stops < MaxStops
    /\ stops' = stops + 1
    /\ process' = "down"
    /\ EndSession
    /\ UNCHANGED <<broker, phase, current, stats, answer, inflight, ingested, history,
                   linkLosses>>

Kill ==
    /\ process # "down"
    /\ stops < MaxStops
    /\ stops' = stops + 1
    /\ process' = "down"
    /\ EndSession
    /\ cut' = cut \cup ({current.delivery} \ {0})
    /\ phase' = "idle" /\ current' = NoPost
    /\ UNCHANGED <<broker, stats, answer, inflight, ingested, deliveries, before, givenUp,
                   linkLosses>>

-----------------------------------------------------------------------------
(* _on_message and _handle_message, in the network thread.                 *)

\* Mutant: the POST is handed to another thread and not waited for.
DeliverConcurrently(kind) ==
    /\ process = "started" /\ link
    /\ queue # <<>> /\ Head(queue).kind = kind
    /\ queue' = Tail(queue)
    /\ deliveries' = deliveries + 1
    /\ Counted("received")
    /\ phase' = kind
    /\ UNCHANGED <<broker, process, session, answer, ingested, before, givenUp, cut, bounds>>

Deliver(kind) ==
    /\ process = "started" /\ link /\ phase = "idle"
    /\ queue # <<>> /\ Head(queue).kind = kind
    /\ queue' = Tail(queue)
    /\ deliveries' = deliveries + 1
    /\ Counted("received")
    /\ phase' = kind
    /\ UNCHANGED <<broker, process, session, answer, ingested, before, givenUp, cut, bounds>>

\* A valid message is posted right away.
DeliverValid ==
    /\ Deliver("valid")
    /\ current' = [id |-> Head(queue).id, delivery |-> deliveries + 1]
    /\ inflight' = inflight \cup {current'}

DeliverOther ==
    /\ \E kind \in Kind \ {"valid"} : Deliver(kind)
    /\ UNCHANGED <<current, inflight>>

\* A counter is counted and the callback goes on.
Move(from, counter, to) ==
    /\ phase = from /\ phase' = to
    /\ Counted(counter)
    /\ UNCHANGED <<broker, queue, process, session, answer, ingested, deliveries, before,
                   cut, bounds>>

CountUnparsable == /\ Move("unparsable", "errors", "idle")
                   /\ UNCHANGED <<current, inflight, givenUp>>
CountInvalid    == /\ Move("invalid", "invalid", "counted")
                   /\ UNCHANGED <<current, inflight, givenUp>>
CountHandled    == /\ Move("counted", "handled", "idle")
                   /\ UNCHANGED <<current, inflight, givenUp>>

\* json.loads raises what _on_message does not catch.
Raise ==
    /\ phase = "raising" /\ phase' = "idle"
    /\ process' = "dead"
    /\ UNCHANGED <<broker, queue, session, current, stats, answer, inflight, ingested,
                   history, bounds>>

Return(counter) == Move("valid", counter, "counted") /\ current' = NoPost

Forwarded ==
    /\ current \in ToSet(ingested)
    /\ Return("forwarded")
    /\ UNCHANGED <<inflight, givenUp>>

GiveUp == Return("failures") /\ givenUp' = givenUp \cup {current.delivery}

\* The request does not reach ingestion.
Refused ==
    /\ current \in inflight
    /\ GiveUp
    /\ inflight' = inflight \ {current}

\* Ingestion took the message and answers with an error.
AnsweredWithError ==
    /\ current \in ToSet(ingested)
    /\ GiveUp
    /\ UNCHANGED inflight

\* No answer within request_timeout; the request stays on its way.
TimedOut ==
    /\ GiveUp
    /\ UNCHANGED inflight

\* Mutant: an answer to /health reads the bridge's own counters first.
ReadOwnFirst ==
    /\ process # "down" /\ read < Len(Reported)
    /\ read' = read + 1
    /\ LET counter == Reported[IF read < 3 THEN read + 4 ELSE read - 2]
       IN  report' = [report EXCEPT ![counter] = stats[counter]]
    /\ takenBefore' = IF read = 0 THEN Cardinality(Taken) ELSE takenBefore
    /\ UNCHANGED <<broker, queue, process, session, phase, current, stats, inflight,
                   ingested, history, bounds>>

\* An answer to /health reads the next counter.
ReadCounter ==
    /\ process # "down" /\ read < Len(Reported)
    /\ read' = read + 1
    /\ LET counter == Reported[read + 1]
       IN  report' = [report EXCEPT ![counter] = stats[counter]]
    /\ takenBefore' = IF read = 0 THEN Cardinality(Taken) ELSE takenBefore
    /\ UNCHANGED <<broker, queue, process, session, phase, current, stats, inflight,
                   ingested, history, bounds>>

-----------------------------------------------------------------------------
(* Ingestion.  A request nobody waits for may still be served, or not.     *)

Ingest(r) ==
    /\ ingested' = Append(ingested, r)
    /\ inflight' = inflight \ {r}
    /\ UNCHANGED <<broker, queue, process, session, phase, current, stats, answer, history,
                   bounds>>

Vanish(r) ==
    /\ r # current
    /\ inflight' = inflight \ {r}
    /\ UNCHANGED <<broker, queue, process, session, phase, current, stats, answer, ingested,
                   history, bounds>>

Callback == DeliverValid \/ DeliverOther
Count    == CountUnparsable \/ CountInvalid \/ CountHandled
Finish   == Forwarded \/ Refused \/ AnsweredWithError \/ TimedOut

Next ==
    \/ \E kind \in Kind : Publish(kind)
    \/ \E n \in DOMAIN published : Resend(n)
    \/ BrokerSubscribes
    \/ Start \/ OnConnect \/ LinkLost \/ Stop \/ Kill
    \/ Callback \/ Count \/ Raise \/ Finish \/ ReadCounter
    \/ \E r \in inflight : Ingest(r) \/ Vanish(r)

Spec == Init /\ [][Next]_vars

\* paho's thread reconnects and runs callbacks to their ends, the broker
\* subscribes, and a POST ends: each of its waits does, at the latest by the timeout.
FairSpec ==
    /\ Spec
    /\ WF_vars(OnConnect) /\ WF_vars(BrokerSubscribes)
    /\ WF_vars(Callback) /\ WF_vars(Count) /\ WF_vars(Raise) /\ WF_vars(TimedOut)

-----------------------------------------------------------------------------
(* What must hold.                                                         *)

\* The bridge waits for the answer of one POST before the next message, and a
\* session ends with its connection: ingestion takes a message after a later
\* one only if the bridge had counted it as failed, or was stopped over it.
OvertakenWasGivenUp ==
    \A i, j \in DOMAIN ingested :
        i < j /\ ingested[j].delivery < ingested[i].delivery
            => ingested[j].delivery \in givenUp \cup cut

\* The bridge never posts again what it gave up on: ingestion, which does not
\* recognise duplicates, takes a message at most as often as its publisher
\* sent it.
NoDuplicateOfItsOwn ==
    \A n \in 1..MaxMessages :
        Cardinality({i \in DOMAIN ingested : ingested[i].id = n}) <= copies[n]

\* A whole answer of /health, though its counters are read one by one while
\* messages come in: of the messages received when it began all but one are
\* handled or in error; what is handled is forwarded, failed or invalid; nothing
\* is counted that was not delivered.  Ingestion has taken all that counts as
\* forwarded, and what it had taken when the answer began, but for one POST, is
\* counted as forwarded or as failed.
ReportBoundsTheTruth ==
    process # "down" /\ read = Len(Reported) =>
        LET outcomes == report["forwarded"] + report["failures"] + report["invalid"]
        IN  /\ report["received"] <= report["handled"] + report["errors"] + 1
            /\ report["handled"] <= outcomes
            /\ outcomes + report["errors"] <= deliveries - before
            /\ report["forwarded"] <= Cardinality(Taken)
            /\ takenBefore <= report["forwarded"] + report["failures"] + 1

\* A started bridge ends up subscribed, whatever connections it lost, and works
\* off what the broker holds, even if ingestion never answers: as long as no
\* message ends its network thread, after which nothing does until a restart.
BridgeCatchesUp ==
    []<>(process = "started" =>
             subscription = "yes" /\ queue = <<>> /\ phase = "idle")

=============================================================================
