-------------------------- MODULE EdgeBridgeProofs --------------------------
(***************************************************************************)
(* Theorems about EdgeBridge, for any number of messages, lost connections *)
(* and stops.                                                              *)
(***************************************************************************)
EXTENDS EdgeBridge, SequenceTheorems, FiniteSetTheorems, TLAPS

-----------------------------------------------------------------------------
(* Types.                                                                  *)

\* TypeOK is kept because messages are numbered within the bound, and because
\* the POST the callback waits for is that of the last delivery; it waits for one
\* just while it handles a valid message, and has a network thread to wait in.
CallbackInv ==
    /\ phase = "valid" <=> current # NoPost
    /\ current # NoPost => current.delivery = deliveries /\ deliveries # 0
    /\ phase # "idle" => process = "started"

TypeInv == TypeOK /\ CallbackInv /\ Len(published) <= MaxMessages

\* An answer reads six counters.
LEMMA SixCounters ==
    /\ Len(Reported) = 6 /\ \A i \in 1..6 : Reported[i] \in Counter
    /\ Reported[1] = "received" /\ Reported[2] = "handled"
BY DEF Reported, Counter

\* The initial state is well typed.
LEMMA InitTypeInv == Init => TypeInv
<1> SUFFICES ASSUME Init PROVE TypeInv
    OBVIOUS
<1>1. /\ published \in Seq(Kind) /\ Len(published) = 0
      /\ queue \in Seq(Message) /\ ingested \in Seq(Post)
    BY EmptySeq DEF Init
<1>2. MaxMessages \in Nat
    BY BoundsAssumption
<1>3. CallbackInv
    BY DEF Init, CallbackInv
<1>4. /\ copies \in [1..MaxMessages -> Nat] /\ stats \in [Counter -> Nat]
      /\ report \in [Counter -> Nat]
    BY DEF Init, Zero
<1>5. Len(published) <= MaxMessages
    BY <1>1, <1>2
<1>6. /\ current = NoPost /\ inflight = {} /\ givenUp \cup cut = {}
      /\ deliveries = 0 /\ before = 0 /\ linkLosses = 0 /\ stops = 0
      /\ process = "down" /\ link = FALSE /\ subscription = "no"
      /\ phase = "idle" /\ read = 0 /\ takenBefore = 0
    BY DEF Init
<1>7. TypeOK
    <2>1. givenUp \cup cut \subseteq 1..deliveries
        BY <1>6
    <2>2. {deliveries, before, linkLosses, stops} \subseteq Nat
        BY <1>6
    <2>3. current \in Post \cup {NoPost} /\ inflight \subseteq Post
        BY <1>6
    <2>4. /\ process \in {"down", "started", "failed", "dead"}
          /\ link \in BOOLEAN /\ subscription \in {"no", "asked", "yes"}
          /\ phase \in Kind \cup {"idle", "counted"}
        BY <1>6
    <2>5. read \in 0..Len(Reported) /\ takenBefore \in Nat
        BY <1>6, SixCounters
    <2> QED  BY <1>1, <1>4, <2>1, <2>2, <2>3, <2>4, <2>5 DEF TypeOK
<1> QED  BY <1>3, <1>5, <1>7 DEF TypeInv

\* A publication is counted, and queued or lost.
LEMMA RouteKeepsTypes ==
    ASSUME TypeInv, NEW n \in 1..MaxMessages, NEW kind \in Kind, Route(n, kind),
           published' \in Seq(Kind), Len(published') <= MaxMessages
    PROVE  TypeInv'
<1> USE DEF TypeInv, TypeOK
<1>1. copies' \in [1..MaxMessages -> Nat]
    <2>1. copies \in [1..MaxMessages -> Nat] /\ copies' = [copies EXCEPT ![n] = @ + 1]
        BY DEF Route
    <2>2. copies[n] + 1 \in Nat
        BY <2>1
    <2> QED  BY <2>1, <2>2
<1>2. [id |-> n, kind |-> kind] \in Message
    BY DEF Message
<1>3. queue' \in Seq(Message)
    BY <1>2, AppendProperties DEF Route
<1>4. CallbackInv'
    BY DEF Route, history, CallbackInv
<1> QED  BY <1>1, <1>3, <1>4 DEF Route, session, answer, history, bounds

\* A counter is counted alone.
LEMMA CountedEffect ==
    ASSUME TypeInv, NEW counter \in Counter, Counted(counter)
    PROVE  /\ stats' \in [Counter -> Nat]
           /\ \A c \in Counter : /\ stats[c] \in Nat
                                 /\ stats'[c] = stats[c] + IF c = counter THEN 1 ELSE 0
<1>1. stats \in [Counter -> Nat] /\ stats[counter] + 1 \in Nat
    BY DEF TypeInv, TypeOK
<1>2. stats' = [stats EXCEPT ![counter] = stats[counter] + 1]
    BY DEF Counted
<1> QED  BY <1>1, <1>2

\* Those of this process's POSTs at ingestion that the bridge was told of, and
\* the deliveries it counted as failed.
Confirmed == {i \in Taken : ingested[i].delivery \notin givenUp \cup {current.delivery}}
Failed    == {d \in givenUp : d > before}

Waiting == IF current = NoPost THEN 0 ELSE 1

\* The sets are finite.
LEMMA CountedFinite ==
    ASSUME TypeInv
    PROVE  /\ IsFiniteSet(Taken) /\ IsFiniteSet(Confirmed) /\ IsFiniteSet(Failed)
           /\ Cardinality(Taken) \in Nat /\ Cardinality(Confirmed) \in Nat
           /\ Cardinality(Failed) \in Nat
<1>1. ingested \in Seq(Post) /\ givenUp \subseteq 1..deliveries /\ deliveries \in Nat
    BY DEF TypeInv, TypeOK
<1>2. DOMAIN ingested = 1..Len(ingested) /\ Len(ingested) \in Nat
    BY <1>1, LenProperties
<1>3. IsFiniteSet(1..Len(ingested)) /\ IsFiniteSet(1..deliveries)
    BY <1>1, <1>2, FS_Interval
<1>4. /\ Taken \subseteq 1..Len(ingested) /\ Confirmed \subseteq 1..Len(ingested)
      /\ Failed \subseteq 1..deliveries
    BY <1>1, <1>2 DEF Taken, Confirmed, Failed
<1>5. IsFiniteSet(Taken) /\ IsFiniteSet(Confirmed) /\ IsFiniteSet(Failed)
    BY <1>3, <1>4, FS_Subset
<1> QED  BY <1>5, FS_CardinalityType

\* A delivery takes a message off the queue and is numbered.
LEMMA DeliverTypes ==
    ASSUME TypeInv, NEW kind \in Kind, Deliver(kind)
    PROVE  /\ Head(queue) \in Message
           /\ queue' \in Seq(Message)
           /\ deliveries' \in Nat /\ deliveries' = deliveries + 1
           /\ (givenUp \cup cut)' \subseteq 1..deliveries'
<1>1. queue \in Seq(Message) /\ queue # <<>>
    BY DEF TypeInv, TypeOK, Deliver
<1>2. Head(queue) \in Message /\ Tail(queue) \in Seq(Message)
    BY <1>1, HeadTailProperties
<1>3. deliveries \in Nat /\ givenUp \cup cut \subseteq 1..deliveries
    BY DEF TypeInv, TypeOK
<1> QED  BY <1>2, <1>3 DEF Deliver

\* A POST that ends was one of the deliveries.
LEMMA MoveKeepsTypes ==
    ASSUME TypeInv, NEW from \in Kind \cup {"counted"}, NEW counter \in Counter,
           NEW to \in {"idle", "counted"},
           Move(from, counter, to), current' = NoPost, inflight' \subseteq inflight,
           \/ givenUp' = givenUp
           \/ current # NoPost /\ givenUp' = givenUp \cup {current.delivery}
    PROVE  TypeInv'
<1> USE DEF TypeInv, TypeOK
<1>1. stats' \in [Counter -> Nat]
    BY CountedEffect DEF Move
<1>2. phase' = to /\ UNCHANGED <<process, deliveries, cut>>
    BY DEF Move
<1>3. current # NoPost => current.delivery \in 1..deliveries
    BY DEF CallbackInv
<1>4. (givenUp \cup cut)' \subseteq 1..deliveries'
    BY <1>2, <1>3
<1>5. process = "started"
    BY DEF Move, CallbackInv, Kind
<1>6. CallbackInv'
    BY <1>2, <1>5 DEF CallbackInv
<1> QED  BY <1>1, <1>2, <1>4, <1>6 DEF Move, broker, session, answer, bounds

\* No step breaks the types.
LEMMA StepTypeInv == TypeInv /\ [Next]_vars => TypeInv'
<1> SUFFICES ASSUME TypeInv, [Next]_vars PROVE TypeInv'
    OBVIOUS
<1> USE DEF TypeInv, TypeOK
<1>max. MaxMessages \in Nat
    BY BoundsAssumption
<1>1. ASSUME NEW kind \in Kind, Publish(kind) PROVE TypeInv'
    <2>1. Len(published) \in Nat
        BY LenProperties
    <2>2. /\ published' \in Seq(Kind) /\ Len(published') = Len(published) + 1
        BY <1>1, AppendProperties DEF Publish
    <2>3. Len(published) + 1 \in 1..MaxMessages
        BY <1>1, <1>max, <2>1 DEF Publish
    <2>4. Len(published') <= MaxMessages /\ Route(Len(published) + 1, kind)
        BY <1>1, <2>2, <2>3 DEF Publish
    <2> QED  BY <2>2, <2>3, <2>4, RouteKeepsTypes
<1>2. ASSUME NEW n \in DOMAIN published, Resend(n) PROVE TypeInv'
    <2>1. n \in 1..Len(published) /\ published[n] \in Kind
        BY ElementOfSeq, LenProperties
    <2>2. n \in 1..MaxMessages
        BY <2>1, <1>max, LenProperties
    <2> QED  BY <1>2, <2>1, <2>2, RouteKeepsTypes DEF Resend
<1>3. CASE BrokerSubscribes
    BY <1>3 DEF BrokerSubscribes, broker, answer, history, bounds, CallbackInv
<1>4. CASE Start
    <2>1. /\ stats' \in [Counter -> Nat] /\ report' \in [Counter -> Nat]
          /\ read' = 0 /\ takenBefore' = 0 /\ before' = deliveries
          /\ process' \in {"down", "started", "failed", "dead"} /\ process = "down"
          /\ UNCHANGED <<broker, queue, session, phase, current, inflight, ingested,
                         deliveries, givenUp, cut, bounds>>
        BY <1>4 DEF Start, Zero
    <2>2. read' \in 0..Len(Reported)
        BY <2>1, SixCounters
    <2>3. phase = "idle"
        BY <2>1 DEF CallbackInv
    <2>4. CallbackInv'
        BY <2>1, <2>3 DEF CallbackInv
    <2> QED  BY <2>1, <2>2, <2>4 DEF broker, session, bounds
<1>5. CASE OnConnect
    BY <1>5 DEF OnConnect, broker, answer, history, bounds, CallbackInv
<1>ended. ASSUME EndSession
          PROVE  queue' \in Seq(Message) /\ link' \in BOOLEAN /\ subscription' = "no"
    BY <1>ended, EmptySeq DEF EndSession
<1>6. CASE LinkLost
    BY <1>6, <1>ended DEF LinkLost, broker, answer, history, CallbackInv
<1>7. CASE Stop
    BY <1>7, <1>ended DEF Stop, broker, answer, history, CallbackInv
<1>8. CASE Kill
    <2>1. current # NoPost => current.delivery \in 1..deliveries
        BY DEF CallbackInv
    <2>2. current = NoPost => current.delivery = 0
        BY DEF NoPost
    <2>3. (givenUp \cup cut)' \subseteq 1..deliveries'
        BY <1>8, <2>1, <2>2 DEF Kill
    <2>4. CallbackInv'
        BY <1>8 DEF Kill, CallbackInv
    <2> QED  BY <1>8, <1>ended, <2>3, <2>4 DEF Kill, broker, answer
<1>9. CASE DeliverOther
    <2>1. PICK kind \in Kind \ {"valid"} : Deliver(kind)
        BY <1>9 DEF DeliverOther
    <2>2. /\ phase = "idle" /\ phase' = kind /\ process = "started"
          /\ UNCHANGED <<process, current, inflight>>
        BY <1>9, <2>1 DEF DeliverOther, Deliver
    <2>3. CallbackInv'
        BY <2>1, <2>2 DEF CallbackInv
    <2>4. stats' \in [Counter -> Nat]
        BY <2>1, CountedEffect DEF Deliver, Counter
    <2> QED
        BY <2>1, <2>2, <2>3, <2>4, DeliverTypes DEF Deliver, broker, session, answer, bounds
<1>10. CASE DeliverValid
    <2>1. Deliver("valid") /\ "valid" \in Kind
        BY <1>10 DEF DeliverValid, Kind
    <2>2. stats' \in [Counter -> Nat]
        BY <2>1, CountedEffect DEF Deliver, Counter
    <2>3. Head(queue) \in Message /\ deliveries + 1 \in Nat /\ deliveries' # 0
        BY <2>1, DeliverTypes
    <2>4. current' \in Post /\ current' # NoPost /\ current'.delivery = deliveries'
        BY <1>10, <2>1, <2>3 DEF DeliverValid, Deliver, Message, Post, NoPost
    <2>5. inflight' \subseteq Post
        BY <1>10, <2>4 DEF DeliverValid
    <2>6. phase' = "valid" /\ process' = "started"
        BY <2>1 DEF Deliver
    <2>7. CallbackInv'
        BY <2>3, <2>4, <2>6 DEF CallbackInv
    <2> QED
        BY <2>1, <2>2, <2>4, <2>5, <2>6, <2>7, DeliverTypes
        DEF Deliver, broker, session, answer, bounds
<1>11. CASE Count
    <2>1. ASSUME CountUnparsable PROVE TypeInv'
        <3>1. /\ Move("unparsable", "errors", "idle") /\ phase = "unparsable"
              /\ UNCHANGED <<current, inflight, givenUp>>
            BY <2>1 DEF CountUnparsable, Move
        <3>2. current' = NoPost
            BY <3>1 DEF CallbackInv
        <3> QED  BY <3>1, <3>2, MoveKeepsTypes DEF Kind, Counter
    <2>2. ASSUME CountInvalid PROVE TypeInv'
        <3>1. /\ Move("invalid", "invalid", "counted") /\ phase = "invalid"
              /\ UNCHANGED <<current, inflight, givenUp>>
            BY <2>2 DEF CountInvalid, Move
        <3>2. current' = NoPost
            BY <3>1 DEF CallbackInv
        <3> QED  BY <3>1, <3>2, MoveKeepsTypes DEF Kind, Counter
    <2>3. ASSUME CountHandled PROVE TypeInv'
        <3>1. /\ Move("counted", "handled", "idle") /\ phase = "counted"
              /\ UNCHANGED <<current, inflight, givenUp>>
            BY <2>3 DEF CountHandled, Move
        <3>2. current' = NoPost
            BY <3>1 DEF CallbackInv
        <3> QED  BY <3>1, <3>2, MoveKeepsTypes DEF Kind, Counter
    <2> QED  BY <1>11, <2>1, <2>2, <2>3 DEF Count
<1>12. CASE Raise
    <2>1. CallbackInv'
        BY <1>12 DEF Raise, history, CallbackInv
    <2> QED
        BY <1>12, <2>1 DEF Raise, broker, session, answer, history, bounds
<1>13. CASE Finish
    <2>1. ASSUME Forwarded PROVE TypeInv'
        <3>1. /\ Move("valid", "forwarded", "counted") /\ current' = NoPost
              /\ UNCHANGED <<inflight, givenUp>>
            BY <2>1 DEF Forwarded, Return
        <3> QED  BY <3>1, MoveKeepsTypes DEF Kind, Counter
    <2>2. ASSUME GiveUp, inflight' \subseteq inflight PROVE TypeInv'
        <3>1. /\ Move("valid", "failures", "counted") /\ current' = NoPost
              /\ phase = "valid" /\ givenUp' = givenUp \cup {current.delivery}
            BY <2>2 DEF GiveUp, Return, Move
        <3>2. current # NoPost
            BY <3>1 DEF CallbackInv
        <3> QED  BY <2>2, <3>1, <3>2, MoveKeepsTypes DEF Kind, Counter
    <2>3. Refused \/ AnsweredWithError \/ TimedOut => GiveUp /\ inflight' \subseteq inflight
        BY DEF Refused, AnsweredWithError, TimedOut
    <2> QED  BY <1>13, <2>1, <2>2, <2>3 DEF Finish
<1>14. CASE ReadCounter
    <2>1. /\ read \in 0..6 /\ read < 6 /\ read' = read + 1
          /\ report' = [report EXCEPT ![Reported[read + 1]] = stats[Reported[read + 1]]]
          /\ takenBefore' = IF read = 0 THEN Cardinality(Taken) ELSE takenBefore
        BY <1>14, SixCounters DEF ReadCounter
    <2>2. read' \in 0..Len(Reported)
        BY <2>1, SixCounters
    <2>3. Reported[read + 1] \in Counter
        <3>1. read + 1 \in 1..6
            BY <2>1
        <3> QED  BY <3>1, SixCounters
    <2>4. report' \in [Counter -> Nat]
        BY <2>1, <2>3
    <2>5. takenBefore' \in Nat
        BY <2>1, CountedFinite
    <2>6. CallbackInv'
        BY <1>14 DEF ReadCounter, history, CallbackInv
    <2> QED
        BY <1>14, <2>2, <2>4, <2>5, <2>6 DEF ReadCounter, broker, session, history, bounds
<1>15. ASSUME NEW r \in inflight, Ingest(r) PROVE TypeInv'
    <2>1. r \in Post /\ ingested' \in Seq(Post)
        BY <1>15, AppendProperties DEF Ingest
    <2> QED
        BY <1>15, <2>1 DEF Ingest, broker, session, answer, history, bounds, CallbackInv
<1>16. ASSUME NEW r \in inflight, Vanish(r) PROVE TypeInv'
    BY <1>16 DEF Vanish, broker, session, answer, history, bounds, CallbackInv
<1>17. CASE UNCHANGED vars
    BY <1>17 DEF vars, broker, session, answer, history, bounds, CallbackInv
<1> QED
    BY <1>1, <1>2, <1>3, <1>4, <1>5, <1>6, <1>7, <1>8, <1>9, <1>10, <1>11, <1>12,
       <1>13, <1>14, <1>15, <1>16, <1>17 DEF Next, Callback

\* Every variable of the bridge's model keeps its type, for any bounds.
THEOREM BridgeTypes == Spec => []TypeOK
<1>1. TypeInv => TypeOK
    BY DEF TypeInv
<1> QED  BY InitTypeInv, StepTypeInv, <1>1, PTL DEF Spec

-----------------------------------------------------------------------------
(* Order.                                                                  *)

\* A POST on its way is the one the callback waits for, or nobody waits for it
\* any more because it was counted as failed or cut off.
AwaitedOrGivenUp ==
    \A r \in inflight : r = current \/ r.delivery \in givenUp \cup cut

\* What was ingested is off the wire, and was delivered before.
IngestedOnce ==
    \A i \in DOMAIN ingested :
        ingested[i].delivery <= deliveries /\ ingested[i] \notin inflight

OrderInv == AwaitedOrGivenUp /\ IngestedOnce /\ OvertakenWasGivenUp

\* The POST that the callback waits for is the newest, so it overtakes but is
\* not overtaken; every other one was given up.
LEMMA StepOrderInv == TypeInv /\ OrderInv /\ [Next]_vars => OrderInv'
<1> SUFFICES ASSUME TypeInv, OrderInv, [Next]_vars PROVE OrderInv'
    OBVIOUS
<1> USE DEF OrderInv, AwaitedOrGivenUp, IngestedOnce, OvertakenWasGivenUp
<1>types. /\ deliveries \in Nat /\ ingested \in Seq(Post) /\ inflight \subseteq Post
          /\ queue \in Seq(Message)
          /\ current # NoPost => current.delivery = deliveries /\ deliveries # 0
          /\ \A i \in DOMAIN ingested : ingested[i].delivery \in Nat
    <2>1. ingested \in Seq(Post)
        BY DEF TypeInv, TypeOK
    <2>2. \A i \in DOMAIN ingested : ingested[i] \in Post
        BY <2>1, ElementOfSeq, LenProperties
    <2> QED  BY <2>2 DEF TypeInv, TypeOK, CallbackInv, Post
\* Steps that leave the POSTs alone, or only take one off the wire.
<1>same. ASSUME UNCHANGED <<current, ingested, deliveries, givenUp, cut>>,
                inflight' \subseteq inflight
         PROVE  OrderInv'
    BY <1>same
<1>1. ASSUME NEW n, NEW kind, Route(n, kind) PROVE OrderInv'
    BY <1>1, <1>same DEF Route, history
<1>2. CASE BrokerSubscribes
    BY <1>2, <1>same DEF BrokerSubscribes, history
<1>3. CASE Start
    BY <1>3, <1>same DEF Start
<1>4. CASE OnConnect
    BY <1>4, <1>same DEF OnConnect, history
<1>5. CASE LinkLost
    BY <1>5, <1>same DEF LinkLost, history
<1>6. CASE Stop
    BY <1>6, <1>same DEF Stop, history
<1>7. CASE Kill
    <2>1. /\ UNCHANGED <<ingested, inflight, deliveries, givenUp>>
          /\ cut' = cut \cup ({current.delivery} \ {0})
        BY <1>7 DEF Kill
    <2>2. \A r \in inflight : r.delivery \in (givenUp \cup cut)'
        <3>1. ASSUME NEW r \in inflight, r = current PROVE r.delivery \in cut'
            <4>1. r # NoPost
                BY <1>types DEF Post, NoPost
            <4> QED  BY <2>1, <3>1, <4>1, <1>types
        <3> QED  BY <2>1, <3>1
    <2> QED  BY <2>1, <2>2
<1>idle. ASSUME phase = "idle"
         PROVE  current = NoPost /\ \A r \in inflight : r.delivery \in givenUp \cup cut
    <2>1. current = NoPost
        BY <1>idle DEF TypeInv, CallbackInv
    <2>2. \A r \in inflight : r # NoPost
        BY <1>types DEF Post, NoPost
    <2> QED  BY <2>1, <2>2
<1>8. CASE DeliverOther
    <2>1. /\ phase = "idle" /\ deliveries' = deliveries + 1
          /\ UNCHANGED <<ingested, inflight, givenUp, cut>>
        BY <1>8 DEF DeliverOther, Deliver
    <2> QED  BY <2>1, <1>idle, <1>types
<1>9. CASE DeliverValid
    <2>1. /\ phase = "idle" /\ deliveries' = deliveries + 1
          /\ UNCHANGED <<ingested, givenUp, cut>>
          /\ current'.delivery = deliveries + 1
          /\ inflight' = inflight \cup {current'}
        BY <1>9 DEF DeliverValid, Deliver
    <2>2. \A i \in DOMAIN ingested : ingested[i] # current'
        BY <2>1, <1>types
    <2> QED  BY <2>1, <2>2, <1>idle, <1>types
<1>10. CASE Forwarded
    <2>1. current \notin inflight
        BY <1>10, <1>types DEF Forwarded, ToSet
    <2>2. UNCHANGED <<ingested, inflight, deliveries, givenUp, cut>>
        BY <1>10 DEF Forwarded, Return, Move
    <2> QED  BY <2>1, <2>2
<1>11. ASSUME GiveUp, inflight' \subseteq inflight PROVE OrderInv'
    <2>1. /\ UNCHANGED <<ingested, deliveries, cut>>
          /\ givenUp' = givenUp \cup {current.delivery}
        BY <1>11 DEF GiveUp, Return, Move
    <2> QED  BY <1>11, <2>1
<1>12. ASSUME NEW r \in inflight, Ingest(r) PROVE OrderInv'
    <2>1. /\ UNCHANGED <<current, deliveries, givenUp, cut>>
          /\ inflight' = inflight \ {r}
          /\ ingested' = Append(ingested, r)
        BY <1>12 DEF Ingest, history
    <2>2. /\ r \in Post /\ r.delivery \in Nat
          /\ r.delivery <= deliveries
        <3>1. r \in Post /\ r.delivery \in Nat
            BY <1>types DEF Post
        <3>2. r = current => r.delivery <= deliveries
            BY <3>1, <1>types DEF Post, NoPost
        <3>3. givenUp \cup cut \subseteq 1..deliveries
            BY DEF TypeInv, TypeOK
        <3> QED  BY <3>1, <3>2, <3>3, <1>types
    <2>3. /\ DOMAIN ingested = 1..Len(ingested) /\ Len(ingested) \in Nat
          /\ DOMAIN ingested' = 1..Len(ingested) + 1
          /\ \A i \in 1..Len(ingested) : ingested'[i] = ingested[i]
          /\ ingested'[Len(ingested) + 1] = r
        BY <2>1, <2>2, <1>types, AppendProperties, LenProperties
    <2>4. AwaitedOrGivenUp'
        BY <2>1
    <2>5. IngestedOnce'
        BY <2>1, <2>2, <2>3
    <2>6. ASSUME NEW i \in DOMAIN ingested', NEW j \in DOMAIN ingested', i < j,
                 ingested'[j].delivery < ingested'[i].delivery
          PROVE  ingested'[j].delivery \in (givenUp \cup cut)'
        <3>1. CASE j \in DOMAIN ingested
            BY <2>1, <2>3, <2>6, <3>1
        <3>2. CASE j = Len(ingested) + 1
            <4>1. i \in DOMAIN ingested /\ ingested'[i] = ingested[i] /\ ingested'[j] = r
                BY <2>3, <2>6, <3>2
            <4>2. r.delivery < deliveries
                BY <4>1, <2>2, <2>6, <1>types
            <4>3. r # current
                BY <4>2, <2>2, <1>types DEF Post, NoPost
            <4> QED  BY <4>1, <4>3, <2>1
        <3> QED  BY <2>3, <2>6, <3>1, <3>2
    <2> QED  BY <2>4, <2>5, <2>6
<1>13. ASSUME NEW r \in inflight, Vanish(r) PROVE OrderInv'
    BY <1>13, <1>same DEF Vanish, history
<1>14. CASE UNCHANGED vars
    BY <1>14, <1>same DEF vars, history
<1>15. Count \/ Raise \/ ReadCounter => OrderInv'
    BY <1>same
    DEF Count, CountUnparsable, CountInvalid, CountHandled, Move, Raise, ReadCounter, history
<1>16. Callback \/ Finish => OrderInv'
    <2>1. Refused \/ AnsweredWithError \/ TimedOut => OrderInv'
        BY <1>11 DEF Refused, AnsweredWithError, TimedOut
    <2> QED  BY <2>1, <1>8, <1>9, <1>10 DEF Callback, Finish
<1> QED
    BY <1>1, <1>2, <1>3, <1>4, <1>5, <1>6, <1>7, <1>12, <1>13, <1>14, <1>15, <1>16
    DEF Next, Publish, Resend

\* However messages, connections and processes come and go: a message that
\* ingestion takes after a later one was counted as failed or cut off.
THEOREM OvertakenOnlyIfGivenUp == Spec => []OvertakenWasGivenUp
<1>1. Init => OrderInv
    BY EmptySeq
    DEF Init, OrderInv, AwaitedOrGivenUp, IngestedOnce, OvertakenWasGivenUp
<1>2. OrderInv => OvertakenWasGivenUp
    BY DEF OrderInv
<1> QED  BY InitTypeInv, StepTypeInv, StepOrderInv, <1>1, <1>2, PTL DEF Spec

-----------------------------------------------------------------------------
(* Counting.                                                               *)

\* The places at which message n is in a list.
Places(list, n) == {i \in DOMAIN list : list[i].id = n}

\* A list has a message at finitely many places, and nowhere when it is empty.
LEMMA PlacesFinite ==
    ASSUME NEW S, NEW list \in Seq(S), NEW n
    PROVE  /\ IsFiniteSet(Places(list, n)) /\ Cardinality(Places(list, n)) \in Nat
           /\ list = <<>> => Cardinality(Places(list, n)) = 0
<1>1. DOMAIN list = 1..Len(list) /\ Len(list) \in Nat
    BY LenProperties
<1>2. IsFiniteSet(DOMAIN list)
    BY <1>1, FS_Interval
<1>3. IsFiniteSet(Places(list, n))
    BY <1>2, FS_Subset DEF Places
<1>4. list = <<>> => Places(list, n) = {}
    BY <1>1, EmptySeq DEF Places
<1> QED  BY <1>3, <1>4, FS_CardinalityType, FS_EmptySet

\* A message more at the end.
LEMMA PlacesOfAppend ==
    ASSUME NEW S, NEW list \in Seq(S), NEW e \in S, NEW n
    PROVE  Cardinality(Places(Append(list, e), n))
               = Cardinality(Places(list, n)) + IF e.id = n THEN 1 ELSE 0
<1> DEFINE longer == Append(list, e)
<1>1. /\ DOMAIN longer = 1..Len(list) + 1 /\ DOMAIN list = 1..Len(list) /\ Len(list) \in Nat
      /\ \A i \in 1..Len(list) : longer[i] = list[i]
      /\ longer[Len(list) + 1] = e
    BY AppendProperties, LenProperties
<1> HIDE DEF longer
<1>2. Places(longer, n) = IF e.id = n THEN Places(list, n) \cup {Len(list) + 1}
                                      ELSE Places(list, n)
    BY <1>1 DEF Places
<1>3. Len(list) + 1 \notin Places(list, n)
    BY <1>1 DEF Places
<1>4. IsFiniteSet(Places(list, n)) /\ Cardinality(Places(list, n)) \in Nat
    BY PlacesFinite
<1> DEFINE P == Places(list, n)
           last == Len(list) + 1
<1>5. /\ last \notin P /\ IsFiniteSet(P) /\ Cardinality(P) \in Nat
      /\ Places(longer, n) = IF e.id = n THEN P \cup {last} ELSE P
    BY <1>2, <1>3, <1>4
<1> HIDE DEF P, last
<1>6. Cardinality(P \cup {last}) = Cardinality(P) + 1
    BY <1>5, FS_AddElement
<1>7. Cardinality(Places(longer, n)) = Cardinality(P) + IF e.id = n THEN 1 ELSE 0
    BY <1>5, <1>6
<1> QED  BY <1>7 DEF longer, P

\* The first message less.
LEMMA PlacesOfTail ==
    ASSUME NEW S, NEW list \in Seq(S), list # <<>>, NEW n
    PROVE  Cardinality(Places(list, n))
               = Cardinality(Places(Tail(list), n)) + IF Head(list).id = n THEN 1 ELSE 0
<1> DEFINE rest == Tail(list)
           A == Places(rest, n)
           B == Places(list, n)
           f == [i \in A |-> i + 1]
<1>1. /\ DOMAIN list = 1..Len(list) /\ Len(list) \in Nat \ {0}
      /\ DOMAIN rest = 1..Len(rest) /\ Len(rest) = Len(list) - 1
      /\ \A i \in 1..Len(rest) : rest[i] = list[i + 1]
      /\ Head(list) = list[1] /\ rest \in Seq(S)
    BY HeadTailProperties, LenProperties, EmptySeq
<1> HIDE DEF rest
<1>2. A \subseteq Nat /\ \A i \in A : i + 1 \in B \ {1}
    BY <1>1 DEF Places
<1>3. \A j \in B \ {1} : j - 1 \in A /\ j = (j - 1) + 1
    BY <1>1 DEF Places
<1>4. 1 \in B <=> Head(list).id = n
    BY <1>1 DEF Places
<1> HIDE DEF A, B
<1>5. \A i, j \in A : i + 1 = j + 1 => i = j
    BY <1>2
<1>6. f \in [A -> B \ {1}] /\ \A i \in A : f[i] = i + 1
    BY <1>2
<1>7. \A j \in B \ {1} : \E i \in A : f[i] = j
    BY <1>3, <1>6
<1>8. f \in Bijection(A, B \ {1})
    BY <1>5, <1>6, <1>7 DEF Bijection, Injection, Surjection, IsInjective
<1>9. /\ IsFiniteSet(A) /\ IsFiniteSet(B)
      /\ Cardinality(A) \in Nat /\ Cardinality(B) \in Nat
    BY <1>1, PlacesFinite DEF A, B
<1>10. Cardinality(B \ {1}) = Cardinality(A)
    BY <1>8, <1>9, FS_Bijection DEF ExistsBijection
<1>11. Cardinality(B \ {1}) = IF 1 \in B THEN Cardinality(B) - 1 ELSE Cardinality(B)
    BY <1>9, FS_RemoveElement
<1>12. Cardinality(B) = Cardinality(A) + IF Head(list).id = n THEN 1 ELSE 0
    BY <1>4, <1>9, <1>10, <1>11
<1> QED  BY <1>12 DEF A, B, rest

-----------------------------------------------------------------------------
(* Duplicates.                                                             *)

\* The POSTs of message n that are on their way.
Under(n) == {r \in inflight : r.id = n}

\* Every copy of a message is in one place: with the broker, on its way to
\* ingestion, or taken by it; or it is lost.
Around(n) == Cardinality(Places(queue, n)) + Cardinality(Under(n))
                 + Cardinality(Places(ingested, n))

CopiesInv ==
    /\ IsFiniteSet(inflight)
    /\ \A n \in 1..MaxMessages : Around(n) <= copies[n]

\* The sizes are numbers.
LEMMA AroundFacts ==
    ASSUME TypeInv, IsFiniteSet(inflight), NEW n
    PROVE  /\ Cardinality(Places(queue, n)) \in Nat /\ Cardinality(Places(ingested, n)) \in Nat
           /\ IsFiniteSet(Under(n)) /\ Cardinality(Under(n)) \in Nat
<1>1. queue \in Seq(Message) /\ ingested \in Seq(Post)
    BY DEF TypeInv, TypeOK
<1>2. IsFiniteSet(Under(n))
    BY FS_Subset DEF Under
<1> QED  BY <1>1, <1>2, PlacesFinite, FS_CardinalityType

\* Every step moves a copy on or loses it; only publishers make new ones.
LEMMA StepCopiesInv == TypeInv /\ CopiesInv /\ [Next]_vars => CopiesInv'
<1> SUFFICES ASSUME TypeInv, CopiesInv, [Next]_vars PROVE CopiesInv'
    OBVIOUS
<1>types. /\ queue \in Seq(Message) /\ ingested \in Seq(Post) /\ inflight \subseteq Post
          /\ copies \in [1..MaxMessages -> Nat] /\ IsFiniteSet(inflight)
    BY DEF TypeInv, TypeOK, CopiesInv
\* What a step that takes no message from the broker to ingestion has to show.
<1>same. ASSUME UNCHANGED <<copies, ingested>>, inflight' \subseteq inflight,
                queue' \in {queue, <<>>}
         PROVE  CopiesInv'
    <2>1. IsFiniteSet(inflight')
        BY <1>same, <1>types, FS_Subset
    <2>2. ASSUME NEW n \in 1..MaxMessages PROVE Around(n)' <= copies'[n]
        <3>1. Under(n)' \subseteq Under(n)
            BY <1>same DEF Under
        <3>2. /\ Cardinality(Under(n)') <= Cardinality(Under(n))
              /\ Cardinality(Under(n)') \in Nat
            BY <3>1, <1>types, AroundFacts, FS_Subset, FS_CardinalityType
        <3>3. /\ Cardinality(Places(queue', n)) <= Cardinality(Places(queue, n))
              /\ Cardinality(Places(queue', n)) \in Nat
            <4>1. CASE queue' = queue
                BY <4>1, <1>types, AroundFacts
            <4>2. CASE queue' = <<>>
                <5>1. queue' \in Seq(Message)
                    BY <4>2, EmptySeq
                <5>2. Cardinality(Places(queue', n)) = 0
                    BY <4>2, <5>1, PlacesFinite
                <5> QED  BY <5>2, <1>types, AroundFacts
            <4> QED  BY <1>same, <4>1, <4>2
        <3>4. Places(ingested, n)' = Places(ingested, n)
            BY <1>same DEF Places
        <3>5. Around(n) <= copies[n] /\ copies[n] \in Nat
            BY <1>types DEF CopiesInv
        <3> HIDE DEF Places
        <3> QED  BY <1>same, <1>types, AroundFacts, <3>2, <3>3, <3>4, <3>5 DEF Around
    <2> QED  BY <2>1, <2>2 DEF CopiesInv
<1>1. ASSUME NEW k \in 1..MaxMessages, NEW kind \in Kind, Route(k, kind) PROVE CopiesInv'
    <2>1. /\ UNCHANGED <<inflight, ingested>>
          /\ copies' = [copies EXCEPT ![k] = copies[k] + 1]
          /\ \/ queue' = queue
             \/ queue' = Append(queue, [id |-> k, kind |-> kind])
        BY <1>1 DEF Route
    <2>2. ASSUME NEW n \in 1..MaxMessages PROVE Around(n)' <= copies'[n]
        <3> DEFINE more == IF k = n THEN 1 ELSE 0
        <3>1. /\ Under(n)' = Under(n) /\ Places(ingested, n)' = Places(ingested, n)
              /\ copies'[n] = copies[n] + more /\ copies[n] \in Nat
            BY <1>types, <2>1 DEF Under, Places
        <3>2. /\ Cardinality(Places(queue', n)) <= Cardinality(Places(queue, n)) + more
              /\ Cardinality(Places(queue', n)) \in Nat
            <4>1. CASE queue' = queue
                BY <4>1, <1>types, AroundFacts
            <4>2. CASE queue' = Append(queue, [id |-> k, kind |-> kind])
                <5>1. [id |-> k, kind |-> kind] \in Message
                    BY DEF Message
                <5>2. Cardinality(Places(queue', n)) = Cardinality(Places(queue, n)) + more
                    BY <4>2, <5>1, <1>types, PlacesOfAppend
                <5> QED  BY <5>2, <1>types, AroundFacts
            <4> QED  BY <2>1, <4>1, <4>2
        <3>3. Around(n) <= copies[n]
            BY DEF CopiesInv
        <3> QED  BY <1>types, AroundFacts, <3>1, <3>2, <3>3 DEF Around
    <2> QED  BY <1>types, <2>1, <2>2 DEF CopiesInv
<1>2. ASSUME NEW kind \in Kind, Publish(kind) PROVE CopiesInv'
    <2>1. Len(published) \in Nat /\ MaxMessages \in Nat
        BY BoundsAssumption, LenProperties DEF TypeInv, TypeOK
    <2>2. Len(published) + 1 \in 1..MaxMessages
        BY <1>2, <2>1 DEF Publish
    <2> QED  BY <1>1, <1>2, <2>2 DEF Publish
<1>3. ASSUME NEW n \in DOMAIN published, Resend(n) PROVE CopiesInv'
    <2>1. /\ published \in Seq(Kind) /\ MaxMessages \in Nat
          /\ Len(published) <= MaxMessages
        BY BoundsAssumption DEF TypeInv, TypeOK
    <2>2. n \in 1..Len(published) /\ published[n] \in Kind /\ Len(published) \in Nat
        BY <2>1, ElementOfSeq, LenProperties
    <2>3. n \in 1..MaxMessages
        BY <2>1, <2>2
    <2> QED  BY <1>1, <1>3, <2>2, <2>3 DEF Resend
<1>4. CASE BrokerSubscribes \/ Start \/ OnConnect
    BY <1>4, <1>same DEF BrokerSubscribes, Start, OnConnect, broker
<1>5. CASE LinkLost \/ Stop \/ Kill
    BY <1>5, <1>same DEF LinkLost, Stop, Kill, EndSession, broker
<1>6. CASE Count \/ Raise \/ Finish \/ ReadCounter
    <2>1. CASE Finish
        BY <1>same, <2>1
        DEF Finish, Forwarded, Refused, AnsweredWithError, TimedOut, GiveUp, Return, Move, broker
    <2>2. CASE Count \/ Raise \/ ReadCounter
        BY <1>same, <2>2
        DEF Count, CountUnparsable, CountInvalid, CountHandled, Move, Raise, ReadCounter, broker
    <2> QED  BY <1>6, <2>1, <2>2
<1>7. ASSUME NEW r \in inflight, Vanish(r) PROVE CopiesInv'
    BY <1>7, <1>same DEF Vanish, broker
<1>8. CASE UNCHANGED vars
    BY <1>8, <1>same DEF vars, broker
<1>9. ASSUME NEW kind \in Kind, Deliver(kind),
             \/ inflight' = inflight
             \/ \E d : inflight' = inflight \cup {[id |-> Head(queue).id, delivery |-> d]}
      PROVE  CopiesInv'
    <2>1. queue # <<>> /\ queue' = Tail(queue) /\ UNCHANGED <<copies, ingested>>
        BY <1>9 DEF Deliver, broker
    <2>2. IsFiniteSet(inflight')
        <3>1. \A x : IsFiniteSet(inflight \cup {x})
            BY <1>types, FS_AddElement
        <3> QED  BY <1>9, <1>types, <3>1
    <2>3. ASSUME NEW n \in 1..MaxMessages PROVE Around(n)' <= copies'[n]
        <3> DEFINE moved == IF Head(queue).id = n THEN 1 ELSE 0
        <3>1. Cardinality(Places(queue, n)) = Cardinality(Places(queue', n)) + moved
            BY <1>types, <2>1, PlacesOfTail
        <3>2. Cardinality(Places(queue', n)) \in Nat
            BY <1>types, <2>1, PlacesFinite, HeadTailProperties
        <3>3. /\ Cardinality(Under(n)') <= Cardinality(Under(n)) + moved
              /\ Cardinality(Under(n)') \in Nat
            <4>1. CASE Under(n)' = Under(n)
                BY <4>1, <1>types, AroundFacts
            <4>2. CASE Under(n)' # Under(n)
                <5>1. PICK d : inflight' = inflight \cup {[id |-> Head(queue).id, delivery |-> d]}
                    BY <1>9, <4>2 DEF Under
                <5>2. /\ Head(queue).id = n
                      /\ Under(n)' = Under(n) \cup {[id |-> Head(queue).id, delivery |-> d]}
                    BY <4>2, <5>1 DEF Under
                <5> DEFINE new == [id |-> Head(queue).id, delivery |-> d]
                           U == Under(n)
                <5>3. IsFiniteSet(U) /\ Cardinality(U) \in Nat
                    BY <1>types, AroundFacts
                <5>4. Under(n)' = U \cup {new}
                    BY <5>2
                <5> HIDE DEF new, U
                <5>5. Cardinality(U \cup {new}) \in {Cardinality(U), Cardinality(U) + 1}
                    BY <5>3, FS_AddElement
                <5>6. Cardinality(Under(n)') \in {Cardinality(U), Cardinality(U) + 1}
                    BY <5>4, <5>5
                <5> QED  BY <5>2, <5>3, <5>6 DEF U
            <4> QED  BY <4>1, <4>2
        <3>4. Places(ingested, n)' = Places(ingested, n)
            BY <2>1
        <3>5. Around(n) <= copies[n] /\ copies[n] \in Nat /\ copies'[n] = copies[n]
            BY <1>types, <2>1 DEF CopiesInv
        <3> QED  BY <1>types, AroundFacts, <3>1, <3>2, <3>3, <3>4, <3>5 DEF Around
    <2> QED  BY <2>2, <2>3 DEF CopiesInv
<1>10. CASE Callback
    BY <1>9, <1>10 DEF Callback, DeliverOther, DeliverValid, Kind
<1>11. ASSUME NEW r \in inflight, Ingest(r) PROVE CopiesInv'
    <2>1. /\ UNCHANGED <<copies, queue>> /\ inflight' = inflight \ {r}
          /\ ingested' = Append(ingested, r)
        BY <1>11 DEF Ingest, broker
    <2>2. IsFiniteSet(inflight')
        BY <1>types, <2>1, FS_RemoveElement
    <2>3. ASSUME NEW n \in 1..MaxMessages PROVE Around(n)' <= copies'[n]
        <3> DEFINE moved == IF r.id = n THEN 1 ELSE 0
        <3>1. Cardinality(Places(ingested', n)) = Cardinality(Places(ingested, n)) + moved
            BY <1>types, <2>1, PlacesOfAppend
        <3>2. Cardinality(Under(n)') = Cardinality(Under(n)) - moved
            <4>1. CASE r.id = n
                <5>1. Under(n)' = Under(n) \ {r} /\ r \in Under(n)
                    BY <2>1, <4>1 DEF Under
                <5> QED  BY <4>1, <5>1, <1>types, AroundFacts, FS_RemoveElement
            <4>2. CASE r.id # n
                <5>1. Under(n)' = Under(n)
                    BY <2>1, <4>2 DEF Under
                <5> QED  BY <4>2, <5>1, <1>types, AroundFacts
            <4> QED  BY <4>1, <4>2
        <3>3. Places(queue, n)' = Places(queue, n)
            BY <2>1
        <3>4. Around(n) <= copies[n] /\ copies[n] \in Nat /\ copies'[n] = copies[n]
            BY <1>types, <2>1 DEF CopiesInv
        <3> QED  BY <1>types, AroundFacts, <3>1, <3>2, <3>3, <3>4 DEF Around
    <2> QED  BY <2>2, <2>3 DEF CopiesInv
<1> QED
    BY <1>2, <1>3, <1>4, <1>5, <1>6, <1>7, <1>8, <1>10, <1>11 DEF Next

\* Nothing was published at the start.
LEMMA InitCopiesInv == Init => CopiesInv
<1> SUFFICES ASSUME Init PROVE CopiesInv
    OBVIOUS
<1>1. /\ queue = <<>> /\ ingested = <<>> /\ inflight = {}
      /\ \A n \in 1..MaxMessages : copies[n] = 0
    BY DEF Init
<1>2. ASSUME NEW n \in 1..MaxMessages PROVE Around(n) = 0
    <2>1. queue \in Seq(Message) /\ ingested \in Seq(Post)
        BY <1>1, EmptySeq
    <2>2. Cardinality(Places(queue, n)) = 0 /\ Cardinality(Places(ingested, n)) = 0
        BY <1>1, <2>1, PlacesFinite
    <2>3. Under(n) = {}
        BY <1>1 DEF Under
    <2> QED  BY <2>2, <2>3, FS_EmptySet DEF Around
<1> QED  BY <1>1, <1>2, FS_EmptySet DEF CopiesInv

\* Ingestion takes a message at most as often as its publisher sent it, however
\* many POSTs timed out and were served late.
THEOREM BridgeDuplicatesNothing == Spec => []NoDuplicateOfItsOwn
<1>1. TypeInv /\ CopiesInv => NoDuplicateOfItsOwn
    <2> SUFFICES ASSUME TypeInv, CopiesInv, NEW n \in 1..MaxMessages
                 PROVE  Cardinality({i \in DOMAIN ingested : ingested[i].id = n}) <= copies[n]
        BY DEF NoDuplicateOfItsOwn
    <2>1. Around(n) <= copies[n] /\ copies[n] \in Nat /\ IsFiniteSet(inflight)
        BY DEF CopiesInv, TypeInv, TypeOK
    <2>2. Cardinality(Places(ingested, n)) <= copies[n]
        BY <2>1, AroundFacts DEF Around
    <2> QED  BY <2>2 DEF Places
<1>2. TypeInv /\ CopiesInv /\ [Next]_vars => (TypeInv /\ CopiesInv)'
    BY StepTypeInv, StepCopiesInv
<1>3. Init => TypeInv /\ CopiesInv
    BY InitTypeInv, InitCopiesInv
<1> QED  BY <1>1, <1>2, <1>3, PTL DEF Spec

-----------------------------------------------------------------------------
(* The counters.                                                           *)

\* A POST is ingested once, and is known by its delivery.
Distinct ==
    /\ \A r \in inflight : r.delivery \in 1..deliveries
    /\ \A r, q \in inflight : r.delivery = q.delivery => r = q
    /\ \A i \in DOMAIN ingested : ingested[i].delivery \in 1..deliveries
    /\ \A i \in DOMAIN ingested : \A r \in inflight : ingested[i].delivery # r.delivery
    /\ \A i, j \in DOMAIN ingested : ingested[i].delivery = ingested[j].delivery => i = j

\* What was delivered to earlier processes is over: a process waits only for a
\* POST of its own, and only theirs were cut off.
LifeInv ==
    /\ Distinct
    /\ before <= deliveries
    /\ link => process # "down"
    /\ process = "down" => current = NoPost
    /\ current # NoPost => deliveries > before /\ current.delivery \notin givenUp
    /\ process # "down" => \A d \in cut : d <= before

\* Every step keeps the lives of the processes apart.
LEMMA StepLifeInv == TypeInv /\ LifeInv /\ [Next]_vars => LifeInv'
<1> SUFFICES ASSUME TypeInv, LifeInv, [Next]_vars PROVE LifeInv'
    OBVIOUS
<1> USE DEF LifeInv, Distinct
<1>types. /\ deliveries \in Nat /\ before \in Nat
          /\ ingested \in Seq(Post) /\ inflight \subseteq Post
          /\ current # NoPost => current.delivery = deliveries /\ deliveries # 0
          /\ givenUp \cup cut \subseteq 1..deliveries
          /\ \A r \in inflight : r.delivery \in Nat
    BY DEF TypeInv, TypeOK, CallbackInv, Post
<1>1. ASSUME UNCHANGED <<link, process, current, ingested, history>>, inflight' \subseteq inflight
      PROVE  LifeInv'
    BY <1>1 DEF history
<1>2. ASSUME NEW n, NEW kind, Route(n, kind) PROVE LifeInv'
    BY <1>1, <1>2 DEF Route, session
<1>3. CASE BrokerSubscribes \/ UNCHANGED vars
    BY <1>1, <1>3 DEF BrokerSubscribes, vars, session
<1>4. CASE Start
    <2>1. /\ current = NoPost /\ current' = NoPost /\ before' = deliveries
          /\ UNCHANGED <<link, inflight, ingested, deliveries, givenUp, cut>>
          /\ process' # "down"
        BY <1>4 DEF Start, session
    <2> QED  BY <2>1, <1>types
<1>5. CASE OnConnect
    BY <1>5 DEF OnConnect, history
<1>idle. phase = "idle" => current = NoPost
    BY DEF TypeInv, CallbackInv
<1>6. CASE LinkLost \/ Stop
    BY <1>6, <1>idle DEF LinkLost, Stop, EndSession, history
<1>7. CASE Kill
    BY <1>7 DEF Kill, EndSession
<1>8. CASE DeliverOther
    <2>1. /\ current = NoPost /\ deliveries' = deliveries + 1 /\ link
          /\ UNCHANGED <<link, process, current, inflight, ingested, before, givenUp, cut>>
        BY <1>8, <1>idle DEF DeliverOther, Deliver, session
    <2> QED  BY <2>1, <1>types
<1>9. CASE DeliverValid
    <2>1. /\ current = NoPost /\ deliveries' = deliveries + 1 /\ link
          /\ UNCHANGED <<link, process, ingested, before, givenUp, cut>>
          /\ current'.delivery = deliveries + 1
          /\ inflight' = inflight \cup {current'}
        BY <1>9, <1>idle DEF DeliverValid, Deliver, session
    <2>2. /\ \A r \in inflight' : r.delivery \in 1..deliveries'
          /\ \A i \in DOMAIN ingested : ingested[i].delivery \in 1..deliveries'
        BY <2>1, <1>types
    <2>3. \A r, q \in inflight' : r.delivery = q.delivery => r = q
        BY <2>1, <1>types
    <2>4. \A i \in DOMAIN ingested : \A r \in inflight' : ingested[i].delivery # r.delivery
        BY <2>1, <1>types
    <2>5. Distinct'
        BY <2>1, <2>2, <2>3, <2>4
    <2>6. deliveries' > before /\ current'.delivery \notin givenUp
        BY <2>1, <1>types
    <2> QED  BY <2>1, <2>5, <2>6, <1>types
<1>10. ASSUME NEW counter, Return(counter), inflight' \subseteq inflight,
              UNCHANGED givenUp \/ givenUp' = givenUp \cup {current.delivery}
       PROVE  LifeInv'
    <2>1. current' = NoPost /\ UNCHANGED <<link, process, ingested, deliveries, before, cut>>
        BY <1>10 DEF Return, Move, session
    <2> QED  BY <1>10, <2>1
<1>11. CASE Finish
    BY <1>10, <1>11
    DEF Finish, Forwarded, Refused, AnsweredWithError, TimedOut, GiveUp
<1>12. ASSUME NEW r \in inflight, Ingest(r) PROVE LifeInv'
    <2>1. /\ UNCHANGED <<link, process, current, deliveries, before, givenUp, cut>>
          /\ inflight' = inflight \ {r} /\ ingested' = Append(ingested, r)
        BY <1>12 DEF Ingest, history, session
    <2>2. /\ DOMAIN ingested = 1..Len(ingested) /\ Len(ingested) \in Nat
          /\ DOMAIN ingested' = 1..Len(ingested) + 1
          /\ \A i \in 1..Len(ingested) : ingested'[i] = ingested[i]
          /\ ingested'[Len(ingested) + 1] = r
        BY <2>1, <1>types, AppendProperties, LenProperties
    <2>3. /\ \A i \in DOMAIN ingested' : ingested'[i].delivery \in 1..deliveries
          /\ \A i \in DOMAIN ingested' : \A q \in inflight' :
                 ingested'[i].delivery # q.delivery
        BY <2>1, <2>2
    <2>4. \A i, j \in DOMAIN ingested' : ingested'[i].delivery = ingested'[j].delivery => i = j
        BY <2>2
    <2>5. Distinct'
        BY <2>1, <2>3, <2>4
    <2> QED  BY <2>1, <2>5
<1>13. ASSUME NEW r \in inflight, Vanish(r) PROVE LifeInv'
    BY <1>1, <1>13 DEF Vanish, session
<1>14. Callback => LifeInv'
    BY <1>8, <1>9 DEF Callback
<1>15. Count \/ ReadCounter => LifeInv'
    BY <1>1
    DEF Count, CountUnparsable, CountInvalid, CountHandled, Move, ReadCounter, session, history
<1>16. CASE Raise
    <2>1. process = "started"
        BY <1>16 DEF Raise, TypeInv, CallbackInv
    <2> QED  BY <1>16, <2>1 DEF Raise, session, history
<1> QED
    BY <1>2, <1>3, <1>4, <1>5, <1>6, <1>7, <1>11, <1>12, <1>13, <1>14, <1>15, <1>16
    DEF Next, Publish, Resend

\* A callback that is running, one that is about to return, one that ended the
\* network thread.
Open    == IF phase = "idle" THEN 0 ELSE 1
Settled == IF phase = "counted" THEN 1 ELSE 0
Ended   == IF process = "dead" THEN 1 ELSE 0

\* The counters add up, but for the statements a callback has still to execute
\* and those that an exception left out.
Adds ==
    /\ stats["received"] = deliveries - before
    /\ stats["received"] = stats["handled"] + stats["errors"] + Open + Ended
    /\ stats["handled"] + Settled
           = stats["forwarded"] + stats["failures"] + stats["invalid"]

SumInv == process # "down" => Adds

\* The numbers of the lemma that follows, and their range.
LEMMA SumNumbers ==
    ASSUME TypeInv
    PROVE  /\ stats["received"] \in Nat /\ stats["handled"] \in Nat /\ stats["errors"] \in Nat
           /\ stats["forwarded"] \in Nat /\ stats["failures"] \in Nat
           /\ stats["invalid"] \in Nat /\ deliveries \in Nat /\ before \in Nat
           /\ Open \in {0, 1} /\ Settled \in {0, 1} /\ Ended \in {0, 1}
           /\ Settled <= Open /\ Open + Ended <= 1
<1>1. /\ stats \in [Counter -> Nat] /\ {deliveries, before} \subseteq Nat
      /\ phase # "idle" => process = "started"
    BY DEF TypeInv, TypeOK, CallbackInv
<1>2. /\ Open \in {0, 1} /\ Settled \in {0, 1} /\ Ended \in {0, 1}
      /\ Settled <= Open /\ Open + Ended <= 1
    BY <1>1 DEF Open, Settled, Ended
<1> QED  BY <1>1, <1>2 DEF Counter

\* Every statement of a callback keeps the sums.
LEMMA StepSumInv == TypeInv /\ SumInv /\ [Next]_vars => SumInv'
<1> SUFFICES ASSUME TypeInv, SumInv, [Next]_vars, process' # "down"
             PROVE  /\ stats'["received"] = deliveries' - before'
                    /\ stats'["received"] = stats'["handled"] + stats'["errors"]
                                            + Open' + Ended'
                    /\ stats'["handled"] + Settled'
                           = stats'["forwarded"] + stats'["failures"] + stats'["invalid"]
    BY DEF SumInv, Adds
<1> DEFINE Right ==
               /\ stats'["received"] = deliveries' - before'
               /\ stats'["received"] = stats'["handled"] + stats'["errors"] + Open' + Ended'
               /\ stats'["handled"] + Settled'
                      = stats'["forwarded"] + stats'["failures"] + stats'["invalid"]
<1>names. /\ "received" \in Counter /\ "handled" \in Counter /\ "errors" \in Counter
          /\ "forwarded" \in Counter /\ "failures" \in Counter /\ "invalid" \in Counter
    BY DEF Counter
<1>nat. /\ stats["received"] \in Nat /\ stats["handled"] \in Nat /\ stats["errors"] \in Nat
        /\ stats["forwarded"] \in Nat /\ stats["failures"] \in Nat
        /\ stats["invalid"] \in Nat /\ deliveries \in Nat /\ before \in Nat
        /\ Ended \in {0, 1}
    BY SumNumbers
<1>was. process # "down" =>
            /\ stats["received"] = deliveries - before
            /\ stats["received"] = stats["handled"] + stats["errors"] + Open + Ended
            /\ stats["handled"] + Settled
                   = stats["forwarded"] + stats["failures"] + stats["invalid"]
    BY DEF SumInv, Adds
<1>1. ASSUME UNCHANGED <<process, phase, stats, deliveries, before>> PROVE Right
    BY <1>1, <1>was DEF Open, Settled, Ended
<1>2. ASSUME NEW n, NEW kind, Route(n, kind) PROVE Right
    BY <1>1, <1>2 DEF Route, history
<1>3. CASE BrokerSubscribes \/ OnConnect \/ LinkLost
    BY <1>1, <1>3 DEF BrokerSubscribes, OnConnect, LinkLost, history
<1>4. CASE Stop \/ Kill
    BY <1>4 DEF Stop, Kill
<1>5. CASE ReadCounter \/ UNCHANGED vars
    BY <1>1, <1>5 DEF ReadCounter, vars, history
<1>6. ASSUME NEW r \in inflight, Ingest(r) \/ Vanish(r) PROVE Right
    BY <1>1, <1>6 DEF Ingest, Vanish, history
<1>7. CASE Start
    <2>1. /\ process = "down" /\ process' \in {"started", "failed"} /\ stats' = Zero
          /\ before' = deliveries /\ UNCHANGED <<phase, deliveries>>
        BY <1>7 DEF Start
    <2>2. phase' = "idle"
        BY <2>1 DEF TypeInv, CallbackInv
    <2>3. \A c \in Counter : stats'[c] = 0
        BY <2>1 DEF Zero
    <2>4. Open' = 0 /\ Settled' = 0 /\ Ended' = 0
        BY <2>1, <2>2 DEF Open, Settled, Ended
    <2>5. deliveries' - before' = 0
        BY <1>nat, <2>1
    <2> QED  BY <1>names, <2>3, <2>4, <2>5
<1>8. CASE Callback
    <2>1. \E kind \in Kind : Deliver(kind)
        BY <1>8 DEF Callback, DeliverValid, DeliverOther, Kind
    <2>2. /\ phase = "idle" /\ phase' \in Kind /\ Counted("received")
          /\ process = "started" /\ UNCHANGED <<process, before>>
          /\ deliveries' = deliveries + 1
        BY <2>1 DEF Deliver
    <2>3. /\ stats'["received"] = stats["received"] + 1
          /\ stats'["handled"] = stats["handled"]
          /\ stats'["errors"] = stats["errors"]
          /\ stats'["forwarded"] = stats["forwarded"]
          /\ stats'["failures"] = stats["failures"]
          /\ stats'["invalid"] = stats["invalid"]
        BY <2>2, CountedEffect, <1>names
    <2>4. /\ Open = 0 /\ Open' = 1 /\ Settled = 0 /\ Settled' = 0 /\ Ended' = Ended
        BY <2>2 DEF Open, Settled, Ended, Kind
    <2> QED  BY <1>was, <1>nat, <2>2, <2>3, <2>4
<1>9. CASE CountUnparsable
    <2>1. /\ phase = "unparsable" /\ phase' = "idle" /\ Counted("errors")
          /\ UNCHANGED <<process, deliveries, before>>
        BY <1>9 DEF CountUnparsable, Move
    <2>2. /\ stats'["received"] = stats["received"]
          /\ stats'["handled"] = stats["handled"]
          /\ stats'["errors"] = stats["errors"] + 1
          /\ stats'["forwarded"] = stats["forwarded"]
          /\ stats'["failures"] = stats["failures"]
          /\ stats'["invalid"] = stats["invalid"]
        BY <2>1, CountedEffect, <1>names
    <2>3. /\ Open = 1 /\ Open' = 0 /\ Settled = 0 /\ Settled' = 0
          /\ Ended' = Ended /\ process # "down"
        BY <2>1 DEF Open, Settled, Ended
    <2> QED  BY <1>was, <1>nat, <2>1, <2>2, <2>3
<1>10. CASE CountInvalid
    <2>1. /\ phase = "invalid" /\ phase' = "counted" /\ Counted("invalid")
          /\ UNCHANGED <<process, deliveries, before>>
        BY <1>10 DEF CountInvalid, Move
    <2>2. /\ stats'["received"] = stats["received"]
          /\ stats'["handled"] = stats["handled"]
          /\ stats'["errors"] = stats["errors"]
          /\ stats'["forwarded"] = stats["forwarded"]
          /\ stats'["failures"] = stats["failures"]
          /\ stats'["invalid"] = stats["invalid"] + 1
        BY <2>1, CountedEffect, <1>names
    <2>3. /\ Open = 1 /\ Open' = 1 /\ Settled = 0 /\ Settled' = 1
          /\ Ended' = Ended /\ process # "down"
        BY <2>1 DEF Open, Settled, Ended
    <2> QED  BY <1>was, <1>nat, <2>1, <2>2, <2>3
<1>11. CASE CountHandled
    <2>1. /\ phase = "counted" /\ phase' = "idle" /\ Counted("handled")
          /\ UNCHANGED <<process, deliveries, before>>
        BY <1>11 DEF CountHandled, Move
    <2>2. /\ stats'["received"] = stats["received"]
          /\ stats'["handled"] = stats["handled"] + 1
          /\ stats'["errors"] = stats["errors"]
          /\ stats'["forwarded"] = stats["forwarded"]
          /\ stats'["failures"] = stats["failures"]
          /\ stats'["invalid"] = stats["invalid"]
        BY <2>1, CountedEffect, <1>names
    <2>3. /\ Open = 1 /\ Open' = 0 /\ Settled = 1 /\ Settled' = 0
          /\ Ended' = Ended /\ process # "down"
        BY <2>1 DEF Open, Settled, Ended
    <2> QED  BY <1>was, <1>nat, <2>1, <2>2, <2>3
<1>12. CASE Forwarded
    <2>1. /\ phase = "valid" /\ phase' = "counted" /\ Counted("forwarded")
          /\ UNCHANGED <<process, deliveries, before>>
        BY <1>12 DEF Forwarded, Return, Move
    <2>2. /\ stats'["received"] = stats["received"]
          /\ stats'["handled"] = stats["handled"]
          /\ stats'["errors"] = stats["errors"]
          /\ stats'["forwarded"] = stats["forwarded"] + 1
          /\ stats'["failures"] = stats["failures"]
          /\ stats'["invalid"] = stats["invalid"]
        BY <2>1, CountedEffect, <1>names
    <2>3. /\ Open = 1 /\ Open' = 1 /\ Settled = 0 /\ Settled' = 1
          /\ Ended' = Ended /\ process # "down"
        BY <2>1 DEF Open, Settled, Ended
    <2> QED  BY <1>was, <1>nat, <2>1, <2>2, <2>3
<1>13. CASE GiveUp
    <2>1. /\ phase = "valid" /\ phase' = "counted" /\ Counted("failures")
          /\ UNCHANGED <<process, deliveries, before>>
        BY <1>13 DEF GiveUp, Return, Move
    <2>2. /\ stats'["received"] = stats["received"]
          /\ stats'["handled"] = stats["handled"]
          /\ stats'["errors"] = stats["errors"]
          /\ stats'["forwarded"] = stats["forwarded"]
          /\ stats'["failures"] = stats["failures"] + 1
          /\ stats'["invalid"] = stats["invalid"]
        BY <2>1, CountedEffect, <1>names
    <2>3. /\ Open = 1 /\ Open' = 1 /\ Settled = 0 /\ Settled' = 1
          /\ Ended' = Ended /\ process # "down"
        BY <2>1 DEF Open, Settled, Ended
    <2> QED  BY <1>was, <1>nat, <2>1, <2>2, <2>3
<1>14. CASE Raise
    <2>1. /\ phase = "raising" /\ phase' = "idle" /\ process' = "dead"
          /\ UNCHANGED <<stats, deliveries, before>>
        BY <1>14 DEF Raise, history
    <2>2. process = "started"
        BY <2>1 DEF TypeInv, CallbackInv
    <2>3. Open = 1 /\ Open' = 0 /\ Settled = 0 /\ Settled' = 0 /\ Ended = 0 /\ Ended' = 1
        BY <2>1, <2>2 DEF Open, Settled, Ended
    <2> QED  BY <1>was, <1>nat, <2>1, <2>2, <2>3
<1> QED
    BY <1>2, <1>3, <1>4, <1>5, <1>6, <1>7, <1>8, <1>9, <1>10, <1>11, <1>12, <1>13, <1>14
    DEF Next, Publish, Resend, Count, Finish, Refused, AnsweredWithError, TimedOut

\* The two counters that speak of ingestion count just these POSTs.
SetInv ==
    process # "down" => /\ Cardinality(Confirmed) = stats["forwarded"]
                        /\ Cardinality(Failed) = stats["failures"]

\* Every step keeps the two at what they count.
LEMMA StepSetInv ==
    TypeInv /\ OrderInv /\ LifeInv /\ SetInv /\ [Next]_vars => SetInv'
<1> SUFFICES ASSUME TypeInv, OrderInv, LifeInv, SetInv, [Next]_vars, process' # "down"
             PROVE  /\ Cardinality(Confirmed') = stats'["forwarded"]
                    /\ Cardinality(Failed') = stats'["failures"]
    BY DEF SetInv
<1> DEFINE Right == /\ Cardinality(Confirmed') = stats'["forwarded"]
                    /\ Cardinality(Failed') = stats'["failures"]
<1>types. /\ deliveries \in Nat /\ before \in Nat
          /\ ingested \in Seq(Post) /\ inflight \subseteq Post
          /\ DOMAIN ingested = 1..Len(ingested) /\ Len(ingested) \in Nat
          /\ current # NoPost => current.delivery = deliveries /\ deliveries # 0
          /\ phase = "valid" <=> current # NoPost
          /\ givenUp \cup cut \subseteq 1..deliveries /\ NoPost.delivery = 0
    BY LenProperties DEF TypeInv, TypeOK, CallbackInv, NoPost
<1>names. /\ "received" \in Counter /\ "handled" \in Counter /\ "errors" \in Counter
          /\ "forwarded" \in Counter /\ "failures" \in Counter /\ "invalid" \in Counter
    BY DEF Counter
<1>nat. /\ stats["forwarded"] \in Nat /\ stats["failures"] \in Nat
        /\ Cardinality(Confirmed) \in Nat /\ Cardinality(Failed) \in Nat
    BY <1>names, CountedFinite DEF TypeInv, TypeOK
<1>was. process # "down" => /\ Cardinality(Confirmed) = stats["forwarded"]
                            /\ Cardinality(Failed) = stats["failures"]
    BY DEF SetInv
\* Steps that disturb none of it.
<1>1. ASSUME UNCHANGED <<current, ingested, before, givenUp>>, process # "down",
             /\ stats'["forwarded"] = stats["forwarded"]
             /\ stats'["failures"] = stats["failures"]
      PROVE  Right
    <2>1. Confirmed' = Confirmed /\ Failed' = Failed
        BY <1>1 DEF Confirmed, Taken, Failed
    <2> QED  BY <1>1, <1>was, <2>1
<1>2. ASSUME NEW n, NEW kind, Route(n, kind) PROVE Right
    BY <1>1, <1>2 DEF Route, history
<1>3. CASE BrokerSubscribes \/ OnConnect \/ LinkLost
    BY <1>1, <1>3 DEF BrokerSubscribes, OnConnect, LinkLost, history
<1>4. CASE Stop \/ Kill
    BY <1>4 DEF Stop, Kill
<1>5. CASE ReadCounter \/ UNCHANGED vars
    BY <1>1, <1>5 DEF ReadCounter, vars, history
<1>6. ASSUME NEW r \in inflight, Vanish(r) PROVE Right
    BY <1>1, <1>6 DEF Vanish, history
<1>7. CASE Start
    <2>1. /\ process = "down" /\ stats' = Zero /\ before' = deliveries /\ current = NoPost
          /\ UNCHANGED <<current, ingested, deliveries, givenUp>>
        BY <1>7 DEF Start, LifeInv
    <2>2. \A i \in DOMAIN ingested :
              ingested[i].delivery \in Nat /\ ingested[i].delivery <= deliveries
        BY <1>types DEF LifeInv, Distinct
    <2>3. \A d \in givenUp : d \in Nat /\ d <= deliveries
        BY <1>types
    <2>4. Confirmed' = {} /\ Failed' = {}
        BY <1>types, <2>1, <2>2, <2>3 DEF Confirmed, Taken, Failed
    <2>5. \A c \in Counter : stats'[c] = 0
        BY <2>1 DEF Zero
    <2> QED  BY <1>names, <2>4, <2>5, FS_EmptySet
\* A delivery: the two sets stay as they are.
<1>8. ASSUME NEW kind \in Kind, Deliver(kind),
             current' = current \/ current'.delivery = deliveries + 1
      PROVE  Right
    <2>1. /\ phase = "idle" /\ Counted("received") /\ process = "started"
          /\ UNCHANGED <<process, ingested, before, givenUp>>
        BY <1>8 DEF Deliver
    <2>2. \A i \in DOMAIN ingested : /\ ingested[i].delivery # current.delivery
                                     /\ ingested[i].delivery # current'.delivery
        <3>1. current.delivery = 0
            BY <2>1, <1>types
        <3>2. current'.delivery = 0 \/ current'.delivery = deliveries + 1
            BY <1>8, <3>1
        <3>3. \A i \in DOMAIN ingested : ingested[i].delivery \in 1..deliveries
            BY DEF LifeInv, Distinct
        <3> QED  BY <1>types, <3>1, <3>2, <3>3
    <2>3. Confirmed' = Confirmed /\ Failed' = Failed
        BY <2>1, <2>2 DEF Confirmed, Taken, Failed
    <2>4. stats'["forwarded"] = stats["forwarded"] /\ stats'["failures"] = stats["failures"]
        BY <2>1, CountedEffect, <1>names, <1>nat
    <2> QED  BY <1>was, <2>1, <2>3, <2>4
<1>9. CASE DeliverOther
    <2>1. PICK kind \in Kind \ {"valid"} : Deliver(kind)
        BY <1>9 DEF DeliverOther
    <2> QED  BY <1>8, <1>9, <2>1 DEF DeliverOther
<1>10. CASE DeliverValid
    <2>1. Deliver("valid") /\ "valid" \in Kind /\ current'.delivery = deliveries + 1
        BY <1>10 DEF DeliverValid, Kind
    <2> QED  BY <1>8, <2>1
<1>11. CASE Count
    <2>1. /\ Counted("errors") \/ Counted("invalid") \/ Counted("handled")
          /\ UNCHANGED <<process, current, ingested, before, givenUp>>
        BY <1>11 DEF Count, CountUnparsable, CountInvalid, CountHandled, Move
    <2>2. stats'["forwarded"] = stats["forwarded"] /\ stats'["failures"] = stats["failures"]
        BY <2>1, CountedEffect, <1>names, <1>nat
    <2> QED  BY <1>1, <2>1, <2>2
<1>12. CASE Raise
    <2>1. UNCHANGED <<current, ingested, before, givenUp, stats>> /\ process = "started"
        BY <1>12 DEF Raise, history, TypeInv, CallbackInv
    <2> QED  BY <1>1, <2>1
\* The end of a POST.
<1>13. ASSUME NEW counter, Return(counter)
       PROVE  /\ Counted(counter) /\ process # "down" /\ UNCHANGED <<ingested, before>>
              /\ current'.delivery = 0
              /\ current.delivery \in Nat /\ current.delivery > before
              /\ current.delivery \notin givenUp
    <2>1. /\ Counted(counter) /\ phase = "valid" /\ current' = NoPost
          /\ UNCHANGED <<ingested, before>>
        BY <1>13 DEF Return, Move
    <2>2. current # NoPost
        BY <1>types, <2>1
    <2> QED  BY <1>types, <2>1, <2>2 DEF LifeInv
<1>14. CASE Forwarded
    <2>1. Return("forwarded") /\ UNCHANGED givenUp /\ current \in ToSet(ingested)
        BY <1>14 DEF Forwarded
    <2>2. PICK k \in DOMAIN ingested : ingested[k] = current
        BY <2>1 DEF ToSet
    <2>3. \A i \in DOMAIN ingested : /\ ingested[i].delivery \in Nat \ {0}
                                     /\ ingested[i].delivery = current.delivery => i = k
        BY <1>types, <2>2 DEF LifeInv, Distinct
    <2>4. /\ UNCHANGED <<ingested, before, givenUp>> /\ current'.delivery = 0
          /\ current.delivery > before /\ current.delivery \notin givenUp
          /\ Counted("forwarded") /\ process # "down"
        BY <1>13, <2>1
    <2>5. Confirmed' = Confirmed \cup {k} /\ k \notin Confirmed
        <3>1. \A i \in DOMAIN ingested :
                  ingested[i].delivery # 0 /\ (i # k => ingested[i].delivery # current.delivery)
            BY <2>3
        <3> QED  BY <2>2, <2>4, <3>1 DEF Confirmed, Taken
    <2>6. Failed' = Failed
        BY <2>4 DEF Failed
    <2>7. Cardinality(Confirmed') = Cardinality(Confirmed) + 1
        <3>1. IsFiniteSet(Confirmed)
            BY CountedFinite
        <3> QED  BY <2>5, <3>1, FS_AddElement
    <2>8. /\ stats'["forwarded"] = stats["forwarded"] + 1
          /\ stats'["failures"] = stats["failures"]
        BY <2>4, CountedEffect, <1>names, <1>nat
    <2> QED  BY <1>was, <2>4, <2>6, <2>7, <2>8
<1>15. CASE GiveUp
    <2>1. Return("failures") /\ givenUp' = givenUp \cup {current.delivery}
        BY <1>15 DEF GiveUp
    <2>2. /\ UNCHANGED <<ingested, before>> /\ current'.delivery = 0
          /\ current.delivery > before /\ current.delivery \notin givenUp
          /\ Counted("failures") /\ process # "down"
        BY <1>13, <2>1
    <2>3. \A i \in DOMAIN ingested : ingested[i].delivery # 0
        BY <1>types DEF LifeInv, Distinct
    <2>4. Confirmed' = Confirmed
        BY <2>1, <2>2, <2>3 DEF Confirmed, Taken
    <2>5. Failed' = Failed \cup {current.delivery} /\ current.delivery \notin Failed
        BY <2>1, <2>2 DEF Failed
    <2>6. Cardinality(Failed') = Cardinality(Failed) + 1
        <3>1. IsFiniteSet(Failed)
            BY CountedFinite
        <3> QED  BY <2>5, <3>1, FS_AddElement
    <2>7. /\ stats'["forwarded"] = stats["forwarded"]
          /\ stats'["failures"] = stats["failures"] + 1
        BY <2>2, CountedEffect, <1>names, <1>nat
    <2> QED  BY <1>was, <2>2, <2>4, <2>6, <2>7
<1>16. ASSUME NEW r \in inflight, Ingest(r) PROVE Right
    <2>1. /\ UNCHANGED <<process, stats, current, deliveries, before, givenUp>>
          /\ ingested' = Append(ingested, r)
        BY <1>16 DEF Ingest, history
    <2>2. /\ DOMAIN ingested' = 1..Len(ingested) + 1
          /\ \A i \in 1..Len(ingested) : ingested'[i] = ingested[i]
          /\ ingested'[Len(ingested) + 1] = r
        BY <2>1, <1>types, AppendProperties
    <2>3. r.delivery > before => r.delivery \in givenUp \cup {current.delivery}
        <3>1. process # "down" /\ r.delivery \in Nat
            BY <2>1, <1>types DEF Post
        <3>2. r = current \/ r.delivery \in givenUp \cup cut
            BY DEF OrderInv, AwaitedOrGivenUp
        <3>3. \A d \in cut : d <= before
            BY <3>1 DEF LifeInv
        <3> QED  BY <3>1, <3>2, <3>3, <1>types
    <2>4. Confirmed' = Confirmed
        <3>1. Len(ingested) + 1 \notin Confirmed'
            BY <2>1, <2>2, <2>3 DEF Confirmed, Taken
        <3>2. \A i \in 1..Len(ingested) : i \in Confirmed' <=> i \in Confirmed
            BY <2>1, <2>2, <1>types DEF Confirmed, Taken
        <3>3. Confirmed \subseteq 1..Len(ingested) /\ Confirmed' \subseteq 1..Len(ingested) + 1
            BY <2>2, <1>types DEF Confirmed, Taken
        <3>4. \A i \in 1..Len(ingested) + 1 : i \in 1..Len(ingested) \/ i = Len(ingested) + 1
            BY <1>types
        <3> QED  BY <3>1, <3>2, <3>3, <3>4
    <2>5. Failed' = Failed
        BY <2>1 DEF Failed
    <2> QED  BY <2>1, <2>4, <2>5, <1>was
<1> QED
    BY <1>2, <1>3, <1>4, <1>5, <1>6, <1>7, <1>9, <1>10, <1>11, <1>12, <1>14, <1>15, <1>16
    DEF Next, Publish, Resend, Callback, Finish, Refused, AnsweredWithError, TimedOut

\* What ingestion took is counted as forwarded, or given up, or awaited.
LEMMA TakenBound ==
    ASSUME TypeInv, LifeInv, SetInv, process # "down"
    PROVE  /\ stats["forwarded"] <= Cardinality(Taken)
           /\ Cardinality(Taken) <= stats["forwarded"] + stats["failures"] + Waiting
           /\ Cardinality(Taken) \in Nat /\ Waiting \in {0, 1}
<1> DEFINE Rest == Taken \ Confirmed
           Known == IF current = NoPost THEN Failed ELSE Failed \cup {current.delivery}
           f == [i \in Rest |-> ingested[i].delivery]
<1>1. /\ IsFiniteSet(Taken) /\ Confirmed \subseteq Taken /\ IsFiniteSet(Failed)
      /\ Cardinality(Confirmed) \in Nat /\ Cardinality(Failed) \in Nat
    BY CountedFinite DEF Confirmed
<1>2. /\ \A i \in Rest : ingested[i].delivery \in Known
      /\ \A i, j \in Rest : ingested[i].delivery = ingested[j].delivery => i = j
    <2>1. \A i \in Taken : ingested[i].delivery # 0 /\ ingested[i].delivery > before
        BY DEF Taken, LifeInv, Distinct
    <2>2. current = NoPost => current.delivery = 0
        BY DEF NoPost
    <2>3. \A i, j \in Taken : ingested[i].delivery = ingested[j].delivery => i = j
        BY DEF Taken, LifeInv, Distinct
    <2> QED  BY <2>1, <2>2, <2>3 DEF Confirmed, Failed
<1>3. IsFiniteSet(Known) /\ Cardinality(Known) <= Cardinality(Failed) + Waiting
      /\ Cardinality(Known) \in Nat
    <2>1. CASE current = NoPost
        BY <1>1, <2>1 DEF Waiting
    <2>2. CASE current # NoPost
        <3>1. Cardinality(Failed \cup {current.delivery})
                  \in {Cardinality(Failed), Cardinality(Failed) + 1}
            BY <1>1, FS_AddElement
        <3>2. IsFiniteSet(Failed \cup {current.delivery})
            BY <1>1, FS_AddElement
        <3> QED  BY <1>1, <2>2, <3>1, <3>2 DEF Waiting
    <2> QED  BY <2>1, <2>2
<1> HIDE DEF Rest, Known
<1>4. f \in Injection(Rest, Known)
    BY <1>2 DEF Injection, IsInjective
<1>5. Cardinality(Rest) <= Cardinality(Known) /\ IsFiniteSet(Rest)
      /\ Cardinality(Rest) \in Nat
    BY <1>3, <1>4, FS_Injection, FS_CardinalityType
<1>6. Cardinality(Rest) = Cardinality(Taken) - Cardinality(Confirmed)
    <2>1. Taken \cap Confirmed = Confirmed
        BY <1>1
    <2> QED  BY <1>1, <2>1, FS_Difference DEF Rest
<1>7. Cardinality(Taken) \in Nat /\ Waiting \in {0, 1}
    BY CountedFinite DEF Waiting
<1>8. /\ Cardinality(Confirmed) = stats["forwarded"]
      /\ Cardinality(Failed) = stats["failures"]
    BY DEF SetInv
<1>9. /\ stats["forwarded"] <= Cardinality(Taken)
      /\ Cardinality(Taken) <= stats["forwarded"] + stats["failures"] + Waiting
    BY <1>1, <1>3, <1>5, <1>6, <1>7, <1>8
<1> QED  BY <1>7, <1>9

\* What the answer says of the i-th counter it reads: what it has read, or would
\* read now.
Latest == [i \in 1..6 |-> IF i <= read THEN report[Reported[i]] ELSE stats[Reported[i]]]

\* An answer reads a cause before its effects, so what it has read of the one
\* never exceeds what it has read, or may still read, of the other.
HealthInv ==
    process # "down" =>
        /\ \A i \in 1..read : report[Reported[i]] <= stats[Reported[i]]
        /\ read >= 1 => Latest[1] <= Latest[2] + Latest[3] + 1
        /\ read >= 1 => takenBefore <= Latest[4] + Latest[5] + 1
        /\ read >= 2 => Latest[2] <= Latest[4] + Latest[5] + Latest[6]

\* The counters of a running process only grow.
LEMMA CountersGrow ==
    ASSUME TypeInv, [Next]_vars, process # "down", ~ReadCounter
    PROVE  /\ UNCHANGED answer
           /\ \A c \in Counter : stats[c] \in Nat /\ stats'[c] \in Nat /\ stats[c] <= stats'[c]
<1>1. \A c \in Counter : stats[c] \in Nat
    BY DEF TypeInv, TypeOK
<1>2. ASSUME UNCHANGED <<answer, stats>>
      PROVE  /\ UNCHANGED answer
             /\ \A c \in Counter : stats[c] \in Nat /\ stats'[c] \in Nat /\ stats[c] <= stats'[c]
    BY <1>1, <1>2
<1>3. ASSUME NEW counter \in Counter, Counted(counter), UNCHANGED answer
      PROVE  /\ UNCHANGED answer
             /\ \A c \in Counter : stats[c] \in Nat /\ stats'[c] \in Nat /\ stats[c] <= stats'[c]
    <2>1. \A c \in Counter : stats'[c] = stats[c] + IF c = counter THEN 1 ELSE 0
        BY <1>3, CountedEffect
    <2> QED  BY <1>1, <1>3, <2>1
<1>4. ASSUME NEW n, NEW kind, Route(n, kind) PROVE UNCHANGED <<answer, stats>>
    BY <1>4 DEF Route
<1>5. BrokerSubscribes \/ OnConnect \/ LinkLost \/ Stop \/ Kill => UNCHANGED <<answer, stats>>
    BY DEF BrokerSubscribes, OnConnect, LinkLost, Stop, Kill
<1>6. ~Start
    BY DEF Start
<1>7. Raise \/ UNCHANGED vars => UNCHANGED <<answer, stats>>
    BY DEF Raise, vars
<1>8. ASSUME NEW r \in inflight, Ingest(r) \/ Vanish(r) PROVE UNCHANGED <<answer, stats>>
    BY <1>8 DEF Ingest, Vanish
<1>9. Callback => Counted("received") /\ UNCHANGED answer
    BY DEF Callback, DeliverValid, DeliverOther, Deliver
<1>10. Count => /\ Counted("errors") \/ Counted("invalid") \/ Counted("handled")
                /\ UNCHANGED answer
    BY DEF Count, CountUnparsable, CountInvalid, CountHandled, Move
<1>11. Finish => (Counted("forwarded") \/ Counted("failures")) /\ UNCHANGED answer
    BY DEF Finish, Forwarded, Refused, AnsweredWithError, TimedOut, GiveUp, Return, Move
<1>12. /\ "received" \in Counter /\ "handled" \in Counter /\ "errors" \in Counter
       /\ "forwarded" \in Counter /\ "failures" \in Counter /\ "invalid" \in Counter
    BY DEF Counter
<1>13. \/ UNCHANGED <<answer, stats>>
       \/ \E counter \in Counter : Counted(counter) /\ UNCHANGED answer
    BY <1>4, <1>5, <1>6, <1>7, <1>8, <1>9, <1>10, <1>11, <1>12 DEF Next, Publish, Resend
<1> QED  BY <1>2, <1>3, <1>13

\* The range of what is compared.
LEMMA LatestNumbers ==
    ASSUME TypeInv
    PROVE  /\ read \in 0..6
           /\ \A i \in 1..6 : /\ Latest[i] \in Nat
                              /\ report[Reported[i]] \in Nat /\ stats[Reported[i]] \in Nat
<1>1. report \in [Counter -> Nat] /\ stats \in [Counter -> Nat] /\ read \in 0..6
    BY SixCounters DEF TypeInv, TypeOK
<1>2. \A i \in 1..6 : report[Reported[i]] \in Nat /\ stats[Reported[i]] \in Nat
    BY <1>1, SixCounters
<1> QED  BY <1>1, <1>2 DEF Latest

\* While the counters grow, what an answer has still to read grows, and what it
\* has read stays; reading itself changes nothing of what it will have read.
LEMMA StepHealthInv ==
    TypeInv /\ LifeInv /\ SumInv /\ SetInv /\ HealthInv /\ [Next]_vars => HealthInv'
<1> SUFFICES ASSUME TypeInv, LifeInv, SumInv, SetInv, HealthInv, [Next]_vars, process' # "down"
             PROVE  /\ \A i \in 1..read' : report'[Reported[i]] <= stats'[Reported[i]]
                    /\ read' >= 1 => Latest'[1] <= Latest'[2] + Latest'[3] + 1
                    /\ read' >= 1 => takenBefore' <= Latest'[4] + Latest'[5] + 1
                    /\ read' >= 2 => Latest'[2] <= Latest'[4] + Latest'[5] + Latest'[6]
    BY DEF HealthInv
<1> DEFINE Right ==
               /\ \A i \in 1..read' : report'[Reported[i]] <= stats'[Reported[i]]
               /\ read' >= 1 => Latest'[1] <= Latest'[2] + Latest'[3] + 1
               /\ read' >= 1 => takenBefore' <= Latest'[4] + Latest'[5] + 1
               /\ read' >= 2 => Latest'[2] <= Latest'[4] + Latest'[5] + Latest'[6]
<1>nat. /\ read \in 0..6 /\ takenBefore \in Nat
        /\ \A i \in 1..6 : /\ Latest[i] \in Nat /\ Reported[i] \in Counter
                           /\ report[Reported[i]] \in Nat /\ stats[Reported[i]] \in Nat
    BY LatestNumbers, SixCounters DEF TypeInv, TypeOK
<1>was. process # "down" =>
            /\ \A i \in 1..read : report[Reported[i]] <= stats[Reported[i]]
            /\ read >= 1 => Latest[1] <= Latest[2] + Latest[3] + 1
            /\ read >= 1 => takenBefore <= Latest[4] + Latest[5] + 1
            /\ read >= 2 => Latest[2] <= Latest[4] + Latest[5] + Latest[6]
    BY DEF HealthInv
<1>1. CASE process = "down"
    <2>1. ~Callback /\ ~Count /\ ~Raise /\ ~Finish /\ ~ReadCounter /\ ~OnConnect /\ ~Stop /\ ~Kill
        <3>1. phase = "idle"
            BY <1>1 DEF TypeInv, CallbackInv
        <3>2. ~Callback /\ ~ReadCounter /\ ~OnConnect /\ ~Stop /\ ~Kill
            BY <1>1 DEF Callback, DeliverValid, DeliverOther, Deliver, ReadCounter, OnConnect,
                        Stop, Kill
        <3>3. ~Count /\ ~Raise /\ ~Finish
            BY <3>1 DEF Count, CountUnparsable, CountInvalid, CountHandled, Raise, Finish,
                        Forwarded, Refused, AnsweredWithError, TimedOut, GiveUp, Return, Move
        <3> QED  BY <3>2, <3>3
    <2>2. \A n, kind : Route(n, kind) => process' = process
        BY DEF Route
    <2>3. BrokerSubscribes \/ LinkLost \/ UNCHANGED vars => process' = process
        BY DEF BrokerSubscribes, LinkLost, vars
    <2>4. \A r \in inflight : Ingest(r) \/ Vanish(r) => process' = process
        BY DEF Ingest, Vanish
    <2>5. Start
        BY <1>1, <2>1, <2>2, <2>3, <2>4 DEF Next, Publish, Resend
    <2>6. read' = 0
        BY <2>5 DEF Start
    <2> QED  BY <2>6
<1>2. CASE process # "down" /\ ~ReadCounter
    <2>1. /\ UNCHANGED <<report, read, takenBefore>>
          /\ \A i \in 1..6 : /\ stats'[Reported[i]] \in Nat
                             /\ stats[Reported[i]] <= stats'[Reported[i]]
        BY <1>2, <1>nat, CountersGrow DEF answer
    <2>2. \A i \in 1..6 : /\ Latest'[i] \in Nat /\ Latest[i] <= Latest'[i]
                          /\ i <= read => Latest'[i] = Latest[i]
        BY <1>nat, <2>1 DEF Latest
    <2>3. \A i \in 1..read' : report'[Reported[i]] <= stats'[Reported[i]]
        BY <1>2, <1>nat, <1>was, <2>1
    <2>4. /\ Latest[1] \in Nat /\ Latest[2] \in Nat /\ Latest[3] \in Nat
          /\ Latest[4] \in Nat /\ Latest[5] \in Nat /\ Latest[6] \in Nat
        BY <1>nat
    <2>5. /\ Latest'[1] \in Nat /\ Latest'[2] \in Nat /\ Latest'[3] \in Nat
          /\ Latest'[4] \in Nat /\ Latest'[5] \in Nat /\ Latest'[6] \in Nat
        BY <2>2
    <2>6. /\ Latest[2] <= Latest'[2] /\ Latest[3] <= Latest'[3] /\ Latest[4] <= Latest'[4]
          /\ Latest[5] <= Latest'[5] /\ Latest[6] <= Latest'[6]
        BY <2>2
    <2>7. /\ read' >= 1 => read >= 1 /\ Latest'[1] = Latest[1] /\ takenBefore' = takenBefore
          /\ read' >= 2 => read >= 2 /\ Latest'[2] = Latest[2]
        BY <2>1, <2>2
    <2>8. ASSUME read' >= 1
          PROVE  /\ Latest'[1] <= Latest'[2] + Latest'[3] + 1
                 /\ takenBefore' <= Latest'[4] + Latest'[5] + 1
        <3>1. /\ Latest[1] <= Latest[2] + Latest[3] + 1
              /\ takenBefore <= Latest[4] + Latest[5] + 1
              /\ Latest'[1] = Latest[1] /\ takenBefore' = takenBefore
            BY <1>2, <1>was, <2>7, <2>8
        <3> QED  BY <1>nat, <2>4, <2>5, <2>6, <3>1
    <2>9. ASSUME read' >= 2
          PROVE  Latest'[2] <= Latest'[4] + Latest'[5] + Latest'[6]
        <3>1. Latest[2] <= Latest[4] + Latest[5] + Latest[6] /\ Latest'[2] = Latest[2]
            BY <1>2, <1>was, <2>7, <2>9
        <3> QED  BY <2>4, <2>5, <2>6, <3>1
    <2> QED  BY <2>3, <2>8, <2>9
<1>3. CASE ReadCounter
    <2> DEFINE next == Reported[read + 1]
    <2>1. /\ process # "down" /\ read \in 0..5 /\ read' = read + 1 /\ stats' = stats
          /\ report' = [report EXCEPT ![next] = stats[next]]
          /\ takenBefore' = IF read = 0 THEN Cardinality(Taken) ELSE takenBefore
          /\ report \in [Counter -> Nat] /\ next \in Counter
        <3>1. /\ process # "down" /\ read < 6 /\ read' = read + 1 /\ stats' = stats
              /\ report' = [report EXCEPT ![next] = stats[next]]
              /\ takenBefore' = IF read = 0 THEN Cardinality(Taken) ELSE takenBefore
            BY <1>3, SixCounters DEF ReadCounter
        <3>2. read \in 0..5 /\ read + 1 \in 1..6
            BY <1>nat, <3>1
        <3>3. next \in Counter
            BY <3>2, SixCounters
        <3>4. report \in [Counter -> Nat]
            BY DEF TypeInv, TypeOK
        <3> QED  BY <3>1, <3>2, <3>3, <3>4
    <2>2. \A i \in 1..6 : i <= read => Reported[i] # next
        BY <2>1 DEF Reported
    <2>3. /\ \A i \in 1..6 : i <= read => report'[Reported[i]] = report[Reported[i]]
          /\ report'[next] = stats[next]
        BY <1>nat, <2>1, <2>2
    <2>4. \A i \in 1..6 : Latest'[i] = Latest[i]
        BY <1>nat, <2>1, <2>3 DEF Latest
    <2>5. \A i \in 1..read' : report'[Reported[i]] <= stats'[Reported[i]]
        <3>1. SUFFICES ASSUME NEW i \in 1..read'
                       PROVE  report'[Reported[i]] <= stats[Reported[i]]
            BY <2>1
        <3>2. CASE i <= read
            BY <1>nat, <1>was, <2>1, <2>3, <3>2
        <3>3. CASE i = read + 1
            BY <1>nat, <2>1, <2>3, <3>3
        <3> QED  BY <2>1, <3>2, <3>3
    <2>6. ASSUME read = 0
          PROVE  Latest[1] <= Latest[2] + Latest[3] + 1 /\ takenBefore' <= Latest[4] + Latest[5] + 1
        <3>1. /\ Latest[1] = stats["received"] /\ Latest[2] = stats["handled"]
              /\ Latest[3] = stats["errors"] /\ Latest[4] = stats["forwarded"]
              /\ Latest[5] = stats["failures"]
            BY <2>6 DEF Latest, Reported
        <3>2. /\ takenBefore' = Cardinality(Taken) /\ Cardinality(Taken) \in Nat
              /\ Cardinality(Taken) <= stats["forwarded"] + stats["failures"] + Waiting
              /\ Waiting \in {0, 1}
            BY <2>1, <2>6, TakenBound
        <3>3. stats["received"] = stats["handled"] + stats["errors"] + Open + Ended
            BY <2>1 DEF SumInv, Adds
        <3>4. stats["received"] <= stats["handled"] + stats["errors"] + 1
            BY <3>3, SumNumbers
        <3>5. Cardinality(Taken) <= stats["forwarded"] + stats["failures"] + 1
            BY <3>2, SumNumbers
        <3> QED  BY <3>1, <3>2, <3>4, <3>5
    <2>7. ASSUME read = 1
          PROVE  Latest[2] <= Latest[4] + Latest[5] + Latest[6]
        <3>1. /\ Latest[2] = stats["handled"] /\ Latest[4] = stats["forwarded"]
              /\ Latest[5] = stats["failures"] /\ Latest[6] = stats["invalid"]
            BY <2>7 DEF Latest, Reported
        <3>2. stats["handled"] + Settled
                  = stats["forwarded"] + stats["failures"] + stats["invalid"]
            BY <2>1 DEF SumInv, Adds
        <3>3. stats["handled"] <= stats["forwarded"] + stats["failures"] + stats["invalid"]
            BY <3>2, SumNumbers
        <3> QED  BY <3>1, <3>3
    <2>8. read # 0 => takenBefore' = takenBefore /\ read >= 1
        BY <2>1
    <2>9. read' >= 2 => read = 1 \/ read >= 2
        BY <2>1
    <2>10. /\ Latest[1] <= Latest[2] + Latest[3] + 1
           /\ takenBefore' <= Latest[4] + Latest[5] + 1
           /\ read' >= 2 => Latest[2] <= Latest[4] + Latest[5] + Latest[6]
        BY <1>was, <2>1, <2>6, <2>7, <2>8, <2>9
    <2> QED  BY <2>4, <2>5, <2>10
<1> QED  BY <1>1, <1>2, <1>3

\* What an answer of /health says, however its reads and the statements of the
\* callbacks interleave, is bounded by what was delivered and ingested, give or
\* take the message that is being handled, or that ended the network thread.
THEOREM HealthIsTrue == Spec => []ReportBoundsTheTruth
<1>1. TypeInv /\ LifeInv /\ SumInv /\ SetInv /\ HealthInv => ReportBoundsTheTruth
    <2> SUFFICES ASSUME TypeInv, LifeInv, SumInv, SetInv, HealthInv, process # "down", read = 6
                 PROVE  LET outcomes == report["forwarded"] + report["failures"] + report["invalid"]
                        IN  /\ report["received"] <= report["handled"] + report["errors"] + 1
                            /\ report["handled"] <= outcomes
                            /\ outcomes + report["errors"] <= deliveries - before
                            /\ report["forwarded"] <= Cardinality(Taken)
                            /\ takenBefore <= report["forwarded"] + report["failures"] + 1
        BY SixCounters DEF ReportBoundsTheTruth
    <2>1. /\ Latest[1] = report["received"] /\ Latest[2] = report["handled"]
          /\ Latest[3] = report["errors"] /\ Latest[4] = report["forwarded"]
          /\ Latest[5] = report["failures"] /\ Latest[6] = report["invalid"]
        BY DEF Latest, Reported
    <2>2. /\ report["received"] <= report["handled"] + report["errors"] + 1
          /\ takenBefore <= report["forwarded"] + report["failures"] + 1
          /\ report["handled"] <= report["forwarded"] + report["failures"] + report["invalid"]
        BY <2>1 DEF HealthInv
    <2>3. /\ report["errors"] <= stats["errors"] /\ report["forwarded"] <= stats["forwarded"]
          /\ report["failures"] <= stats["failures"] /\ report["invalid"] <= stats["invalid"]
        <3>1. \A i \in 1..6 : report[Reported[i]] <= stats[Reported[i]]
            BY DEF HealthInv
        <3>2. /\ report[Reported[3]] <= stats[Reported[3]]
              /\ report[Reported[4]] <= stats[Reported[4]]
              /\ report[Reported[5]] <= stats[Reported[5]]
              /\ report[Reported[6]] <= stats[Reported[6]]
            BY <3>1
        <3> QED  BY <3>2 DEF Reported
    <2>4. /\ stats["received"] = deliveries - before
          /\ stats["received"] = stats["handled"] + stats["errors"] + Open + Ended
          /\ stats["handled"] + Settled
                 = stats["forwarded"] + stats["failures"] + stats["invalid"]
        BY DEF SumInv, Adds
    <2>5. /\ report["errors"] \in Nat /\ report["forwarded"] \in Nat
          /\ report["failures"] \in Nat /\ report["invalid"] \in Nat
        BY DEF TypeInv, TypeOK, Counter
    <2>6. report["forwarded"] + report["failures"] + report["invalid"] + report["errors"]
              <= deliveries - before
        <3>1. stats["forwarded"] + stats["failures"] + stats["invalid"] + stats["errors"]
                  <= deliveries - before
            BY <2>4, SumNumbers
        <3> QED  BY <2>3, <2>5, <3>1, SumNumbers
    <2>7. report["forwarded"] <= Cardinality(Taken)
        BY <2>3, <2>5, TakenBound, SumNumbers
    <2> QED  BY <2>2, <2>6, <2>7
<1> DEFINE Inv == TypeInv /\ OrderInv /\ LifeInv /\ SumInv /\ SetInv /\ HealthInv
<1>2. Inv /\ [Next]_vars => Inv'
    BY StepTypeInv, StepOrderInv, StepLifeInv, StepSumInv, StepSetInv, StepHealthInv
<1>3. Init => Inv
    <2>1. Init => OrderInv
        BY EmptySeq
        DEF Init, OrderInv, AwaitedOrGivenUp, IngestedOnce, OvertakenWasGivenUp
    <2>2. Init => LifeInv
        BY EmptySeq DEF Init, LifeInv, Distinct
    <2>3. Init => SumInv /\ SetInv /\ HealthInv
        BY DEF Init, SumInv, SetInv, HealthInv
    <2> QED  BY <2>1, <2>2, <2>3, InitTypeInv
<1>4. Inv => ReportBoundsTheTruth
    BY <1>1
<1> QED  BY <1>2, <1>3, <1>4, PTL DEF Spec

-----------------------------------------------------------------------------
(* What the bridge has to do is bounded and becomes less.                  *)

\* The broker holds no more than its queue has room for.
RoomInv == Len(queue) <= MaxQueue

\* What is left of the callback that is running.
Left == IF phase = "idle" THEN 0 ELSE IF phase \in {"valid", "invalid"} THEN 2 ELSE 1

\* The steps that the messages held for the bridge will take at most, three for
\* each, and what is left of the callback.
Backlog == 3 * Len(queue) + Left

Sent == (\E kind \in Kind : Publish(kind)) \/ (\E n \in DOMAIN published : Resend(n))

\* Only publishers add to it, and by one message at a time; each step of a
\* callback takes something off.
WorksOff ==
    /\ Callback \/ Count \/ Raise \/ Finish => Backlog' < Backlog
    /\ Sent => Backlog' <= Backlog + 3
    /\ ~Sent => Backlog' <= Backlog

\* The numbers behind it.
LEMMA BacklogNumbers ==
    ASSUME TypeInv
    PROVE  Len(queue) \in Nat /\ Left \in {0, 1, 2} /\ MaxQueue \in Nat
<1>1. queue \in Seq(Message)
    BY DEF TypeInv, TypeOK
<1>2. Len(queue) \in Nat /\ MaxQueue \in Nat
    BY <1>1, LenProperties, BoundsAssumption
<1> QED  BY <1>2 DEF Left

\* A message that is sent is held while there is room.
LEMMA RouteBacklog ==
    ASSUME TypeInv, RoomInv, NEW n \in 1..MaxMessages, NEW kind \in Kind,
           Route(n, kind)
    PROVE  /\ Len(queue') \in {Len(queue), Len(queue) + 1} /\ Len(queue') <= MaxQueue
           /\ Left' = Left
<1>1. queue \in Seq(Message) /\ Len(queue) \in Nat /\ Len(queue) <= MaxQueue /\ MaxQueue \in Nat
    BY BacklogNumbers DEF TypeInv, TypeOK, RoomInv
<1>2. phase' = phase
    BY DEF Route
<1>3. \/ queue' = queue
      \/ Len(queue) < MaxQueue /\ queue' = Append(queue, [id |-> n, kind |-> kind])
    BY DEF Route
<1>4. Len(Append(queue, [id |-> n, kind |-> kind])) = Len(queue) + 1
    <2>1. [id |-> n, kind |-> kind] \in Message
        BY DEF Message
    <2> QED  BY <1>1, <2>1, AppendProperties
<1>5. Len(queue') \in {Len(queue), Len(queue) + 1} /\ Len(queue') <= MaxQueue
    BY <1>1, <1>3, <1>4
<1> QED  BY <1>2, <1>5 DEF Left

\* What is delivered is held no longer.
LEMMA DeliverBacklog ==
    ASSUME TypeInv, NEW kind, Deliver(kind)
    PROVE  Len(queue') = Len(queue) - 1 /\ Left = 0
<1>1. queue \in Seq(Message) /\ queue # <<>> /\ queue' = Tail(queue) /\ phase = "idle"
    BY DEF Deliver, TypeInv, TypeOK
<1>2. Len(queue') = Len(queue) - 1
    BY <1>1, HeadTailProperties
<1> QED  BY <1>1, <1>2 DEF Left

\* A session that ends leaves nothing to do but to return.
LEMMA EndBacklog ==
    ASSUME TypeInv, EndSession
    PROVE  Len(queue') = 0
BY EmptySeq DEF EndSession

\* Every step, in terms of what is held and of the callback.
LEMMA StepBacklog ==
    ASSUME TypeInv, RoomInv, [Next]_vars
    PROVE  RoomInv' /\ WorksOff
<1>0. Len(queue) \in Nat /\ Left \in {0, 1, 2} /\ MaxQueue \in Nat
    BY BacklogNumbers
<1>next. Len(queue') \in Nat /\ Left' \in {0, 1, 2}
    <2>1. TypeInv'
        BY StepTypeInv
    <2>2. queue' \in Seq(Message)
        BY <2>1 DEF TypeInv, TypeOK
    <2>3. Len(queue') \in Nat
        BY <2>2, LenProperties
    <2> QED  BY <2>3 DEF Left
<1>room. Len(queue) <= MaxQueue
    BY DEF RoomInv
<1>1. ASSUME Sent
      PROVE  /\ Len(queue') \in {Len(queue), Len(queue) + 1} /\ Len(queue') <= MaxQueue
             /\ Left' = Left
    <2>1. ASSUME NEW kind \in Kind, Publish(kind)
          PROVE  \E n \in 1..MaxMessages : Route(n, kind)
        <3>1. Len(published) \in Nat /\ MaxMessages \in Nat
            BY LenProperties, BoundsAssumption DEF TypeInv, TypeOK
        <3>2. Len(published) + 1 \in 1..MaxMessages
            BY <2>1, <3>1 DEF Publish
        <3> QED  BY <2>1, <3>2 DEF Publish
    <2>2. ASSUME NEW n \in DOMAIN published, Resend(n)
          PROVE  n \in 1..MaxMessages /\ published[n] \in Kind /\ Route(n, published[n])
        <3>1. published \in Seq(Kind) /\ Len(published) <= MaxMessages /\ MaxMessages \in Nat
            BY BoundsAssumption DEF TypeInv, TypeOK
        <3>2. n \in 1..Len(published) /\ published[n] \in Kind /\ Len(published) \in Nat
            BY <3>1, ElementOfSeq, LenProperties
        <3>3. n \in 1..MaxMessages
            BY <3>1, <3>2
        <3> QED  BY <2>2, <3>2, <3>3 DEF Resend
    <2>3. \E n \in 1..MaxMessages, kind \in Kind : Route(n, kind)
        BY <1>1, <2>1, <2>2 DEF Sent
    <2> QED  BY <2>3, RouteBacklog
<1>2. ASSUME Callback
      PROVE  Len(queue') = Len(queue) - 1 /\ Left = 0
    <2>1. \E kind : Deliver(kind)
        BY <1>2 DEF Callback, DeliverOther, DeliverValid
    <2> QED  BY <2>1, DeliverBacklog
<1>3. ASSUME Count \/ Raise \/ Finish
      PROVE  queue' = queue /\ Left' < Left
    <2>1. CASE Count
        BY <2>1 DEF Count, CountUnparsable, CountInvalid, CountHandled, Move, Left
    <2>2. CASE Raise
        BY <2>2 DEF Raise, Left
    <2>3. CASE Finish
        BY <2>3 DEF Finish, Forwarded, Refused, AnsweredWithError, TimedOut, GiveUp, Return,
                    Move, Left
    <2> QED  BY <1>3, <2>1, <2>2, <2>3
<1>4. ASSUME LinkLost \/ Stop \/ Kill
      PROVE  Len(queue') = 0 /\ (phase' = phase \/ phase' = "idle")
    <2>1. EndSession /\ (phase' = phase \/ phase' = "idle")
        BY <1>4 DEF LinkLost, Stop, Kill
    <2> QED  BY <2>1, EndBacklog
<1>5. ASSUME BrokerSubscribes \/ Start \/ OnConnect \/ ReadCounter \/ UNCHANGED vars
      PROVE  queue' = queue /\ phase' = phase
    BY <1>5 DEF BrokerSubscribes, Start, OnConnect, ReadCounter, vars
<1>6. ASSUME \E r \in inflight : Ingest(r) \/ Vanish(r)
      PROVE  queue' = queue /\ phase' = phase
    BY <1>6 DEF Ingest, Vanish
<1>7. CASE Sent
    <2>1. ~Callback /\ ~(Count \/ Raise \/ Finish)
        <3>1. Callback => FALSE
            BY <1>0, <1>1, <1>2, <1>7
        <3>2. Count \/ Raise \/ Finish => FALSE
            BY <1>0, <1>next, <1>1, <1>3, <1>7
        <3> QED  BY <3>1, <3>2
    <2>2. RoomInv'
        BY <1>1, <1>7 DEF RoomInv
    <2>3. Backlog' <= Backlog + 3
        BY <1>0, <1>1, <1>7 DEF Backlog
    <2> QED  BY <1>7, <2>1, <2>2, <2>3 DEF WorksOff
<1>8. CASE Callback \/ Count \/ Raise \/ Finish
    <2>1. Len(queue') <= MaxQueue
        BY <1>0, <1>room, <1>2, <1>3, <1>8
    <2>2. Backlog' < Backlog /\ Backlog' <= Backlog /\ Backlog' <= Backlog + 3
        BY <1>0, <1>next, <1>2, <1>3, <1>8 DEF Backlog
    <2> QED  BY <2>1, <2>2 DEF RoomInv, WorksOff
<1>9. CASE ~Sent /\ ~(Callback \/ Count \/ Raise \/ Finish)
    <2>1. /\ Len(queue') = Len(queue) \/ Len(queue') = 0
          /\ phase' = phase \/ phase' = "idle"
        BY <1>4, <1>5, <1>6, <1>9 DEF Next, Sent
    <2>2. Left' = Left \/ Left' = 0
        BY <2>1 DEF Left
    <2>3. Len(queue') <= MaxQueue /\ Backlog' <= Backlog
        BY <1>0, <1>room, <2>1, <2>2 DEF Backlog
    <2> QED  BY <1>9, <2>3 DEF RoomInv, WorksOff
<1> QED  BY <1>7, <1>8, <1>9

\* The bridge cannot fall behind without bound, nor can a message keep it busy:
\* what it has to do is at most three steps for each place of the queue and two
\* more; it becomes less with each step of a callback, and whatever happens to the
\* connection, the process or ingestion adds nothing.  A message that ends the
\* network thread counts as done; what follows it waits until a restart.
THEOREM BacklogIsWorkedOff ==
    Spec => [](Backlog \in 0..3 * MaxQueue + 2) /\ [][WorksOff]_vars
<1>1. Init => RoomInv
    BY EmptySeq, BoundsAssumption DEF Init, RoomInv
<1>2. TypeInv /\ RoomInv /\ [Next]_vars => RoomInv' /\ WorksOff
    BY StepBacklog
<1>3. TypeInv /\ RoomInv => Backlog \in 0..3 * MaxQueue + 2
    BY BacklogNumbers DEF RoomInv, Backlog
<1> QED  BY <1>1, <1>2, <1>3, InitTypeInv, StepTypeInv, PTL DEF Spec

=============================================================================
