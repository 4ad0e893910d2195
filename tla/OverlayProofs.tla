--------------------------- MODULE OverlayProofs ---------------------------
(***************************************************************************)
(* Theorems about PeerOverlay, for every set of services, every interval   *)
(* and timeout, and every number of losses, failures and crashes.          *)
(***************************************************************************)
EXTENDS PeerOverlay, Integers, TLAPS

-----------------------------------------------------------------------------
(* Types.                                                                  *)

\* The constants, one by one.
LEMMA ConstantsAreGood ==
    /\ Interval \in Nat /\ Timeout \in Nat /\ Interval > 0 /\ Timeout > 0
    /\ Connects \in Nat /\ Reads \in Nat /\ Connects > 0 /\ Reads > 0
    /\ Waits \in Nat /\ Waits = Connects + Reads
    /\ StaleAfter \in Nat /\ OfflineAfter \in Nat /\ MaxMissed \in Nat
    /\ MaxDelay \in Nat /\ MaxFaults \in Nat /\ StaleAfter < OfflineAfter
    /\ Oldest \in Nat /\ StaleAfter < Oldest
BY TimingAssumption DEF Oldest, Waits

\* What a message is.
LEMMA MessageFacts ==
    ASSUME TypeOK, NEW m \in wire
    PROVE  /\ m \in Message /\ m.node \in Node /\ m.kind \in {"register", "heartbeat"}
           /\ m.since \in 0..MaxDelay /\ m.since \in Nat /\ m.awaited \in BOOLEAN
<1>1. m \in Message
    BY DEF TypeOK
<1> QED  BY <1>1, ConstantsAreGood DEF Message

\* Nobody waits for an abandoned message any more, the others stay as they are.
LEMMA AbandonedFacts ==
    ASSUME TypeOK, NEW n \in Node
    PROVE  /\ Abandoned(n) \subseteq Message
           /\ \A m \in Abandoned(n) : m.awaited => m \in wire /\ m.node # n
<1>1. ASSUME NEW m \in wire, m.node = n
      PROVE  [m EXCEPT !.awaited = FALSE] \in Message /\ ~[m EXCEPT !.awaited = FALSE].awaited
    BY MessageFacts DEF Message
<1>2. \A m \in wire : m \in Message
    BY MessageFacts
<1>3. \A x \in Abandoned(n) : \E m \in wire :
          x = IF m.node = n THEN [m EXCEPT !.awaited = FALSE] ELSE m
    BY DEF Abandoned
<1> QED  BY <1>1, <1>2, <1>3

\* The messages a tick later.
LEMMA TickFacts ==
    ASSUME TypeOK, Tick
    PROVE  /\ wire' \subseteq Message
           /\ \A x \in wire' : \E m \in wire : /\ x.node = m.node /\ x.awaited = m.awaited
                                               /\ m.since < MaxDelay
                                               /\ x = [m EXCEPT !.since = m.since + 1]
<1>1. ASSUME NEW m \in wire, m.since < MaxDelay
      PROVE  /\ [m EXCEPT !.since = m.since + 1] \in Message
             /\ [m EXCEPT !.since = m.since + 1].node = m.node
             /\ [m EXCEPT !.since = m.since + 1].awaited = m.awaited
    <2>1. m.since + 1 \in 0..MaxDelay
        BY <1>1, MessageFacts, ConstantsAreGood
    <2> QED  BY <2>1, MessageFacts DEF Message
<1>2. \A x \in wire' : \E m \in wire :
          m.since < MaxDelay /\ x = [m EXCEPT !.since = m.since + 1]
    BY DEF Tick
<1> QED  BY <1>1, <1>2

\* The smaller of two numbers.
LEMMA MinFacts ==
    ASSUME NEW a \in Nat, NEW b \in Nat
    PROVE  /\ Min(a, b) \in 0..b /\ Min(a, b) <= a
           /\ Min(a, b) = a \/ Min(a, b) = b
BY DEF Min

\* Every step keeps the types.
LEMMA StepTypeOK == TypeOK /\ [Next]_vars => TypeOK'
<1> SUFFICES ASSUME TypeOK, [Next]_vars PROVE TypeOK'
    OBVIOUS
<1>1. /\ alive \subseteq Node /\ registered \subseteq Node /\ stage \in [Node -> 0..Waits]
      /\ timer \in [Node -> 0..(Interval + Timeout)]
      /\ answer \in [Node -> {"none", "ok", "error"}] /\ wire \subseteq Message
      /\ up \in BOOLEAN /\ forgot \in BOOLEAN /\ peers \subseteq Node
      /\ age \in [Node -> 0..Oldest] /\ missed \in [Node -> 0..(MaxMissed + 1)]
      /\ faults \in 0..MaxFaults
    BY DEF TypeOK
<1>2. /\ 0 \in 0..(Interval + Timeout) /\ Timeout \in 0..(Interval + Timeout)
      /\ Interval \in 0..(Interval + Timeout) /\ 0 \in 0..Oldest /\ 0 \in 0..MaxDelay
      /\ 0 \in 0..(MaxMissed + 1) /\ MaxMissed + 1 \in 0..(MaxMissed + 1)
      /\ 0 \in 0..Waits /\ 1 \in 0..Waits
    BY ConstantsAreGood
<1>3. Fault => faults' \in 0..MaxFaults
    BY <1>1, ConstantsAreGood DEF Fault
<1>4. ASSUME NEW n \in Node, NEW ok \in BOOLEAN, Sleep(n, ok),
             wire' \subseteq Message, UNCHANGED <<registry, faults>>
      PROVE  TypeOK'
    <2>1. Min(missed[n] + 1, MaxMissed + 1) \in 0..(MaxMissed + 1)
        <3>1. missed[n] + 1 \in Nat /\ MaxMissed + 1 \in Nat
            BY <1>1, ConstantsAreGood
        <3> QED  BY <3>1, MinFacts
    <2>2. missed' \in [Node -> 0..(MaxMissed + 1)]
        BY <1>1, <1>2, <1>4, <2>1 DEF Sleep
    <2> QED  BY <1>1, <1>2, <1>4, <2>2 DEF Sleep, TypeOK, registry
<1>5. ASSUME NEW n \in Node, Start(n) PROVE TypeOK'
    BY <1>1, <1>5 DEF Start, TypeOK, registry
<1>6. ASSUME NEW n \in Node, Stop(n) PROVE TypeOK'
    <2>1. Abandoned(n) \subseteq Message
        BY AbandonedFacts
    <2> QED  BY <1>1, <1>2, <1>3, <1>6, <2>1 DEF Stop, TypeOK, registry
<1>7. ASSUME NEW n \in Node, Call(n) \/ Connected(n) \/ GetsPart(n) PROVE TypeOK'
    <2>1. \A kind \in {"register", "heartbeat"} :
              [node |-> n, kind |-> kind, since |-> 0, awaited |-> TRUE] \in Message
        BY <1>2 DEF Message
    <2>2. wire' \subseteq Message
        BY <1>1, <1>7, <2>1 DEF Call, Connected, GetsPart
    <2>3. stage[n] \in 0..Waits /\ (stage[n] < Waits => stage[n] + 1 \in 0..Waits)
        BY <1>1, ConstantsAreGood
    <2>4. stage[n] \in 1..Connects \/ stage[n] \in (Connects + 1)..(Waits - 1)
              => stage[n] < Waits
        BY <2>3, ConstantsAreGood
    <2>5. stage' \in [Node -> 0..Waits]
        BY <1>1, <1>2, <1>7, <2>3, <2>4 DEF Call, Connected, GetsPart
    <2>6. timer' \in [Node -> 0..(Interval + Timeout)]
        BY <1>1, <1>2, <1>7 DEF Call, Connected, GetsPart
    <2> QED
        BY <1>1, <1>7, <2>2, <2>5, <2>6 DEF Call, Connected, GetsPart, TypeOK, registry
<1>8. ASSUME NEW n \in Node, Answered(n) PROVE TypeOK'
    <2>1. Sleep(n, answer[n] = "ok") /\ wire' = wire /\ UNCHANGED <<registry, faults>>
        BY <1>8 DEF Answered
    <2>2. CASE answer[n] = "ok"
        BY <1>1, <1>4, <2>1, <2>2
    <2>3. CASE answer[n] # "ok"
        <3>1. Sleep(n, FALSE)
            BY <2>1, <2>3
        <3> QED  BY <1>1, <1>4, <2>1, <3>1
    <2> QED  BY <2>2, <2>3
<1>9. ASSUME NEW n \in Node, Fails(n) PROVE TypeOK'
    BY <1>4, <1>9, AbandonedFacts DEF Fails
<1>10. ASSUME NEW n \in Node, LoseAnswer(n) PROVE TypeOK'
    BY <1>1, <1>3, <1>10 DEF LoseAnswer, TypeOK, node, registry
<1>11. ASSUME NEW m \in wire, Handle(m) \/ HandleFails(m) PROVE TypeOK'
    <2>1. /\ m.node \in Node /\ m.since \in Nat
          /\ \A lag \in 0..m.since : Min(lag, Oldest) \in 0..Oldest
        BY MessageFacts, MinFacts, ConstantsAreGood
    <2> QED
        BY <1>1, <1>2, <1>3, <1>11, <2>1
        DEF Handle, HandleRegister, HandleHeartbeat, HandleUnknown, HandleFails,
            Stamped, Respond, TypeOK, node, registry
<1>12. ASSUME NEW m \in wire, LoseRequest(m) PROVE TypeOK'
    BY <1>1, <1>3, <1>12 DEF LoseRequest, TypeOK, node, registry
<1>13. CASE RegistryStops \/ RegistryStarts
    BY <1>1, <1>2, <1>3, <1>13 DEF RegistryStops, RegistryStarts, TypeOK, node
<1>14. CASE Tick
    <2>1. \A n \in Node : Min(age[n] + 1, Oldest) \in 0..Oldest
        <3>1. \A n \in Node : age[n] + 1 \in Nat
            BY <1>1, ConstantsAreGood
        <3> QED  BY <3>1, MinFacts, ConstantsAreGood
    <2>2. age' \in [Node -> 0..Oldest]
        BY <1>2, <1>14, <2>1 DEF Tick
    <2>3. \A n \in Node : n \in alive => timer[n] - 1 \in 0..(Interval + Timeout)
        BY <1>1, <1>14, ConstantsAreGood DEF Tick
    <2>4. timer' \in [Node -> 0..(Interval + Timeout)]
        BY <1>1, <1>14, <2>3 DEF Tick
    <2>5. wire' \subseteq Message
        BY <1>14, TickFacts
    <2> QED  BY <1>1, <1>14, <2>2, <2>4, <2>5 DEF Tick, TypeOK
<1>15. CASE UNCHANGED vars
    BY <1>1, <1>15 DEF vars, node, registry, TypeOK
<1> QED
    BY <1>5, <1>6, <1>7, <1>8, <1>9, <1>10, <1>11, <1>12, <1>13, <1>14, <1>15
    DEF Next, Loop

\* The types hold at the start.
LEMMA InitTypeOK == Init => TypeOK
<1> SUFFICES ASSUME Init PROVE TypeOK
    OBVIOUS
<1>1. /\ 0 \in 0..(Interval + Timeout) /\ 0 \in 0..Oldest /\ 0 \in 0..MaxFaults
      /\ MaxMissed + 1 \in 0..(MaxMissed + 1) /\ 0 \in 0..Waits
    BY ConstantsAreGood
<1> QED  BY <1>1 DEF Init, TypeOK

\* The loops, the table of the registry and what is under way always have their
\* types; in particular a heartbeat is never older than it may be under way.
THEOREM TypeCorrect == Spec => []TypeOK
BY InitTypeOK, StepTypeOK, PTL DEF Spec

-----------------------------------------------------------------------------
(* One call at a time.                                                     *)

\* A service waits for one request, or for the answer to it, once it has sent
\* it, and no wait is longer than the timeout; what it does not wait for cannot
\* answer it.
WireInv ==
    /\ \A m \in wire : m.awaited => stage[m.node] > Connects /\ answer[m.node] = "none"
    /\ \A m, k \in wire : m.awaited /\ k.awaited /\ m.node = k.node => m = k
    /\ \A n \in Node : answer[n] # "none" => stage[n] > Connects
    /\ \A n \in Node : stage[n] > 0 => n \in alive
    /\ \A n \in Node : timer[n] <= IF stage[n] > 0 THEN Timeout ELSE Interval

\* Every step keeps to one call at a time.
LEMMA StepWireInv == TypeOK /\ WireInv /\ [Next]_vars => WireInv'
<1> SUFFICES ASSUME TypeOK, WireInv, [Next]_vars PROVE WireInv'
    OBVIOUS
<1>1. /\ alive \subseteq Node /\ stage \in [Node -> 0..Waits]
      /\ timer \in [Node -> 0..(Interval + Timeout)]
      /\ answer \in [Node -> {"none", "ok", "error"}]
      /\ \A m \in wire : m.node \in Node
      /\ \A n \in Node : timer[n] \in Nat /\ stage[n] \in Nat
      /\ Interval \in Nat /\ Timeout \in Nat /\ Connects \in Nat /\ Connects > 0
    <2>1. \A m \in wire : m.node \in Node
        BY MessageFacts
    <2>2. /\ alive \subseteq Node /\ stage \in [Node -> 0..Waits]
          /\ timer \in [Node -> 0..(Interval + Timeout)]
          /\ answer \in [Node -> {"none", "ok", "error"}]
        BY DEF TypeOK
    <2> QED  BY <2>1, <2>2, ConstantsAreGood
\* What a step has to show of a service whose call has ended.
<1>2. ASSUME NEW n \in Node, NEW t \in 0..Interval, timer' = [timer EXCEPT ![n] = t],
             stage' = [stage EXCEPT ![n] = 0], answer' = [answer EXCEPT ![n] = "none"],
             \A p \in Node \ {n} : p \in alive => p \in alive',
             \A m \in wire' : m.awaited => m \in wire /\ m.node # n
      PROVE  WireInv'
    <2>1. \A m \in wire' : m.awaited => stage'[m.node] > Connects /\ answer'[m.node] = "none"
        BY <1>1, <1>2 DEF WireInv
    <2>2. \A m, k \in wire' : m.awaited /\ k.awaited /\ m.node = k.node => m = k
        BY <1>2 DEF WireInv
    <2>3. \A p \in Node : answer'[p] # "none" => stage'[p] > Connects
        BY <1>1, <1>2 DEF WireInv
    <2>4. \A p \in Node : stage'[p] > 0 => p \in alive'
        BY <1>1, <1>2 DEF WireInv
    <2>5. \A p \in Node : timer'[p] <= IF stage'[p] > 0 THEN Timeout ELSE Interval
        BY <1>1, <1>2 DEF WireInv
    <2> QED  BY <2>1, <2>2, <2>3, <2>4, <2>5 DEF WireInv
<1>3. ASSUME NEW n \in Node, Start(n) PROVE WireInv'
    BY <1>3 DEF Start, WireInv
<1>4. ASSUME NEW n \in Node, Stop(n) PROVE WireInv'
    <2>1. /\ stage' = [stage EXCEPT ![n] = 0] /\ alive' = alive \ {n}
          /\ timer' = [timer EXCEPT ![n] = 0]
          /\ answer' = [answer EXCEPT ![n] = "none"]
          /\ \A m \in wire' : m.awaited => m \in wire /\ m.node # n
        BY <1>4, AbandonedFacts DEF Stop
    <2>2. 0 \in 0..Interval
        BY <1>1
    <2> QED  BY <1>2, <2>1, <2>2
\* The next wait of a call.
<1>5. ASSUME NEW n \in Node, NEW s \in Nat, s > 0, s >= stage[n],
             stage' = [stage EXCEPT ![n] = s], timer' = [timer EXCEPT ![n] = Timeout],
             n \in alive, UNCHANGED <<alive, answer>>,
             \/ wire' = wire
             \/ /\ s > Connects /\ stage[n] <= Connects
                /\ \E fresh : wire' = wire \cup {fresh} /\ fresh.node = n
      PROVE  WireInv'
    <2>1. /\ \A p \in Node : stage'[p] >= stage[p] /\ stage'[p] \in Nat
          /\ \A p \in Node : p # n => stage'[p] = stage[p] /\ timer'[p] = timer[p]
          /\ stage'[n] = s /\ timer'[n] = Timeout
        BY <1>1, <1>5
    <2>2. \A p \in Node : answer'[p] # "none" => stage'[p] > Connects
        BY <1>1, <1>5, <2>1 DEF WireInv
    <2>3. \A p \in Node : stage'[p] > 0 => p \in alive'
        BY <1>5, <2>1 DEF WireInv
    <2>4. \A p \in Node : timer'[p] <= IF stage'[p] > 0 THEN Timeout ELSE Interval
        BY <1>1, <1>5, <2>1 DEF WireInv
    <2>5. /\ \A m \in wire' : m.awaited => stage'[m.node] > Connects /\ answer'[m.node] = "none"
          /\ \A m, k \in wire' : m.awaited /\ k.awaited /\ m.node = k.node => m = k
        <3>1. \A m \in wire : m.awaited => stage'[m.node] > Connects /\ answer'[m.node] = "none"
            BY <1>1, <1>5, <2>1 DEF WireInv
        <3>2. CASE wire' = wire
            BY <3>1, <3>2 DEF WireInv
        <3>3. CASE /\ s > Connects /\ stage[n] <= Connects
                   /\ \E fresh : wire' = wire \cup {fresh} /\ fresh.node = n
            <4> PICK fresh : wire' = wire \cup {fresh} /\ fresh.node = n
                BY <3>3
            <4>1. answer[n] = "none" /\ \A m \in wire : m.awaited => m.node # n
                BY <1>1, <3>3 DEF WireInv
            <4>2. stage'[n] > Connects /\ answer'[n] = "none"
                BY <1>5, <2>1, <3>3, <4>1
            <4>3. \A m \in wire' : m.awaited
                      => stage'[m.node] > Connects /\ answer'[m.node] = "none"
                BY <3>1, <4>2
            <4>4. \A m, k \in wire' : m.awaited /\ k.awaited /\ m.node = k.node => m = k
                BY <4>1 DEF WireInv
            <4> QED  BY <4>3, <4>4
        <3> QED  BY <1>5, <3>2, <3>3
    <2> QED  BY <2>2, <2>3, <2>4, <2>5 DEF WireInv
<1>6. ASSUME NEW n \in Node, Call(n) PROVE WireInv'
    <2>1. stage[n] = 0 /\ stage' = [stage EXCEPT ![n] = 1] /\ n \in alive /\ wire' = wire
          /\ timer' = [timer EXCEPT ![n] = Timeout] /\ UNCHANGED <<alive, answer>>
        BY <1>6 DEF Call
    <2>2. 1 \in Nat /\ 1 > 0 /\ 1 >= stage[n]
        BY <2>1
    <2> QED  BY <1>5, <2>1, <2>2
<1>7. ASSUME NEW n \in Node, Connected(n) PROVE WireInv'
    <2>1. /\ stage[n] \in 1..Connects /\ stage' = [stage EXCEPT ![n] = stage[n] + 1]
          /\ timer' = [timer EXCEPT ![n] = Timeout] /\ UNCHANGED <<alive, answer>>
        BY <1>7 DEF Connected
    <2>2. /\ stage[n] + 1 \in Nat /\ stage[n] + 1 > 0 /\ stage[n] + 1 >= stage[n]
          /\ stage[n] > 0 /\ stage[n] <= Connects
          /\ stage[n] = Connects => stage[n] + 1 > Connects
        BY <1>1, <2>1
    <2>3. n \in alive
        BY <2>2 DEF WireInv
    <2>4. \/ wire' = wire
          \/ /\ stage[n] = Connects
             /\ \E fresh : wire' = wire \cup {fresh} /\ fresh.node = n
        <3> DEFINE sent(kind) == [node |-> n, kind |-> kind, since |-> 0, awaited |-> TRUE]
        <3>1. \/ wire' = wire
              \/ /\ stage[n] = Connects
                 /\ \E kind \in {"register", "heartbeat"} : wire' = wire \cup {sent(kind)}
            BY <1>7 DEF Connected
        <3>2. \A kind : sent(kind).node = n
            OBVIOUS
        <3> HIDE DEF sent
        <3> QED  BY <3>1, <3>2
    <2> QED  BY <1>5, <2>1, <2>2, <2>3, <2>4
<1>8. ASSUME NEW n \in Node, GetsPart(n) PROVE WireInv'
    <2>1. /\ stage[n] \in (Connects + 1)..(Waits - 1) /\ wire' = wire
          /\ stage' = [stage EXCEPT ![n] = stage[n] + 1]
          /\ timer' = [timer EXCEPT ![n] = Timeout] /\ UNCHANGED <<alive, answer>>
        BY <1>8 DEF GetsPart
    <2>2. stage[n] + 1 \in Nat /\ stage[n] + 1 > 0 /\ stage[n] + 1 >= stage[n] /\ stage[n] > 0
        BY <1>1, <2>1, ConstantsAreGood
    <2>3. n \in alive
        BY <2>2 DEF WireInv
    <2> QED  BY <1>5, <2>1, <2>2, <2>3
<1>9. ASSUME NEW n \in Node, NEW ok \in BOOLEAN, Sleep(n, ok),
             \A m \in wire' : m.awaited => m \in wire /\ m.node # n
      PROVE  WireInv'
    <2>1. /\ stage' = [stage EXCEPT ![n] = 0] /\ alive' = alive
          /\ timer' = [timer EXCEPT ![n] = Interval]
          /\ answer' = [answer EXCEPT ![n] = "none"]
        BY <1>9 DEF Sleep
    <2>2. Interval \in 0..Interval
        BY <1>1
    <2> QED  BY <1>2, <1>9, <2>1, <2>2
<1>10. ASSUME NEW n \in Node, Answered(n) PROVE WireInv'
    <2>1. PICK ok \in BOOLEAN : Sleep(n, ok)
        BY <1>10 DEF Answered
    <2>2. wire' = wire /\ answer[n] # "none"
        BY <1>10 DEF Answered
    <2>3. \A m \in wire : m.awaited => m.node # n
        BY <2>2 DEF WireInv
    <2> QED  BY <1>9, <2>1, <2>2, <2>3
<1>11. ASSUME NEW n \in Node, Fails(n) PROVE WireInv'
    BY <1>9, <1>11, AbandonedFacts DEF Fails
<1>12. ASSUME NEW n \in Node, LoseAnswer(n) PROVE WireInv'
    BY <1>1, <1>12 DEF LoseAnswer, WireInv, node
<1>13. ASSUME NEW m \in wire, NEW what \in {"ok", "error"}, Respond(m, what),
              UNCHANGED node
       PROVE  WireInv'
    <2>1. /\ wire' = wire \ {m} /\ UNCHANGED <<alive, stage, timer>>
          /\ answer' = IF m.awaited THEN [answer EXCEPT ![m.node] = what] ELSE answer
        BY <1>13 DEF Respond, node
    <2>2. \A k \in wire' : k.awaited => stage[k.node] > Connects /\ answer'[k.node] = "none"
        BY <1>1, <2>1 DEF WireInv
    <2>3. \A p \in Node : answer'[p] # "none" => stage[p] > Connects
        BY <1>1, <2>1 DEF WireInv
    <2> QED  BY <2>1, <2>2, <2>3 DEF WireInv
<1>14. ASSUME NEW m \in wire, Handle(m) \/ HandleFails(m) PROVE WireInv'
    BY <1>13, <1>14
    DEF Handle, HandleRegister, HandleHeartbeat, HandleUnknown, HandleFails
<1>15. ASSUME NEW m \in wire, LoseRequest(m) PROVE WireInv'
    BY <1>15 DEF LoseRequest, WireInv, node
<1>16. CASE RegistryStops \/ RegistryStarts
    BY <1>16 DEF RegistryStops, RegistryStarts, WireInv, node
<1>17. CASE Tick
    <2>1. \A x \in wire' : \E m \in wire : /\ x.node = m.node /\ x.awaited = m.awaited
                                           /\ x = [m EXCEPT !.since = m.since + 1]
        BY <1>17, TickFacts
    <2>2. UNCHANGED <<alive, stage, answer>>
        BY <1>17 DEF Tick
    <2>3. \A m \in wire' : m.awaited => stage[m.node] > Connects /\ answer[m.node] = "none"
        BY <2>1 DEF WireInv
    <2>4. \A m, k \in wire' : m.awaited /\ k.awaited /\ m.node = k.node => m = k
        BY <2>1 DEF WireInv
    <2>5. \A p \in Node : timer'[p] <= timer[p]
        BY <1>1, <1>17 DEF Tick
    <2>6. \A p \in Node : timer'[p] \in Nat
        BY StepTypeOK, ConstantsAreGood DEF TypeOK
    <2>7. \A p \in Node : timer'[p] <= IF stage[p] > 0 THEN Timeout ELSE Interval
        BY <1>1, <2>5, <2>6 DEF WireInv
    <2> QED  BY <2>2, <2>3, <2>4, <2>7 DEF WireInv
<1>18. CASE UNCHANGED vars
    BY <1>18 DEF vars, node, WireInv
<1> QED
    BY <1>3, <1>4, <1>6, <1>7, <1>8, <1>10, <1>11, <1>12, <1>14, <1>15, <1>16, <1>17, <1>18
    DEF Next, Loop

-----------------------------------------------------------------------------
(* Who beats is online.                                                    *)

Period == Interval + Waits * Timeout

\* The most that has passed since the last call ended, and since the request of
\* this call was sent: every wait so far counts with a whole timeout.
Gone(n)      == Interval + stage[n] * Timeout - timer[n]
SinceSent(n) == (stage[n] - Connects) * Timeout - timer[n]

\* The most that has passed since the request of the last success was sent: the
\* reads of it, a period for every failed attempt, and what is gone of this one.
Elapsed(n) == Reads * Timeout + missed[n] * Period + Gone(n)

\* A table that was kept has every service that had a success, with a heartbeat
\* that is no older than the request of it, or than a request may be under way.
AgeInv == ~forgot => \A n \in Node :
    /\ answer[n] = "ok" => n \in peers /\ age[n] <= MaxDelay + SinceSent(n)
    /\ missed[n] <= MaxMissed => n \in peers /\ age[n] <= MaxDelay + Elapsed(n)
    /\ n \notin alive => missed[n] > MaxMissed

\* A product grows with its first factor.
LEMMA TimesGrows ==
    ASSUME NEW a \in Nat, NEW b \in Nat, NEW c \in Nat, a <= b
    PROVE  /\ a * c \in Nat /\ b * c \in Nat /\ a * c <= b * c
           /\ (a + 1) * c = a * c + c
<1>1. PICK d \in Nat : b = a + d
    BY b - a \in Nat
<1>2. b * c = a * c + d * c /\ d * c \in Nat /\ a * c \in Nat
    BY <1>1
<1> QED  BY <1>2

\* What the proofs need of the numbers.
LEMMA ElapsedFacts ==
    ASSUME TypeOK, WireInv, NEW n \in Node
    PROVE  /\ missed[n] \in Nat /\ timer[n] \in Nat /\ age[n] \in Nat /\ stage[n] \in Nat
           /\ Period \in Nat /\ Reads * Timeout \in Nat /\ missed[n] * Period \in Nat
           /\ (missed[n] + 1) * Period = missed[n] * Period + Period
           /\ Gone(n) \in Nat /\ Gone(n) <= Period
           /\ stage[n] > Connects => SinceSent(n) \in Nat /\ SinceSent(n) <= Reads * Timeout
           /\ Elapsed(n) \in Nat
<1>1. missed[n] \in Nat /\ timer[n] \in Nat /\ age[n] \in Nat /\ stage[n] \in 0..Waits
    BY ConstantsAreGood DEF TypeOK
<1>2. /\ Interval \in Nat /\ Timeout \in Nat /\ Waits \in Nat /\ Reads \in Nat
      /\ Connects \in Nat /\ Waits = Connects + Reads
    BY ConstantsAreGood
<1>3. timer[n] <= IF stage[n] > 0 THEN Timeout ELSE Interval
    BY DEF WireInv
<1>4. /\ stage[n] * Timeout \in Nat /\ Waits * Timeout \in Nat
      /\ stage[n] * Timeout <= Waits * Timeout
    BY <1>1, <1>2, TimesGrows
<1>5. Period \in Nat /\ Reads * Timeout \in Nat
    <2>1. Period = Interval + Waits * Timeout
        BY DEF Period
    <2> DEFINE w == Waits * Timeout
    <2>2. w \in Nat /\ Period = Interval + w
        BY <1>4, <2>1
    <2> HIDE DEF w
    <2>3. Period \in Nat
        BY <1>2, <2>2
    <2>4. Reads * Timeout \in Nat
        BY <1>2, TimesGrows
    <2> QED  BY <2>3, <2>4
<1>6. missed[n] * Period \in Nat /\ (missed[n] + 1) * Period = missed[n] * Period + Period
    BY <1>1, <1>5, TimesGrows
<1>7. stage[n] = 0 => stage[n] * Timeout = 0
    BY <1>2
<1>8. stage[n] > 0 => stage[n] * Timeout >= Timeout
    <2>1. ASSUME stage[n] > 0 PROVE stage[n] * Timeout >= 1 * Timeout
        BY <1>1, <1>2, <2>1, TimesGrows
    <2>2. 1 * Timeout = Timeout
        BY <1>2
    <2> QED  BY <2>1, <2>2
<1>9. Gone(n) \in Nat /\ Gone(n) <= Period
    <2> DEFINE p == stage[n] * Timeout
               w == Waits * Timeout
    <2>1. /\ p \in Nat /\ w \in Nat /\ p <= w /\ Gone(n) = Interval + p - timer[n]
          /\ Period = Interval + w
          /\ stage[n] > 0 => p >= Timeout
        BY <1>4, <1>8 DEF Gone, Period
    <2> HIDE DEF p, w
    <2>2. stage[n] > 0 => timer[n] <= Timeout /\ Timeout <= p
        BY <1>3, <2>1
    <2>3. stage[n] = 0 => timer[n] <= Interval
        BY <1>3
    <2>4. stage[n] > 0 \/ stage[n] = 0
        BY <1>1, <1>2
    <2>5. timer[n] <= Interval + p
        BY <1>1, <1>2, <2>1, <2>2, <2>3, <2>4
    <2> QED  BY <1>1, <1>2, <2>1, <2>5
<1>10. ASSUME stage[n] > Connects PROVE SinceSent(n) \in Nat /\ SinceSent(n) <= Reads * Timeout
    <2> DEFINE k == stage[n] - Connects
    <2>1. k \in Nat /\ 1 <= k /\ k <= Reads /\ stage[n] > 0
        BY <1>1, <1>2, <1>10
    <2> HIDE DEF k
    <2>2. k * Timeout \in Nat /\ k * Timeout <= Reads * Timeout
        BY <1>2, <2>1, TimesGrows
    <2>3. 1 * Timeout <= k * Timeout /\ 1 * Timeout = Timeout
        BY <1>2, <2>1, TimesGrows
    <2>4. SinceSent(n) = k * Timeout - timer[n] /\ timer[n] <= Timeout
        BY <1>3, <2>1 DEF SinceSent, k
    <2> DEFINE p == k * Timeout
               w == Reads * Timeout
    <2>5. /\ p \in Nat /\ w \in Nat /\ p <= w /\ Timeout <= p
          /\ SinceSent(n) = p - timer[n] /\ timer[n] <= Timeout
        BY <1>5, <2>2, <2>3, <2>4
    <2> HIDE DEF p, w
    <2>6. SinceSent(n) \in Nat /\ SinceSent(n) <= w
        BY <1>1, <1>2, <2>5
    <2> QED  BY <2>6 DEF w
<1>11. Elapsed(n) \in Nat
    <2> DEFINE m == missed[n] * Period
               w == Reads * Timeout
    <2>1. m \in Nat /\ w \in Nat /\ Elapsed(n) = w + m + Gone(n)
        BY <1>5, <1>6 DEF Elapsed
    <2> HIDE DEF m, w
    <2> QED  BY <1>9, <2>1
<1> QED  BY <1>1, <1>5, <1>6, <1>9, <1>10, <1>11

\* The next wait begins: no less than before counts as gone.
LEMMA AdvanceFacts ==
    ASSUME TypeOK, WireInv, NEW n \in Node, stage[n] > 0 \/ timer[n] = 0,
           stage'[n] = stage[n] + 1, timer'[n] = Timeout
    PROVE  Gone(n)' \in Int /\ Gone(n)' >= Gone(n) /\ SinceSent(n)' \in Int
           /\ SinceSent(n)' >= SinceSent(n)
<1>1. timer[n] \in Nat /\ stage[n] \in Nat /\ Timeout \in Nat /\ Interval \in Nat
      /\ Connects \in Nat /\ stage[n] - Connects \in Int
    BY ElapsedFacts, ConstantsAreGood
<1>2. (stage[n] + 1) * Timeout = stage[n] * Timeout + Timeout /\ stage[n] * Timeout \in Nat
    BY <1>1, TimesGrows
<1>3. /\ ((stage[n] + 1) - Connects) * Timeout = (stage[n] - Connects) * Timeout + Timeout
      /\ (stage[n] - Connects) * Timeout \in Int
    <2> DEFINE d == stage[n] - Connects
    <2>1. d \in Int /\ (stage[n] + 1) - Connects = d + 1
        BY <1>1
    <2> HIDE DEF d
    <2>2. (d + 1) * Timeout = d * Timeout + Timeout /\ d * Timeout \in Int
        BY <1>1, <2>1
    <2> QED  BY <2>1, <2>2 DEF d
<1> DEFINE p == stage[n] * Timeout
           q == (stage[n] - Connects) * Timeout
<1>4. /\ p \in Nat /\ Gone(n) = Interval + p - timer[n]
      /\ Gone(n)' = Interval + (p + Timeout) - Timeout
    BY <1>2 DEF Gone
<1>5. /\ q \in Int /\ SinceSent(n) = q - timer[n]
      /\ SinceSent(n)' = (q + Timeout) - Timeout
    <2>1. SinceSent(n)' = ((stage[n] + 1) - Connects) * Timeout - Timeout
        BY DEF SinceSent
    <2> QED  BY <1>3, <2>1 DEF SinceSent
<1> HIDE DEF p, q
<1> QED  BY <1>1, <1>4, <1>5

\* A tick counts once.
LEMMA TickCounts ==
    ASSUME TypeOK, WireInv, NEW n \in Node, stage'[n] = stage[n], timer'[n] = timer[n] - 1
    PROVE  Gone(n)' = Gone(n) + 1 /\ SinceSent(n)' = SinceSent(n) + 1 /\ SinceSent(n) \in Int
<1>1. timer[n] \in Nat /\ stage[n] \in Nat /\ Timeout \in Nat /\ Interval \in Nat
      /\ Connects \in Nat /\ stage[n] - Connects \in Int
    BY ElapsedFacts, ConstantsAreGood
<1>2. stage[n] * Timeout \in Nat
    BY <1>1, TimesGrows
<1>3. (stage[n] - Connects) * Timeout \in Int
    BY <1>1
<1> DEFINE p == stage[n] * Timeout
           q == (stage[n] - Connects) * Timeout
<1>4. /\ p \in Nat /\ Gone(n) = Interval + p - timer[n]
      /\ Gone(n)' = Interval + p - (timer[n] - 1)
    BY <1>2 DEF Gone
<1>5. /\ q \in Int /\ SinceSent(n) = q - timer[n]
      /\ SinceSent(n)' = q - (timer[n] - 1)
    BY <1>3 DEF SinceSent
<1> HIDE DEF p, q
<1> QED  BY <1>1, <1>4, <1>5

\* What is elapsed follows what is gone of the attempt.
LEMMA ElapsedFollows ==
    ASSUME TypeOK, WireInv, NEW n \in Node, missed'[n] = missed[n], Gone(n)' \in Int
    PROVE  Elapsed(n)' \in Int /\ Elapsed(n)' - Elapsed(n) = Gone(n)' - Gone(n)
<1>1. missed[n] * Period \in Nat /\ Reads * Timeout \in Nat /\ Gone(n) \in Nat
    BY ElapsedFacts
<1> DEFINE m == missed[n] * Period
           w == Reads * Timeout
<1>2. /\ m \in Nat /\ w \in Nat /\ Elapsed(n) = w + m + Gone(n)
      /\ Elapsed(n)' = w + m + Gone(n)'
    BY <1>1 DEF Elapsed, Period
<1> HIDE DEF m, w
<1> QED  BY <1>1, <1>2

\* Every step keeps the heartbeats as young as the successes.
LEMMA StepAgeInv == TypeOK /\ WireInv /\ AgeInv /\ [Next]_vars => AgeInv'
<1> SUFFICES ASSUME TypeOK, WireInv, AgeInv, [Next]_vars, ~forgot'
             PROVE  \A n \in Node :
                        /\ answer'[n] = "ok"
                               => n \in peers' /\ age'[n] <= MaxDelay + SinceSent(n)'
                        /\ missed'[n] <= MaxMissed
                               => n \in peers' /\ age'[n] <= MaxDelay + Elapsed(n)'
                        /\ n \notin alive' => missed'[n] > MaxMissed
    BY DEF AgeInv
<1>1. /\ alive \subseteq Node /\ stage \in [Node -> 0..Waits]
      /\ timer \in [Node -> 0..(Interval + Timeout)] /\ age \in [Node -> 0..Oldest]
      /\ missed \in [Node -> 0..(MaxMissed + 1)] /\ MaxDelay \in Nat /\ MaxMissed \in Nat
      /\ answer \in [Node -> {"none", "ok", "error"}]
    BY ConstantsAreGood DEF TypeOK
<1>2. ~forgot
    <2>1. forgot \in BOOLEAN
        BY DEF TypeOK
    <2>2. CASE RegistryStarts
        BY <2>1, <2>2 DEF RegistryStarts
    <2>3. CASE UNCHANGED forgot
        BY <2>3
    <2>4. ASSUME NEW n \in Node, Start(n) \/ Stop(n) \/ Loop(n) \/ LoseAnswer(n)
          PROVE  UNCHANGED forgot
        BY <2>4
        DEF Start, Stop, Loop, Call, Connected, GetsPart, Answered, Fails, LoseAnswer, registry
    <2>5. ASSUME NEW m \in wire, Handle(m) \/ HandleFails(m) \/ LoseRequest(m)
          PROVE  UNCHANGED forgot
        BY <2>5
        DEF Handle, HandleRegister, HandleHeartbeat, HandleUnknown, HandleFails, LoseRequest,
            registry
    <2>6. RegistryStops \/ Tick \/ UNCHANGED vars => UNCHANGED forgot
        BY DEF RegistryStops, Tick, vars, registry
    <2> QED  BY <2>2, <2>3, <2>4, <2>5, <2>6 DEF Next
<1>3. \A n \in Node :
          /\ answer[n] = "ok" => n \in peers /\ age[n] <= MaxDelay + SinceSent(n)
          /\ missed[n] <= MaxMissed => n \in peers /\ age[n] <= MaxDelay + Elapsed(n)
          /\ n \notin alive => missed[n] > MaxMissed
    BY <1>2 DEF AgeInv
<1> DEFINE Good(n) ==
               /\ answer'[n] = "ok" => n \in peers' /\ age'[n] <= MaxDelay + SinceSent(n)'
               /\ missed'[n] <= MaxMissed => n \in peers' /\ age'[n] <= MaxDelay + Elapsed(n)'
               /\ n \notin alive' => missed'[n] > MaxMissed
\* A service that has no part in the step.
<1>4. ASSUME NEW n \in Node, missed'[n] = missed[n], timer'[n] = timer[n],
             stage'[n] = stage[n], n \in alive' <=> n \in alive,
             answer'[n] \in {answer[n], "none", "error"}, n \in peers => n \in peers',
             age'[n] = age[n]
      PROVE  Good(n)
    <2>1. Elapsed(n)' = Elapsed(n) /\ SinceSent(n)' = SinceSent(n)
        BY <1>4 DEF Elapsed, Gone, SinceSent, Period
    <2> QED  BY <1>3, <1>4, <2>1
\* What the end of a call has to show.
<1>5. ASSUME NEW n \in Node, stage[n] > 0, NEW ok \in BOOLEAN, Sleep(n, ok),
             ok => answer[n] = "ok", UNCHANGED <<registry, faults>>, NEW p \in Node
      PROVE  Good(p)
    <2>1. /\ peers' = peers /\ age' = age /\ alive' = alive
          /\ stage' = [stage EXCEPT ![n] = 0] /\ timer' = [timer EXCEPT ![n] = Interval]
          /\ answer' = [answer EXCEPT ![n] = "none"]
          /\ missed' = [missed EXCEPT ![n] = IF ok THEN 0 ELSE Min(@ + 1, MaxMissed + 1)]
        BY <1>5 DEF Sleep, registry
    <2>2. CASE p # n
        BY <1>1, <1>4, <2>1, <2>2
    <2>3. CASE p = n
        <3>1. /\ missed[n] \in Nat /\ age[n] \in Nat /\ Period \in Nat
              /\ missed[n] * Period \in Nat /\ Reads * Timeout \in Nat
              /\ (missed[n] + 1) * Period = missed[n] * Period + Period
              /\ Gone(n) \in Nat /\ Gone(n) <= Period
              /\ Interval \in Nat /\ Timeout \in Nat
            BY ElapsedFacts, ConstantsAreGood
        <3>2. answer'[n] = "none" /\ stage'[n] = 0 /\ timer'[n] = Interval /\ n \in alive'
            <4>1. n \in alive
                BY <1>5 DEF WireInv
            <4> QED  BY <1>1, <2>1, <4>1
        <3>3. Gone(n)' = 0
            <4>1. Gone(n)' = Interval + 0 * Timeout - Interval
                BY <3>2 DEF Gone
            <4> QED  BY <3>1, <4>1
        <3>4. Elapsed(n)' = Reads * Timeout + missed'[n] * Period + 0
            BY <3>3 DEF Elapsed, Period
        <3>5. CASE ok
            <4>1. missed'[n] = 0
                BY <1>1, <2>1, <3>5
            <4>2. missed'[n] * Period = 0
                BY <3>1, <4>1
            <4>3. Elapsed(n)' = Reads * Timeout
                <5> DEFINE w == Reads * Timeout
                <5>1. w \in Nat /\ Elapsed(n)' = w + 0 + 0
                    BY <3>1, <3>4, <4>2
                <5> HIDE DEF w
                <5>2. Elapsed(n)' = w
                    BY <5>1
                <5> QED  BY <5>2 DEF w
            <4>4. n \in peers /\ age[n] <= MaxDelay + SinceSent(n)
                BY <1>3, <1>5, <3>5
            <4>5. stage[n] > Connects
                BY <1>5, <3>5 DEF WireInv
            <4>6. SinceSent(n) \in Nat /\ SinceSent(n) <= Reads * Timeout
                BY <4>5, ElapsedFacts
            <4>7. age[n] <= MaxDelay + Elapsed(n)'
                <5> DEFINE w == Reads * Timeout
                <5>1. w \in Nat /\ Elapsed(n)' = w /\ SinceSent(n) <= w
                    BY <3>1, <4>3, <4>6
                <5> HIDE DEF w
                <5> QED  BY <1>1, <3>1, <4>4, <4>6, <5>1
            <4> QED  BY <2>1, <2>3, <3>2, <4>4, <4>7
        <3>6. CASE ~ok
            <4>1. missed'[n] = Min(missed[n] + 1, MaxMissed + 1)
                BY <1>1, <2>1, <3>6
            <4>2. missed'[n] <= MaxMissed
                      => missed'[n] = missed[n] + 1 /\ missed[n] <= MaxMissed
                <5>1. \/ missed'[n] = missed[n] + 1 /\ missed[n] + 1 < MaxMissed + 1
                      \/ missed'[n] = MaxMissed + 1
                    BY <4>1 DEF Min
                <5> QED  BY <1>1, <3>1, <5>1
            <4>3. ASSUME missed'[n] <= MaxMissed
                  PROVE  n \in peers /\ age[n] <= MaxDelay + Elapsed(n)'
                <5> DEFINE w == Reads * Timeout
                           m == missed[n] * Period
                <5>1. missed'[n] * Period = m + Period
                    BY <3>1, <4>2, <4>3
                <5>2. /\ w \in Nat /\ m \in Nat /\ Elapsed(n) = w + m + Gone(n)
                      /\ Elapsed(n)' = w + (m + Period) + 0
                    BY <3>1, <3>4, <5>1 DEF Elapsed
                <5>3. n \in peers /\ age[n] <= MaxDelay + Elapsed(n)
                    BY <1>3, <4>2, <4>3
                <5> HIDE DEF w, m
                <5> QED  BY <1>1, <3>1, <5>2, <5>3
            <4> QED  BY <2>1, <2>3, <3>2, <4>3
        <3> QED  BY <3>5, <3>6
    <2> QED  BY <2>2, <2>3
\* What the next wait of a call has to show.
<1>6. ASSUME NEW n \in Node, n \in alive, stage[n] > 0 \/ timer[n] = 0,
             stage' = [stage EXCEPT ![n] = stage[n] + 1],
             timer' = [timer EXCEPT ![n] = Timeout],
             UNCHANGED <<alive, missed, answer, registry>>, NEW p \in Node
      PROVE  Good(p)
    <2>1. UNCHANGED <<peers, age>>
        BY <1>6 DEF registry
    <2>2. CASE p # n
        BY <1>1, <1>4, <1>6, <2>1, <2>2
    <2>3. CASE p = n
        <3>1. stage'[n] = stage[n] + 1 /\ timer'[n] = Timeout
            BY <1>1, <1>6
        <3>2. /\ Gone(n)' \in Int /\ Gone(n)' >= Gone(n) /\ SinceSent(n)' \in Int
              /\ SinceSent(n)' >= SinceSent(n)
            BY <1>6, <3>1, AdvanceFacts
        <3>3. Elapsed(n)' \in Int /\ Elapsed(n)' - Elapsed(n) = Gone(n)' - Gone(n)
            BY <1>6, <3>2, ElapsedFollows
        <3>4. age[n] \in Nat /\ Elapsed(n) \in Nat /\ Gone(n) \in Nat
            BY ElapsedFacts
        <3>5. Elapsed(n)' >= Elapsed(n)
            BY <3>2, <3>3, <3>4
        <3>6. missed[n] <= MaxMissed => n \in peers /\ age[n] <= MaxDelay + Elapsed(n)'
            BY <1>1, <1>3, <3>3, <3>4, <3>5
        <3>7. answer[n] = "ok" => n \in peers /\ age[n] <= MaxDelay + SinceSent(n)'
            <4>1. answer[n] = "ok" => SinceSent(n) \in Nat
                BY ElapsedFacts DEF WireInv
            <4> QED  BY <1>1, <1>3, <3>2, <3>4, <4>1
        <3> QED  BY <1>3, <1>6, <2>1, <2>3, <3>6, <3>7
    <2> QED  BY <2>2, <2>3
\* What the answer to a request has to show.
<1>7. ASSUME NEW m \in wire, NEW what \in {"ok", "error"}, Respond(m, what),
             UNCHANGED node, NEW a \in Nat, a <= MaxDelay,
             \/ peers' = peers /\ age' = age /\ what = "error"
             \/ /\ m.node \in peers' /\ peers \subseteq peers'
                /\ age' = [age EXCEPT ![m.node] = a],
             NEW p \in Node
      PROVE  Good(p)
    <2>1. /\ UNCHANGED <<alive, stage, timer, missed>> /\ m.node \in Node
          /\ answer' = IF m.awaited THEN [answer EXCEPT ![m.node] = what] ELSE answer
        BY <1>7, MessageFacts DEF Respond, node
    <2>2. CASE peers' = peers /\ age' = age /\ what = "error"
        BY <1>1, <1>4, <2>1, <2>2
    <2>3. CASE m.node \in peers' /\ peers \subseteq peers' /\ age' = [age EXCEPT ![m.node] = a]
        <3>1. CASE p # m.node
            BY <1>1, <1>4, <2>1, <2>3, <3>1
        <3>2. CASE p = m.node
            <4>1. p \in peers' /\ age'[p] = a
                BY <1>1, <2>1, <2>3, <3>2
            <4>2. Elapsed(p)' = Elapsed(p) /\ Elapsed(p) \in Nat /\ SinceSent(p)' = SinceSent(p)
                BY <2>1, ElapsedFacts DEF Elapsed, Gone, SinceSent, Period
            <4>3. a <= MaxDelay + Elapsed(p)
                BY <1>1, <1>7, <4>2
            <4>4. answer'[p] = "ok" => stage[p] > Connects
                BY <1>1, <2>1, <3>2 DEF WireInv
            <4>5. answer'[p] = "ok" => SinceSent(p) \in Nat
                BY <4>4, ElapsedFacts
            <4>6. answer'[p] = "ok" => a <= MaxDelay + SinceSent(p)
                BY <1>1, <1>7, <4>5
            <4> QED  BY <1>3, <2>1, <4>1, <4>2, <4>3, <4>6
        <3> QED  BY <3>1, <3>2
    <2> QED  BY <1>7, <2>2, <2>3
<1>8. ASSUME NEW n \in Node, Start(n), NEW p \in Node PROVE Good(p)
    <2>1. /\ alive' = alive \cup {n}
          /\ UNCHANGED <<timer, stage, missed, answer, peers, age>>
        BY <1>8 DEF Start, registry
    <2> QED  BY <1>3, <2>1 DEF Elapsed, Gone, SinceSent, Period
<1>9. ASSUME NEW n \in Node, Stop(n), NEW p \in Node PROVE Good(p)
    <2>1. /\ alive' = alive \ {n} /\ stage' = [stage EXCEPT ![n] = 0]
          /\ timer' = [timer EXCEPT ![n] = 0]
          /\ missed' = [missed EXCEPT ![n] = MaxMissed + 1]
          /\ answer' = [answer EXCEPT ![n] = "none"] /\ peers' = peers /\ age' = age
        BY <1>9 DEF Stop, registry
    <2>2. CASE p # n
        BY <1>1, <1>4, <2>1, <2>2
    <2>3. CASE p = n
        <3>1. answer'[p] = "none" /\ missed'[p] = MaxMissed + 1
            BY <1>1, <2>1, <2>3
        <3> QED  BY <1>1, <3>1
    <2> QED  BY <2>2, <2>3
<1>10. ASSUME NEW n \in Node, Call(n) \/ Connected(n) \/ GetsPart(n), NEW p \in Node
       PROVE  Good(p)
    <2>1. /\ stage' = [stage EXCEPT ![n] = stage[n] + 1]
          /\ timer' = [timer EXCEPT ![n] = Timeout]
          /\ UNCHANGED <<alive, missed, answer, registry>>
        BY <1>1, <1>10 DEF Call, Connected, GetsPart
    <2>2. stage[n] > 0 \/ timer[n] = 0
        BY <1>1, <1>10, ConstantsAreGood DEF Call, Connected, GetsPart
    <2>3. n \in alive
        <3>1. CASE Call(n)
            BY <3>1 DEF Call
        <3>2. CASE Connected(n) \/ GetsPart(n)
            <4>1. stage[n] > 0
                BY <1>1, <3>2, ConstantsAreGood DEF Connected, GetsPart
            <4> QED  BY <4>1 DEF WireInv
        <3> QED  BY <1>10, <3>1, <3>2
    <2> QED  BY <1>6, <2>1, <2>2, <2>3
<1>11. ASSUME NEW n \in Node, Answered(n), NEW p \in Node PROVE Good(p)
    <2>1. PICK ok \in BOOLEAN : Sleep(n, ok) /\ (ok => answer[n] = "ok")
        BY <1>11 DEF Answered
    <2>2. stage[n] > 0
        BY <1>1, <1>11, ConstantsAreGood DEF Answered
    <2> QED  BY <1>5, <1>11, <2>1, <2>2 DEF Answered
<1>12. ASSUME NEW n \in Node, Fails(n), NEW p \in Node PROVE Good(p)
    BY <1>5, <1>12 DEF Fails
<1>13. ASSUME NEW n \in Node, LoseAnswer(n), NEW p \in Node PROVE Good(p)
    <2>1. /\ UNCHANGED <<alive, timer, stage, missed, peers, age>>
          /\ answer' = [answer EXCEPT ![n] = "none"]
        BY <1>13 DEF LoseAnswer, node, registry
    <2> QED  BY <1>1, <1>4, <2>1
<1>14. ASSUME NEW m \in wire, Stamped(m)
       PROVE  \E a \in Nat : a <= MaxDelay /\ age' = [age EXCEPT ![m.node] = a]
    <2>0. m.node \in Node /\ m.since \in 0..MaxDelay
        BY MessageFacts
    <2>1. PICK lag \in 0..m.since : age' = [age EXCEPT ![m.node] = Min(lag, Oldest)]
        BY <1>14 DEF Stamped
    <2>2. Min(lag, Oldest) \in Nat /\ Min(lag, Oldest) <= MaxDelay
        BY <1>1, <2>0, <2>1, ConstantsAreGood DEF Min
    <2> QED  BY <2>1, <2>2
<1>15. ASSUME NEW m \in wire, Handle(m) \/ HandleFails(m), NEW p \in Node PROVE Good(p)
    <2>0. 0 \in Nat /\ 0 <= MaxDelay
        BY <1>1
    <2>1. CASE HandleUnknown(m)
        <3>1. Respond(m, "error") /\ UNCHANGED node /\ peers' = peers /\ age' = age
            BY <2>1 DEF HandleUnknown, registry
        <3> QED  BY <1>7, <2>0, <3>1
    <2>2. ASSUME ~HandleUnknown(m)
          PROVE  /\ UNCHANGED node /\ m.node \in peers' /\ peers \subseteq peers'
                 /\ Respond(m, "ok") \/ Respond(m, "error")
                 /\ Stamped(m) \/ age' = [age EXCEPT ![m.node] = 0]
        BY <1>15, <2>2 DEF Handle, HandleRegister, HandleHeartbeat, HandleFails
    <2>3. ASSUME ~HandleUnknown(m)
          PROVE  \E a \in Nat : a <= MaxDelay /\ age' = [age EXCEPT ![m.node] = a]
        BY <1>14, <2>0, <2>2, <2>3
    <2>4. CASE ~HandleUnknown(m)
        <3>1. PICK a \in Nat : a <= MaxDelay /\ age' = [age EXCEPT ![m.node] = a]
            BY <2>3, <2>4
        <3>2. PICK what \in {"ok", "error"} : Respond(m, what)
            BY <2>2, <2>4
        <3> QED  BY <1>7, <2>2, <2>4, <3>1, <3>2
    <2> QED  BY <2>1, <2>4
<1>16. ASSUME NEW m \in wire, LoseRequest(m), NEW p \in Node PROVE Good(p)
    BY <1>3, <1>16 DEF LoseRequest, node, registry, Elapsed, Gone, SinceSent, Period
<1>17. ASSUME RegistryStops \/ RegistryStarts, NEW p \in Node PROVE Good(p)
    <2>1. UNCHANGED <<node, answer, peers, age>>
        BY <1>17 DEF RegistryStops, RegistryStarts
    <2> QED  BY <1>3, <2>1 DEF node, Elapsed, Gone, SinceSent, Period
<1>18. ASSUME Tick, NEW p \in Node PROVE Good(p)
    <2>1. /\ UNCHANGED <<alive, stage, missed, answer, peers>>
          /\ p \in alive => timer'[p] = timer[p] - 1
          /\ p \in peers => age'[p] = Min(age[p] + 1, Oldest)
        BY <1>1, <1>18 DEF Tick
    <2>2. CASE p \notin alive
        <3>1. missed[p] > MaxMissed /\ missed'[p] = missed[p] /\ answer'[p] # "ok"
            <4>1. answer[p] = "none"
                <5>1. answer[p] # "none" => stage[p] > 0
                    BY <1>1, ConstantsAreGood DEF WireInv
                <5> QED  BY <2>2, <5>1 DEF WireInv
            <4> QED  BY <1>3, <2>1, <2>2, <4>1
        <3>2. missed[p] \in Nat /\ MaxMissed \in Nat
            BY <1>1
        <3>3. ~(missed'[p] <= MaxMissed)
            BY <3>1, <3>2
        <3> QED  BY <3>1, <3>3
    <2>3. CASE p \in alive
        <3>1. Gone(p)' = Gone(p) + 1 /\ SinceSent(p)' = SinceSent(p) + 1 /\ SinceSent(p) \in Int
            BY <2>1, <2>3, TickCounts
        <3>2. Gone(p) \in Nat /\ age[p] \in Nat /\ Elapsed(p) \in Nat
            BY ElapsedFacts
        <3>3. Elapsed(p)' \in Int /\ Elapsed(p)' - Elapsed(p) = Gone(p)' - Gone(p)
            BY <2>1, <3>1, <3>2, ElapsedFollows
        <3>4. p \in peers => age'[p] <= age[p] + 1 /\ age'[p] \in Nat
            BY <2>1, <3>2, ConstantsAreGood DEF Min
        <3>5. missed[p] <= MaxMissed => p \in peers /\ age'[p] <= MaxDelay + Elapsed(p)'
            BY <1>1, <1>3, <3>1, <3>2, <3>3, <3>4
        <3>6. answer[p] = "ok" => p \in peers /\ age'[p] <= MaxDelay + SinceSent(p)'
            BY <1>1, <1>3, <3>1, <3>2, <3>4
        <3> QED  BY <2>1, <2>3, <3>5, <3>6
    <2> QED  BY <2>2, <2>3
<1>19. ASSUME UNCHANGED vars, NEW p \in Node PROVE Good(p)
    BY <1>3, <1>19 DEF vars, node, registry, Elapsed, Gone, SinceSent, Period
<1> QED
    BY <1>8, <1>9, <1>10, <1>11, <1>12, <1>13, <1>15, <1>16, <1>17, <1>18, <1>19
    DEF Next, Loop

\* At the start nobody runs.
LEMMA InitWireAge == Init => WireInv /\ AgeInv
<1> SUFFICES ASSUME Init PROVE WireInv /\ AgeInv
    OBVIOUS
<1>1. WireInv
    BY ConstantsAreGood DEF Init, WireInv
<1>2. \A n \in Node : missed[n] = MaxMissed + 1 /\ answer[n] = "none"
    BY DEF Init
<1>3. MaxMissed + 1 > MaxMissed /\ ~(MaxMissed + 1 <= MaxMissed)
    BY ConstantsAreGood
<1> QED  BY <1>1, <1>2, <1>3 DEF AgeInv

\* For every interval, timeout and number of waits: a service that had a success,
\* and so few failed attempts since that their intervals and waits, with the
\* longest a request may be under way, fit in the 90 seconds of store.py, is
\* shown online by a registry that kept its table.
THEOREM BeatersAreOnline == Spec => []OnlineWhileBeating
<1>1. TypeOK /\ WireInv /\ AgeInv => OnlineWhileBeating
    <2> SUFFICES ASSUME TypeOK, WireInv, AgeInv, NEW n \in alive, missed[n] <= MaxMissed,
                        ~forgot, Longest(missed[n]) <= StaleAfter
                 PROVE  Status(n) = "online"
        BY DEF OnlineWhileBeating
    <2>1. n \in Node /\ n \in peers /\ age[n] <= MaxDelay + Elapsed(n)
        BY DEF AgeInv, TypeOK
    <2>2. /\ missed[n] \in Nat /\ age[n] \in Nat /\ Period \in Nat
          /\ missed[n] * Period \in Nat /\ Reads * Timeout \in Nat
          /\ (missed[n] + 1) * Period = missed[n] * Period + Period
          /\ Gone(n) \in Nat /\ Gone(n) <= Period
        BY <2>1, ElapsedFacts
    <2>3. age[n] <= StaleAfter
        <3> DEFINE m == missed[n] * Period
                   w == Reads * Timeout
        <3>1. /\ m \in Nat /\ w \in Nat /\ Elapsed(n) = w + m + Gone(n)
              /\ w + (m + Period) + MaxDelay <= StaleAfter
            BY <2>2 DEF Elapsed, Longest, Period
        <3> HIDE DEF m, w
        <3> QED  BY <2>1, <2>2, <3>1, ConstantsAreGood
    <2>4. ~(age[n] > StaleAfter) /\ ~(age[n] > OfflineAfter)
        BY <2>2, <2>3, ConstantsAreGood
    <2> QED  BY <2>1, <2>4 DEF Status
<1>2. TypeOK /\ WireInv /\ AgeInv /\ [Next]_vars => (TypeOK /\ WireInv /\ AgeInv)'
    BY StepTypeOK, StepWireInv, StepAgeInv
<1>3. Init => TypeOK /\ WireInv /\ AgeInv
    BY InitTypeOK, InitWireAge
<1> QED  BY <1>1, <1>2, <1>3, PTL DEF Spec

=============================================================================
