--------------------------- MODULE AnomalyProofs ---------------------------
(***************************************************************************)
(* Theorems about AnomalyService, for every set of threads, symbols and    *)
(* verdicts, every length of the window and every value of the bounds.     *)
(***************************************************************************)
EXTENDS AnomalyService, SequenceTheorems, TLAPS

-----------------------------------------------------------------------------
(* Lemmas about the operators.                                             *)

\* The bounds, one by one.
LEMMA BoundsAreNat == /\ MaxEvents \in Nat /\ MaxReviews \in Nat
                      /\ MaxSaveFailures \in Nat /\ MaxCrashes \in Nat
BY ParametersAssumption

\* A counter below its bound may be incremented.
LEMMA NextCount ==
    ASSUME NEW max \in Nat, NEW n \in 0..max, n < max
    PROVE  n + 1 \in 0..max
OBVIOUS

\* Setting the status of an alert keeps a map of alerts one.
LEMMA PutAlert ==
    ASSUME NEW as, IsAlerts(as), NEW a \in Id, NEW status \in Status
    PROVE  IsAlerts(Put(as, a, status))
BY DEF IsAlerts, Put

\* An item enters the bounded window; what it pushes out leaves a full one.
LEMMA PushBoundedEffect ==
    ASSUME NEW q \in Seq(Id), Len(q) <= Window, NEW x \in Id
    PROVE  LET pushed == PushBounded(q, x)
           IN  /\ pushed \in Seq(Id) /\ Len(pushed) <= Window
               /\ x \in ToSet(pushed)
               /\ Len(q) = Window => Len(pushed) = Window
               /\ \A y \in ToSet(q) : y \in ToSet(pushed) \/ Len(pushed) = Window
<1> DEFINE longer == Append(q, x)
<1>0. Len(longer) = Len(q) + 1 /\ Len(q) \in Nat /\ Window \in Nat
    BY AppendProperties, LenProperties, ParametersAssumption
<1>1. /\ longer \in Seq(Id) /\ longer # <<>> /\ Len(longer) = Len(q) + 1
      /\ \A i \in 1..Len(q) : longer[i] = q[i]
      /\ longer[Len(q) + 1] = x
    BY AppendProperties
<1>2. /\ Len(q) \in Nat /\ DOMAIN q = 1..Len(q)
      /\ Window \in Nat /\ Window > 0
    BY LenProperties, ParametersAssumption
<1>3. DOMAIN longer = 1..Len(q) + 1
    BY <1>1, LenProperties
<1> HIDE DEF longer
<1>4. CASE Len(longer) > Window
    <2>1. PushBounded(q, x) = Tail(longer)
        BY <1>4 DEF PushBounded, longer
    <2>2. /\ Tail(longer) \in Seq(Id) /\ Len(Tail(longer)) = Len(q)
          /\ \A i \in 1..Len(q) : Tail(longer)[i] = longer[i + 1]
        BY <1>1, <1>2, HeadTailProperties
    <2>3. Len(q) = Window
        BY <1>0, <1>4
    <2>4. DOMAIN Tail(longer) = 1..Len(q)
        BY <2>2, LenProperties
    <2>5. Tail(longer)[Len(q)] = x /\ Len(q) \in DOMAIN Tail(longer)
        BY <1>1, <1>2, <2>2, <2>3, <2>4
    <2>6. x \in ToSet(Tail(longer))
        BY <2>5 DEF ToSet
    <2> QED  BY <2>1, <2>2, <2>3, <2>6
<1>5. CASE ~(Len(longer) > Window)
    <2>1. PushBounded(q, x) = longer
        BY <1>5 DEF PushBounded, longer
    <2>2. x \in ToSet(longer)
        BY <1>1, <1>2, <1>3 DEF ToSet
    <2>3. \A y \in ToSet(q) : y \in ToSet(longer)
        BY <1>1, <1>2, <1>3 DEF ToSet
    <2>4. Len(longer) <= Window /\ (Len(q) = Window => FALSE)
        BY <1>0, <1>5
    <2> QED  BY <1>1, <2>1, <2>2, <2>3, <2>4
<1> QED  BY <1>4, <1>5

\* A copy has the keys of the map, and for each of them a value it had.
LEMMA SeenEffect ==
    ASSUME NEW f, NEW now, NEW g \in Seen(f, now)
    PROVE  /\ DOMAIN g = DOMAIN f
           /\ \A x \in DOMAIN f : g[x] = f[x] \/ g[x] = now[x]
BY DEF Seen

\* What goes on in the other threads is left alone by a step of t.
Others(t) == \A u \in Thread \ {t} : pc'[u] = pc[u] /\ job'[u] = job[u]

-----------------------------------------------------------------------------
(* Types.                                                                  *)

\* What a thread knows at each place of its request.
Locals(t) ==
    /\ pc[t] \in {"append", "alert"} => job[t] \in [op : {"analyze"}, id : Id]
    /\ pc[t] = "review" => job[t].op = "review" /\ job[t].verdict \in Verdict
    /\ pc[t] = "alerts" => IsAlerts(job[t].alerts)
    /\ pc[t] = "history" => IsAlerts(job[t].copy) /\ IsHistory(job[t].history)
    /\ pc[t] = "store" => /\ IsAlerts(job[t].document.alerts)
                          /\ IsHistory(job[t].document.history)

TypeInv == TypeOK /\ DOMAIN job = Thread /\ \A t \in Thread : Locals(t)

\* The window of the event's symbol takes the event; the other windows stay.
LEMMA PushedHistory ==
    ASSUME NEW h, IsHistory(h), NEW s, NEW x \in Id,
           NEW pushed, pushed = [h EXCEPT ![s] = PushBounded(@, x)]
    PROVE  IsHistory(pushed)
<1>1. /\ DOMAIN pushed = DOMAIN h
      /\ \A z \in DOMAIN h : pushed[z] = IF z = s THEN PushBounded(h[s], x) ELSE h[z]
    OBVIOUS
<1>2. ASSUME NEW z \in DOMAIN h PROVE pushed[z] \in Seq(Id) /\ Len(pushed[z]) <= Window
    <2>1. h[z] \in Seq(Id) /\ Len(h[z]) <= Window
        BY DEF IsHistory
    <2>2. CASE z = s
        BY <1>1, <2>1, <2>2, PushBoundedEffect
    <2> QED  BY <1>1, <2>1, <2>2
<1> QED  BY <1>1, <1>2 DEF IsHistory

\* A symbol that is read for the first time gets an empty window.
LEMMA TrackedHistory ==
    ASSUME NEW h, IsHistory(h), NEW s \in Symbol
    PROVE  IsHistory(Put(h, s, <<>>))
<1>1. <<>> \in Seq(Id) /\ Len(<<>>) <= Window
    BY EmptySeq, ParametersAssumption
<1> QED  BY <1>1 DEF IsHistory, Put

\* Every step keeps the types.
LEMMA StepTypeInv == TypeInv /\ [Next]_vars => TypeInv'
<1> SUFFICES ASSUME TypeInv, [Next]_vars PROVE TypeInv'
    OBVIOUS
<1>pc. /\ pc \in [Thread -> {"idle", "append", "alert", "review", "save", "alerts",
                             "history", "store", "record", "answer"}]
       /\ DOMAIN job = Thread
       /\ \A t \in Thread : Locals(t)
       /\ \A t \in Thread : pc[t] # "idle" => job[t].id \in Id
    BY DEF TypeInv, TypeOK
<1>mem. /\ IsHistory(history) /\ IsAlerts(alerts)
        /\ IsHistory(file.history) /\ IsAlerts(file.alerts)
    BY DEF TypeInv, TypeOK
<1>rest. /\ symbolOf \in Seq(Symbol)
         /\ created \cup reviewed \cup analyzed \subseteq Id
         /\ overlapped \in BOOLEAN
         /\ reviews \in 0..MaxReviews
         /\ saveFailures \in 0..MaxSaveFailures
         /\ crashes \in 0..MaxCrashes
    BY DEF TypeInv, TypeOK
<1>1. ASSUME NEW t \in Thread, NEW s \in Symbol, ReceiveEvent(t, s) PROVE TypeInv'
    <2>1. /\ pc' = [pc EXCEPT ![t] = "append"]
          /\ job' = [job EXCEPT ![t] = [op |-> "analyze", id |-> Len(symbolOf) + 1]]
          /\ UNCHANGED <<alerts, file, created, reviewed, analyzed, bounds>>
        BY <1>1 DEF ReceiveEvent, Go
    <2>2. IsHistory(history')
        BY <1>1, <1>mem, TrackedHistory DEF ReceiveEvent
    <2>3. symbolOf' \in Seq(Symbol) /\ overlapped' \in BOOLEAN
        BY <1>1, <1>rest, AppendProperties DEF ReceiveEvent, Overlaps
    <2>4. Len(symbolOf) + 1 \in Id
        BY <1>1, <1>rest, LenProperties, BoundsAreNat DEF ReceiveEvent, Id
    <2>5. \A u \in Thread : Locals(u)'
        BY <1>pc, <2>1, <2>4 DEF Locals
    <2> QED  BY <2>1, <2>2, <2>3, <2>4, <2>5, <1>pc, <1>mem, <1>rest
             DEF TypeInv, TypeOK, bounds
<1>2. ASSUME NEW t \in Thread, AppendHistory(t) PROVE TypeInv'
    <2>1. /\ pc[t] = "append"
          /\ job[t] \in [op : {"analyze"}, id : Id]
          /\ UNCHANGED <<alerts, file, ghosts, bounds>>
        BY <1>2, <1>pc DEF AppendHistory, Go, Locals
    <2>2. \/ pc' = [pc EXCEPT ![t] = "answer"] /\ job' = [job EXCEPT ![t].op = "no alert"]
          \/ pc' = [pc EXCEPT ![t] = "alert"] /\ job' = job
        BY <1>2 DEF AppendHistory, Go
    <2>3. job'[t].id = job[t].id /\ DOMAIN job' = Thread
        <3>1. CASE job' = [job EXCEPT ![t].op = "no alert"]
            <4>1. job'[t] = [job[t] EXCEPT !.op = "no alert"] /\ DOMAIN job' = Thread
                BY <3>1, <1>pc
            <4> QED  BY <4>1, <2>1
        <3> QED  BY <3>1, <2>2, <1>pc
    <2>4. IsHistory(history')
        BY <1>2, <1>mem, <2>1, PushedHistory DEF AppendHistory
    <2>5. \A u \in Thread : Locals(u)'
        BY <1>pc, <2>1, <2>2 DEF Locals
    <2>6. \A u \in Thread : job'[u].id = job[u].id
        BY <1>pc, <2>2, <2>3
    <2> QED  BY <2>1, <2>2, <2>3, <2>4, <2>5, <2>6, <1>pc, <1>mem, <1>rest
             DEF TypeInv, TypeOK, ghosts, bounds
<1>3. ASSUME NEW t \in Thread, SetAlert(t) \/ SetReview(t) PROVE TypeInv'
    <2>1. /\ pc' = [pc EXCEPT ![t] = "save"] /\ pc[t] # "idle"
          /\ UNCHANGED <<history, file, job, ghosts, bounds>>
        BY <1>3 DEF SetAlert, SetReview, Go
    <2>2. PICK status \in Status : alerts' = Put(alerts, job[t].id, status)
        BY <1>3, <1>pc DEF SetAlert, SetReview, Go, Locals, Status
    <2>3. IsAlerts(alerts')
        BY <2>1, <2>2, <1>pc, <1>mem, PutAlert
    <2>4. \A u \in Thread : Locals(u)'
        BY <1>pc, <2>1 DEF Locals
    <2> QED  BY <2>1, <2>3, <2>4, <1>pc, <1>mem, <1>rest
             DEF TypeInv, TypeOK, ghosts, bounds
<1>4. ASSUME NEW t \in Thread, NEW a \in Id, NEW v \in Verdict, ReceiveReview(t, a, v)
      PROVE  TypeInv'
    <2>1. /\ pc' = [pc EXCEPT ![t] = "review"]
          /\ job' = [job EXCEPT ![t] = [op |-> "review", id |-> a, verdict |-> v]]
          /\ UNCHANGED <<memory, file, symbolOf, created, reviewed, analyzed,
                         saveFailures, crashes>>
        BY <1>4 DEF ReceiveReview, Go
    <2>2. reviews' \in 0..MaxReviews /\ overlapped' \in BOOLEAN
        BY <1>4, <1>rest, BoundsAreNat, NextCount DEF ReceiveReview, Overlaps
    <2>3. \A u \in Thread : Locals(u)'
        BY <1>pc, <2>1 DEF Locals
    <2> QED  BY <2>1, <2>2, <2>3, <1>pc, <1>mem, <1>rest DEF TypeInv, TypeOK, memory
<1>5. ASSUME NEW t \in Thread, BeginCopy(t) PROVE TypeInv'
    <2>1. /\ pc' = [pc EXCEPT ![t] = "alerts"] /\ pc[t] = "save"
          /\ job' = [job EXCEPT ![t] = [op |-> @.op, id |-> @.id, alerts |-> alerts]]
          /\ UNCHANGED <<memory, file, ghosts, bounds>>
        BY <1>5 DEF BeginCopy, Go
    <2>2. \A u \in Thread : Locals(u)'
        BY <1>pc, <1>mem, <2>1 DEF Locals
    <2> QED  BY <2>1, <2>2, <1>pc, <1>mem, <1>rest
             DEF TypeInv, TypeOK, memory, ghosts, bounds
<1>6. ASSUME NEW t \in Thread, CopyAlerts(t) PROVE TypeInv'
    <2>1. PICK copy \in Seen(job[t].alerts, alerts) :
              job' = [job EXCEPT ![t] = [op |-> @.op, id |-> @.id, copy |-> copy,
                                         history |-> history]]
        BY <1>6 DEF CopyAlerts
    <2>2. /\ pc' = [pc EXCEPT ![t] = "history"] /\ pc[t] = "alerts"
          /\ ~ Resized(job[t].alerts, alerts)
          /\ UNCHANGED <<memory, file, ghosts, bounds>>
        BY <1>6 DEF CopyAlerts, Go
    <2>3. IsAlerts(copy)
        BY <2>2, <1>pc, <1>mem, SeenEffect DEF Locals, IsAlerts, Resized
    <2>4. \A u \in Thread : Locals(u)'
        BY <1>pc, <1>mem, <2>1, <2>2, <2>3 DEF Locals
    <2> QED  BY <2>1, <2>2, <2>4, <1>pc, <1>mem, <1>rest
             DEF TypeInv, TypeOK, memory, ghosts, bounds
<1>7. ASSUME NEW t \in Thread, CopyHistory(t) PROVE TypeInv'
    <2>1. PICK copy \in Seen(job[t].history, history) :
              job' = [job EXCEPT ![t] = [op |-> @.op, id |-> @.id,
                          document |-> [alerts |-> job[t].copy, history |-> copy]]]
        BY <1>7 DEF CopyHistory
    <2>2. /\ pc' = [pc EXCEPT ![t] = "store"] /\ pc[t] = "history"
          /\ ~ Resized(job[t].history, history)
          /\ UNCHANGED <<memory, file, ghosts, bounds>>
        BY <1>7 DEF CopyHistory, Go
    <2>3. IsHistory(copy)
        BY <2>2, <1>pc, <1>mem, SeenEffect DEF Locals, IsHistory, Resized
    <2>4. \A u \in Thread : Locals(u)'
        BY <1>pc, <1>mem, <2>1, <2>2, <2>3 DEF Locals
    <2> QED  BY <2>1, <2>2, <2>4, <1>pc, <1>mem, <1>rest
             DEF TypeInv, TypeOK, memory, ghosts, bounds
<1>8. ASSUME NEW t \in Thread, CopyRaises(t) PROVE TypeInv'
    <2>1. /\ pc' = [pc EXCEPT ![t] = "idle"]
          /\ job' = [job EXCEPT ![t] = NoJob]
          /\ UNCHANGED <<memory, file, ghosts, bounds>>
        BY <1>8 DEF CopyRaises, Go, Abort
    <2>2. \A u \in Thread : Locals(u)'
        BY <1>pc, <2>1 DEF Locals
    <2> QED  BY <2>1, <2>2, <1>pc, <1>mem, <1>rest
             DEF TypeInv, TypeOK, memory, ghosts, bounds
<1>9. ASSUME NEW t \in Thread, Store(t) PROVE TypeInv'
    <2>1. /\ pc' = [pc EXCEPT ![t] = "record"] /\ pc[t] = "store"
          /\ file' = job[t].document
          /\ UNCHANGED <<memory, job, ghosts, bounds>>
        BY <1>9 DEF Store, Go
    <2>2. IsAlerts(file'.alerts) /\ IsHistory(file'.history)
        BY <1>pc, <2>1 DEF Locals
    <2>3. \A u \in Thread : Locals(u)'
        BY <1>pc, <2>1 DEF Locals
    <2> QED  BY <2>1, <2>2, <2>3, <1>pc, <1>mem, <1>rest
             DEF TypeInv, TypeOK, memory, ghosts, bounds
<1>10. ASSUME NEW t \in Thread, StoreFails(t) PROVE TypeInv'
    <2>1. /\ pc' = [pc EXCEPT ![t] = "idle"] /\ pc[t] = "store"
          /\ job' = [job EXCEPT ![t] = NoJob]
          /\ file' \in {file, job[t].document}
          /\ UNCHANGED <<memory, ghosts, reviews, crashes>>
        BY <1>10 DEF StoreFails, Go, Abort
    <2>2. IsAlerts(file'.alerts) /\ IsHistory(file'.history)
        BY <1>pc, <1>mem, <2>1 DEF Locals
    <2>3. saveFailures' \in 0..MaxSaveFailures
        BY <1>10, <1>rest, BoundsAreNat, NextCount DEF StoreFails
    <2>4. \A u \in Thread : Locals(u)'
        BY <1>pc, <2>1 DEF Locals
    <2> QED  BY <2>1, <2>2, <2>3, <2>4, <1>pc, <1>mem, <1>rest
             DEF TypeInv, TypeOK, memory, ghosts
<1>11. ASSUME NEW t \in Thread, Record(t) PROVE TypeInv'
    <2>1. /\ pc' = [pc EXCEPT ![t] = "answer"] /\ pc[t] = "record"
          /\ UNCHANGED <<memory, file, job, ghosts, bounds>>
        BY <1>11 DEF Record, Go
    <2>2. \A u \in Thread : Locals(u)'
        BY <1>pc, <2>1 DEF Locals
    <2> QED  BY <2>1, <2>2, <1>pc, <1>mem, <1>rest
             DEF TypeInv, TypeOK, memory, ghosts, bounds
<1>12. ASSUME NEW t \in Thread, Answer(t) PROVE TypeInv'
    <2>1. /\ pc' = [pc EXCEPT ![t] = "idle"] /\ pc[t] = "answer"
          /\ job' = [job EXCEPT ![t] = NoJob]
          /\ UNCHANGED <<memory, file, symbolOf, overlapped, bounds>>
        BY <1>12 DEF Answer, Go
    <2>2. created' \cup reviewed' \cup analyzed' \subseteq Id
        BY <1>12, <2>1, <1>pc, <1>rest DEF Answer
    <2>3. \A u \in Thread : Locals(u)'
        BY <1>pc, <2>1 DEF Locals
    <2> QED  BY <2>1, <2>2, <2>3, <1>pc, <1>mem, <1>rest
             DEF TypeInv, TypeOK, memory, bounds
<1>13. CASE Restart
    <2>1. /\ pc' = [t \in Thread |-> "idle"] /\ job' = [t \in Thread |-> NoJob]
          /\ alerts' = file.alerts /\ history' = file.history
          /\ UNCHANGED <<file, ghosts, reviews, saveFailures>>
        BY <1>13 DEF Restart
    <2>2. crashes' \in 0..MaxCrashes
        BY <1>13, <1>rest, BoundsAreNat, NextCount DEF Restart
    <2>3. \A u \in Thread : Locals(u)'
        BY <2>1 DEF Locals
    <2> QED  BY <2>1, <2>2, <2>3, <1>mem, <1>rest DEF TypeInv, TypeOK, ghosts
<1>14. CASE UNCHANGED vars
    BY <1>14, <1>pc, <1>mem, <1>rest
    DEF vars, memory, ghosts, bounds, TypeInv, TypeOK, Locals
<1> QED
    BY <1>1, <1>2, <1>3, <1>4, <1>5, <1>6, <1>7, <1>8, <1>9, <1>10, <1>11, <1>12,
       <1>13, <1>14 DEF Next, Step

\* The types hold at the start.
LEMMA InitTypeInv == Init => TypeInv
<1> SUFFICES ASSUME Init PROVE TypeInv
    OBVIOUS
<1>1. IsHistory(<<>>) /\ IsAlerts(<<>>)
    BY DEF IsHistory, IsAlerts
<1>2. <<>> \in Seq(Symbol)
    BY EmptySeq
<1>3. IsHistory(file.history) /\ IsAlerts(file.alerts)
    BY <1>1 DEF Init, Nothing
<1>4. /\ reviews \in 0..MaxReviews /\ saveFailures \in 0..MaxSaveFailures
      /\ crashes \in 0..MaxCrashes
    BY BoundsAreNat DEF Init
<1>5. \A t \in Thread : pc[t] = "idle" /\ Locals(t)
    BY DEF Init, Locals
<1>6. /\ IsHistory(history) /\ IsAlerts(alerts) /\ symbolOf \in Seq(Symbol)
      /\ DOMAIN job = Thread
      /\ pc \in [Thread -> {"idle", "append", "alert", "review", "save", "alerts",
                            "history", "store", "record", "answer"}]
      /\ created = {} /\ reviewed = {} /\ analyzed = {} /\ overlapped = FALSE
    BY <1>1, <1>2 DEF Init
<1> QED  BY <1>3, <1>4, <1>5, <1>6 DEF TypeInv, TypeOK

\* The windows, the alerts and the stored document always have their types.
THEOREM TypeCorrect == Spec => []TypeOK
<1>1. TypeInv => TypeOK
    BY DEF TypeInv
<1> QED  BY <1>1, InitTypeInv, StepTypeInv, PTL DEF Spec

-----------------------------------------------------------------------------
(* The windows cover the alerts.                                           *)

\* Event a is in the windows h, or newer events have filled its window.
Has(a, h, symbols) ==
    /\ a \in 1..Len(symbols)
    /\ symbols[a] \in DOMAIN h
    /\ a \in ToSet(h[symbols[a]]) \/ Len(h[symbols[a]]) = Window

Covered(as, h) == \A a \in DOMAIN as : Has(a, h, symbolOf)

\* What a thread has copied so far is covered: the alerts by the windows of the
\* moment, which it copies after them, and by those it copied.
Informed(t) ==
    /\ pc[t] \in {"append", "alert"} => /\ job[t].id \in 1..Len(symbolOf)
                                        /\ symbolOf[job[t].id] \in DOMAIN history
    /\ pc[t] = "alert" => Has(job[t].id, history, symbolOf)
    /\ pc[t] = "review" => job[t].id \in DOMAIN alerts
    /\ pc[t] = "alerts" => Covered(job[t].alerts, history)
    /\ pc[t] = "history" => /\ Covered(job[t].copy, history)
                            /\ Covered(job[t].copy, job[t].history)
    /\ pc[t] = "store" => Covered(job[t].document.alerts, job[t].document.history)

HistoryInv == /\ Covered(alerts, history)
              /\ Covered(file.alerts, file.history)
              /\ \A t \in Thread : Informed(t)

\* Within one process the windows go on covering what they covered, and the
\* alerts that are there stay there.
LEMMA MemoryGrows ==
    ASSUME TypeInv, [Next]_vars, crashes' = crashes
    PROVE  /\ \A a : Has(a, history, symbolOf) => Has(a, history', symbolOf')
           /\ \A a, h : Has(a, h, symbolOf) => Has(a, h, symbolOf')
           /\ DOMAIN history \subseteq DOMAIN history'
           /\ DOMAIN alerts \subseteq DOMAIN alerts'
           /\ \A i \in 1..Len(symbolOf) : /\ i \in 1..Len(symbolOf')
                                          /\ symbolOf'[i] = symbolOf[i]
<1>types. /\ IsHistory(history) /\ symbolOf \in Seq(Symbol)
          /\ \A t \in Thread : pc[t] # "idle" => job[t].id \in Id
          /\ Len(symbolOf) \in Nat /\ crashes \in Nat
    BY BoundsAreNat, LenProperties DEF TypeInv, TypeOK
<1>1. ASSUME NEW t \in Thread, NEW s \in Symbol, ReceiveEvent(t, s)
      PROVE  /\ \A a : Has(a, history, symbolOf) => Has(a, history', symbolOf')
             /\ \A a, h : Has(a, h, symbolOf) => Has(a, h, symbolOf')
             /\ DOMAIN history \subseteq DOMAIN history'
             /\ DOMAIN alerts \subseteq DOMAIN alerts'
             /\ \A i \in 1..Len(symbolOf) : /\ i \in 1..Len(symbolOf')
                                            /\ symbolOf'[i] = symbolOf[i]
    <2>1. symbolOf' = Append(symbolOf, s) /\ alerts' = alerts
        BY <1>1 DEF ReceiveEvent
    <2>2. /\ Len(symbolOf') = Len(symbolOf) + 1
          /\ \A i \in 1..Len(symbolOf) : symbolOf'[i] = symbolOf[i]
        BY <2>1, <1>types, AppendProperties
    <2>3. /\ DOMAIN history \subseteq DOMAIN history'
          /\ \A x \in DOMAIN history : history'[x] = history[x]
        BY <1>1 DEF ReceiveEvent, Put
    <2>4. \A a, h : Has(a, h, symbolOf) => Has(a, h, symbolOf')
        BY <2>2, <1>types DEF Has
    <2>5. \A a : Has(a, history, symbolOf) => Has(a, history', symbolOf)
        BY <2>3 DEF Has
    <2>6. \A a : Has(a, history, symbolOf) => Has(a, history', symbolOf')
        BY <2>2, <2>3, <1>types DEF Has
    <2> QED  BY <2>1, <2>2, <2>3, <2>4, <2>6, <1>types
<1>2. ASSUME NEW t \in Thread, AppendHistory(t)
      PROVE  /\ \A a : Has(a, history, symbolOf) => Has(a, history', symbolOf)
             /\ DOMAIN history \subseteq DOMAIN history'
             /\ symbolOf' = symbolOf /\ alerts' = alerts
    <2> DEFINE x == job[t].id
               s == symbolOf[x]
    <2>1. /\ history' = [history EXCEPT ![s] = PushBounded(@, x)]
          /\ pc[t] = "append" /\ symbolOf' = symbolOf /\ alerts' = alerts
        BY <1>2 DEF AppendHistory, Go, ghosts
    <2>2. x \in Id
        BY <2>1, <1>types
    <2> HIDE DEF x, s
    <2>3. /\ DOMAIN history' = DOMAIN history
          /\ \A z \in DOMAIN history :
                 history'[z] = IF z = s THEN PushBounded(history[z], x) ELSE history[z]
        BY <2>1
    <2>4. ASSUME NEW a, Has(a, history, symbolOf) PROVE Has(a, history', symbolOf)
        <3> DEFINE z == symbolOf[a]
        <3>1. /\ z \in DOMAIN history
              /\ a \in 1..Len(symbolOf)
              /\ a \in ToSet(history[z]) \/ Len(history[z]) = Window
            BY <2>4 DEF Has
        <3>2. history[z] \in Seq(Id) /\ Len(history[z]) <= Window
            BY <3>1, <1>types DEF IsHistory
        <3>3. a \in ToSet(PushBounded(history[z], x))
                  \/ Len(PushBounded(history[z], x)) = Window
            BY <2>2, <3>1, <3>2, PushBoundedEffect
        <3>4. a \in ToSet(history'[z]) \/ Len(history'[z]) = Window
            BY <2>3, <3>1, <3>3
        <3> QED  BY <2>3, <3>1, <3>4 DEF Has
    <2> QED  BY <2>1, <2>3, <2>4
<1>3. ASSUME NEW t \in Thread, SetAlert(t) \/ SetReview(t)
      PROVE  /\ DOMAIN alerts \subseteq DOMAIN alerts'
             /\ UNCHANGED <<history, symbolOf>>
    BY <1>3 DEF SetAlert, SetReview, Put, ghosts
<1>4. ASSUME NEW t \in Thread,
             \/ BeginCopy(t) \/ CopyAlerts(t) \/ CopyHistory(t) \/ CopyRaises(t)
             \/ Store(t) \/ StoreFails(t) \/ Record(t) \/ Answer(t)
             \/ \E a \in Id, v \in Verdict : ReceiveReview(t, a, v)
      PROVE  UNCHANGED <<history, symbolOf, alerts>>
    BY <1>4
    DEF BeginCopy, CopyAlerts, CopyHistory, CopyRaises, Store, StoreFails, Record,
        Answer, ReceiveReview, Abort, memory, ghosts
<1>5. CASE Restart
    BY <1>5, <1>types DEF Restart
<1>6. CASE UNCHANGED vars
    BY <1>6 DEF vars, memory, ghosts
<1> QED  BY <1>1, <1>2, <1>3, <1>4, <1>5, <1>6 DEF Next, Step

\* A step of thread t leaves what the other threads know true.
LEMMA OthersInformed ==
    ASSUME TypeInv, HistoryInv, [Next]_vars, crashes' = crashes,
           NEW t \in Thread, Others(t)
    PROVE  /\ \A u \in Thread \ {t} : Informed(u)'
           /\ \A as, h : Covered(as, h) => \A a \in DOMAIN as : Has(a, h, symbolOf')
           /\ \A as : Covered(as, history) =>
                  \A a \in DOMAIN as : Has(a, history', symbolOf')
<1>1. /\ \A a : Has(a, history, symbolOf) => Has(a, history', symbolOf')
      /\ \A a, h : Has(a, h, symbolOf) => Has(a, h, symbolOf')
      /\ DOMAIN history \subseteq DOMAIN history'
      /\ DOMAIN alerts \subseteq DOMAIN alerts'
      /\ \A i \in 1..Len(symbolOf) : /\ i \in 1..Len(symbolOf')
                                     /\ symbolOf'[i] = symbolOf[i]
    BY MemoryGrows
<1>2. ASSUME NEW u \in Thread \ {t} PROVE Informed(u)'
    <2>1. pc'[u] = pc[u] /\ job'[u] = job[u] /\ Informed(u)
        BY DEF Others, HistoryInv
    <2> QED  BY <1>1, <2>1 DEF Informed, Covered
<1> QED  BY <1>1, <1>2 DEF Covered

\* Every step keeps the alerts covered, in memory, in the copies and on disk.
LEMMA StepHistoryInv == TypeInv /\ HistoryInv /\ [Next]_vars => HistoryInv'
<1> SUFFICES ASSUME TypeInv, HistoryInv, [Next]_vars PROVE HistoryInv'
    OBVIOUS
<1>types. /\ IsHistory(history) /\ IsAlerts(alerts) /\ symbolOf \in Seq(Symbol)
          /\ Len(symbolOf) \in Nat
          /\ pc \in [Thread -> {"idle", "append", "alert", "review", "save", "alerts",
                                "history", "store", "record", "answer"}]
          /\ DOMAIN job = Thread
          /\ \A t \in Thread : pc[t] # "idle" => job[t].id \in Id
          /\ \A t \in Thread : Locals(t)
    BY LenProperties DEF TypeInv, TypeOK
<1>inv. /\ Covered(alerts, history)
        /\ Covered(file.alerts, file.history)
        /\ \A t \in Thread : Informed(t)
    BY DEF HistoryInv
\* What a step of t that does not restart the process has to show.
<1>step. ASSUME NEW t \in Thread, Others(t), crashes' = crashes,
                Informed(t)', Covered(alerts, history)',
                Covered(file.alerts, file.history)'
         PROVE  HistoryInv'
    BY <1>step, OthersInformed DEF HistoryInv
<1>1. ASSUME NEW t \in Thread, NEW s \in Symbol, ReceiveEvent(t, s) PROVE HistoryInv'
    <2>1. /\ pc' = [pc EXCEPT ![t] = "append"]
          /\ job' = [job EXCEPT ![t] = [op |-> "analyze", id |-> Len(symbolOf) + 1]]
          /\ symbolOf' = Append(symbolOf, s)
          /\ UNCHANGED <<alerts, file>> /\ crashes' = crashes
        BY <1>1 DEF ReceiveEvent, Go, bounds
    <2>2. Others(t) /\ pc'[t] = "append" /\ job'[t].id = Len(symbolOf) + 1
        BY <2>1, <1>types DEF Others
    <2>3. Len(symbolOf') = Len(symbolOf) + 1 /\ symbolOf'[Len(symbolOf) + 1] = s
        BY <2>1, <1>types, AppendProperties
    <2>4. s \in DOMAIN history'
        BY <1>1 DEF ReceiveEvent, Put
    <2>5. Informed(t)'
        BY <2>2, <2>3, <2>4, <1>types DEF Informed
    <2> QED  BY <1>step, <1>inv, <2>1, <2>2, <2>5, OthersInformed DEF Covered
<1>2. ASSUME NEW t \in Thread, AppendHistory(t) PROVE HistoryInv'
    <2> DEFINE x == job[t].id
               s == symbolOf[x]
    <2>1. /\ history' = [history EXCEPT ![s] = PushBounded(@, x)]
          /\ pc[t] = "append" /\ UNCHANGED <<alerts, file, symbolOf>>
          /\ crashes' = crashes
          /\ job[t] \in [op : {"analyze"}, id : Id]
        BY <1>2, <1>types DEF AppendHistory, Go, Locals, ghosts, bounds
    <2>2. \/ pc' = [pc EXCEPT ![t] = "answer"] /\ job' = [job EXCEPT ![t].op = "no alert"]
          \/ pc' = [pc EXCEPT ![t] = "alert"] /\ job' = job
        BY <1>2 DEF AppendHistory, Go
    <2>3. Others(t)
        BY <2>2, <1>types DEF Others
    <2>4. /\ x \in Id /\ x \in 1..Len(symbolOf) /\ s \in DOMAIN history
          /\ history[s] \in Seq(Id) /\ Len(history[s]) <= Window
        BY <2>1, <1>types, <1>inv DEF Informed, IsHistory
    <2>5. x \in ToSet(history'[s]) /\ s \in DOMAIN history'
        BY <2>1, <2>4, PushBoundedEffect
    <2>6. Has(x, history', symbolOf')
        BY <2>1, <2>4, <2>5 DEF Has
    <2>7. Informed(t)'
        <3>1. CASE pc'[t] = "answer"
            BY <3>1 DEF Informed
        <3>2. CASE pc'[t] = "alert" /\ job' = job
            BY <3>2, <2>6, <2>4, <2>5, <2>1 DEF Informed
        <3> QED  BY <3>1, <3>2, <2>2, <1>types
    <2> QED  BY <1>step, <1>inv, <2>1, <2>3, <2>7, OthersInformed DEF Covered
<1>3. ASSUME NEW t \in Thread, SetAlert(t) \/ SetReview(t) PROVE HistoryInv'
    <2>1. /\ pc' = [pc EXCEPT ![t] = "save"]
          /\ UNCHANGED <<history, file, job, symbolOf>> /\ crashes' = crashes
        BY <1>3 DEF SetAlert, SetReview, Go, ghosts, bounds
    <2>2. /\ Others(t) /\ Informed(t)'
        BY <2>1, <1>types DEF Others, Informed
    <2>3. DOMAIN alerts' = DOMAIN alerts \cup {job[t].id}
        BY <1>3 DEF SetAlert, SetReview, Put
    <2>4. Has(job[t].id, history, symbolOf)
        BY <1>3, <1>inv DEF SetAlert, SetReview, Go, Informed, Covered
    <2> QED  BY <1>step, <1>inv, <2>1, <2>2, <2>3, <2>4 DEF Covered
<1>4. ASSUME NEW t \in Thread, NEW a \in Id, NEW v \in Verdict, ReceiveReview(t, a, v)
      PROVE  HistoryInv'
    <2>1. /\ pc' = [pc EXCEPT ![t] = "review"]
          /\ job' = [job EXCEPT ![t] = [op |-> "review", id |-> a, verdict |-> v]]
          /\ a \in DOMAIN alerts
          /\ UNCHANGED <<memory, file, symbolOf>> /\ crashes' = crashes
        BY <1>4 DEF ReceiveReview, Go
    <2>2. Others(t) /\ Informed(t)'
        BY <2>1, <1>types DEF Others, Informed, memory
    <2> QED  BY <1>step, <1>inv, <2>1, <2>2 DEF Covered, memory
<1>5. ASSUME NEW t \in Thread, BeginCopy(t) PROVE HistoryInv'
    <2>1. /\ pc' = [pc EXCEPT ![t] = "alerts"]
          /\ job' = [job EXCEPT ![t] = [op |-> @.op, id |-> @.id, alerts |-> alerts]]
          /\ UNCHANGED <<memory, file, symbolOf>> /\ crashes' = crashes
        BY <1>5 DEF BeginCopy, Go, ghosts, bounds
    <2>2. Others(t) /\ pc'[t] = "alerts" /\ job'[t].alerts = alerts
        BY <2>1, <1>types DEF Others
    <2>3. Informed(t)'
        BY <2>1, <2>2, <1>inv DEF Informed, Covered, memory
    <2> QED  BY <1>step, <1>inv, <2>1, <2>2, <2>3 DEF Covered, memory
<1>6. ASSUME NEW t \in Thread, CopyAlerts(t) PROVE HistoryInv'
    <2>1. PICK copy \in Seen(job[t].alerts, alerts) :
              job' = [job EXCEPT ![t] = [op |-> @.op, id |-> @.id, copy |-> copy,
                                         history |-> history]]
        BY <1>6 DEF CopyAlerts
    <2>2. /\ pc' = [pc EXCEPT ![t] = "history"] /\ pc[t] = "alerts"
          /\ UNCHANGED <<memory, file, symbolOf>> /\ crashes' = crashes
        BY <1>6 DEF CopyAlerts, Go, ghosts, bounds
    <2>3. /\ Others(t) /\ pc'[t] = "history"
          /\ job'[t].copy = copy /\ job'[t].history = history
        BY <2>1, <2>2, <1>types DEF Others
    <2>4. Covered(copy, history)
        BY <2>2, <1>inv, SeenEffect DEF Informed, Covered
    <2>5. Informed(t)'
        BY <2>2, <2>3, <2>4 DEF Informed, Covered, memory
    <2> QED  BY <1>step, <1>inv, <2>2, <2>3, <2>5 DEF Covered, memory
<1>7. ASSUME NEW t \in Thread, CopyHistory(t) PROVE HistoryInv'
    <2>1. PICK copy \in Seen(job[t].history, history) :
              job' = [job EXCEPT ![t] = [op |-> @.op, id |-> @.id,
                          document |-> [alerts |-> job[t].copy, history |-> copy]]]
        BY <1>7 DEF CopyHistory
    <2>2. /\ pc' = [pc EXCEPT ![t] = "store"] /\ pc[t] = "history"
          /\ UNCHANGED <<memory, file, symbolOf>> /\ crashes' = crashes
        BY <1>7 DEF CopyHistory, Go, ghosts, bounds
    <2>3. /\ Others(t) /\ pc'[t] = "store"
          /\ job'[t].document = [alerts |-> job[t].copy, history |-> copy]
        BY <2>1, <2>2, <1>types DEF Others
    <2>4. Covered(job[t].copy, copy)
        BY <2>2, <1>inv, SeenEffect DEF Informed, Covered, Has
    <2>5. Informed(t)'
        BY <2>2, <2>3, <2>4 DEF Informed, Covered
    <2> QED  BY <1>step, <1>inv, <2>2, <2>3, <2>5 DEF Covered, memory
<1>8. ASSUME NEW t \in Thread, CopyRaises(t) PROVE HistoryInv'
    <2>1. /\ pc' = [pc EXCEPT ![t] = "idle"] /\ job' = [job EXCEPT ![t] = NoJob]
          /\ UNCHANGED <<memory, file, symbolOf>> /\ crashes' = crashes
        BY <1>8 DEF CopyRaises, Go, Abort, ghosts, bounds
    <2>2. Others(t) /\ Informed(t)'
        BY <2>1, <1>types DEF Others, Informed
    <2> QED  BY <1>step, <1>inv, <2>1, <2>2 DEF Covered, memory
<1>9. ASSUME NEW t \in Thread, Store(t) \/ StoreFails(t) PROVE HistoryInv'
    <2>1. /\ pc' \in {[pc EXCEPT ![t] = "record"], [pc EXCEPT ![t] = "idle"]}
          /\ job' \in {job, [job EXCEPT ![t] = NoJob]}
          /\ pc[t] = "store" /\ file' \in {file, job[t].document}
          /\ UNCHANGED <<memory, symbolOf>> /\ crashes' = crashes
        BY <1>9 DEF Store, StoreFails, Go, Abort, ghosts, bounds
    <2>2. Others(t) /\ Informed(t)'
        BY <2>1, <1>types DEF Others, Informed
    <2>3. Covered(file.alerts, file.history)'
        BY <2>1, <1>inv DEF Informed, Covered
    <2> QED  BY <1>step, <1>inv, <2>1, <2>2, <2>3 DEF Covered, memory
<1>10. ASSUME NEW t \in Thread, Record(t) \/ Answer(t) PROVE HistoryInv'
    <2>1. /\ pc' \in {[pc EXCEPT ![t] = "answer"], [pc EXCEPT ![t] = "idle"]}
          /\ job' \in {job, [job EXCEPT ![t] = NoJob]}
          /\ UNCHANGED <<memory, file, symbolOf>> /\ crashes' = crashes
        BY <1>10 DEF Record, Answer, Go, ghosts, bounds
    <2>2. Others(t) /\ Informed(t)'
        BY <2>1, <1>types DEF Others, Informed
    <2> QED  BY <1>step, <1>inv, <2>1, <2>2 DEF Covered, memory
<1>11. CASE Restart
    BY <1>11, <1>inv DEF Restart, HistoryInv, Informed, Covered, ghosts
<1>12. CASE UNCHANGED vars
    BY <1>12, <1>inv DEF vars, memory, ghosts, HistoryInv, Informed, Covered
<1> QED
    BY <1>1, <1>2, <1>3, <1>4, <1>5, <1>6, <1>7, <1>8, <1>9, <1>10, <1>11, <1>12
    DEF Next, Step

\* Nothing is stored and nothing in progress at the start.
LEMMA InitHistoryInv == Init => HistoryInv
BY DEF Init, Nothing, HistoryInv, Covered, Informed

\* Under any interleaving of requests, failures and restarts, the stored
\* document holds no alert without the event that raised it, unless newer
\* events have filled that window.
THEOREM StoredAlertsAreCovered == Spec => []AlertsHaveTheirHistory
<1>1. HistoryInv => AlertsHaveTheirHistory
    BY DEF HistoryInv, Covered, Has, AlertsHaveTheirHistory
<1> QED
    BY <1>1, InitTypeInv, StepTypeInv, InitHistoryInv, StepHistoryInv, PTL DEF Spec

-----------------------------------------------------------------------------
(* A review is not undone.                                                 *)

\* The event is analyzed and its alert is not there yet.
IsNew(t) == pc[t] \in {"append", "alert"}

\* An event whose alert is still to come has its number for itself.
FreshInv ==
    \A t \in Thread : IsNew(t) =>
        /\ job[t].id \notin DOMAIN alerts
        /\ \A u \in Thread \ {t} : IsNew(u) => job[u].id # job[t].id

\* Every step keeps the numbers of the new events apart.
LEMMA StepFreshInv == TypeInv /\ HistoryInv /\ FreshInv /\ [Next]_vars => FreshInv'
<1> SUFFICES ASSUME TypeInv, HistoryInv, FreshInv, [Next]_vars PROVE FreshInv'
    OBVIOUS
<1>types. /\ Len(symbolOf) \in Nat
          /\ pc \in [Thread -> {"idle", "append", "alert", "review", "save", "alerts",
                                "history", "store", "record", "answer"}]
          /\ DOMAIN job = Thread
          /\ \A t \in Thread : Locals(t)
    BY LenProperties DEF TypeInv, TypeOK
<1>ids. /\ DOMAIN alerts \subseteq 1..Len(symbolOf)
        /\ \A t \in Thread : IsNew(t) => job[t].id \in 1..Len(symbolOf)
        /\ \A t \in Thread : pc[t] = "review" => job[t].id \in DOMAIN alerts
    BY DEF HistoryInv, Covered, Has, Informed, IsNew
<1>1. ASSUME NEW t \in Thread, NEW s \in Symbol, ReceiveEvent(t, s) PROVE FreshInv'
    <2>1. /\ pc' = [pc EXCEPT ![t] = "append"]
          /\ job' = [job EXCEPT ![t] = [op |-> "analyze", id |-> Len(symbolOf) + 1]]
          /\ alerts' = alerts
        BY <1>1 DEF ReceiveEvent, Go
    <2>2. /\ job'[t].id = Len(symbolOf) + 1
          /\ \A u \in Thread \ {t} : pc'[u] = pc[u] /\ job'[u] = job[u]
        BY <2>1, <1>types
    <2>3. Len(symbolOf) + 1 \notin 1..Len(symbolOf)
        BY <1>types
    <2> QED  BY <2>1, <2>2, <2>3, <1>ids DEF FreshInv, IsNew
<1>2. ASSUME NEW t \in Thread, AppendHistory(t) PROVE FreshInv'
    <2>1. /\ pc[t] = "append" /\ alerts' = alerts
          /\ job[t] \in [op : {"analyze"}, id : Id]
        BY <1>2, <1>types DEF AppendHistory, Go, Locals
    <2>2. \/ pc' = [pc EXCEPT ![t] = "answer"] /\ job' = [job EXCEPT ![t].op = "no alert"]
          \/ pc' = [pc EXCEPT ![t] = "alert"] /\ job' = job
        BY <1>2 DEF AppendHistory, Go
    <2>3. /\ \A u \in Thread \ {t} : pc'[u] = pc[u] /\ job'[u] = job[u]
          /\ pc'[t] = "answer" \/ (pc'[t] = "alert" /\ job'[t] = job[t])
        <3>1. CASE pc' = [pc EXCEPT ![t] = "answer"] /\ job' = [job EXCEPT ![t].op = "no alert"]
            BY <3>1, <1>types
        <3>2. CASE pc' = [pc EXCEPT ![t] = "alert"] /\ job' = job
            BY <3>2, <1>types
        <3> QED  BY <2>2, <3>1, <3>2
    <2> QED  BY <2>1, <2>3 DEF FreshInv, IsNew
<1>3. ASSUME NEW t \in Thread, SetAlert(t) \/ SetReview(t) PROVE FreshInv'
    <2>1. /\ pc' = [pc EXCEPT ![t] = "save"] /\ pc[t] \in {"alert", "review"}
          /\ job' = job
          /\ DOMAIN alerts' = DOMAIN alerts \cup {job[t].id}
        BY <1>3 DEF SetAlert, SetReview, Go, Put
    <2>2. \A u \in Thread \ {t} : IsNew(u) => job[u].id # job[t].id
        BY <2>1, <1>ids DEF FreshInv, IsNew
    <2> QED  BY <2>1, <2>2, <1>types DEF FreshInv, IsNew
<1>4. ASSUME NEW t \in Thread,
             \/ BeginCopy(t) \/ CopyAlerts(t) \/ CopyHistory(t) \/ CopyRaises(t)
             \/ Store(t) \/ StoreFails(t) \/ Record(t) \/ Answer(t)
             \/ \E a \in Id, v \in Verdict : ReceiveReview(t, a, v)
      PROVE  FreshInv'
    <2>1. /\ alerts' = alerts
          /\ \E to \in {"review", "alerts", "history", "store", "idle", "record", "answer"} :
                 pc' = [pc EXCEPT ![t] = to]
          /\ \A u \in Thread \ {t} : job'[u] = job[u]
        BY <1>4, <1>types
        DEF BeginCopy, CopyAlerts, CopyHistory, CopyRaises, Store, StoreFails, Record,
            Answer, ReceiveReview, Abort, Go, memory
    <2> QED  BY <2>1, <1>types DEF FreshInv, IsNew
<1>5. CASE Restart
    BY <1>5 DEF Restart, FreshInv, IsNew
<1>6. CASE UNCHANGED vars
    BY <1>6 DEF vars, memory, FreshInv, IsNew
<1> QED  BY <1>1, <1>2, <1>3, <1>4, <1>5, <1>6 DEF Next, Step

\* bs has the alerts of as, and what is reviewed in as is reviewed in bs.
Keeps(as, bs) ==
    \A a \in DOMAIN as : a \in DOMAIN bs /\ (as[a] # Pending => bs[a] # Pending)

\* Within one process the alerts only gain alerts and verdicts.
LEMMA AlertsKept ==
    ASSUME TypeInv, FreshInv, [Next]_vars, crashes' = crashes
    PROVE  Keeps(alerts, alerts')
<1>1. ASSUME NEW t \in Thread, SetAlert(t) PROVE Keeps(alerts, alerts')
    <2>1. alerts' = Put(alerts, job[t].id, Pending) /\ job[t].id \notin DOMAIN alerts
        BY <1>1 DEF SetAlert, Go, FreshInv, IsNew
    <2> QED  BY <2>1 DEF Put, Keeps
<1>2. ASSUME NEW t \in Thread, SetReview(t) PROVE Keeps(alerts, alerts')
    <2>1. alerts' = Put(alerts, job[t].id, job[t].verdict) /\ job[t].verdict \in Verdict
        BY <1>2 DEF SetReview, Go, TypeInv, Locals
    <2>2. job[t].verdict # Pending
        BY <2>1, ParametersAssumption
    <2> QED  BY <2>1, <2>2 DEF Put, Keeps
<1>3. ASSUME NEW t \in Thread,
             \/ BeginCopy(t) \/ CopyAlerts(t) \/ CopyHistory(t) \/ CopyRaises(t)
             \/ Store(t) \/ StoreFails(t) \/ Record(t) \/ Answer(t) \/ AppendHistory(t)
             \/ \E a \in Id, v \in Verdict : ReceiveReview(t, a, v)
             \/ \E s \in Symbol : ReceiveEvent(t, s)
      PROVE  alerts' = alerts
    BY <1>3
    DEF BeginCopy, CopyAlerts, CopyHistory, CopyRaises, Store, StoreFails, Record,
        Answer, AppendHistory, ReceiveReview, ReceiveEvent, Abort, memory
<1>4. CASE Restart
    <2>1. crashes \in Nat
        BY BoundsAreNat DEF TypeInv, TypeOK
    <2> QED  BY <1>4, <2>1 DEF Restart
<1>5. CASE UNCHANGED vars
    BY <1>5 DEF vars, memory, Keeps
<1> QED  BY <1>1, <1>2, <1>3, <1>4, <1>5 DEF Next, Step, Keeps

\* Under any interleaving, within one process no alert falls back from a
\* reviewed status to pending, nor is lost once it was reviewed.
THEOREM ReviewsStand == Spec => ReviewNotUndone
<1>1. Init => FreshInv
    BY DEF Init, FreshInv, IsNew
<1>2. TypeInv /\ FreshInv /\ [Next]_vars
          => [crashes' = crashes =>
                 \A a \in DOMAIN alerts : alerts[a] # Pending =>
                     a \in DOMAIN alerts' /\ alerts'[a] # Pending]_vars
    BY AlertsKept DEF Keeps
<1> QED
    BY <1>1, <1>2, InitTypeInv, StepTypeInv, InitHistoryInv, StepHistoryInv,
       StepFreshInv, PTL DEF Spec, ReviewNotUndone

-----------------------------------------------------------------------------
(* What was answered is stored.                                            *)

\* The alerts as show the outcome of the request of thread t.
Done(t, as) ==
    /\ job[t].op # "no alert" => job[t].id \in DOMAIN as
    /\ job[t].op = "review" => as[job[t].id] # Pending

\* The alerts that thread t has copied so far, with the outcome of its own
\* request in them, are not ahead of those in memory.
Prepared(t) ==
    /\ pc[t] = "save" => Done(t, alerts)
    /\ pc[t] = "alerts" => Done(t, job[t].alerts) /\ Keeps(job[t].alerts, alerts)
    /\ pc[t] = "history" => Done(t, job[t].copy) /\ Keeps(job[t].copy, alerts)
    /\ pc[t] = "store" => /\ Done(t, job[t].document.alerts)
                          /\ Keeps(job[t].document.alerts, alerts)

\* Neither is the stored document, under any interleaving.
CopiesInv == Keeps(file.alerts, alerts) /\ \A t \in Thread : Prepared(t)

\* What the thread copied is not behind the stored document, which holds the
\* outcome of its request from the moment it is stored.
Current(t) ==
    /\ pc[t] = "alerts" => Keeps(file.alerts, job[t].alerts)
    /\ pc[t] = "history" => Keeps(file.alerts, job[t].copy)
    /\ pc[t] = "store" => Keeps(file.alerts, job[t].document.alerts)
    /\ pc[t] \in {"record", "answer"} => Done(t, file.alerts)

\* As long as no two requests overlapped.
AloneInv ==
    ~overlapped =>
        /\ \A t, u \in Thread : pc[t] # "idle" /\ pc[u] # "idle" => t = u
        /\ created \subseteq DOMAIN file.alerts
        /\ \A a \in reviewed : a \in DOMAIN file.alerts /\ file.alerts[a] # Pending
        /\ \A t \in Thread : Current(t)

\* Keeping is transitive, and keeps the outcome of a request.
LEMMA KeepsTransitive ==
    ASSUME NEW as, NEW bs, NEW cs, Keeps(as, bs), Keeps(bs, cs)
    PROVE  Keeps(as, cs)
BY DEF Keeps

\* A copy of alerts that the memory has kept is between the two.
LEMMA SeenKeeps ==
    ASSUME NEW f, NEW now, NEW g \in Seen(f, now), Keeps(f, now)
    PROVE  Keeps(f, g) /\ Keeps(g, now)
BY SeenEffect DEF Keeps

\* Every step keeps the copies and the stored document behind the memory.
LEMMA StepCopiesInv ==
    TypeInv /\ FreshInv /\ CopiesInv /\ [Next]_vars => CopiesInv'
<1> SUFFICES ASSUME TypeInv, FreshInv, CopiesInv, [Next]_vars PROVE CopiesInv'
    OBVIOUS
<1>types. /\ pc \in [Thread -> {"idle", "append", "alert", "review", "save", "alerts",
                                "history", "store", "record", "answer"}]
          /\ DOMAIN job = Thread
          /\ \A t \in Thread : Locals(t)
          /\ crashes \in Nat
    BY BoundsAreNat DEF TypeInv, TypeOK
<1>inv. Keeps(file.alerts, alerts) /\ \A t \in Thread : Prepared(t)
    BY DEF CopiesInv
<1>others. ASSUME NEW t \in Thread, Others(t), crashes' = crashes
           PROVE  /\ Keeps(alerts, alerts')
                  /\ Keeps(file.alerts, alerts')
                  /\ \A u \in Thread \ {t} : Prepared(u)'
    <2>1. Keeps(alerts, alerts')
        BY <1>others, AlertsKept
    <2>2. ASSUME NEW u \in Thread \ {t} PROVE Prepared(u)'
        <3>1. pc'[u] = pc[u] /\ job'[u] = job[u] /\ Prepared(u)
            BY <1>others, <1>inv DEF Others
        <3>2. Done(u, alerts) => Done(u, alerts)'
            BY <2>1, <3>1 DEF Done, Keeps
        <3>3. \A as : Keeps(as, alerts) => Keeps(as, alerts')
            BY <2>1, KeepsTransitive
        <3>4. \A as : Done(u, as) => Done(u, as)'
            BY <3>1 DEF Done
        <3> QED  BY <3>1, <3>2, <3>3, <3>4 DEF Prepared
    <2> QED  BY <2>1, <2>2, <1>inv, KeepsTransitive
<1>1. ASSUME NEW t \in Thread, NEW s \in Symbol, ReceiveEvent(t, s) PROVE CopiesInv'
    <2>1. /\ pc' = [pc EXCEPT ![t] = "append"]
          /\ job' = [job EXCEPT ![t] = [op |-> "analyze", id |-> Len(symbolOf) + 1]]
          /\ file' = file /\ crashes' = crashes
        BY <1>1 DEF ReceiveEvent, Go, bounds
    <2>2. Others(t) /\ Prepared(t)'
        BY <2>1, <1>types DEF Others, Prepared
    <2> QED  BY <2>1, <2>2, <1>others DEF CopiesInv
<1>2. ASSUME NEW t \in Thread, AppendHistory(t) PROVE CopiesInv'
    <2>1. file' = file /\ crashes' = crashes
        BY <1>2 DEF AppendHistory, bounds
    <2>2. Others(t) /\ Prepared(t)'
        <3>1. CASE pc' = [pc EXCEPT ![t] = "answer"] /\ job' = [job EXCEPT ![t].op = "no alert"]
            BY <3>1, <1>types DEF Others, Prepared
        <3>2. CASE pc' = [pc EXCEPT ![t] = "alert"] /\ job' = job
            BY <3>2, <1>types DEF Others, Prepared
        <3> QED  BY <1>2, <3>1, <3>2 DEF AppendHistory, Go
    <2> QED  BY <2>1, <2>2, <1>others DEF CopiesInv
<1>3. ASSUME NEW t \in Thread, SetAlert(t) \/ SetReview(t) PROVE CopiesInv'
    <2>1. /\ pc' = [pc EXCEPT ![t] = "save"]
          /\ UNCHANGED <<file, job>> /\ crashes' = crashes
        BY <1>3 DEF SetAlert, SetReview, Go, bounds
    <2>2. Others(t) /\ pc'[t] = "save"
        BY <2>1, <1>types DEF Others
    <2>3. Done(t, alerts')
        <3>1. CASE SetAlert(t)
            <4>1. alerts' = Put(alerts, job[t].id, Pending) /\ job[t].op = "analyze"
                BY <3>1, <1>types DEF SetAlert, Go, Locals
            <4> QED  BY <4>1 DEF Put, Done
        <3>2. CASE SetReview(t)
            <4>1. /\ alerts' = Put(alerts, job[t].id, job[t].verdict)
                  /\ job[t].verdict \in Verdict
                BY <3>2, <1>types DEF SetReview, Go, Locals
            <4>2. job[t].verdict # Pending
                BY <4>1, ParametersAssumption
            <4> QED  BY <4>1, <4>2 DEF Put, Done
        <3> QED  BY <1>3, <3>1, <3>2
    <2>4. Prepared(t)'
        BY <2>1, <2>2, <2>3 DEF Prepared, Done
    <2> QED  BY <2>1, <2>2, <2>4, <1>others DEF CopiesInv
<1>4. ASSUME NEW t \in Thread, BeginCopy(t) PROVE CopiesInv'
    <2>1. /\ pc' = [pc EXCEPT ![t] = "alerts"] /\ pc[t] = "save"
          /\ job' = [job EXCEPT ![t] = [op |-> @.op, id |-> @.id, alerts |-> alerts]]
          /\ UNCHANGED <<alerts, file>> /\ crashes' = crashes
        BY <1>4 DEF BeginCopy, Go, memory, bounds
    <2>2. /\ Others(t) /\ pc'[t] = "alerts"
          /\ job'[t] = [op |-> job[t].op, id |-> job[t].id, alerts |-> alerts]
        BY <2>1, <1>types DEF Others
    <2>3. Done(t, alerts) /\ Keeps(alerts, alerts)
        BY <2>1, <1>inv DEF Prepared, Keeps
    <2>4. Done(t, job[t].alerts)' /\ Keeps(job[t].alerts, alerts)'
        <3>1. job'[t].op = job[t].op /\ job'[t].id = job[t].id /\ job'[t].alerts = alerts
            BY <2>2
        <3> QED  BY <2>1, <2>3, <3>1 DEF Done, Keeps
    <2>5. Prepared(t)'
        BY <2>2, <2>4 DEF Prepared
    <2> QED  BY <2>1, <2>2, <2>5, <1>others DEF CopiesInv
<1>5. ASSUME NEW t \in Thread, CopyAlerts(t) PROVE CopiesInv'
    <2>1. PICK copy \in Seen(job[t].alerts, alerts) :
              job' = [job EXCEPT ![t] = [op |-> @.op, id |-> @.id, copy |-> copy,
                                         history |-> history]]
        BY <1>5 DEF CopyAlerts
    <2>2. /\ pc' = [pc EXCEPT ![t] = "history"] /\ pc[t] = "alerts"
          /\ UNCHANGED <<alerts, file>> /\ crashes' = crashes
        BY <1>5 DEF CopyAlerts, Go, memory, bounds
    <2>3. /\ Others(t) /\ pc'[t] = "history"
          /\ job'[t] = [op |-> job[t].op, id |-> job[t].id, copy |-> copy,
                        history |-> history]
        BY <2>1, <2>2, <1>types DEF Others
    <2>4. Keeps(job[t].alerts, copy) /\ Keeps(copy, alerts) /\ Done(t, copy)
        <3>1. Done(t, job[t].alerts) /\ Keeps(job[t].alerts, alerts)
            BY <2>2, <1>inv DEF Prepared
        <3>2. Keeps(job[t].alerts, copy) /\ Keeps(copy, alerts)
            BY <3>1, SeenKeeps
        <3> QED  BY <3>1, <3>2 DEF Done, Keeps
    <2>5. Done(t, job[t].copy)' /\ Keeps(job[t].copy, alerts)'
        <3>1. job'[t].op = job[t].op /\ job'[t].id = job[t].id /\ job'[t].copy = copy
            BY <2>3
        <3> QED  BY <2>2, <2>4, <3>1 DEF Done, Keeps
    <2>6. Prepared(t)'
        BY <2>3, <2>5 DEF Prepared
    <2> QED  BY <2>2, <2>3, <2>6, <1>others DEF CopiesInv
<1>6. ASSUME NEW t \in Thread, CopyHistory(t) PROVE CopiesInv'
    <2>1. PICK copy \in Seen(job[t].history, history) :
              job' = [job EXCEPT ![t] = [op |-> @.op, id |-> @.id,
                          document |-> [alerts |-> job[t].copy, history |-> copy]]]
        BY <1>6 DEF CopyHistory
    <2>2. /\ pc' = [pc EXCEPT ![t] = "store"] /\ pc[t] = "history"
          /\ UNCHANGED <<alerts, file>> /\ crashes' = crashes
        BY <1>6 DEF CopyHistory, Go, memory, bounds
    <2>3. /\ Others(t) /\ pc'[t] = "store"
          /\ job'[t] = [op |-> job[t].op, id |-> job[t].id,
                        document |-> [alerts |-> job[t].copy, history |-> copy]]
        BY <2>1, <2>2, <1>types DEF Others
    <2>4. Done(t, job[t].copy) /\ Keeps(job[t].copy, alerts)
        BY <2>2, <1>inv DEF Prepared
    <2>5. Done(t, job[t].document.alerts)' /\ Keeps(job[t].document.alerts, alerts)'
        <3>1. /\ job'[t].op = job[t].op /\ job'[t].id = job[t].id
              /\ job'[t].document.alerts = job[t].copy
            BY <2>3
        <3> QED  BY <2>2, <2>4, <3>1 DEF Done, Keeps
    <2>6. Prepared(t)'
        BY <2>3, <2>5 DEF Prepared
    <2> QED  BY <2>2, <2>3, <2>6, <1>others DEF CopiesInv
<1>7. ASSUME NEW t \in Thread,
             CopyRaises(t) \/ Record(t) \/ Answer(t)
             \/ \E a \in Id, v \in Verdict : ReceiveReview(t, a, v)
      PROVE  CopiesInv'
    <2>1. /\ \E to \in {"idle", "answer", "review"} : pc' = [pc EXCEPT ![t] = to]
          /\ \A u \in Thread \ {t} : job'[u] = job[u]
          /\ file' = file /\ crashes' = crashes
        BY <1>7, <1>types
        DEF CopyRaises, Record, Answer, ReceiveReview, Go, Abort, bounds
    <2>2. Others(t) /\ Prepared(t)'
        BY <2>1, <1>types DEF Others, Prepared
    <2> QED  BY <2>1, <2>2, <1>others DEF CopiesInv
<1>8. ASSUME NEW t \in Thread, Store(t) \/ StoreFails(t) PROVE CopiesInv'
    <2>1. /\ pc' \in {[pc EXCEPT ![t] = "record"], [pc EXCEPT ![t] = "idle"]}
          /\ job' \in {job, [job EXCEPT ![t] = NoJob]}
          /\ pc[t] = "store" /\ file' \in {file, job[t].document}
          /\ alerts' = alerts /\ crashes' = crashes
        BY <1>8 DEF Store, StoreFails, Go, Abort, memory, bounds
    <2>2. Others(t) /\ Prepared(t)'
        BY <2>1, <1>types DEF Others, Prepared
    <2>3. Keeps(job[t].document.alerts, alerts)
        BY <2>1, <1>inv DEF Prepared
    <2>4. Keeps(file'.alerts, alerts')
        BY <2>1, <2>3, <1>inv
    <2> QED  BY <2>1, <2>2, <2>4, <1>others DEF CopiesInv
<1>9. CASE Restart
    BY <1>9 DEF Restart, CopiesInv, Prepared, Keeps
<1>10. CASE UNCHANGED vars
    BY <1>10, <1>inv DEF vars, memory, CopiesInv, Prepared, Keeps, Done
<1> QED
    BY <1>1, <1>2, <1>3, <1>4, <1>5, <1>6, <1>7, <1>8, <1>9, <1>10 DEF Next, Step

\* Every step keeps what was answered stored, as long as no requests overlap.
LEMMA StepAloneInv == TypeInv /\ CopiesInv /\ AloneInv /\ [Next]_vars => AloneInv'
<1> SUFFICES ASSUME TypeInv, CopiesInv, AloneInv, [Next]_vars PROVE AloneInv'
    OBVIOUS
<1>types. /\ pc \in [Thread -> {"idle", "append", "alert", "review", "save", "alerts",
                                "history", "store", "record", "answer"}]
          /\ DOMAIN job = Thread
          /\ \A t \in Thread : Locals(t)
    BY DEF TypeInv, TypeOK
<1>inv. Keeps(file.alerts, alerts) /\ \A t \in Thread : Prepared(t)
    BY DEF CopiesInv
\* What a step of the only busy thread has to show.
<1>step. ASSUME NEW t \in Thread, Others(t), overlapped' = overlapped,
                pc[t] # "idle",
                ~overlapped =>
                    /\ Current(t)'
                    /\ created' \subseteq DOMAIN file'.alerts
                    /\ \A a \in reviewed' : /\ a \in DOMAIN file'.alerts
                                            /\ file'.alerts[a] # Pending
         PROVE  AloneInv'
    <2> SUFFICES ASSUME ~overlapped
                 PROVE  /\ \A u, w \in Thread : pc'[u] # "idle" /\ pc'[w] # "idle" => u = w
                        /\ \A u \in Thread : Current(u)'
        BY <1>step DEF AloneInv
    <2>1. \A u \in Thread \ {t} : pc'[u] = "idle"
        BY <1>step DEF AloneInv, Others
    <2>2. \A u \in Thread \ {t} : Current(u)'
        BY <2>1 DEF Current
    <2> QED  BY <1>step, <2>1, <2>2
\* What holds of the answers before the step.
<1>kept. ASSUME ~overlapped
         PROVE  /\ created \subseteq DOMAIN file.alerts
                /\ \A a \in reviewed : a \in DOMAIN file.alerts /\ file.alerts[a] # Pending
                /\ \A t \in Thread : Current(t)
    BY <1>kept DEF AloneInv
<1>1. ASSUME NEW t \in Thread,
             \/ \E s \in Symbol : ReceiveEvent(t, s)
             \/ \E a \in Id, v \in Verdict : ReceiveReview(t, a, v)
      PROVE  AloneInv'
    <2>1. /\ overlapped' = (overlapped \/ \E u \in Thread \ {t} : pc[u] # "idle")
          /\ \A u \in Thread \ {t} : pc'[u] = pc[u]
          /\ pc'[t] \in {"append", "review"}
          /\ UNCHANGED <<file, created, reviewed>>
        BY <1>1, <1>types DEF ReceiveEvent, ReceiveReview, Go, Overlaps
    <2> SUFFICES ASSUME ~overlapped' PROVE AloneInv'
        BY DEF AloneInv
    <2>2. ~overlapped /\ \A u \in Thread \ {t} : pc'[u] = "idle"
        BY <2>1
    <2>3. \A u \in Thread : Current(u)'
        BY <2>1, <2>2 DEF Current
    <2> QED  BY <2>1, <2>2, <2>3, <1>kept DEF AloneInv
<1>2. ASSUME NEW t \in Thread, AppendHistory(t) PROVE AloneInv'
    <2>1. /\ pc[t] = "append" /\ overlapped' = overlapped
          /\ UNCHANGED <<file, created, reviewed>>
          /\ job[t] \in [op : {"analyze"}, id : Id]
        BY <1>2, <1>types DEF AppendHistory, Go, Locals, ghosts
    <2>2. Others(t) /\ Current(t)'
        <3>1. CASE pc' = [pc EXCEPT ![t] = "answer"] /\ job' = [job EXCEPT ![t].op = "no alert"]
            <4>1. job'[t] = [job[t] EXCEPT !.op = "no alert"] /\ pc'[t] = "answer"
                BY <3>1, <1>types
            <4>2. job'[t].op = "no alert"
                BY <4>1, <2>1
            <4>3. Others(t)
                BY <3>1, <1>types DEF Others
            <4> QED  BY <4>1, <4>2, <4>3 DEF Current, Done
        <3>2. CASE pc' = [pc EXCEPT ![t] = "alert"] /\ job' = job
            BY <3>2, <1>types DEF Others, Current
        <3> QED  BY <1>2, <3>1, <3>2 DEF AppendHistory, Go
    <2> QED  BY <2>1, <2>2, <1>step, <1>kept
<1>3. ASSUME NEW t \in Thread, SetAlert(t) \/ SetReview(t) PROVE AloneInv'
    <2>1. /\ pc' = [pc EXCEPT ![t] = "save"] /\ pc[t] # "idle"
          /\ UNCHANGED <<file, job, created, reviewed, overlapped>>
        BY <1>3 DEF SetAlert, SetReview, Go, ghosts
    <2>2. Others(t) /\ Current(t)'
        BY <2>1, <1>types DEF Others, Current
    <2> QED  BY <2>1, <2>2, <1>step, <1>kept
<1>4. ASSUME NEW t \in Thread, BeginCopy(t) PROVE AloneInv'
    <2>1. /\ pc' = [pc EXCEPT ![t] = "alerts"] /\ pc[t] = "save"
          /\ job' = [job EXCEPT ![t] = [op |-> @.op, id |-> @.id, alerts |-> alerts]]
          /\ UNCHANGED <<file, created, reviewed, overlapped>>
        BY <1>4 DEF BeginCopy, Go, ghosts
    <2>2. Others(t) /\ pc'[t] = "alerts" /\ job'[t].alerts = alerts
        BY <2>1, <1>types DEF Others
    <2>3. Current(t)'
        BY <2>1, <2>2, <1>inv DEF Current
    <2> QED  BY <2>1, <2>2, <2>3, <1>step, <1>kept
<1>5. ASSUME NEW t \in Thread, CopyAlerts(t) PROVE AloneInv'
    <2>1. PICK copy \in Seen(job[t].alerts, alerts) :
              job' = [job EXCEPT ![t] = [op |-> @.op, id |-> @.id, copy |-> copy,
                                         history |-> history]]
        BY <1>5 DEF CopyAlerts
    <2>2. /\ pc' = [pc EXCEPT ![t] = "history"] /\ pc[t] = "alerts"
          /\ UNCHANGED <<file, created, reviewed, overlapped>>
        BY <1>5 DEF CopyAlerts, Go, ghosts
    <2>3. Others(t) /\ pc'[t] = "history" /\ job'[t].copy = copy
        BY <2>1, <2>2, <1>types DEF Others
    <2>4. Keeps(job[t].alerts, copy)
        BY <2>2, <1>inv, SeenKeeps DEF Prepared
    <2>5. ~overlapped => Current(t)'
        <3>1. ~overlapped => Keeps(file.alerts, job[t].alerts)
            BY <2>2, <1>kept DEF Current
        <3>2. ~overlapped => Keeps(file.alerts, copy)
            BY <2>4, <3>1, KeepsTransitive
        <3> QED  BY <2>2, <2>3, <3>2 DEF Current
    <2> QED  BY <2>2, <2>3, <2>5, <1>step, <1>kept
<1>6. ASSUME NEW t \in Thread, CopyHistory(t) PROVE AloneInv'
    <2>1. PICK copy \in Seen(job[t].history, history) :
              job' = [job EXCEPT ![t] = [op |-> @.op, id |-> @.id,
                          document |-> [alerts |-> job[t].copy, history |-> copy]]]
        BY <1>6 DEF CopyHistory
    <2>2. /\ pc' = [pc EXCEPT ![t] = "store"] /\ pc[t] = "history"
          /\ UNCHANGED <<file, created, reviewed, overlapped>>
        BY <1>6 DEF CopyHistory, Go, ghosts
    <2>3. Others(t) /\ pc'[t] = "store" /\ job'[t].document.alerts = job[t].copy
        BY <2>1, <2>2, <1>types DEF Others
    <2>4. ~overlapped => Current(t)'
        BY <2>2, <2>3, <1>kept DEF Current
    <2> QED  BY <2>2, <2>3, <2>4, <1>step, <1>kept
<1>7. ASSUME NEW t \in Thread, CopyRaises(t) PROVE AloneInv'
    <2>1. /\ pc' = [pc EXCEPT ![t] = "idle"] /\ pc[t] # "idle"
          /\ job' = [job EXCEPT ![t] = NoJob]
          /\ UNCHANGED <<file, created, reviewed, overlapped>>
        BY <1>7 DEF CopyRaises, Go, Abort, ghosts
    <2>2. Others(t) /\ Current(t)'
        BY <2>1, <1>types DEF Others, Current
    <2> QED  BY <2>1, <2>2, <1>step, <1>kept
<1>8. ASSUME NEW t \in Thread, Store(t) \/ StoreFails(t) PROVE AloneInv'
    <2>1. /\ pc[t] = "store" /\ file' \in {file, job[t].document}
          /\ UNCHANGED <<created, reviewed, overlapped>>
        BY <1>8 DEF Store, StoreFails, Go, Abort, ghosts
    <2>2. ~overlapped => Keeps(file.alerts, file'.alerts)
        BY <2>1, <1>kept DEF Current, Keeps
    <2>3. ~overlapped =>
              /\ created' \subseteq DOMAIN file'.alerts
              /\ \A a \in reviewed' : /\ a \in DOMAIN file'.alerts
                                      /\ file'.alerts[a] # Pending
        BY <2>1, <2>2, <1>kept DEF Keeps
    <2>4. CASE Store(t)
        <3>1. /\ pc' = [pc EXCEPT ![t] = "record"] /\ job' = job
              /\ file' = job[t].document
            BY <2>4 DEF Store, Go
        <3>2. Done(t, job[t].document.alerts)
            BY <2>1, <1>inv DEF Prepared
        <3>3. Others(t) /\ Current(t)'
            BY <3>1, <3>2, <1>types DEF Others, Current, Done
        <3> QED  BY <2>1, <2>3, <3>3, <1>step
    <2>5. CASE StoreFails(t)
        <3>1. pc' = [pc EXCEPT ![t] = "idle"] /\ job' = [job EXCEPT ![t] = NoJob]
            BY <2>5 DEF StoreFails, Go, Abort
        <3>2. Others(t) /\ Current(t)'
            BY <3>1, <1>types DEF Others, Current
        <3> QED  BY <2>1, <2>3, <3>2, <1>step
    <2> QED  BY <1>8, <2>4, <2>5
<1>9. ASSUME NEW t \in Thread, Record(t) PROVE AloneInv'
    <2>1. /\ pc' = [pc EXCEPT ![t] = "answer"] /\ pc[t] = "record"
          /\ UNCHANGED <<file, job, created, reviewed, overlapped>>
        BY <1>9 DEF Record, Go, ghosts
    <2>2. Others(t) /\ pc'[t] = "answer"
        BY <2>1, <1>types DEF Others
    <2>3. ~overlapped => Current(t)'
        BY <2>1, <2>2, <1>kept DEF Current, Done
    <2> QED  BY <2>1, <2>2, <2>3, <1>step, <1>kept
<1>10. ASSUME NEW t \in Thread, Answer(t) PROVE AloneInv'
    <2>1. /\ pc' = [pc EXCEPT ![t] = "idle"] /\ pc[t] = "answer"
          /\ job' = [job EXCEPT ![t] = NoJob]
          /\ UNCHANGED <<file, overlapped>>
          /\ created' = created \cup IF job[t].op = "analyze" THEN {job[t].id} ELSE {}
          /\ reviewed' = reviewed \cup IF job[t].op = "review" THEN {job[t].id} ELSE {}
        BY <1>10 DEF Answer, Go
    <2>2. Others(t) /\ Current(t)'
        BY <2>1, <1>types DEF Others, Current
    <2>3. ~overlapped => Done(t, file.alerts)
        BY <2>1, <1>kept DEF Current
    <2>4. ~overlapped =>
              /\ created' \subseteq DOMAIN file'.alerts
              /\ \A a \in reviewed' : /\ a \in DOMAIN file'.alerts
                                      /\ file'.alerts[a] # Pending
        BY <2>1, <2>3, <1>kept DEF Done
    <2> QED  BY <2>1, <2>2, <2>4, <1>step
<1>11. CASE Restart
    BY <1>11, <1>kept DEF Restart, ghosts, AloneInv, Current
<1>12. CASE UNCHANGED vars
    BY <1>12 DEF vars, ghosts, AloneInv, Current, Done
<1> QED
    BY <1>1, <1>2, <1>3, <1>4, <1>5, <1>6, <1>7, <1>8, <1>9, <1>10, <1>11, <1>12
    DEF Next, Step

\* As long as no two requests overlapped, an alert the caller was told of is
\* stored and a review it was told of is never stored as pending again, through
\* every failed save and every restart.
THEOREM AnswersAreStored == Spec => []AckedStored
<1>1. Init => FreshInv /\ CopiesInv /\ AloneInv
    BY DEF Init, Nothing, FreshInv, IsNew, CopiesInv, Prepared, Keeps, AloneInv, Current
<1>2. AloneInv => AckedStored
    BY DEF AloneInv, AckedStored
<1> QED
    BY <1>1, <1>2, InitTypeInv, StepTypeInv, InitHistoryInv, StepHistoryInv,
       StepFreshInv, StepCopiesInv, StepAloneInv, PTL DEF Spec

=============================================================================
