----------------------------- MODULE RiskProofs -----------------------------
(***************************************************************************)
(* Theorems about RiskService, for every set of threads and symbols and    *)
(* every value of the bounds; and, in the second half, about the metrics   *)
(* of RiskMath, for every price history and every portfolio of MCRiskMath. *)
(***************************************************************************)
EXTENDS RiskService, MCRiskMath,
        SequenceTheorems, FiniteSetTheorems, WellFoundedInduction, TLAPS

-----------------------------------------------------------------------------
(* Lemmas about the operators.                                             *)

\* The bounds, one by one.
LEMMA BoundsAreNat == MaxOps \in Nat /\ MaxSaveFailures \in Nat /\ MaxCrashes \in Nat
BY BoundsAssumption

\* The ids of a book are those in the sequences of its symbols.
LEMMA IdsInBook ==
    ASSUME NEW book \in Events, NEW x
    PROVE  x \in IdsIn(book) <=> \E s \in Symbol : x \in ToSet(book[s])
BY DEF IdsIn

\* A book has ids only.
LEMMA IdsInType ==
    ASSUME NEW book \in Events
    PROVE  IdsIn(book) \subseteq Id
<1>1. ASSUME NEW s \in Symbol PROVE ToSet(book[s]) \subseteq Id
    <2>1. book[s] \in Seq(Id)
        BY DEF Events
    <2> QED  BY <2>1, LenProperties, ElementOfSeq DEF ToSet
<1> QED  BY <1>1 DEF IdsIn

\* An appended item is one more element.
LEMMA ToSetAppend ==
    ASSUME NEW S, NEW q \in Seq(S), NEW x \in S
    PROVE  ToSet(Append(q, x)) = ToSet(q) \cup {x}
<1>1. /\ Append(q, x) \in Seq(S) /\ Len(Append(q, x)) = Len(q) + 1
      /\ \A i \in 1..Len(q) : Append(q, x)[i] = q[i]
      /\ Append(q, x)[Len(q) + 1] = x
    BY AppendProperties
<1>2. /\ DOMAIN q = 1..Len(q) /\ Len(q) \in Nat
      /\ DOMAIN Append(q, x) = 1..Len(q) + 1
    BY <1>1, LenProperties
<1> QED  BY <1>1, <1>2 DEF ToSet

\* AppendEvent adds the id of its event to the events of its symbol.
LEMMA AppendEventEffect ==
    ASSUME TypeOK, NEW t \in Thread, job[t].id \in Id, AppendEvent(t)
    PROVE  /\ events' \in Events
           /\ IdsIn(events') = IdsIn(events) \cup {job[t].id}
           /\ \A z \in Symbol : ToSet(events[z]) \subseteq ToSet(events'[z])
           /\ job[t].symbol \in Symbol /\ job[t].id \in ToSet(events'[job[t].symbol])
           /\ \A z \in Symbol : \A x \in ToSet(events'[z]) :
                  x \in ToSet(events[z]) \/ (z = job[t].symbol /\ x = job[t].id)
<1> DEFINE s == job[t].symbol
           x == job[t].id
<1>1. events \in Events /\ s \in Symbol /\ x \in Id
    BY DEF TypeOK, Job
<1>2. events' = [events EXCEPT ![s] = Append(@, x)]
    BY DEF AppendEvent
<1> HIDE DEF s, x
<1>3. events[s] \in Seq(Id)
    BY <1>1 DEF Events
<1>4. Append(events[s], x) \in Seq(Id)
    BY <1>1, <1>3, AppendProperties
<1>5. /\ events' \in Events
      /\ events'[s] = Append(events[s], x)
      /\ \A z \in Symbol \ {s} : events'[z] = events[z]
    BY <1>1, <1>2, <1>4 DEF Events
<1>6. ToSet(events'[s]) = ToSet(events[s]) \cup {x}
    BY <1>1, <1>3, <1>5, ToSetAppend
<1>7. /\ IdsIn(events') = IdsIn(events) \cup {x}
      /\ \A z \in Symbol : ToSet(events[z]) \subseteq ToSet(events'[z])
    <2>1. \A y : y \in IdsIn(events') <=> \E z \in Symbol : y \in ToSet(events'[z])
        BY <1>5, IdsInBook
    <2>2. \A y : y \in IdsIn(events) <=> \E z \in Symbol : y \in ToSet(events[z])
        BY <1>1, IdsInBook
    <2>3. \A y : \A z \in Symbol :
              y \in ToSet(events'[z]) <=> y \in ToSet(events[z]) \/ (z = s /\ y = x)
        BY <1>5, <1>6
    <2>4. \A y : y \in IdsIn(events') <=> y \in IdsIn(events) \/ y = x
        BY <1>1, <2>1, <2>2, <2>3
    <2> QED  BY <2>3, <2>4
<1>8. x \in ToSet(events'[s])
    BY <1>6
<1>9. ASSUME NEW z \in Symbol, NEW y \in ToSet(events'[z])
      PROVE  y \in ToSet(events[z]) \/ (z = s /\ y = x)
    BY <1>5, <1>6, <1>9
<1> QED  BY <1>1, <1>5, <1>7, <1>8, <1>9 DEF x, s

\* The state of the program before its first request.
LEMMA EmptyType ==
    /\ Empty \in State /\ NoJob \in Job /\ IdsIn(NoEvents) = {}
    /\ NoPortfolio \notin Portfolio /\ NoPortfolio.id = 0
<1>1. <<>> \in Seq(Id) /\ <<>> \in Seq(Snapshot)
    BY EmptySeq
<1>2. Empty \in State /\ NoEvents \in Events
    BY <1>1 DEF Empty, NoEvents, State, Events
<1>3. (CHOOSE s \in Symbol : TRUE) \in Symbol
    BY SymbolAssumption
<1>4. NoJob \in Job
    BY <1>2, <1>3 DEF NoJob, Job
<1>5. IdsIn(NoEvents) = {}
    BY DEF IdsIn, NoEvents, ToSet
<1>6. NoPortfolio.id = 0 /\ \A p \in Portfolio : p.id \in Id
    BY DEF NoPortfolio, Portfolio, None
<1>7. 0 \notin Id
    BY BoundsAreNat DEF Id
<1>8. NoPortfolio \notin Portfolio
    BY <1>6, <1>7
<1> QED  BY <1>2, <1>4, <1>5, <1>6, <1>8

\* What a request may bring: a new portfolio, or none.
LEMMA PostedFacts ==
    ASSUME ops + 1 \in Id, NEW given \in Posted \cup {NoPortfolio}
    PROVE  given \in Portfolio \cup {NoPortfolio} /\ given.id \in {0, ops + 1}
<1>1. CASE given = NoPortfolio
    BY <1>1, EmptyType
<1>2. CASE given \in Posted
    <2>1. PICK held \in Holdings : given = [id |-> ops + 1, positions |-> held]
        BY <1>2 DEF Posted
    <2>2. held \in SUBSET Symbol
        BY HoldingsAssumption
    <2> QED  BY <2>1, <2>2 DEF Portfolio
<1> QED  BY <1>1, <1>2

\* The other threads are not affected by a step of t.
Others(t) == \A u \in Thread \ {t} : pc'[u] = pc[u] /\ job'[u] = job[u]

\* Everything about the request of t stays but what a loop uses.
SameRequest(t) ==
    /\ job'[t].id = job[t].id /\ job'[t].op = job[t].op
    /\ job'[t].symbol = job[t].symbol

-----------------------------------------------------------------------------
(* What the actions do to the local variables of a thread.                 *)

\* A new request gets the next number.
LEMMA ReceiveEffect ==
    ASSUME TypeOK, NEW t \in Thread, NEW op \in {"event", "portfolio", "compute"},
           NEW s \in Symbol, NEW given \in Posted \cup {NoPortfolio}, NEW to,
           Receive(t, op, s, given, to)
    PROVE  /\ ops + 1 \in Id /\ ops' = ops + 1
           /\ pc[t] = "idle" /\ pc'[t] = to /\ Others(t)
           /\ job' \in [Thread -> Job]
           /\ job'[t].id = ops + 1 /\ job'[t].op = op /\ ~job'[t].priced
           /\ job'[t].portfolio = given
<1>1. ops + 1 \in Id
    BY BoundsAreNat DEF Receive, TypeOK, Id
<1>2. job' = [job EXCEPT ![t] = [NoJob EXCEPT !.id = ops + 1, !.op = op,
                                               !.symbol = s, !.portfolio = given]]
    BY DEF Receive
<1>3. NoJob \in Job /\ job \in [Thread -> Job] /\ ops + 1 \in Id
    BY <1>1, EmptyType DEF TypeOK
<1> DEFINE new == [NoJob EXCEPT !.id = ops + 1, !.op = op, !.symbol = s,
                                !.portfolio = given]
<1>4. new \in Job
    <2>1. given \in Portfolio \cup {NoPortfolio}
        BY <1>1, PostedFacts
    <2> QED  BY <1>3, <2>1 DEF Job
<1>5. new.id = ops + 1 /\ new.op = op /\ ~new.priced /\ new.portfolio = given
    BY DEF NoJob
<1>6. job' = [job EXCEPT ![t] = new]
    BY <1>2
<1> HIDE DEF new
<1>7. job' \in [Thread -> Job]
    BY <1>3, <1>4, <1>6
<1>8. job'[t].id = ops + 1 /\ job'[t].op = op /\ ~job'[t].priced /\ job'[t].portfolio = given
    BY <1>3, <1>5, <1>6
<1>9. pc[t] = "idle" /\ pc'[t] = to /\ Others(t)
    BY <1>3, <1>6 DEF Receive, Go, TypeOK, Others
<1> QED  BY <1>1, <1>7, <1>8, <1>9 DEF Receive

\* A loop starts over the given symbols with an empty copy.
LEMMA LoopEffect ==
    ASSUME TypeOK, NEW t \in Thread, NEW over \in SUBSET Symbol, NEW to,
           Loop(t, to, over)
    PROVE  /\ pc'[t] = to /\ Others(t) /\ SameRequest(t)
           /\ job' \in [Thread -> Job]
           /\ job'[t].rest = over /\ job'[t].copy = Empty
           /\ job'[t].priced = job[t].priced /\ job'[t].portfolio = job[t].portfolio
<1>1. Cardinality(over) \in Nat
    BY SymbolAssumption, FS_Subset, FS_CardinalityType
<1>2. job \in [Thread -> Job] /\ job[t] \in Job
    BY DEF TypeOK
<1>3. Empty \in State
    BY EmptyType
<1> DEFINE card == Cardinality(over)
<1>4. job' = [job EXCEPT ![t].rest = over, ![t].size = card, ![t].copy = Empty]
    BY DEF Loop
<1> HIDE DEF card
<1>5. job' \in [Thread -> Job]
    BY <1>1, <1>2, <1>3, <1>4 DEF Job, card
<1>6. /\ SameRequest(t)
      /\ job'[t].rest = over /\ job'[t].copy = Empty
      /\ job'[t].priced = job[t].priced /\ job'[t].portfolio = job[t].portfolio
    BY <1>2, <1>4 DEF Job, SameRequest
<1>7. Others(t) /\ pc'[t] = to
    BY <1>2, <1>4 DEF Loop, Go, TypeOK, Others
<1> QED  BY <1>5, <1>6, <1>7

\* A loop takes one of the symbols that are left.
LEMMA TakeEffect ==
    ASSUME TypeOK, NEW t \in Thread, NEW at, TakeSymbol(t, at)
    PROVE  \E s \in job[t].rest :
               /\ pc' = pc /\ Others(t) /\ SameRequest(t)
               /\ job' \in [Thread -> Job]
               /\ job'[t].priced = job[t].priced
               /\ job'[t].portfolio = job[t].portfolio
               /\ job'[t].rest = job[t].rest \ {s}
               /\ job'[t].copy.portfolio = job[t].copy.portfolio
               /\ job'[t].copy.snapshots = job[t].copy.snapshots
               /\ \A z \in Symbol : job'[t].copy.events[z]
                                        = IF z = s THEN events[z] ELSE job[t].copy.events[z]
<1>1. PICK s \in job[t].rest :
          job' = [job EXCEPT ![t].rest = @ \ {s}, ![t].copy.events[s] = events[s]]
    BY DEF TakeSymbol
<1>2. /\ job \in [Thread -> Job] /\ job[t] \in Job /\ job[t].copy \in State
      /\ job[t].copy.events \in Events /\ events \in Events /\ s \in Symbol
    BY DEF TypeOK, Job, State
<1> DEFINE book == [job[t].copy.events EXCEPT ![s] = events[s]]
           copy == [job[t].copy EXCEPT !.events = book]
           left == job[t].rest \ {s}
<1>3. job' = [job EXCEPT ![t].rest = left, ![t].copy = copy]
    BY <1>1, <1>2 DEF Job, State
<1>4. book \in Events
    BY <1>2 DEF Events
<1>5. \A z \in Symbol : book[z] = IF z = s THEN events[z] ELSE job[t].copy.events[z]
    BY <1>2 DEF Events
<1> HIDE DEF book
<1>6. /\ copy \in State /\ copy.events = book
      /\ copy.portfolio = job[t].copy.portfolio
      /\ copy.snapshots = job[t].copy.snapshots
    BY <1>2, <1>4 DEF State
<1>7. left \in SUBSET Symbol
    BY <1>2 DEF Job
<1> HIDE DEF copy, left
<1>8. job' \in [Thread -> Job]
    BY <1>2, <1>3, <1>6, <1>7 DEF Job
<1>9. /\ SameRequest(t) /\ job'[t].priced = job[t].priced
      /\ job'[t].portfolio = job[t].portfolio
      /\ job'[t].rest = left /\ job'[t].copy = copy
    BY <1>2, <1>3 DEF Job, SameRequest
<1>10. pc' = pc /\ Others(t)
    BY <1>2, <1>3 DEF TakeSymbol, Others
<1> QED  BY <1>5, <1>6, <1>8, <1>9, <1>10 DEF left

\* The rest of the copy: the portfolio and the snapshots.
LEMMA RestEffect ==
    ASSUME TypeOK, NEW t \in Thread, CopyRest(t)
    PROVE  /\ pc[t] = "copy" /\ pc'[t] = "replace" /\ Others(t) /\ SameRequest(t)
           /\ job' \in [Thread -> Job]
           /\ job'[t].priced = job[t].priced /\ job'[t].rest = job[t].rest
           /\ job'[t].portfolio = job[t].portfolio /\ job[t].rest = {}
           /\ job'[t].copy.events = job[t].copy.events
           /\ job'[t].copy.portfolio = portfolio
           /\ job'[t].copy.snapshots = snapshots
<1>1. job' = [job EXCEPT ![t].copy.portfolio = portfolio, ![t].copy.snapshots = snapshots]
    BY DEF CopyRest
<1>2. /\ job \in [Thread -> Job] /\ job[t] \in Job /\ job[t].copy \in State
      /\ portfolio \in Portfolio \cup {NoPortfolio} /\ snapshots \in Seq(Snapshot)
      /\ job[t].copy.events \in Events
    BY DEF TypeOK, Job, State
<1> DEFINE copy == [job[t].copy EXCEPT !.portfolio = portfolio, !.snapshots = snapshots]
<1>3. job' = [job EXCEPT ![t].copy = copy]
    BY <1>1, <1>2 DEF Job
<1>4. copy \in State
    BY <1>2 DEF State
<1>5. /\ copy.events = job[t].copy.events /\ copy.portfolio = portfolio
      /\ copy.snapshots = snapshots
    BY <1>2 DEF State
<1> HIDE DEF copy
<1>6. job' \in [Thread -> Job]
    BY <1>2, <1>3, <1>4 DEF Job
<1>7. /\ SameRequest(t) /\ job'[t].priced = job[t].priced
      /\ job'[t].portfolio = job[t].portfolio
      /\ job'[t].rest = job[t].rest /\ job'[t].copy = copy
    BY <1>2, <1>3 DEF Job, SameRequest
<1>8. /\ pc[t] = "copy" /\ pc'[t] = "replace" /\ Others(t) /\ job[t].rest = {}
    BY <1>2, <1>3 DEF CopyRest, Go, Others, TypeOK
<1> QED  BY <1>5, <1>6, <1>7, <1>8

\* The computation settles on a portfolio and starts over its symbols.
LEMMA ChooseEffect ==
    ASSUME TypeOK, NEW t \in Thread, ChoosePortfolio(t)
    PROVE  /\ pc[t] = "price" /\ pc'[t] = "read" /\ Others(t) /\ SameRequest(t)
           /\ job' \in [Thread -> Job]
           /\ job'[t].priced /\ job'[t].rest = job'[t].portfolio.positions
           /\ job'[t].copy = Empty /\ job'[t].portfolio \in Portfolio
<1> DEFINE chosen == IF job[t].portfolio # NoPortfolio THEN job[t].portfolio ELSE portfolio
           held == chosen.positions
<1>1. /\ job' = [job EXCEPT ![t].portfolio = chosen, ![t].priced = TRUE,
                            ![t].rest = held, ![t].copy = Empty]
      /\ chosen # NoPortfolio
    BY DEF ChoosePortfolio
<1>2. /\ job \in [Thread -> Job] /\ job[t] \in Job /\ Empty \in State
      /\ portfolio \in Portfolio \cup {NoPortfolio}
      /\ job[t].portfolio \in Portfolio \cup {NoPortfolio}
    BY EmptyType DEF TypeOK, Job
<1>3. chosen \in Portfolio
    BY <1>1, <1>2
<1>4. held \in SUBSET Symbol
    BY <1>3 DEF Portfolio
<1>5. held = chosen.positions
    OBVIOUS
<1> HIDE DEF held
<1> HIDE DEF chosen
<1>6. job' \in [Thread -> Job]
    BY <1>1, <1>2, <1>3, <1>4 DEF Job
<1>7. /\ SameRequest(t) /\ job'[t].priced /\ job'[t].rest = held
      /\ job'[t].copy = Empty /\ job'[t].portfolio = chosen
    BY <1>1, <1>2 DEF Job, SameRequest
<1>8. pc[t] = "price" /\ pc'[t] = "read" /\ Others(t)
    BY <1>1, <1>2 DEF ChoosePortfolio, Go, Others, TypeOK
<1> QED  BY <1>3, <1>5, <1>6, <1>7, <1>8

\* The request ends: nothing is left of its local variables.
LEMMA EndEffect ==
    ASSUME TypeOK, NEW t \in Thread, job' = [job EXCEPT ![t] = NoJob],
           pc' = [pc EXCEPT ![t] = "idle"]
    PROVE  /\ pc'[t] = "idle" /\ job'[t] = NoJob /\ Others(t)
           /\ job' \in [Thread -> Job]
BY EmptyType DEF TypeOK, Others

\* A step that only moves t on.
LEMMA MoveEffect ==
    ASSUME TypeOK, NEW t \in Thread, NEW to, pc' = [pc EXCEPT ![t] = to], job' = job
    PROVE  pc'[t] = to /\ Others(t)
BY DEF TypeOK, Others

-----------------------------------------------------------------------------
(* Types.                                                                  *)

\* What a thread knows at each place of its request.
Locals(t) ==
    /\ pc[t] # "idle" => job[t].id \in 1..ops
    /\ pc[t] \notin {"idle", "append"} /\ job[t].op = "event"
           => job[t].id \in ToSet(events[job[t].symbol])
    /\ pc[t] = "append" => job[t].op = "event"
    /\ pc[t] = "assign" => job[t].op = "portfolio"
    /\ pc[t] \in {"price", "read", "record"} => job[t].op \in {"event", "compute"}
    /\ pc[t] \in {"append", "assign", "price"} => ~job[t].priced
    /\ pc[t] \in {"read", "record"} => job[t].priced /\ job[t].portfolio \in Portfolio
    /\ pc[t] = "read" => job[t].rest \subseteq job[t].portfolio.positions
    /\ pc[t] \notin {"idle", "append"} /\ job[t].op = "portfolio"
           => job[t].portfolio \in Portfolio /\ job[t].portfolio.id = job[t].id
    /\ pc[t] \in {"save", "copy", "replace", "answer"} =>
           /\ job[t].op # "none"
           /\ job[t].op = "compute" => job[t].priced

\* What thread t has to answer for: its event, and the symbols it computed with.
ClaimOf(t) == [id |-> job[t].id, symbol |-> job[t].symbol,
               held |-> job[t].portfolio.positions]

TypeInv == TypeOK /\ ops <= MaxOps /\ \A t \in Thread : Locals(t)

\* The parts of TypeInv that the proofs below need one by one.
LEMMA TypeFacts ==
    ASSUME TypeInv
    PROVE  /\ events \in Events /\ portfolio \in Portfolio \cup {NoPortfolio}
           /\ snapshots \in Seq(Snapshot) /\ file \in State
           /\ pc \in [Thread -> {"idle", "append", "assign", "save", "copy", "replace",
                                 "price", "read", "snapshot", "record", "answer"}]
           /\ job \in [Thread -> Job]
           /\ ops \in Nat /\ ops <= MaxOps /\ MaxOps \in Nat
           /\ \A t \in Thread : /\ Locals(t)
                                /\ job[t] \in Job
                                /\ pc[t] # "idle" => job[t].id \in Id
BY BoundsAreNat DEF TypeInv, TypeOK, Locals, Id

\* Every step keeps the types.
LEMMA StepTypeInv == TypeInv /\ [Next]_vars => TypeInv'
<1> SUFFICES ASSUME TypeInv, [Next]_vars PROVE TypeInv'
    OBVIOUS
<1>ok. TypeOK
    BY DEF TypeInv
<1>mem. /\ events \in Events /\ portfolio \in Portfolio \cup {NoPortfolio}
        /\ snapshots \in Seq(Snapshot) /\ file \in State
    BY TypeFacts
<1>loc. /\ pc \in [Thread -> {"idle", "append", "assign", "save", "copy", "replace",
                              "price", "read", "snapshot", "record", "answer"}]
        /\ job \in [Thread -> Job]
        /\ ops \in Nat /\ ops <= MaxOps
        /\ \A t \in Thread : Locals(t) /\ (pc[t] # "idle" => job[t].id \in Id)
    BY TypeFacts
<1>hist. /\ recorded \cup lost \subseteq Id /\ priced \subseteq Claim
         /\ acked \subseteq {"event", "portfolio", "compute"} \X Id
         /\ overlapped \in BOOLEAN
         /\ ops \in Nat /\ saveFailures \in Nat /\ crashes \in Nat
    BY DEF TypeInv, TypeOK
\* A step of t leaves what the other threads know true.
<1>others. ASSUME NEW t \in Thread, Others(t), ops <= ops', ops' \in Nat,
                  \A s \in Symbol : ToSet(events[s]) \subseteq ToSet(events'[s])
           PROVE  \A u \in Thread \ {t} : Locals(u)'
    <2> TAKE u \in Thread \ {t}
    <2>1. pc'[u] = pc[u] /\ job'[u] = job[u] /\ Locals(u)
        BY <1>others, <1>loc DEF Others
    <2>2. pc[u] # "idle" => job[u].id \in 1..ops'
        BY <2>1, <1>others, <1>loc DEF Locals
    <2>3. job[u].symbol \in Symbol
        BY <1>loc DEF Job
    <2> QED  BY <2>1, <2>2, <2>3, <1>others DEF Locals
<1>1. ASSUME NEW t \in Thread, Post(t) PROVE TypeInv'
    <2>1. PICK op \in {"event", "portfolio", "compute"}, s \in Symbol,
               given \in Posted \cup {NoPortfolio}, to \in {"append", "assign", "price"} :
              /\ Receive(t, op, s, given, to)
              /\ op = "portfolio" => given \in Posted
              /\ to = CASE op = "event" -> "append" [] op = "portfolio" -> "assign"
                        [] op = "compute" -> "price"
        <3>1. NoJob.symbol \in Symbol
            BY EmptyType DEF Job
        <3> QED  BY <1>1, <3>1 DEF Post, PostEvent, PostPortfolio, PostCompute
    <2>2. /\ ops + 1 \in Id /\ ops' = ops + 1
          /\ pc'[t] = to /\ Others(t)
          /\ job' \in [Thread -> Job]
          /\ job'[t].id = ops + 1 /\ job'[t].op = op /\ ~job'[t].priced
          /\ job'[t].portfolio = given
        BY <2>1, <1>ok, ReceiveEffect
    <2>3. /\ UNCHANGED <<memory, file, recorded, acked, priced, lost, saveFailures, crashes>>
          /\ overlapped' \in BOOLEAN /\ pc' = [pc EXCEPT ![t] = to]
        BY <2>1 DEF Receive, Go
    <2>4. Locals(t)'
        <3>1. op = "portfolio" => given \in Portfolio /\ given.id = ops + 1
            <4>1. ASSUME op = "portfolio" PROVE given \in Portfolio /\ given.id = ops + 1
                <5>1. PICK held \in Holdings : given = [id |-> ops + 1, positions |-> held]
                    BY <2>1, <4>1 DEF Posted
                <5>2. held \in SUBSET Symbol
                    BY HoldingsAssumption
                <5> QED  BY <2>2, <5>1, <5>2 DEF Portfolio
            <4> QED  BY <4>1
        <3>2. to \in {"append", "assign", "price"} /\ job'[t].id \in 1..ops'
            BY <2>1, <2>2, <1>loc
        <3> QED  BY <2>1, <2>2, <3>1, <3>2 DEF Locals
    <2>5. \A u \in Thread : Locals(u)'
        BY <2>2, <2>3, <2>4, <1>loc, <1>others DEF memory
    <2>6. ops' \in Nat /\ ops' <= MaxOps
        BY <2>2, BoundsAreNat DEF Id
    <2>7. pc' \in [Thread -> {"idle", "append", "assign", "save", "copy", "replace",
                              "price", "read", "snapshot", "record", "answer"}]
        BY <2>1, <2>3, <1>loc
    <2> QED  BY <2>2, <2>3, <2>5, <2>6, <2>7, <1>mem, <1>hist
             DEF TypeInv, TypeOK, memory
<1>2. ASSUME NEW t \in Thread, AppendEvent(t) PROVE TypeInv'
    <2>1. /\ pc' = [pc EXCEPT ![t] = "save"] /\ pc[t] = "append" /\ job' = job
          /\ UNCHANGED <<portfolio, snapshots, file, history, bounds>>
        BY <1>2 DEF AppendEvent, Go
    <2>2. /\ events' \in Events
          /\ \A s \in Symbol : ToSet(events[s]) \subseteq ToSet(events'[s])
          /\ job[t].id \in ToSet(events'[job[t].symbol])
        BY <1>2, <2>1, <1>ok, <1>loc, AppendEventEffect
    <2>3. pc'[t] = "save" /\ Others(t)
        BY <2>1, <1>ok, MoveEffect
    <2>4. Locals(t)'
        BY <2>1, <2>2, <2>3, <1>loc DEF Locals, bounds
    <2>5. \A u \in Thread : Locals(u)'
        BY <2>1, <2>2, <2>3, <2>4, <1>loc, <1>others DEF bounds
    <2> QED  BY <2>1, <2>2, <2>5, <1>mem, <1>loc, <1>hist
             DEF TypeInv, TypeOK, history, bounds
<1>3. ASSUME NEW t \in Thread, AssignPortfolio(t) PROVE TypeInv'
    <2>1. /\ pc' = [pc EXCEPT ![t] = "save"] /\ pc[t] = "assign" /\ job' = job
          /\ portfolio' = job[t].portfolio
          /\ UNCHANGED <<events, snapshots, file, history, bounds>>
        BY <1>3 DEF AssignPortfolio, Go
    <2>2. pc'[t] = "save" /\ Others(t)
        BY <2>1, <1>ok, MoveEffect
    <2>3. Locals(t)'
        BY <2>1, <2>2, <1>loc DEF Locals, bounds
    <2>4. \A u \in Thread : Locals(u)'
        BY <2>1, <2>2, <2>3, <1>loc, <1>others DEF bounds
    <2>5. portfolio' \in Portfolio
        BY <2>1, <1>loc DEF Locals
    <2> QED  BY <2>1, <2>4, <2>5, <1>mem, <1>loc, <1>hist
             DEF TypeInv, TypeOK, history, bounds
<1>4. ASSUME NEW t \in Thread,
             StartSave(t) \/ CopySymbol(t) \/ ReadSymbol(t) \/ CopyRest(t) \/ ChoosePortfolio(t)
      PROVE  TypeInv'
    <2>1. /\ Others(t) /\ SameRequest(t)
          /\ job' \in [Thread -> Job]
          /\ \/ /\ pc[t] = "save" /\ pc'[t] = "copy"
                /\ job'[t].priced = job[t].priced /\ job'[t].portfolio = job[t].portfolio
             \/ /\ pc[t] \in {"copy", "read"} /\ pc'[t] = pc[t]
                /\ job'[t].priced = job[t].priced /\ job'[t].portfolio = job[t].portfolio
                /\ job'[t].rest \subseteq job[t].rest
             \/ /\ pc[t] = "copy" /\ pc'[t] = "replace"
                /\ job'[t].priced = job[t].priced /\ job'[t].portfolio = job[t].portfolio
             \/ /\ pc[t] = "price" /\ pc'[t] = "read"
                /\ job'[t].priced /\ job'[t].portfolio \in Portfolio
                /\ job'[t].rest = job'[t].portfolio.positions
                /\ job[t].op # "portfolio"
        <3>1. CASE StartSave(t)
            <4>1. pc[t] = "save" /\ Loop(t, "copy", Known(events))
                BY <3>1 DEF StartSave
            <4>2. Known(events) \in SUBSET Symbol
                BY DEF Known
            <4> QED  BY <4>1, <4>2, <1>ok, LoopEffect
        <3>2. CASE CopySymbol(t) \/ ReadSymbol(t)
            <4>1. PICK at \in {"copy", "read"} : TakeSymbol(t, at)
                BY <3>2 DEF CopySymbol, ReadSymbol
            <4>2. pc[t] = at
                BY <4>1 DEF TakeSymbol
            <4>3. /\ pc' = pc /\ Others(t) /\ SameRequest(t) /\ job' \in [Thread -> Job]
                  /\ job'[t].priced = job[t].priced /\ job'[t].portfolio = job[t].portfolio
                  /\ job'[t].rest \subseteq job[t].rest
                BY <4>1, <1>ok, TakeEffect
            <4> QED  BY <4>1, <4>2, <4>3
        <3>3. CASE CopyRest(t)
            BY <3>3, <1>ok, RestEffect
        <3>4. CASE ChoosePortfolio(t)
            <4>1. /\ pc[t] = "price" /\ pc'[t] = "read" /\ Others(t) /\ SameRequest(t)
                  /\ job' \in [Thread -> Job]
                  /\ job'[t].priced /\ job'[t].portfolio \in Portfolio
                  /\ job'[t].rest = job'[t].portfolio.positions
                BY <3>4, <1>ok, ChooseEffect
            <4>2. job[t].op # "portfolio"
                BY <4>1, <1>loc DEF Locals
            <4> QED  BY <4>1, <4>2
        <3> QED  BY <1>4, <3>1, <3>2, <3>3, <3>4
    <2>2. /\ pc' \in {pc, [pc EXCEPT ![t] = "copy"], [pc EXCEPT ![t] = "replace"],
                      [pc EXCEPT ![t] = "read"]}
          /\ UNCHANGED <<memory, file, history, bounds>>
        BY <1>4
        DEF StartSave, CopySymbol, ReadSymbol, CopyRest, ChoosePortfolio, Loop,
            TakeSymbol, Go
    <2>3. Locals(t)'
        BY <2>1, <2>2, <1>loc DEF Locals, SameRequest, memory, bounds
    <2>4. \A u \in Thread : Locals(u)'
        BY <2>1, <2>2, <2>3, <1>loc, <1>others DEF memory, bounds
    <2>5. pc' \in [Thread -> {"idle", "append", "assign", "save", "copy", "replace",
                              "price", "read", "snapshot", "record", "answer"}]
        BY <2>2, <1>loc
    <2> QED  BY <2>1, <2>2, <2>4, <2>5, <1>mem, <1>loc, <1>hist
             DEF TypeInv, TypeOK, memory, history, bounds
<1>5. ASSUME NEW t \in Thread,
             CopyRaises(t) \/ SaveFails(t) \/ Refuse(t) \/ ComputeRaises(t) \/ Answer(t)
      PROVE  TypeInv'
    <2>1. /\ pc' = [pc EXCEPT ![t] = "idle"] /\ job' = [job EXCEPT ![t] = NoJob]
          /\ pc[t] # "idle"
          /\ UNCHANGED <<memory, file, recorded, overlapped>>
          /\ ops' = ops /\ crashes' = crashes
        BY <1>5
        DEF CopyRaises, SaveFails, Refuse, ComputeRaises, Answer, Fail, Go, bounds
    <2>2. /\ pc'[t] = "idle" /\ Others(t) /\ job' \in [Thread -> Job]
        BY <2>1, <1>ok, EndEffect
    <2>3. Locals(t)'
        BY <2>2 DEF Locals
    <2>4. \A u \in Thread : Locals(u)'
        BY <2>1, <2>2, <2>3, <1>loc, <1>others DEF memory
    <2>5. lost' \subseteq Id /\ saveFailures' \in Nat
        BY <1>5, <2>1, <1>loc, <1>hist
        DEF CopyRaises, SaveFails, Refuse, ComputeRaises, Answer, Fail, bounds
    <2>7. priced' \subseteq Claim
        <3>1. priced' \subseteq priced \cup {ClaimOf(t)}
            BY <1>5 DEF CopyRaises, SaveFails, Refuse, ComputeRaises, Answer, Fail, ClaimOf
        <3>2. ClaimOf(t) \in Claim
            <4>1. /\ job[t].id \in Id /\ job[t].symbol \in Symbol
                  /\ job[t].portfolio \in Portfolio \cup {NoPortfolio}
                BY <2>1, <1>loc DEF Job
            <4>2. job[t].portfolio.positions \subseteq Symbol
                BY <4>1 DEF Portfolio, NoPortfolio
            <4> QED  BY <4>1, <4>2 DEF ClaimOf, Claim
        <3> QED  BY <3>1, <3>2, <1>hist
    <2>6. acked' \subseteq {"event", "portfolio", "compute"} \X Id
        <3>1. CASE Answer(t)
            <4>1. pc[t] = "answer" /\ acked' = acked \cup {<<job[t].op, job[t].id>>}
                BY <3>1 DEF Answer, Go
            <4>2. job[t].op \in {"event", "portfolio", "compute"}
                BY <4>1, <1>loc DEF Locals, Job
            <4> QED  BY <2>1, <4>1, <4>2, <1>loc, <1>hist
        <3> QED  BY <1>5, <3>1, <1>hist
                 DEF CopyRaises, SaveFails, Refuse, ComputeRaises, Fail
    <2> QED  BY <2>1, <2>2, <2>4, <2>5, <2>6, <2>7, <1>mem, <1>loc, <1>hist
             DEF TypeInv, TypeOK, memory
<1>6. ASSUME NEW t \in Thread, Replace(t) PROVE TypeInv'
    <2>1. /\ pc' = [pc EXCEPT ![t] = AfterSave(t)] /\ pc[t] = "replace" /\ job' = job
          /\ file' = job[t].copy
          /\ UNCHANGED <<memory, history, bounds>>
        BY <1>6 DEF Replace, Go
    <2>2. pc'[t] = AfterSave(t) /\ Others(t)
        BY <2>1, <1>ok, MoveEffect
    <2>3. Locals(t)'
        BY <2>1, <2>2, <1>loc DEF Locals, AfterSave, memory, bounds
    <2>4. \A u \in Thread : Locals(u)'
        BY <2>1, <2>2, <2>3, <1>loc, <1>others DEF memory, bounds
    <2>5. file' \in State
        BY <2>1, <1>loc DEF Job
    <2> QED  BY <2>1, <2>4, <2>5, <1>mem, <1>loc, <1>hist
             DEF TypeInv, TypeOK, AfterSave, memory, history, bounds
<1>7. ASSUME NEW t \in Thread, AppendSnapshot(t) PROVE TypeInv'
    <2> DEFINE snapshot == [id |-> job[t].id, basis |-> IdsIn(job[t].copy.events),
                            portfolio |-> job[t].portfolio]
    <2>1. /\ pc' = [pc EXCEPT ![t] = "record"] /\ pc[t] = "read" /\ job' = job
          /\ snapshots' = Append(snapshots, snapshot)
          /\ UNCHANGED <<events, portfolio, file, history, bounds>>
        BY <1>7 DEF AppendSnapshot, Go
    <2>2. snapshot \in Snapshot
        <3>1. job[t].copy.events \in Events
            BY <1>loc DEF Job, State
        <3>2. job[t].id \in Id /\ job[t].portfolio \in Portfolio
            BY <2>1, <1>loc DEF Locals
        <3> QED  BY <3>1, <3>2, IdsInType DEF Snapshot
    <2> HIDE DEF snapshot
    <2>3. snapshots' \in Seq(Snapshot)
        BY <2>1, <2>2, <1>mem, AppendProperties
    <2>4. pc'[t] = "record" /\ Others(t)
        BY <2>1, <1>ok, MoveEffect
    <2>5. Locals(t)'
        BY <2>1, <2>4, <1>loc DEF Locals, bounds
    <2>6. \A u \in Thread : Locals(u)'
        BY <2>1, <2>4, <2>5, <1>loc, <1>others DEF bounds
    <2> QED  BY <2>1, <2>3, <2>6, <1>mem, <1>loc, <1>hist
             DEF TypeInv, TypeOK, history, bounds
<1>8. ASSUME NEW t \in Thread, Record(t) PROVE TypeInv'
    <2>1. /\ pc' = [pc EXCEPT ![t] = "save"] /\ pc[t] = "record" /\ job' = job
          /\ recorded' = recorded \cup {job[t].id}
          /\ UNCHANGED <<memory, file, acked, priced, lost, overlapped, bounds>>
        BY <1>8 DEF Record, Go
    <2>2. pc'[t] = "save" /\ Others(t)
        BY <2>1, <1>ok, MoveEffect
    <2>3. Locals(t)'
        BY <2>1, <2>2, <1>loc DEF Locals, memory, bounds
    <2>4. \A u \in Thread : Locals(u)'
        BY <2>1, <2>2, <2>3, <1>loc, <1>others DEF memory, bounds
    <2> QED  BY <2>1, <2>4, <1>mem, <1>loc, <1>hist
             DEF TypeInv, TypeOK, memory, bounds
<1>9. CASE Restart
    <2>1. /\ events' = file.events /\ portfolio' = file.portfolio
          /\ snapshots' = file.snapshots /\ file' = file
          /\ lost' = lost \cup {job[t].id : t \in {u \in Thread : pc[u] # "idle"}}
          /\ priced' = {} /\ crashes' = crashes + 1
          /\ pc' = [t \in Thread |-> "idle"] /\ job' = [t \in Thread |-> NoJob]
          /\ UNCHANGED <<recorded, acked, overlapped, ops, saveFailures>>
        BY <1>9 DEF Restart
    <2>2. /\ events' \in Events /\ portfolio' \in Portfolio \cup {NoPortfolio}
          /\ snapshots' \in Seq(Snapshot)
        BY <2>1, <1>mem DEF State
    <2>3. lost' \subseteq Id
        BY <2>1, <1>loc, <1>hist
    <2>4. job' \in [Thread -> Job]
        BY <2>1, EmptyType
    <2>5. \A u \in Thread : Locals(u)'
        BY <2>1 DEF Locals
    <2> QED  BY <2>1, <2>2, <2>3, <2>4, <2>5, <1>mem, <1>loc, <1>hist
             DEF TypeInv, TypeOK
<1>10. CASE UNCHANGED vars
    BY <1>10, <1>mem, <1>loc, <1>hist
    DEF vars, memory, history, bounds, TypeInv, TypeOK, Locals
<1> QED
    BY <1>1, <1>2, <1>3, <1>4, <1>5, <1>6, <1>7, <1>8, <1>9, <1>10
    DEF Next, Step, Save, Compute

\* The types hold at the start.
LEMMA InitTypeInv == Init => TypeInv
<1> SUFFICES ASSUME Init PROVE TypeInv
    OBVIOUS
<1>1. /\ NoEvents \in Events /\ Empty \in State /\ NoJob \in Job /\ <<>> \in Seq(Snapshot)
    BY EmptyType, EmptySeq DEF Empty, State
<1>2. /\ events \in Events /\ snapshots \in Seq(Snapshot) /\ file \in State
      /\ job \in [Thread -> Job]
    BY <1>1 DEF Init
<1>3. \A t \in Thread : Locals(t)
    BY DEF Init, Locals
<1>4. /\ pc \in [Thread -> {"idle", "append", "assign", "save", "copy", "replace",
                            "price", "read", "snapshot", "record", "answer"}]
      /\ portfolio \in Portfolio \cup {NoPortfolio} /\ overlapped \in BOOLEAN
      /\ recorded \cup lost \subseteq Id /\ priced \subseteq Claim
      /\ acked \subseteq {"event", "portfolio", "compute"} \X Id
    BY DEF Init
<1>5. /\ ops \in Nat /\ saveFailures \in Nat /\ crashes \in Nat /\ ops <= MaxOps
    BY BoundsAreNat DEF Init
<1> QED  BY <1>2, <1>3, <1>4, <1>5 DEF TypeInv, TypeOK

\* The events, the portfolio, the snapshots, the stored document and the copies
\* under way always have their types.
THEOREM TypeCorrect == Spec => []TypeOK
<1>1. TypeInv => TypeOK
    BY DEF TypeInv
<1> QED  BY <1>1, InitTypeInv, StepTypeInv, PTL DEF Spec

-----------------------------------------------------------------------------
(* Some snapshot covers what was answered, whatever overlaps.              *)

\* Thread t reads the events for the risk of an event.
Reading(t) == pc[t] = "read" /\ job[t].op = "event"

\* The events of s that t has read or, unless they grow, is about to read.
Seen(t, s) == ToSet(IF s \in job[t].rest THEN events[s] ELSE job[t].copy.events[s])

\* Thread t has its snapshot, and no answer yet.
Computed(t) == /\ pc[t] \in {"record", "save", "copy", "replace", "answer"}
               /\ job[t].op = "event" /\ job[t].priced

Settled == priced \cup {ClaimOf(t) : t \in {u \in Thread : Computed(u)}}

\* The events of s that were in memory when event e entered, e with them; r has
\* the moment of every one.
Earlier(r, e, s) == {x \in ToSet(events[s]) : r[s][x] <= r[e.symbol][e.id]}

\* Who computes the risk of an event reads every event of its portfolio's symbols
\* that was there before,
Aware(r, t) ==
    \A s \in job[t].portfolio.positions : Earlier(r, job[t], s) \subseteq Seen(t, s)

\* so that its snapshot has them.
Covered(r, e) ==
    \E i \in 1..Len(snapshots) :
        \A s \in e.held : Earlier(r, e, s) \subseteq snapshots[i].basis

\* r ranks the events by the moment they entered memory, with n still to come.
Ranked(r, n) ==
    /\ \A s \in Symbol : \A x \in ToSet(events[s]) : r[s][x] < n
    /\ \A t \in Thread : Reading(t) => Aware(r, t)
    /\ \A e \in Settled : e.id \in ToSet(events[e.symbol]) /\ Covered(r, e)

Moments == [Symbol -> [Id -> Nat]]

RankInv == \E r \in Moments, n \in Nat : Ranked(r, n)

\* What is settled has the types of a claim.
LEMMA SettledType ==
    ASSUME TypeInv, NEW e \in Settled
    PROVE  e \in Claim /\ e.symbol \in Symbol /\ e.id \in Id /\ e.held \subseteq Symbol
<1>1. CASE e \in priced
    BY <1>1 DEF TypeInv, TypeOK, Claim
<1>2. ASSUME NEW t \in Thread, Computed(t), e = ClaimOf(t)
      PROVE  e \in Claim /\ e.symbol \in Symbol /\ e.id \in Id /\ e.held \subseteq Symbol
    <2>1. job[t] \in Job /\ job[t].id \in Id
        BY <1>2, TypeFacts DEF Computed
    <2>2. job[t].symbol \in Symbol /\ job[t].portfolio.positions \in SUBSET Symbol
        BY <2>1 DEF Job, Portfolio, NoPortfolio
    <2> QED  BY <1>2, <2>1, <2>2 DEF ClaimOf, Claim
<1> QED  BY <1>1, <1>2 DEF Settled

\* The events of a book have the types of events.
LEMMA BookType ==
    ASSUME NEW book \in Events, NEW s \in Symbol
    PROVE  ToSet(book[s]) \subseteq Id
BY IdsInType, IdsInBook

\* Nothing is settled by a step that leaves the claims of all but t alone.
LEMMA SettledKept ==
    ASSUME NEW t \in Thread, Others(t),
           priced' = priced \/ (Computed(t) /\ priced' = priced \cup {ClaimOf(t)}),
           Computed(t)' => Computed(t) /\ ClaimOf(t)' = ClaimOf(t)
    PROVE  Settled' \subseteq Settled
<1>1. \A u \in Thread \ {t} : (Computed(u)' <=> Computed(u)) /\ ClaimOf(u)' = ClaimOf(u)
    BY DEF Others, Computed, ClaimOf
<1> QED  BY <1>1 DEF Settled

\* Every step keeps the events ranked.
LEMMA StepRankInv == TypeInv /\ RankInv /\ [Next]_vars => RankInv'
<1> SUFFICES ASSUME TypeInv, RankInv, [Next]_vars PROVE RankInv'
    OBVIOUS
<1>ok. TypeOK
    BY DEF TypeInv
<1>facts. /\ events \in Events
          /\ snapshots \in Seq(Snapshot) /\ Len(snapshots) \in Nat
          /\ pc \in [Thread -> {"idle", "append", "assign", "save", "copy", "replace",
                                "price", "read", "snapshot", "record", "answer"}]
          /\ job \in [Thread -> Job]
          /\ \A t \in Thread : /\ Locals(t)
                               /\ pc[t] # "idle" => job[t].id \in Id
    BY TypeFacts, LenProperties
<1>held. \A t \in Thread : /\ job[t].portfolio.positions \subseteq Symbol
                           /\ job[t].symbol \in Symbol
    BY <1>facts DEF Job, Portfolio, NoPortfolio
<1>0. PICK r \in Moments : \E n \in Nat : Ranked(r, n)
    BY DEF RankInv
<1>n. PICK n \in Nat : Ranked(r, n)
    BY <1>0
\* What a step that adds no event and no snapshot has to show.
<1>same. ASSUME events' = events, snapshots' = snapshots, Settled' \subseteq Settled,
                \A u \in Thread : Reading(u)' =>
                    \/ Reading(u) /\ (Aware(r, u) => Aware(r, u)')
                    \/ Aware(r, u)'
         PROVE  RankInv'
    <2>1. \A e : Covered(r, e) => Covered(r, e)'
        BY <1>same DEF Covered, Earlier
    <2>2. Ranked(r, n)'
        BY <1>same, <1>n, <2>1 DEF Ranked
    <2> QED  BY <2>2 DEF RankInv
\* The threads that a step leaves alone stay aware.
<1>alone. ASSUME NEW t \in Thread, Others(t), events' = events, NEW u \in Thread \ {t},
                 Reading(u)'
          PROVE  Reading(u) /\ (Aware(r, u) => Aware(r, u)')
    BY <1>alone DEF Others, Reading, Aware, Earlier, Seen
\* And what one has to show that leaves the other threads alone.
<1>step. ASSUME NEW t \in Thread, Others(t), events' = events, snapshots' = snapshots,
                priced' = priced \/ (Computed(t) /\ priced' = priced \cup {ClaimOf(t)}),
                Computed(t)' => Computed(t) /\ ClaimOf(t)' = ClaimOf(t),
                Reading(t)' => \/ Reading(t) /\ (Aware(r, t) => Aware(r, t)')
                               \/ Aware(r, t)'
         PROVE  RankInv'
    <2>1. Settled' \subseteq Settled
        BY <1>step, SettledKept
    <2>2. \A u \in Thread : Reading(u)' =>
              \/ Reading(u) /\ (Aware(r, u) => Aware(r, u)')
              \/ Aware(r, u)'
        BY <1>step, <1>alone
    <2> QED  BY <1>step, <2>1, <2>2, <1>same
<1>1. ASSUME NEW t \in Thread, Post(t) PROVE RankInv'
    <2>1. PICK op \in {"event", "portfolio", "compute"}, s \in Symbol,
               given \in Posted \cup {NoPortfolio}, to \in {"append", "assign", "price"} :
              Receive(t, op, s, given, to)
        <3>1. NoJob.symbol \in Symbol
            BY EmptyType DEF Job
        <3> QED  BY <1>1, <3>1 DEF Post, PostEvent, PostPortfolio, PostCompute
    <2>2. pc'[t] = to /\ Others(t)
        BY <2>1, <1>ok, ReceiveEffect
    <2>3. UNCHANGED <<events, snapshots, priced>>
        BY <2>1 DEF Receive, memory
    <2>4. ~ Reading(t)' /\ ~ Computed(t)'
        BY <2>2 DEF Reading, Computed
    <2> QED  BY <2>2, <2>3, <2>4, <1>step
<1>2. ASSUME NEW t \in Thread, AppendEvent(t) PROVE RankInv'
    <2> DEFINE e == job[t].id
               z == job[t].symbol
    <2>1. /\ pc' = [pc EXCEPT ![t] = "save"] /\ pc[t] = "append" /\ job' = job
          /\ UNCHANGED <<snapshots, priced>>
        BY <1>2 DEF AppendEvent, Go, history
    <2>2. /\ e \in Id /\ z \in Symbol /\ events' \in Events
          /\ e \in ToSet(events'[z])
          /\ \A s \in Symbol : ToSet(events[s]) \subseteq ToSet(events'[s])
          /\ \A s \in Symbol : \A x \in ToSet(events'[s]) :
                 x \in ToSet(events[s]) \/ (s = z /\ x = e)
        BY <1>2, <2>1, <1>ok, <1>facts, AppendEventEffect
    <2> HIDE DEF e, z
    <2>3. pc'[t] = "save" /\ Others(t)
        BY <2>1, <1>ok, MoveEffect
    <2>4. ~ Reading(t)' /\ ~ Computed(t)'
        BY <2>1, <2>3, <1>facts DEF Reading, Computed, Locals
    <2>5. Settled' \subseteq Settled
        BY <2>1, <2>3, <2>4, SettledKept
    <2>6. ASSUME NEW u \in Thread, Reading(u)'
          PROVE  /\ Reading(u) /\ job'[u] = job[u]
                 /\ job[u].portfolio.positions \subseteq Symbol
                 /\ job[u].symbol \in Symbol
                 /\ job[u].id \in ToSet(events[job[u].symbol])
        <3>1. Reading(u) /\ job'[u] = job[u]
            BY <2>1, <2>3, <2>4, <2>6 DEF Others, Reading
        <3>2. Locals(u) /\ pc[u] = "read" /\ job[u].op = "event"
            BY <3>1, <1>facts DEF Reading
        <3>3. job[u].id \in ToSet(events[job[u].symbol])
            BY <3>2 DEF Locals
        <3> QED  BY <3>1, <3>3, <1>held
    <2>7. ASSUME NEW u \in Thread, NEW s \in Symbol, NEW x, x \in Seen(u, s)
          PROVE  x \in Seen(u, s)'
        BY <2>1, <2>2, <2>7 DEF Seen
    \* Either the event was there already, or it comes at the moment n: with the
    \* new moments, what was earlier than an event of before is what it was.
    <2>8. PICK later \in Moments, m \in Nat :
              /\ \A s \in Symbol : \A x \in ToSet(events'[s]) : later[s][x] < m
              /\ \A s \in Symbol : \A d \in Symbol : \A x \in ToSet(events'[s]) :
                     \A y \in ToSet(events[d]) : later[s][x] <= later[d][y] =>
                         x \in ToSet(events[s]) /\ r[s][x] <= r[d][y]
        <3>1. CASE e \in ToSet(events[z])
            <4>1. \A s \in Symbol : ToSet(events'[s]) = ToSet(events[s])
                BY <2>2, <3>1
            <4>2. \A s \in Symbol : \A x \in ToSet(events'[s]) : r[s][x] < n
                BY <4>1, <1>n DEF Ranked
            <4> QED  BY <4>1, <4>2
        <3>2. CASE e \notin ToSet(events[z])
            <4>1. PICK later \in Moments : later = [r EXCEPT ![z] = [r[z] EXCEPT ![e] = n]]
                BY <2>2 DEF Moments
            <4>2. later[z][e] = n
                BY <2>2, <4>1 DEF Moments
            <4>3. \A s \in Symbol : \A x \in ToSet(events[s]) :
                      later[s][x] = r[s][x] /\ r[s][x] < n /\ r[s][x] \in Nat
                <5> SUFFICES ASSUME NEW s \in Symbol, NEW x \in ToSet(events[s])
                             PROVE  later[s][x] = r[s][x] /\ r[s][x] < n /\ r[s][x] \in Nat
                    OBVIOUS
                <5>1. x \in Id /\ ~ (s = z /\ x = e)
                    BY <1>facts, <3>2, BookType
                <5>2. r[s][x] < n
                    BY <1>n DEF Ranked
                <5> QED  BY <2>2, <4>1, <5>1, <5>2 DEF Moments
            <4>4. \A s \in Symbol : \A x \in ToSet(events'[s]) : later[s][x] < n + 1
                BY <2>2, <4>2, <4>3
            <4>5. \A s \in Symbol : \A d \in Symbol : \A x \in ToSet(events'[s]) :
                      \A y \in ToSet(events[d]) : later[s][x] <= later[d][y] =>
                          x \in ToSet(events[s]) /\ r[s][x] <= r[d][y]
                BY <2>2, <4>2, <4>3
            <4> QED  BY <4>4, <4>5
        <3> QED  BY <3>1, <3>2
    <2>9. ASSUME NEW d, d.symbol \in Symbol, d.id \in ToSet(events[d.symbol]),
                 NEW s \in Symbol, NEW x \in Earlier(later, d, s)'
          PROVE  x \in Earlier(r, d, s)
        BY <2>8, <2>9 DEF Earlier
    <2>10. ASSUME NEW u \in Thread, Reading(u)' PROVE Aware(later, u)'
        <3>1. Aware(r, u)
            BY <2>6, <2>10, <1>n DEF Ranked
        <3>2. ASSUME NEW s \in job[u].portfolio.positions,
                     NEW x \in Earlier(later, job[u], s)'
              PROVE  x \in Seen(u, s)'
            <4>1. /\ s \in Symbol /\ job[u].symbol \in Symbol
                  /\ job[u].id \in ToSet(events[job[u].symbol])
                BY <2>6, <2>10, <3>2
            <4>2. x \in Earlier(r, job[u], s)
                <5>1. x \in ToSet(events'[s])
                    BY <3>2 DEF Earlier
                <5>2. later[s][x] <= later[job[u].symbol][job[u].id]
                    BY <2>1, <3>2 DEF Earlier
                <5> QED  BY <2>8, <4>1, <5>1, <5>2 DEF Earlier
            <4>3. x \in Seen(u, s)
                BY <3>1, <3>2, <4>2 DEF Aware
            <4> QED  BY <2>7, <4>1, <4>3
        <3> QED  BY <2>1, <3>2 DEF Aware
    <2>11. ASSUME NEW d \in Settled'
           PROVE  (d.id \in ToSet(events[d.symbol]) /\ Covered(later, d))'
        <3>1. d \in Settled /\ d.symbol \in Symbol /\ d.held \subseteq Symbol
            BY <2>5, SettledType
        <3>2. d.id \in ToSet(events[d.symbol]) /\ Covered(r, d)
            BY <3>1, <1>n DEF Ranked
        <3>3. PICK i \in 1..Len(snapshots) :
                  \A s \in d.held : Earlier(r, d, s) \subseteq snapshots[i].basis
            BY <3>2 DEF Covered
        <3>4. \A s \in d.held : Earlier(later, d, s)' \subseteq snapshots'[i].basis
            BY <2>1, <2>9, <3>1, <3>2, <3>3
        <3>5. Covered(later, d)'
            BY <2>1, <3>4 DEF Covered
        <3> QED  BY <2>2, <3>1, <3>2, <3>5
    <2>12. Ranked(later, m)'
        BY <2>8, <2>10, <2>11 DEF Ranked
    <2> QED  BY <2>8, <2>12 DEF RankInv
<1>3. ASSUME NEW t \in Thread, AssignPortfolio(t) \/ Record(t) \/ Replace(t) PROVE RankInv'
    <2>1. /\ pc' \in {[pc EXCEPT ![t] = "save"], [pc EXCEPT ![t] = AfterSave(t)]}
          /\ job' = job
          /\ \/ pc[t] \in {"record", "replace"}
             \/ pc[t] = "assign" /\ pc' = [pc EXCEPT ![t] = "save"]
          /\ UNCHANGED <<events, snapshots, priced>>
        BY <1>3 DEF AssignPortfolio, Record, Replace, Go, memory, history
    <2>2. Others(t) /\ pc'[t] \in {"save", "price", "answer"}
        BY <2>1, <1>ok, MoveEffect DEF AfterSave
    <2>3. ~ Reading(t)' /\ (Computed(t)' => Computed(t) /\ ClaimOf(t)' = ClaimOf(t))
        BY <2>1, <2>2, <1>facts DEF Reading, Computed, Locals, ClaimOf
    <2> QED  BY <2>1, <2>2, <2>3, <1>step
<1>4. ASSUME NEW t \in Thread, StartSave(t) \/ CopySymbol(t) \/ CopyRest(t) PROVE RankInv'
    <2>1. /\ Others(t) /\ SameRequest(t) /\ job'[t].priced = job[t].priced
          /\ job'[t].portfolio = job[t].portfolio
          /\ pc[t] \in {"save", "copy"} /\ pc'[t] \in {"copy", "replace"}
        <3>1. CASE StartSave(t)
            <4>1. pc[t] = "save" /\ Loop(t, "copy", Known(events))
                BY <3>1 DEF StartSave
            <4>2. Known(events) \in SUBSET Symbol
                BY DEF Known
            <4> QED  BY <4>1, <4>2, <1>ok, LoopEffect
        <3>2. CASE CopySymbol(t)
            <4>1. TakeSymbol(t, "copy") /\ pc[t] = "copy"
                BY <3>2 DEF CopySymbol, TakeSymbol
            <4> QED  BY <4>1, <1>ok, TakeEffect
        <3>3. CASE CopyRest(t)
            BY <3>3, <1>ok, RestEffect
        <3> QED  BY <1>4, <3>1, <3>2, <3>3
    <2>2. UNCHANGED <<events, snapshots, priced>>
        BY <1>4 DEF StartSave, CopySymbol, CopyRest, Loop, TakeSymbol, memory, history
    <2>3. ~ Reading(t)' /\ (Computed(t)' => Computed(t) /\ ClaimOf(t)' = ClaimOf(t))
        BY <2>1 DEF Reading, Computed, SameRequest, ClaimOf
    <2> QED  BY <2>1, <2>2, <2>3, <1>step
<1>5. ASSUME NEW t \in Thread, ReadSymbol(t) PROVE RankInv'
    <2>1. TakeSymbol(t, "read") /\ pc[t] = "read"
        BY <1>5 DEF ReadSymbol, TakeSymbol
    <2>2. PICK s \in job[t].rest :
             /\ pc' = pc /\ Others(t) /\ SameRequest(t)
             /\ job'[t].portfolio = job[t].portfolio
             /\ job'[t].rest = job[t].rest \ {s}
             /\ \A z \in Symbol : job'[t].copy.events[z]
                    = IF z = s THEN events[z] ELSE job[t].copy.events[z]
        BY <2>1, <1>ok, TakeEffect
    <2>3. UNCHANGED <<events, snapshots, priced>>
        BY <2>1 DEF TakeSymbol, memory, history
    <2>4. \A z \in Symbol : Seen(t, z)' = Seen(t, z)
        <3>1. \A z \in Symbol :
                  (IF z \in job[t].rest THEN events[z] ELSE job[t].copy.events[z])
                = (IF z \in job'[t].rest THEN events'[z] ELSE job'[t].copy.events[z])
            BY <2>2, <2>3
        <3> QED  BY <3>1 DEF Seen
    <2>5. Reading(t)' => Reading(t)
        BY <2>2 DEF Reading, SameRequest
    <2>6. \A z : Earlier(r, job[t], z)' = Earlier(r, job[t], z)
        BY <2>2, <2>3 DEF Earlier, SameRequest
    <2>7. Aware(r, t) => Aware(r, t)'
        BY <2>2, <2>4, <2>6, <1>held DEF Aware
    <2>8. ~ Computed(t)'
        BY <2>1, <2>2 DEF Computed
    <2> QED  BY <2>2, <2>3, <2>5, <2>7, <2>8, <1>step
<1>6. ASSUME NEW t \in Thread, ChoosePortfolio(t) PROVE RankInv'
    <2>1. /\ Others(t) /\ pc'[t] = "read"
          /\ job'[t].rest = job'[t].portfolio.positions
        BY <1>6, <1>ok, ChooseEffect
    <2>2. UNCHANGED <<events, snapshots, priced>>
        BY <1>6 DEF ChoosePortfolio, memory, history
    <2>3. \A s \in job'[t].portfolio.positions : Seen(t, s)' = ToSet(events'[s])
        BY <2>1 DEF Seen
    <2>4. \A d, s : Earlier(r, d, s)' \subseteq ToSet(events'[s])
        BY DEF Earlier
    <2>5. Aware(r, t)'
        BY <2>3, <2>4 DEF Aware, Earlier
    <2>6. ~ Computed(t)'
        BY <2>1 DEF Computed
    <2> QED  BY <2>1, <2>2, <2>5, <2>6, <1>step
<1>7. ASSUME NEW t \in Thread,
             CopyRaises(t) \/ SaveFails(t) \/ Refuse(t) \/ ComputeRaises(t) \/ Answer(t)
      PROVE  RankInv'
    <2>1. /\ pc' = [pc EXCEPT ![t] = "idle"] /\ job' = [job EXCEPT ![t] = NoJob]
          /\ UNCHANGED <<events, snapshots>>
          /\ priced' = priced \/ (Computed(t) /\ priced' = priced \cup {ClaimOf(t)})
        BY <1>7
        DEF CopyRaises, SaveFails, Refuse, ComputeRaises, Answer, Fail, Go, memory,
            Computed, ClaimOf
    <2>2. /\ pc'[t] = "idle" /\ Others(t)
        BY <2>1, <1>ok, EndEffect
    <2>3. ~ Computed(t)' /\ ~ Reading(t)'
        BY <2>2 DEF Computed, Reading
    <2> QED  BY <2>1, <2>2, <2>3, <1>step
<1>8. ASSUME NEW t \in Thread, AppendSnapshot(t) PROVE RankInv'
    <2> DEFINE snapshot == [id |-> job[t].id, basis |-> IdsIn(job[t].copy.events),
                            portfolio |-> job[t].portfolio]
    <2>1. /\ pc' = [pc EXCEPT ![t] = "record"] /\ pc[t] = "read" /\ job' = job
          /\ snapshots' = Append(snapshots, snapshot)
          /\ job[t].rest = {}
          /\ UNCHANGED <<events, priced>>
        BY <1>8 DEF AppendSnapshot, Go, history
    <2>2. /\ snapshot \in Snapshot /\ job[t].copy.events \in Events
        <3>1. job[t].copy.events \in Events
            BY <1>facts DEF Job, State
        <3>2. job[t].id \in Id /\ job[t].portfolio \in Portfolio
            BY <2>1, <1>facts DEF Locals
        <3> QED  BY <3>1, <3>2, IdsInType DEF Snapshot
    <2>3. snapshot.basis = IdsIn(job[t].copy.events)
        OBVIOUS
    <2> HIDE DEF snapshot
    <2>4. /\ Len(snapshots') = Len(snapshots) + 1
          /\ \A i \in 1..Len(snapshots) : snapshots'[i] = snapshots[i]
          /\ snapshots'[Len(snapshots) + 1] = snapshot
        BY <2>1, <2>2, <1>facts, AppendProperties
    <2>5. pc'[t] = "record" /\ Others(t)
        BY <2>1, <1>ok, MoveEffect
    <2>6. \A d \in Settled' : d \in Settled \/ (Reading(t) /\ d = ClaimOf(t))
        <3>1. \A u \in Thread \ {t} :
                  (Computed(u)' <=> Computed(u)) /\ ClaimOf(u)' = ClaimOf(u)
            BY <2>5 DEF Others, Computed, ClaimOf
        <3>2. Computed(t)' => Reading(t) /\ ClaimOf(t)' = ClaimOf(t)
            BY <2>1 DEF Computed, Reading, ClaimOf
        <3> QED  BY <2>1, <3>1, <3>2 DEF Settled
    <2>7. \A d : Covered(r, d) => Covered(r, d)'
        <3> SUFFICES ASSUME NEW d, Covered(r, d) PROVE Covered(r, d)'
            OBVIOUS
        <3>1. PICK i \in 1..Len(snapshots) :
                  \A s \in d.held : Earlier(r, d, s) \subseteq snapshots[i].basis
            BY DEF Covered
        <3>2. i \in 1..Len(snapshots') /\ snapshots'[i] = snapshots[i]
            BY <2>4, <3>1, <1>facts
        <3>3. \A s : Earlier(r, d, s)' = Earlier(r, d, s)
            BY <2>1 DEF Earlier
        <3> QED  BY <3>1, <3>2, <3>3 DEF Covered
    <2>8. Reading(t) => ClaimOf(t).id \in ToSet(events[ClaimOf(t).symbol])
        BY <1>facts DEF Reading, Locals, ClaimOf
    <2>9. Reading(t) => Covered(r, ClaimOf(t))'
        <3> SUFFICES ASSUME Reading(t) PROVE Covered(r, ClaimOf(t))'
            OBVIOUS
        <3>1. Aware(r, t)
            BY <1>n DEF Ranked
        <3>2. ASSUME NEW s \in job[t].portfolio.positions,
                     NEW x \in Earlier(r, job[t], s)
              PROVE  x \in snapshot.basis
            <4>1. x \in Seen(t, s) /\ s \in Symbol
                BY <3>1, <3>2, <1>held DEF Aware
            <4>2. x \in ToSet(job[t].copy.events[s])
                BY <2>1, <4>1 DEF Seen
            <4> QED  BY <2>2, <2>3, <4>1, <4>2, IdsInBook
        <3>3. \A s : Earlier(r, ClaimOf(t), s)' = Earlier(r, job[t], s)
            BY <2>1 DEF Earlier, ClaimOf
        <3>4. Len(snapshots) + 1 \in 1..Len(snapshots')
            BY <2>4, <1>facts
        <3>5. ClaimOf(t)'.held = job[t].portfolio.positions
            BY <2>1 DEF ClaimOf
        <3>6. \A s \in ClaimOf(t)'.held :
                  Earlier(r, ClaimOf(t), s)' \subseteq snapshots'[Len(snapshots) + 1].basis
            BY <2>4, <3>2, <3>3, <3>5
        <3> QED  BY <3>4, <3>6 DEF Covered
    <2>10. ClaimOf(t)' = ClaimOf(t)
        BY <2>1 DEF ClaimOf
    <2>11. \A d \in Settled' : (d.id \in ToSet(events[d.symbol]) /\ Covered(r, d))'
        <3> SUFFICES ASSUME NEW d \in Settled'
                     PROVE  d.id \in ToSet(events[d.symbol]) /\ Covered(r, d)'
            BY <2>1
        <3>1. CASE d \in Settled
            BY <3>1, <2>7, <1>n DEF Ranked
        <3>2. CASE Reading(t) /\ d = ClaimOf(t)
            BY <3>2, <2>8, <2>9, <2>10
        <3> QED  BY <2>6, <3>1, <3>2
    <2>12. \A u \in Thread : Reading(u)' => Aware(r, u)'
        <3>1. ~ Reading(t)'
            BY <2>5 DEF Reading
        <3>2. \A u \in Thread \ {t} : Reading(u)' => Aware(r, u)'
            BY <2>1, <2>5, <1>alone, <1>n DEF Ranked
        <3> QED  BY <3>1, <3>2
    <2>13. Ranked(r, n)'
        BY <1>n, <2>1, <2>11, <2>12 DEF Ranked
    <2> QED  BY <2>13 DEF RankInv
<1>9. CASE Restart
    <2> DEFINE zero == [s \in Symbol |-> [x \in Id |-> 0]]
    <2>1. /\ events' = file.events /\ priced' = {}
          /\ pc' = [t \in Thread |-> "idle"]
        BY <1>9 DEF Restart
    <2>2. \A s \in Symbol : ToSet(events'[s]) \subseteq Id
        <3>1. file.events \in Events
            BY TypeFacts DEF State
        <3> QED  BY <2>1, <3>1, BookType
    <2>3. Settled' = {} /\ \A u \in Thread : ~ Reading(u)'
        BY <2>1 DEF Settled, Computed, Reading
    <2>4. zero \in Moments /\ \A s \in Symbol : \A x \in Id : zero[s][x] < 1
        BY DEF Moments
    <2> HIDE DEF zero
    <2>5. Ranked(zero, 1)'
        BY <2>2, <2>3, <2>4 DEF Ranked
    <2> QED  BY <2>4, <2>5 DEF RankInv
<1>10. CASE UNCHANGED vars
    <2>1. /\ UNCHANGED <<events, snapshots, priced, pc, job>>
        BY <1>10 DEF vars, memory, history
    <2>2. Settled' = Settled
        BY <2>1 DEF Settled, Computed, ClaimOf
    <2>3. \A u \in Thread : (Reading(u)' => Reading(u)) /\ (Aware(r, u) => Aware(r, u)')
        BY <2>1 DEF Reading, Aware, Earlier, Seen
    <2> QED  BY <2>1, <2>2, <2>3, <1>same
<1> QED
    BY <1>1, <1>2, <1>3, <1>4, <1>5, <1>6, <1>7, <1>8, <1>9, <1>10
    DEF Next, Step, Save, Compute

-----------------------------------------------------------------------------
(* What was answered is stored, as long as no two requests overlap.        *)

\* Nothing was computed from an event that is not there.
Based(list, book) == \A i \in 1..Len(list) : list[i].basis \subseteq IdsIn(book)

\* The stored document is not ahead of the memory.
FileBehind ==
    /\ IdsIn(file.events) \subseteq IdsIn(events)
    /\ IdsOf(file.snapshots) \subseteq IdsOf(snapshots)
    /\ file.portfolio.id <= portfolio.id /\ portfolio.id <= ops
    /\ Based(snapshots, events) /\ Based(file.snapshots, file.events)

AnswersStored ==
    /\ \A a \in acked : /\ a[1] = "event" => a[2] \in IdsIn(file.events)
                        /\ a[1] = "compute" => a[2] \in IdsOf(file.snapshots)
                        /\ a[1] = "portfolio" => a[2] <= file.portfolio.id
    /\ \A c \in priced : c.id \in IdsOf(file.snapshots)

\* The newest snapshot has every event, of the symbols it is about, whose
\* computation is done.
LatestCovers ==
    \A e \in Settled :
        /\ snapshots # <<>>
        /\ e.symbol \in Last(snapshots).portfolio.positions => e.id \in Last(snapshots).basis

Busy == {t \in Thread : pc[t] # "idle"}

GapExplained ==
    /\ recorded \subseteq 1..ops
    /\ recorded \ IdsOf(file.snapshots) \subseteq lost \cup {job[t].id : t \in Busy}

\* What the request of t stands for is among these events, at this portfolio
\* and among these snapshots.
Held(t, book, given, list) ==
    /\ job[t].op = "event" => job[t].id \in IdsIn(book)
    /\ job[t].op = "portfolio" => job[t].id <= given.id
    /\ job[t].priced => job[t].id \in IdsOf(list)

\* What holds of the only thread that is busy.
Alone(t) ==
    /\ job[t].id = ops
    /\ pc[t] = "copy" =>
           \A s \in Symbol : s \notin job[t].rest => job[t].copy.events[s] = events[s]
    /\ pc[t] = "read" =>
           \A s \in Symbol \ job[t].rest : job[t].copy.events[s]
               = IF s \in job[t].portfolio.positions THEN events[s] ELSE <<>>
    /\ pc[t] = "record" => job[t].id \in IdsOf(snapshots)
    /\ pc[t] \in {"save", "copy", "replace"} => Held(t, events, portfolio, snapshots)
    /\ pc[t] = "replace" => /\ job[t].copy.events = events
                            /\ job[t].copy.portfolio = portfolio
                            /\ job[t].copy.snapshots = snapshots
    /\ pc[t] = "answer" => Held(t, file.events, file.portfolio, file.snapshots)
    /\ job[t].id \in recorded => /\ job[t].priced
                                 /\ pc[t] \in {"save", "copy", "replace", "answer"}

TurnInv ==
    ~overlapped =>
        /\ \A t, u \in Thread : pc[t] # "idle" /\ pc[u] # "idle" => t = u
        /\ FileBehind /\ AnswersStored /\ LatestCovers /\ GapExplained
        /\ \A t \in Busy : Alone(t)

\* One snapshot more.
LEMMA IdsOfAppend ==
    ASSUME NEW list \in Seq(Snapshot), NEW new \in Snapshot
    PROVE  LET longer == Append(list, new)
           IN  /\ IdsOf(longer) = IdsOf(list) \cup {new.id}
               /\ longer # <<>> /\ Last(longer) = new
               /\ \A book : Based(list, book) /\ new.basis \subseteq IdsIn(book)
                                => Based(longer, book)
<1> DEFINE longer == Append(list, new)
<1>1. /\ longer \in Seq(Snapshot) /\ longer # <<>> /\ Len(longer) = Len(list) + 1
      /\ \A i \in 1..Len(list) : longer[i] = list[i]
      /\ longer[Len(list) + 1] = new
    BY AppendProperties
<1>2. /\ Len(list) \in Nat /\ DOMAIN list = 1..Len(list)
      /\ DOMAIN longer = 1..Len(list) + 1
    BY <1>1, LenProperties
<1> HIDE DEF longer
<1>3. IdsOf(longer) = IdsOf(list) \cup {new.id}
    BY <1>1, <1>2 DEF IdsOf
<1>4. Last(longer) = new
    BY <1>1 DEF Last
<1>5. \A book : Based(list, book) /\ new.basis \subseteq IdsIn(book) => Based(longer, book)
    BY <1>1, <1>2 DEF Based
<1> QED  BY <1>1, <1>3, <1>4, <1>5 DEF longer

\* Every step keeps what was answered stored, as long as no requests overlap.
LEMMA StepTurnInv == TypeInv /\ RankInv /\ TurnInv /\ [Next]_vars => TurnInv'
<1> SUFFICES ASSUME TypeInv, RankInv, TurnInv, [Next]_vars PROVE TurnInv'
    OBVIOUS
<1>ok. TypeOK
    BY DEF TypeInv
<1>facts. /\ events \in Events /\ IdsIn(events) \subseteq Id
          /\ portfolio \in Portfolio \cup {NoPortfolio} /\ portfolio.id \in Nat
          /\ snapshots \in Seq(Snapshot) /\ Len(snapshots) \in Nat
          /\ file \in State /\ file.portfolio.id \in Nat
          /\ pc \in [Thread -> {"idle", "append", "assign", "save", "copy", "replace",
                                "price", "read", "snapshot", "record", "answer"}]
          /\ job \in [Thread -> Job]
          /\ ops \in Nat
          /\ \A t \in Thread : /\ Locals(t)
                               /\ pc[t] # "idle" => job[t].id \in Id
    <2>1. \A p \in Portfolio \cup {NoPortfolio} : p.id \in Nat
        BY EmptyType, BoundsAreNat DEF Portfolio, Id
    <2>2. file \in State /\ file.portfolio \in Portfolio \cup {NoPortfolio}
        BY TypeFacts DEF State
    <2> QED  BY <2>1, <2>2, TypeFacts, IdsInType, LenProperties
<1>settled. \A d \in Settled : d.symbol \in Symbol /\ d.id \in ToSet(events[d.symbol])
    BY SettledType DEF RankInv, Ranked
\* What a step of the only busy thread has to show.
<1>step. ASSUME NEW t \in Thread, Others(t), overlapped' = overlapped, pc[t] # "idle",
                ~overlapped /\ Alone(t) =>
                    /\ FileBehind' /\ AnswersStored' /\ LatestCovers' /\ GapExplained'
                    /\ pc'[t] # "idle" => Alone(t)'
         PROVE  TurnInv'
    <2> SUFFICES ASSUME ~overlapped
                 PROVE  /\ \A u, w \in Thread : pc'[u] # "idle" /\ pc'[w] # "idle" => u = w
                        /\ FileBehind' /\ AnswersStored' /\ LatestCovers' /\ GapExplained'
                        /\ \A u \in Busy' : Alone(u)'
        BY <1>step DEF TurnInv
    <2>1. \A u \in Thread \ {t} : pc'[u] = "idle"
        BY <1>step DEF TurnInv, Others
    <2>2. Alone(t)
        BY <1>step DEF TurnInv, Busy
    <2>3. \A u \in Busy' : u = t /\ pc'[t] # "idle"
        BY <2>1 DEF Busy
    <2> QED  BY <1>step, <2>1, <2>2, <2>3
\* What holds before the step.
<1>kept. ASSUME ~overlapped
         PROVE  FileBehind /\ AnswersStored /\ LatestCovers /\ GapExplained
    BY <1>kept DEF TurnInv
<1>1. ASSUME NEW t \in Thread, Post(t) PROVE TurnInv'
    <2>1. PICK op \in {"event", "portfolio", "compute"}, s \in Symbol,
               given \in Posted \cup {NoPortfolio}, to \in {"append", "assign", "price"} :
              Receive(t, op, s, given, to)
        <3>1. NoJob.symbol \in Symbol
            BY EmptyType DEF Job
        <3> QED  BY <1>1, <3>1 DEF Post, PostEvent, PostPortfolio, PostCompute
    <2>2. /\ ops' = ops + 1 /\ pc'[t] = to /\ pc[t] = "idle" /\ Others(t)
          /\ job'[t].id = ops + 1
        BY <2>1, <1>ok, ReceiveEffect
    <2>3. /\ overlapped' = (overlapped \/ \E u \in Thread \ {t} : pc[u] # "idle")
          /\ UNCHANGED <<memory, file, recorded, acked, priced, lost>>
        BY <2>1 DEF Receive
    <2> SUFFICES ASSUME ~overlapped' PROVE TurnInv'
        BY DEF TurnInv
    <2>4. ~overlapped /\ \A u \in Thread \ {t} : pc'[u] = "idle"
        BY <2>2, <2>3 DEF Others
    <2>5. \A u \in Thread : pc[u] = "idle"
        BY <2>2, <2>3
    <2>6. FileBehind'
        BY <1>kept, <1>facts, <2>2, <2>3, <2>4 DEF FileBehind, memory
    <2>7. AnswersStored'
        BY <1>kept, <2>3, <2>4 DEF AnswersStored
    <2>8. Settled' \subseteq Settled
        BY <2>2, <2>3, SettledKept DEF Computed
    <2>9. LatestCovers'
        BY <1>kept, <2>3, <2>4, <2>8 DEF LatestCovers, memory
    <2>10. GapExplained'
        <3>1. recorded \subseteq 1..ops /\ recorded \ IdsOf(file.snapshots) \subseteq lost
            BY <1>kept, <2>4, <2>5 DEF GapExplained, Busy
        <3> QED  BY <2>2, <2>3, <3>1, <1>facts DEF GapExplained
    <2>11. Alone(t)'
        <3>1. ops + 1 \notin recorded
            BY <1>kept, <2>4, <1>facts DEF GapExplained
        <3> QED  BY <2>2, <2>3, <3>1 DEF Alone
    <2> QED  BY <2>2, <2>4, <2>6, <2>7, <2>9, <2>10, <2>11 DEF TurnInv, Busy
<1>2. ASSUME NEW t \in Thread, AppendEvent(t) PROVE TurnInv'
    <2>1. /\ pc' = [pc EXCEPT ![t] = "save"] /\ pc[t] = "append" /\ job' = job
          /\ UNCHANGED <<portfolio, snapshots, file, history, bounds>>
        BY <1>2 DEF AppendEvent, Go
    <2>2. IdsIn(events') = IdsIn(events) \cup {job[t].id}
        BY <1>2, <2>1, <1>ok, <1>facts, AppendEventEffect
    <2>3. pc'[t] = "save" /\ Others(t)
        BY <2>1, <1>ok, MoveEffect
    <2>4. job[t].op = "event" /\ ~job[t].priced
        BY <2>1, <1>facts DEF Locals
    <2>5. ~overlapped => FileBehind' /\ AnswersStored'
        BY <1>kept, <2>1, <2>2 DEF FileBehind, AnswersStored, Based, history, bounds
    <2>6. ~overlapped => LatestCovers'
        <3>1. Settled' \subseteq Settled
            BY <2>1, <2>3, <2>4, SettledKept DEF Computed, history
        <3> QED  BY <1>kept, <2>1, <3>1 DEF LatestCovers
    <2>7. ~overlapped => GapExplained'
        BY <1>kept, <2>1, <2>3 DEF GapExplained, Busy, Others, history, bounds
    <2>8. Alone(t) => Alone(t)'
        BY <2>1, <2>2, <2>3, <2>4 DEF Alone, Held, history, bounds
    <2> QED  BY <1>step, <2>1, <2>3, <2>5, <2>6, <2>7, <2>8 DEF history
<1>3. ASSUME NEW t \in Thread, AssignPortfolio(t) PROVE TurnInv'
    <2>1. /\ pc' = [pc EXCEPT ![t] = "save"] /\ pc[t] = "assign" /\ job' = job
          /\ portfolio' = job[t].portfolio
          /\ UNCHANGED <<events, snapshots, file, history, bounds>>
        BY <1>3 DEF AssignPortfolio, Go
    <2>2. pc'[t] = "save" /\ Others(t)
        BY <2>1, <1>ok, MoveEffect
    <2>3. /\ job[t].op = "portfolio" /\ ~job[t].priced /\ job[t].id \in Nat
          /\ portfolio'.id = job[t].id
        BY <2>1, <1>facts DEF Locals, Id
    <2>4. ~overlapped /\ Alone(t) => FileBehind' /\ AnswersStored'
        BY <1>kept, <1>facts, <2>1, <2>3
        DEF FileBehind, AnswersStored, Alone, history, bounds
    <2>5. ~overlapped => LatestCovers'
        <3>1. Settled' \subseteq Settled
            BY <2>1, <2>2, <2>3, SettledKept DEF Computed, ClaimOf, history
        <3> QED  BY <1>kept, <2>1, <3>1 DEF LatestCovers
    <2>6. ~overlapped => GapExplained'
        BY <1>kept, <2>1, <2>2 DEF GapExplained, Busy, Others, history, bounds
    <2>7. Alone(t) => Alone(t)'
        BY <2>1, <2>2, <2>3 DEF Alone, Held, history, bounds
    <2> QED  BY <1>step, <2>1, <2>2, <2>4, <2>5, <2>6, <2>7 DEF history
<1>4. ASSUME NEW t \in Thread,
             \/ StartSave(t) \/ CopySymbol(t) \/ CopyRest(t)
             \/ ReadSymbol(t) \/ ChoosePortfolio(t)
      PROVE  TurnInv'
    <2>1. UNCHANGED <<memory, file, history, bounds>> /\ pc[t] # "idle"
        BY <1>4
        DEF StartSave, CopySymbol, CopyRest, ReadSymbol, ChoosePortfolio, Loop,
            TakeSymbol, Go
    <2>2. /\ Others(t) /\ SameRequest(t) /\ pc'[t] \in {"copy", "replace", "read"}
          /\ Computed(t)' => Computed(t) /\ ClaimOf(t)' = ClaimOf(t)
          /\ Alone(t) => Alone(t)'
        <3>1. CASE StartSave(t)
            <4>1. pc[t] = "save" /\ Loop(t, "copy", Known(events))
                BY <3>1 DEF StartSave
            <4>2. Known(events) \in SUBSET Symbol
                BY DEF Known
            <4>3. /\ pc'[t] = "copy" /\ Others(t) /\ SameRequest(t)
                  /\ job'[t].rest = Known(events) /\ job'[t].copy = Empty
                  /\ job'[t].priced = job[t].priced /\ job'[t].portfolio = job[t].portfolio
                BY <4>1, <4>2, <1>ok, LoopEffect
            <4>4. \A s \in Symbol : s \notin Known(events) => Empty.events[s] = events[s]
                BY DEF Known, Empty, NoEvents
            <4>5. Alone(t) => Alone(t)'
                BY <2>1, <4>1, <4>3, <4>4
                DEF Alone, Held, SameRequest, memory, history, bounds
            <4> QED  BY <4>1, <4>3, <4>5 DEF Computed, SameRequest, ClaimOf
        <3>2. ASSUME NEW at \in {"copy", "read"}, TakeSymbol(t, at)
              PROVE  /\ Others(t) /\ SameRequest(t) /\ pc'[t] \in {"copy", "replace", "read"}
                     /\ Computed(t)' => Computed(t) /\ ClaimOf(t)' = ClaimOf(t)
                     /\ Alone(t) => Alone(t)'
            <4>1. pc[t] = at /\ job[t].rest \subseteq Symbol
                BY <3>2, <1>facts DEF TakeSymbol, Job
            <4>2. PICK s \in job[t].rest :
                     /\ pc' = pc /\ Others(t) /\ SameRequest(t)
                     /\ job'[t].priced = job[t].priced
                     /\ job'[t].portfolio = job[t].portfolio
                     /\ job'[t].rest = job[t].rest \ {s}
                     /\ \A z \in Symbol : job'[t].copy.events[z]
                            = IF z = s THEN events[z] ELSE job[t].copy.events[z]
                BY <3>2, <1>ok, TakeEffect
            <4>3. pc[t] = "copy" /\ Alone(t) =>
                      \A z \in Symbol : z \notin job'[t].rest =>
                          job'[t].copy.events[z] = events[z]
                BY <4>1, <4>2 DEF Alone
            <4>4. pc[t] = "read" => job[t].rest \subseteq job[t].portfolio.positions
                BY <1>facts DEF Locals
            <4>5. pc[t] = "read" /\ Alone(t) =>
                      \A z \in Symbol \ job'[t].rest : job'[t].copy.events[z]
                          = IF z \in job[t].portfolio.positions THEN events[z] ELSE <<>>
                BY <4>1, <4>2, <4>4 DEF Alone
            <4>6. Alone(t) => Alone(t)'
                BY <2>1, <4>1, <4>2, <4>3, <4>5
                DEF Alone, Held, SameRequest, memory, history, bounds
            <4> QED  BY <4>1, <4>2, <4>6 DEF Computed, SameRequest, ClaimOf
        <3>3. CASE CopyRest(t)
            <4>1. /\ pc[t] = "copy" /\ pc'[t] = "replace" /\ Others(t) /\ SameRequest(t)
                  /\ job'[t].priced = job[t].priced
                  /\ job'[t].portfolio = job[t].portfolio
                  /\ job[t].rest = {}
                  /\ job'[t].copy.events = job[t].copy.events
                  /\ job'[t].copy.portfolio = portfolio
                  /\ job'[t].copy.snapshots = snapshots
                BY <3>3, <1>ok, RestEffect
            <4>2. Alone(t) => job[t].copy.events = events
                <5>1. job[t].copy.events \in Events
                    BY <1>facts DEF Job, State
                <5> QED  BY <4>1, <5>1, <1>facts DEF Alone, Events
            <4>3. Alone(t) => Alone(t)'
                BY <2>1, <4>1, <4>2 DEF Alone, Held, SameRequest, memory, history, bounds
            <4> QED  BY <4>1, <4>3 DEF Computed, SameRequest, ClaimOf
        <3>4. CASE ChoosePortfolio(t)
            <4>1. /\ pc[t] = "price" /\ pc'[t] = "read" /\ Others(t) /\ SameRequest(t)
                  /\ job'[t].rest = job'[t].portfolio.positions
                  /\ job'[t].copy = Empty /\ job'[t].priced
                BY <3>4, <1>ok, ChooseEffect
            <4>2. \A s \in Symbol : Empty.events[s] = <<>>
                BY DEF Empty, NoEvents
            <4>3. job[t].id \notin recorded \/ ~Alone(t)
                BY <4>1 DEF Alone
            <4>4. Alone(t) => Alone(t)'
                BY <2>1, <4>1, <4>2, <4>3 DEF Alone, SameRequest, memory, history, bounds
            <4> QED  BY <4>1, <4>4 DEF Computed
        <3> QED  BY <1>4, <3>1, <3>2, <3>3, <3>4 DEF CopySymbol, ReadSymbol
    <2>3. job'[t].id = job[t].id
        BY <2>2 DEF SameRequest
    <2>4. ~overlapped => FileBehind' /\ AnswersStored'
        BY <1>kept, <2>1 DEF FileBehind, AnswersStored, Based, memory, history, bounds
    <2>5. ~overlapped => LatestCovers'
        <3>1. Settled' \subseteq Settled
            BY <2>1, <2>2, <2>3, SettledKept DEF history
        <3> QED  BY <1>kept, <2>1, <3>1 DEF LatestCovers, memory
    <2>6. ~overlapped => GapExplained'
        <3>1. \A u \in Busy : u \in Busy' /\ job'[u].id = job[u].id
            BY <2>2, <2>3 DEF Busy, Others
        <3> QED  BY <1>kept, <2>1, <3>1 DEF GapExplained, history, bounds
    <2> QED  BY <1>step, <2>1, <2>2, <2>4, <2>5, <2>6 DEF history
<1>5. ASSUME NEW t \in Thread,
             CopyRaises(t) \/ SaveFails(t) \/ Refuse(t) \/ ComputeRaises(t)
      PROVE  TurnInv'
    <2>1. /\ pc' = [pc EXCEPT ![t] = "idle"] /\ job' = [job EXCEPT ![t] = NoJob]
          /\ pc[t] # "idle" /\ lost' = lost \cup {job[t].id}
          /\ UNCHANGED <<memory, file, recorded, acked, priced, overlapped, ops>>
        BY <1>5 DEF CopyRaises, SaveFails, Refuse, ComputeRaises, Fail, Go, bounds
    <2>2. /\ pc'[t] = "idle" /\ Others(t)
        BY <2>1, <1>ok, EndEffect
    <2>3. ~overlapped => FileBehind' /\ AnswersStored'
        BY <1>kept, <2>1 DEF FileBehind, AnswersStored, Based, memory
    <2>4. ~overlapped => LatestCovers'
        <3>1. Settled' \subseteq Settled
            BY <2>1, <2>2, SettledKept DEF Computed, ClaimOf
        <3> QED  BY <1>kept, <2>1, <3>1 DEF LatestCovers, memory
    <2>5. ~overlapped => GapExplained'
        <3>1. \A u \in Busy : u = t \/ (u \in Busy' /\ job'[u].id = job[u].id)
            BY <2>2 DEF Busy, Others
        <3> QED  BY <1>kept, <2>1, <3>1 DEF GapExplained
    <2> QED  BY <1>step, <2>1, <2>2, <2>3, <2>4, <2>5
<1>6. ASSUME NEW t \in Thread, Answer(t) PROVE TurnInv'
    <2>1. /\ pc' = [pc EXCEPT ![t] = "idle"] /\ job' = [job EXCEPT ![t] = NoJob]
          /\ pc[t] = "answer"
          /\ acked' = acked \cup {<<job[t].op, job[t].id>>}
          /\ priced' = IF job[t].op = "event" /\ job[t].priced
                       THEN priced \cup {ClaimOf(t)} ELSE priced
          /\ UNCHANGED <<memory, file, recorded, lost, overlapped, ops>>
        BY <1>6 DEF Answer, Go, bounds, ClaimOf
    <2>2. /\ pc'[t] = "idle" /\ Others(t)
        BY <2>1, <1>ok, EndEffect
    <2>3. ~overlapped => FileBehind'
        BY <1>kept, <2>1 DEF FileBehind, Based, memory
    <2>4. Alone(t) => Held(t, file.events, file.portfolio, file.snapshots)
        BY <2>1 DEF Alone
    <2>5. job[t].op = "compute" => job[t].priced
        BY <2>1, <1>facts DEF Locals
    <2>6. ~overlapped /\ Alone(t) => AnswersStored'
        BY <1>kept, <2>1, <2>4, <2>5 DEF AnswersStored, Held, ClaimOf
    <2>7. ~overlapped => LatestCovers'
        <3>1. Settled' \subseteq Settled
            BY <2>1, <2>2, SettledKept DEF Computed, ClaimOf
        <3> QED  BY <1>kept, <2>1, <3>1 DEF LatestCovers, memory
    <2>8. ~overlapped /\ Alone(t) => GapExplained'
        <3>1. \A u \in Busy : u = t \/ (u \in Busy' /\ job'[u].id = job[u].id)
            BY <2>2 DEF Busy, Others
        <3>2. Alone(t) /\ job[t].id \in recorded => job[t].id \in IdsOf(file.snapshots)
            BY <2>4 DEF Alone, Held
        <3> QED  BY <1>kept, <2>1, <3>1, <3>2 DEF GapExplained
    <2> QED  BY <1>step, <2>1, <2>2, <2>3, <2>6, <2>7, <2>8
<1>7. ASSUME NEW t \in Thread, Replace(t) PROVE TurnInv'
    <2>1. /\ pc' = [pc EXCEPT ![t] = AfterSave(t)] /\ pc[t] = "replace" /\ job' = job
          /\ file' = job[t].copy
          /\ UNCHANGED <<memory, history, bounds>>
        BY <1>7 DEF Replace, Go
    <2>2. pc'[t] = AfterSave(t) /\ Others(t)
        BY <2>1, <1>ok, MoveEffect
    <2>3. /\ AfterSave(t) \in {"price", "answer"}
          /\ AfterSave(t) = "price" => ~job[t].priced
        BY DEF AfterSave
    <2>4. Alone(t) => /\ file'.events = events /\ file'.portfolio = portfolio
                      /\ file'.snapshots = snapshots
        BY <2>1 DEF Alone
    <2>5. ~overlapped /\ Alone(t) => FileBehind'
        BY <1>kept, <1>facts, <2>1, <2>4 DEF FileBehind, Based, memory, bounds
    <2>6. ~overlapped /\ Alone(t) => AnswersStored'
        <3>1. ~overlapped => /\ IdsIn(file.events) \subseteq IdsIn(events)
                             /\ IdsOf(file.snapshots) \subseteq IdsOf(snapshots)
                             /\ \A a \in acked : a[1] = "portfolio" => a[2] <= file.portfolio.id
                             /\ file.portfolio.id <= portfolio.id
            BY <1>kept DEF FileBehind, AnswersStored
        <3>2. \A a \in acked : a[2] \in Nat
            BY DEF TypeInv, TypeOK, Id
        <3>3. ~overlapped =>
                  \A a \in acked : a[1] = "portfolio" => a[2] <= portfolio.id
            BY <3>1, <3>2, <1>facts
        <3> QED  BY <1>kept, <2>1, <2>4, <3>1, <3>3 DEF AnswersStored, memory, history
    <2>7. ~overlapped => LatestCovers'
        <3>1. Settled' \subseteq Settled
            BY <2>1, <2>2, <2>3, SettledKept DEF Computed, ClaimOf, history
        <3> QED  BY <1>kept, <2>1, <3>1 DEF LatestCovers, memory
    <2>8. ~overlapped /\ Alone(t) => GapExplained'
        <3>1. \A u \in Busy : u \in Busy'
            BY <2>1, <2>2, <2>3 DEF Busy, Others
        <3>2. ~overlapped => IdsOf(file.snapshots) \subseteq IdsOf(snapshots)
            BY <1>kept DEF FileBehind
        <3> QED  BY <1>kept, <2>1, <2>4, <3>1, <3>2 DEF GapExplained, history, bounds
    <2>9. Alone(t) => Alone(t)'
        BY <2>1, <2>2, <2>3, <2>4 DEF Alone, Held, memory, history, bounds
    <2> QED  BY <1>step, <2>1, <2>2, <2>5, <2>6, <2>7, <2>8, <2>9 DEF history
<1>8. ASSUME NEW t \in Thread, AppendSnapshot(t) PROVE TurnInv'
    <2> DEFINE snapshot == [id |-> job[t].id, basis |-> IdsIn(job[t].copy.events),
                            portfolio |-> job[t].portfolio]
    <2>1. /\ pc' = [pc EXCEPT ![t] = "record"] /\ pc[t] = "read" /\ job' = job
          /\ snapshots' = Append(snapshots, snapshot)
          /\ job[t].rest = {}
          /\ UNCHANGED <<events, portfolio, file, history, bounds>>
        BY <1>8 DEF AppendSnapshot, Go
    <2>2. /\ snapshot \in Snapshot /\ job[t].copy.events \in Events
        <3>1. job[t].copy.events \in Events
            BY <1>facts DEF Job, State
        <3>2. job[t].id \in Id /\ job[t].portfolio \in Portfolio
            BY <2>1, <1>facts DEF Locals
        <3> QED  BY <3>1, <3>2, IdsInType DEF Snapshot
    <2>3. Alone(t) =>
              /\ IdsIn(job[t].copy.events) \subseteq IdsIn(events)
              /\ \A s \in job[t].portfolio.positions :
                     s \in Symbol => ToSet(events[s]) \subseteq IdsIn(job[t].copy.events)
        <3> SUFFICES ASSUME Alone(t)
                     PROVE  /\ IdsIn(job[t].copy.events) \subseteq IdsIn(events)
                            /\ \A s \in job[t].portfolio.positions :
                                   s \in Symbol =>
                                       ToSet(events[s]) \subseteq IdsIn(job[t].copy.events)
            OBVIOUS
        <3>1. \A s \in Symbol : job[t].copy.events[s]
                  = IF s \in job[t].portfolio.positions THEN events[s] ELSE <<>>
            BY <2>1 DEF Alone
        <3>2. ToSet(<<>>) = {}
            BY DEF ToSet
        <3>3. \A s \in Symbol : ToSet(job[t].copy.events[s]) \subseteq ToSet(events[s])
            BY <3>1, <3>2
        <3>4. ASSUME NEW x \in IdsIn(job[t].copy.events) PROVE x \in IdsIn(events)
            BY <2>2, <3>3, <3>4, <1>facts, IdsInBook
        <3>5. ASSUME NEW s \in job[t].portfolio.positions, s \in Symbol,
                     NEW x \in ToSet(events[s])
              PROVE  x \in IdsIn(job[t].copy.events)
            <4>1. x \in ToSet(job[t].copy.events[s])
                BY <3>1, <3>5
            <4> QED  BY <2>2, <3>5, <4>1, IdsInBook
        <3> QED  BY <3>4, <3>5
    <2>4. /\ snapshot.id = job[t].id
          /\ snapshot.portfolio = job[t].portfolio
          /\ Alone(t) => snapshot.basis \subseteq IdsIn(events)
          /\ Alone(t) => \A s \in Symbol \cap snapshot.portfolio.positions :
                             ToSet(events[s]) \subseteq snapshot.basis
        BY <2>3
    <2> HIDE DEF snapshot
    <2>5. /\ IdsOf(snapshots') = IdsOf(snapshots) \cup {job[t].id}
          /\ snapshots' # <<>> /\ Last(snapshots') = snapshot
          /\ \A book : Based(snapshots, book) /\ snapshot.basis \subseteq IdsIn(book)
                           => Based(snapshots', book)
        BY <2>1, <2>2, <2>4, <1>facts, IdsOfAppend
    <2>6. pc'[t] = "record" /\ Others(t)
        BY <2>1, <1>ok, MoveEffect
    <2>7. ~overlapped /\ Alone(t) => FileBehind' /\ AnswersStored'
        <3>1. ~overlapped /\ Alone(t) => Based(snapshots', events)
            BY <1>kept, <2>4, <2>5 DEF FileBehind
        <3>2. ~overlapped => Based(file.snapshots, file.events)'
            BY <1>kept, <2>1 DEF FileBehind, Based
        <3>3. ~overlapped /\ Alone(t) => Based(snapshots, events)'
            BY <3>1, <2>1 DEF Based
        <3> QED  BY <1>kept, <2>1, <2>5, <3>2, <3>3
                 DEF FileBehind, AnswersStored, history, bounds
    <2>8. Alone(t) => LatestCovers'
        <3>1. \A u \in Thread \ {t} :
                  (Computed(u)' <=> Computed(u)) /\ ClaimOf(u)' = ClaimOf(u)
            BY <2>6 DEF Others, Computed, ClaimOf
        <3>2. ClaimOf(t)' = ClaimOf(t) /\ (Computed(t)' => job[t].op = "event")
            BY <2>1 DEF Computed, ClaimOf
        <3>3. \A d \in Settled' : d \in Settled \/ (job[t].op = "event" /\ d = ClaimOf(t))
            BY <2>1, <3>1, <3>2 DEF Settled, history
        <3>4. job[t].op = "event" => /\ ClaimOf(t).symbol \in Symbol
                                     /\ ClaimOf(t).id \in ToSet(events[ClaimOf(t).symbol])
            BY <2>1, <1>facts DEF Locals, Job, ClaimOf
        <3>5. \A d \in Settled' :
                  d.symbol \in Symbol /\ d.id \in ToSet(events[d.symbol])
            BY <3>3, <3>4, <1>settled
        <3> QED  BY <2>4, <2>5, <3>5 DEF LatestCovers
    <2>9. ~overlapped => GapExplained'
        BY <1>kept, <2>1, <2>6 DEF GapExplained, Busy, Others, history, bounds
    <2>10. Alone(t) => Alone(t)'
        BY <2>1, <2>5, <2>6 DEF Alone, history, bounds
    <2> QED  BY <1>step, <2>1, <2>6, <2>7, <2>8, <2>9, <2>10 DEF history
<1>9. ASSUME NEW t \in Thread, Record(t) PROVE TurnInv'
    <2>1. /\ pc' = [pc EXCEPT ![t] = "save"] /\ pc[t] = "record" /\ job' = job
          /\ recorded' = recorded \cup {job[t].id}
          /\ UNCHANGED <<memory, file, acked, priced, lost, overlapped, bounds>>
        BY <1>9 DEF Record, Go
    <2>2. pc'[t] = "save" /\ Others(t)
        BY <2>1, <1>ok, MoveEffect
    <2>3. job[t].priced /\ job[t].op \in {"event", "compute"} /\ job[t].id \in 1..ops
        BY <2>1, <1>facts DEF Locals
    <2>4. job[t].op = "event" => job[t].id \in IdsIn(events)
        BY <2>1, <1>facts, IdsInBook DEF Locals, Job
    <2>5. ~overlapped => FileBehind' /\ AnswersStored'
        BY <1>kept, <2>1 DEF FileBehind, AnswersStored, Based, memory, bounds
    <2>6. ~overlapped => LatestCovers'
        <3>1. Settled' \subseteq Settled
            BY <2>1, <2>2, SettledKept DEF Computed, ClaimOf
        <3> QED  BY <1>kept, <2>1, <3>1 DEF LatestCovers, memory
    <2>7. ~overlapped => GapExplained'
        <3>1. \A u \in Busy : u \in Busy'
            BY <2>1, <2>2 DEF Busy, Others
        <3>2. t \in Busy'
            BY <2>2 DEF Busy
        <3>3. ops' = ops /\ job' = job /\ file' = file /\ lost' = lost
            BY <2>1 DEF bounds
        <3>4. ~overlapped => recorded' \subseteq 1..ops
            BY <1>kept, <2>1, <2>3 DEF GapExplained
        <3>5. ~overlapped => recorded' \ IdsOf(file.snapshots)
                                \subseteq lost \cup {job[u].id : u \in Busy'}
            BY <1>kept, <2>1, <3>1, <3>2 DEF GapExplained
        <3> QED  BY <3>3, <3>4, <3>5 DEF GapExplained
    <2>8. Alone(t) => Alone(t)'
        BY <2>1, <2>2, <2>3, <2>4 DEF Alone, Held, memory, bounds
    <2> QED  BY <1>step, <2>1, <2>2, <2>5, <2>6, <2>7, <2>8
<1>10. CASE Restart
    <2>1. /\ events' = file.events /\ portfolio' = file.portfolio
          /\ snapshots' = file.snapshots /\ file' = file
          /\ lost' = lost \cup {job[t].id : t \in {u \in Thread : pc[u] # "idle"}}
          /\ priced' = {}
          /\ pc' = [t \in Thread |-> "idle"] /\ job' = [t \in Thread |-> NoJob]
          /\ UNCHANGED <<recorded, acked, overlapped, ops>>
        BY <1>10 DEF Restart
    <2> SUFFICES ASSUME ~overlapped PROVE TurnInv'
        BY <2>1 DEF TurnInv
    <2>2. Settled' = {} /\ Busy' = {}
        BY <2>1 DEF Settled, Computed, Busy
    <2>3. FileBehind'
        BY <1>kept, <1>facts, <2>1 DEF FileBehind, Based
    <2>4. AnswersStored' /\ LatestCovers'
        BY <1>kept, <2>1, <2>2 DEF AnswersStored, LatestCovers
    <2>5. GapExplained'
        BY <1>kept, <2>1, <2>2 DEF GapExplained, Busy
    <2> QED  BY <2>1, <2>2, <2>3, <2>4, <2>5 DEF TurnInv
<1>11. CASE UNCHANGED vars
    <2>1. UNCHANGED <<memory, file, history, pc, job, bounds>>
        BY <1>11 DEF vars
    <2>2. Settled' = Settled /\ Busy' = Busy
        BY <2>1 DEF Settled, Computed, ClaimOf, Busy, history
    <2> SUFFICES ASSUME ~overlapped PROVE TurnInv'
        BY <2>1 DEF TurnInv, history
    <2>3. FileBehind' /\ AnswersStored' /\ LatestCovers' /\ GapExplained'
        BY <1>kept, <2>1, <2>2
        DEF FileBehind, AnswersStored, LatestCovers, GapExplained, Based,
            memory, history, bounds
    <2>4. \A t \in Busy : Alone(t) => Alone(t)'
        BY <2>1 DEF Alone, Held, memory, history, bounds
    <2> QED  BY <2>1, <2>2, <2>3, <2>4 DEF TurnInv, history
<1> QED
    BY <1>1, <1>2, <1>3, <1>4, <1>5, <1>6, <1>7, <1>8, <1>9, <1>10, <1>11
    DEF Next, Step, Save, Compute

\* At the start there is nothing to rank and nothing to store.
LEMMA InitRankTurn == Init => RankInv /\ TurnInv
<1> SUFFICES ASSUME Init PROVE RankInv /\ TurnInv
    OBVIOUS
<1>1. /\ events = NoEvents /\ portfolio = NoPortfolio /\ snapshots = <<>> /\ file = Empty
      /\ \A t \in Thread : pc[t] = "idle"
      /\ recorded = {} /\ acked = {} /\ priced = {} /\ ops = 0
    BY DEF Init, None
<1>2. Settled = {} /\ Busy = {}
    BY <1>1 DEF Settled, Computed, Busy
<1>3. /\ IdsIn(events) = {} /\ portfolio.id = 0
      /\ \A s \in Symbol : ToSet(events[s]) = {}
    <2>1. IdsIn(events) = {} /\ portfolio.id = 0
        BY <1>1, EmptyType
    <2>2. \A s \in Symbol : ToSet(events[s]) = {}
        BY <1>1 DEF NoEvents, ToSet
    <2> QED  BY <2>1, <2>2
<1>4. RankInv
    <2> DEFINE r == [s \in Symbol |-> [x \in Id |-> 0]]
    <2>1. r \in Moments
        BY DEF Moments
    <2>2. Ranked(r, 1)
        BY <1>1, <1>2, <1>3 DEF Ranked, Reading
    <2> QED  BY <2>1, <2>2 DEF RankInv
<1>5. /\ file.events = events /\ file.portfolio.id = 0 /\ file.snapshots = <<>>
    BY <1>1, <1>3 DEF Empty
<1>6. Len(snapshots) = 0
    BY <1>1
<1>7. FileBehind
    BY <1>1, <1>3, <1>5, <1>6 DEF FileBehind, Based
<1>8. AnswersStored /\ LatestCovers /\ GapExplained
    BY <1>1, <1>2 DEF AnswersStored, LatestCovers, GapExplained
<1> QED  BY <1>1, <1>2, <1>4, <1>7, <1>8 DEF TurnInv

\* Of some things with numbers below n, one has the greatest.
LEMMA NewestIsThere ==
    ASSUME NEW S, S # {}, NEW g \in [S -> Nat], NEW n \in Nat,
           \A x \in S : g[x] < n
    PROVE  \E e \in S : \A x \in S : g[x] <= g[e]
<1> DEFINE T == {n - g[x] : x \in S}
<1>1. T \subseteq Nat /\ T # {}
    <2>1. \A x \in S : g[x] \in Nat /\ n - g[x] \in Nat
        OBVIOUS
    <2> QED  BY <2>1
<1>2. PICK d \in T : \A y \in T : ~ (<<y, d>> \in OpToRel(<, Nat))
    BY <1>1, NatLessThanWellFounded, WFMin, Zenon
<1>3. PICK e \in S : d = n - g[e]
    BY <1>2, Zenon
<1>4. ASSUME NEW x \in S PROVE g[x] <= g[e]
    <2>0. n - g[x] \in T
        BY Zenon
    <2> HIDE DEF T
    <2>1. n - g[x] \in T /\ n - g[x] \in Nat /\ d \in Nat
        BY <2>0, <1>1, <1>2, Zenon
    <2>2. ~ (n - g[x] < d)
        BY <2>1, <1>2 DEF OpToRel
    <2>3. g[x] \in Nat /\ g[e] \in Nat
        OBVIOUS
    <2> QED  BY <2>2, <2>3, <1>3
<1> QED  BY <1>4

\* All that is known of a reachable state.
LEMMA Reached == Spec => [](TypeInv /\ RankInv /\ TurnInv)
<1>1. TypeInv /\ RankInv /\ TurnInv /\ [Next]_vars => (TypeInv /\ RankInv /\ TurnInv)'
    BY StepTypeInv, StepRankInv, StepTurnInv
<1>2. Init => TypeInv /\ RankInv /\ TurnInv
    BY InitTypeInv, InitRankTurn
<1> QED  BY <1>1, <1>2, PTL DEF Spec

\* Whatever symbols one asks for: among the snapshots is one computed from every
\* event of theirs that was answered after a computation over all of them, however
\* many requests overlap, whichever portfolios they bring and in whatever order
\* each reads the symbols; without overlaps the newest snapshot has every answered
\* event of the symbols it is about.
THEOREM PricedIsCovered == Spec => []SnapshotsCoverPriced
<1>1. TypeInv /\ RankInv /\ TurnInv => SnapshotsCoverPriced
    <2> SUFFICES ASSUME TypeInv, RankInv, TurnInv PROVE SnapshotsCoverPriced
        OBVIOUS
    <2>1. events \in Events /\ DOMAIN snapshots = 1..Len(snapshots)
        BY TypeFacts, LenProperties
    <2>2. priced \subseteq Settled
        BY DEF Settled
    <2>3. PICK r \in Moments : \E n \in Nat : Ranked(r, n)
        BY DEF RankInv
    <2>4. PICK n \in Nat : Ranked(r, n)
        BY <2>3
    <2>5. \A c \in priced : /\ c.symbol \in Symbol /\ c.id \in Id
                            /\ c.id \in ToSet(events[c.symbol]) /\ Covered(r, c)
        BY <2>2, <2>4, SettledType DEF Ranked
    <2>6. \A c \in priced : r[c.symbol][c.id] \in Nat /\ r[c.symbol][c.id] < n
        BY <2>4, <2>5 DEF Ranked, Moments
    <2>7. ASSUME NEW symbols \in SUBSET Symbol, Due(symbols) # {}
          PROVE  \E i \in DOMAIN snapshots :
                     \A c \in Due(symbols) : c.id \in snapshots[i].basis
        <3> DEFINE S == Due(symbols)
                   g == [c \in S |-> r[c.symbol][c.id]]
        <3>1. S \subseteq priced /\ S # {}
            BY <2>7 DEF Due
        <3>2. g \in [S -> Nat] /\ \A c \in S : g[c] = r[c.symbol][c.id] /\ g[c] < n
            BY <2>6, <3>1
        <3> HIDE DEF g, S
        <3>3. PICK e \in S : \A c \in S : g[c] <= g[e]
            BY <2>4, <3>1, <3>2, NewestIsThere
        <3>4. PICK i \in 1..Len(snapshots) :
                  \A s \in e.held : Earlier(r, e, s) \subseteq snapshots[i].basis
            BY <2>5, <3>1, <3>3 DEF Covered
        <3>5. ASSUME NEW c \in S PROVE c.id \in snapshots[i].basis
            <4>1. c.symbol \in e.held
                BY <3>3, <3>5 DEF S, Due
            <4>2. c.id \in Earlier(r, e, c.symbol)
                BY <2>5, <3>1, <3>2, <3>3, <3>5 DEF Earlier
            <4> QED  BY <3>4, <4>1, <4>2
        <3> QED  BY <2>1, <3>5 DEF S
    <2>8. SomeSnapshotCoversPriced
        BY <2>7 DEF SomeSnapshotCoversPriced
    <2>9. LatestCoversPricedInTurn
        BY <2>2 DEF TurnInv, LatestCovers, LatestCoversPricedInTurn
    <2> QED  BY <2>8, <2>9 DEF SnapshotsCoverPriced
<1> QED  BY <1>1, Reached, PTL

\* Without overlaps every answered event, portfolio and computation is in the
\* stored document, with all that its snapshots were computed from, whatever
\* saves failed and whenever the process stopped.
THEOREM AnswersAreStoredInTurn == Spec => []AckedStoredInTurn
<1>1. TypeInv /\ TurnInv => AckedStoredInTurn
    <2> SUFFICES ASSUME TypeInv, TurnInv, ~overlapped
                 PROVE  /\ \A a \in acked :
                               CASE a[1] = "event"     -> a[2] \in IdsIn(file.events)
                                 [] a[1] = "compute"   -> a[2] \in IdsOf(file.snapshots)
                                 [] a[1] = "portfolio" -> a[2] <= file.portfolio.id
                        /\ \A c \in priced : c.id \in IdsOf(file.snapshots)
                        /\ \A i \in DOMAIN file.snapshots :
                               file.snapshots[i].basis \subseteq IdsIn(file.events)
        BY DEF AckedStoredInTurn
    <2>1. AnswersStored /\ FileBehind
        BY DEF TurnInv
    <2>2. \A a \in acked : a[1] \in {"event", "portfolio", "compute"}
        BY DEF TypeInv, TypeOK
    <2>3. \A a \in acked :
              CASE a[1] = "event"     -> a[2] \in IdsIn(file.events)
                [] a[1] = "compute"   -> a[2] \in IdsOf(file.snapshots)
                [] a[1] = "portfolio" -> a[2] <= file.portfolio.id
        BY <2>1, <2>2 DEF AnswersStored
    <2>4. DOMAIN file.snapshots = 1..Len(file.snapshots)
        <3>1. file.snapshots \in Seq(Snapshot)
            BY TypeFacts DEF State
        <3> QED  BY <3>1, LenProperties
    <2>5. \A i \in DOMAIN file.snapshots :
              file.snapshots[i].basis \subseteq IdsIn(file.events)
        BY <2>1, <2>4 DEF FileBehind, Based
    <2> QED  BY <2>1, <2>3, <2>5 DEF AnswersStored
<1> QED  BY <1>1, Reached, PTL

\* Without overlaps a block on the ledger that has no stored snapshot belongs
\* to a request that is under way or that failed.
THEOREM GapIsExplained == Spec => []LedgerGapUnanswered
<1>1. TurnInv => LedgerGapUnanswered
    BY DEF TurnInv, GapExplained, Busy, LedgerGapUnanswered
<1> QED  BY <1>1, Reached, PTL

-----------------------------------------------------------------------------
(* The metrics: the order of fractions, and sorting.                       *)

\* Where Before orders the elements of a finite set, the number of those before
\* an element grows with it, and every number below the size of the set occurs.
LEMMA RankOnto ==
    ASSUME NEW S, IsFiniteSet(S), NEW Before,
           \A i \in S : <<i, i>> \notin Before,
           \A i, j, k \in S :
               <<i, j>> \in Before /\ <<j, k>> \in Before => <<i, k>> \in Before,
           \A i, j \in S : i # j => <<i, j>> \in Before \/ <<j, i>> \in Before
    PROVE  /\ Cardinality(S) \in Nat
           /\ \A i, j \in S : <<i, j>> \in Before =>
                  Cardinality({k \in S : <<k, i>> \in Before})
                      < Cardinality({k \in S : <<k, j>> \in Before})
           /\ \A n \in 1..Cardinality(S) : \E i \in S :
                  Cardinality({k \in S : <<k, i>> \in Before}) = n - 1
<1> DEFINE below(i) == {k \in S : <<k, i>> \in Before}
           rank(i)  == Cardinality(below(i))
           place    == [i \in S |-> rank(i) + 1]
           size     == Cardinality(S)
<1>1. size \in Nat
    BY FS_CardinalityType
<1>2. ASSUME NEW i \in S PROVE IsFiniteSet(below(i)) /\ rank(i) \in Nat /\ rank(i) < size
    <2>1. below(i) \in SUBSET S /\ below(i) # S
        OBVIOUS
    <2>2. /\ IsFiniteSet(below(i)) /\ rank(i) <= size /\ rank(i) # size
        BY <2>1, FS_Subset
    <2>3. rank(i) \in Nat
        BY <2>2, FS_CardinalityType
    <2> QED  BY <1>1, <2>2, <2>3
<1>3. ASSUME NEW i \in S, NEW j \in S, <<i, j>> \in Before PROVE rank(i) < rank(j)
    <2>1. below(i) \cup {i} \in SUBSET below(j) /\ i \notin below(i)
        BY <1>3
    <2>2. Cardinality(below(i) \cup {i}) = rank(i) + 1
        BY <1>2, <2>1, FS_AddElement
    <2>3. Cardinality(below(i) \cup {i}) <= rank(j)
        BY <1>2, <2>1, FS_Subset
    <2>4. rank(i) \in Nat /\ rank(j) \in Nat
        BY <1>2
    <2> HIDE DEF rank
    <2> QED  BY <2>2, <2>3, <2>4
<1>4. place \in Injection(S, 1..size)
    <2>1. ASSUME NEW i \in S PROVE rank(i) + 1 \in 1..size
        <3>1. rank(i) \in Nat /\ rank(i) < size
            BY <1>2
        <3> HIDE DEF rank, size
        <3> QED  BY <1>1, <3>1
    <2>2. place \in [S -> 1..size]
        BY <2>1
    <2>3. ASSUME NEW i \in S, NEW j \in S, i # j PROVE rank(i) # rank(j)
        <3>1. rank(i) \in Nat /\ rank(j) \in Nat
            BY <1>2
        <3>2. rank(i) < rank(j) \/ rank(j) < rank(i)
            BY <1>3, <2>3
        <3> HIDE DEF rank
        <3> QED  BY <3>1, <3>2
    <2>4. ASSUME NEW i \in S, NEW j \in S, place[i] = place[j] PROVE i = j
        <3>1. rank(i) \in Nat /\ rank(j) \in Nat /\ rank(i) + 1 = rank(j) + 1
            BY <1>2, <2>4
        <3>2. rank(i) = rank(j)
            BY <3>1
        <3> QED  BY <2>3, <3>2
    <2> HIDE DEF place
    <2> QED  BY <2>2, <2>4 DEF Injection, IsInjective
<1>5. IsFiniteSet(1..size) /\ Cardinality(1..size) = size
    BY <1>1, FS_Interval
<1>6. place \in Surjection(S, 1..size)
    BY <1>4, <1>5, FS_Injection
<1>7. ASSUME NEW n \in 1..size PROVE \E i \in S : rank(i) = n - 1
    <2>1. PICK i \in S : place[i] = n
        BY <1>6 DEF Surjection
    <2>2. rank(i) + 1 = n /\ rank(i) \in Nat
        BY <1>2, <2>1
    <2>3. rank(i) = n - 1
        BY <2>2
    <2> QED  BY <2>3
<1> QED  BY <1>1, <1>3, <1>7

Fraction == Int \X (Nat \ {0})

\* A positive factor changes no order.
LEMMA ScaleOrder ==
    ASSUME NEW x \in Int, NEW y \in Int, NEW z \in Nat \ {0}
    PROVE  x <= y <=> x * z <= y * z
<1>1. (y - x) * z = y * z - x * z
    BY SMT
<1>2. y - x >= 0 => (y - x) * z >= 0
    BY SMT
<1>3. y - x < 0 => (y - x) * z < 0
    BY SMT
<1>4. x * z \in Int /\ y * z \in Int
    BY SMT
<1>5. y - x >= 0 <=> y * z - x * z >= 0
    BY <1>1, <1>2, <1>3
<1> QED  BY <1>4, <1>5

\* Products of three factors in any order.
LEMMA Products ==
    ASSUME NEW x \in Int, NEW y \in Int, NEW z \in Int
    PROVE  /\ x * y \in Int /\ x * y = y * x
           /\ (x * y) * z = (x * z) * y /\ (x * y) * z = x * (y * z)
OBVIOUS

\* The parts of a fraction.
LEMMA FractionParts ==
    ASSUME NEW a \in Fraction
    PROVE  a[1] \in Int /\ a[2] \in Nat \ {0} /\ a[2] \in Int
BY DEF Fraction

\* Not larger than is transitive.
LEMMA AtMostTransitive ==
    ASSUME NEW a \in Fraction, NEW b \in Fraction, NEW c \in Fraction,
           ~Less(b, a), ~Less(c, b)
    PROVE  ~Less(c, a)
<1> DEFINE a1 == a[1]
           a2 == a[2]
           b1 == b[1]
           b2 == b[2]
           c1 == c[1]
           c2 == c[2]
<1>1. /\ a1 \in Int /\ b1 \in Int /\ c1 \in Int
      /\ a2 \in Nat \ {0} /\ b2 \in Nat \ {0} /\ c2 \in Nat \ {0}
    BY FractionParts
<1>2. ~(b1 * a2 < a1 * b2) /\ ~(c1 * b2 < b1 * c2)
    BY DEF Less
<1>a. a1 \in Int /\ a2 \in Int /\ b1 \in Int /\ b2 \in Int /\ c1 \in Int /\ c2 \in Int
    BY <1>1
<1> SUFFICES ~(c1 * a2 < a1 * c2)
    BY DEF Less
<1> HIDE DEF a1, a2, b1, b2, c1, c2
<1>3. a1 * b2 <= b1 * a2 /\ b1 * c2 <= c1 * b2
    BY <1>a, <1>2, Products
<1>4. (a1 * b2) * c2 <= (b1 * a2) * c2 /\ (b1 * c2) * a2 <= (c1 * b2) * a2
    BY <1>1, <1>a, <1>3, ScaleOrder, Products
<1>5. /\ (a1 * b2) * c2 = (a1 * c2) * b2 /\ (b1 * a2) * c2 = (b1 * c2) * a2
      /\ (c1 * b2) * a2 = (c1 * a2) * b2
    BY <1>a, Products
<1>6. (a1 * c2) * b2 \in Int /\ (b1 * c2) * a2 \in Int /\ (c1 * a2) * b2 \in Int
    BY <1>a, Products
<1>7. (a1 * c2) * b2 <= (c1 * a2) * b2
    BY <1>4, <1>5, <1>6
<1>8. a1 * c2 \in Int /\ c1 * a2 \in Int
    BY <1>a, Products
<1>9. a1 * c2 <= c1 * a2
    BY <1>1, <1>7, <1>8, ScaleOrder
<1> QED  BY <1>8, <1>9

\* One of two fractions is not larger than the other.
LEMMA AtMostTotal ==
    ASSUME NEW a \in Fraction, NEW b \in Fraction
    PROVE  ~Less(a, a) /\ (~Less(a, b) \/ ~Less(b, a))
<1>1. a[1] * b[2] \in Int /\ b[1] * a[2] \in Int /\ a[1] * a[2] \in Int
    BY FractionParts, Products
<1> QED  BY <1>1 DEF Less

\* The order by which Sorted puts the return at place j ahead of that at i.
Ahead(r, j, i) == Less(r[j], r[i]) \/ (~Less(r[i], r[j]) /\ j < i)

\* The return at place k of the sorted series has k - 1 returns ahead of it.
LEMMA SortedAt ==
    ASSUME NEW r \in Seq(Fraction), NEW k \in 1..Len(r)
    PROVE  \E i \in 1..Len(r) :
               /\ Sorted(r)[k] = r[i]
               /\ Cardinality({j \in 1..Len(r) : Ahead(r, j, i)}) = k - 1
<1> DEFINE S == 1..Len(r)
           Before == {p \in S \X S : Ahead(r, p[1], p[2])}
           count(i) == Cardinality({j \in S : Ahead(r, j, i)})
<1>1. DOMAIN r = S /\ Len(r) \in Nat /\ S \subseteq Nat
    BY LenProperties
<1>2. \A i \in S : r[i] \in Fraction
    BY ElementOfSeq
<1>3. IsFiniteSet(S) /\ Cardinality(S) = Len(r)
    BY <1>1, FS_Interval
<1>4. ASSUME NEW i \in S PROVE ~Ahead(r, i, i)
    BY <1>1, <1>2, AtMostTotal DEF Ahead
<1>5. ASSUME NEW i \in S, NEW j \in S, i # j PROVE Ahead(r, i, j) \/ Ahead(r, j, i)
    BY <1>1, <1>2, <1>5, AtMostTotal DEF Ahead
<1>6. ASSUME NEW i \in S, NEW j \in S, NEW l \in S, Ahead(r, i, j), Ahead(r, j, l)
      PROVE  Ahead(r, i, l)
    <2>1. r[i] \in Fraction /\ r[j] \in Fraction /\ r[l] \in Fraction
        BY <1>2
    <2>2. ~Less(r[j], r[i]) /\ ~Less(r[l], r[j])
        BY <1>6, <2>1, AtMostTotal DEF Ahead
    <2>3. ~Less(r[l], r[i])
        BY <2>1, <2>2, AtMostTransitive
    <2>4. CASE Less(r[i], r[l])
        BY <2>4 DEF Ahead
    <2>5. CASE ~Less(r[i], r[l])
        <3>1. ~Less(r[i], r[j])
            BY <2>1, <2>2, <2>5, AtMostTransitive
        <3>2. ~Less(r[j], r[l])
            BY <2>1, <2>2, <2>5, AtMostTransitive
        <3>3. i < j /\ j < l
            BY <1>6, <3>1, <3>2 DEF Ahead
        <3>4. i < l
            BY <1>1, <3>3
        <3> QED  BY <2>3, <3>4 DEF Ahead
    <2> QED  BY <2>4, <2>5
<1>7. \A i, j \in S : <<i, j>> \in Before <=> Ahead(r, i, j)
    OBVIOUS
<1> HIDE DEF S, Before
<1>8. /\ \A i \in S : <<i, i>> \notin Before
      /\ \A i, j, l \in S :
             <<i, j>> \in Before /\ <<j, l>> \in Before => <<i, l>> \in Before
      /\ \A i, j \in S : i # j => <<i, j>> \in Before \/ <<j, i>> \in Before
    BY <1>4, <1>5, <1>6, <1>7
<1>9. \A n \in 1..Cardinality(S) : \E i \in S :
          Cardinality({j \in S : <<j, i>> \in Before}) = n - 1
    BY <1>3, <1>8, RankOnto
<1>10. \A i \in S : {j \in S : <<j, i>> \in Before} = {j \in S : Ahead(r, j, i)}
    BY <1>7
<1>11. \E i \in S : count(i) = k - 1
    <2>1. k \in 1..Cardinality(S)
        BY <1>3 DEF S
    <2>2. PICK i \in S : Cardinality({j \in S : <<j, i>> \in Before}) = k - 1
        BY <1>9, <2>1
    <2> QED  BY <1>10, <2>2
<1> DEFINE place == CHOOSE i \in S : count(i) = k - 1
<1>12. place \in S /\ count(place) = k - 1
    BY <1>11
<1>13. Sorted(r)[k] = r[place]
    <2>1. k \in S
        BY DEF S
    <2> QED  BY <1>1, <1>3, <2>1 DEF Sorted, InOrder, Ahead
<1> QED  BY <1>12, <1>13 DEF S

\* The tail does not reach the whole series, and is rounded down.
LEMMA TailRange ==
    ASSUME NEW n \in Nat \ {0}
    PROVE  /\ TailIndex(n) \in Nat
           /\ 100 * TailIndex(n) <= (100 - Confidence) * n
           /\ (100 - Confidence) * n < 100 * (TailIndex(n) + 1)
           /\ (100 - Confidence) * n < 100 * n
<1> DEFINE m == (100 - Confidence) * n
<1>1. m \in Nat /\ m < 100 * n
    <2>1. 100 - Confidence \in 0..99
        BY ParametersAssumption
    <2> DEFINE c == 100 - Confidence
    <2>2. c \in 0..99
        BY <2>1
    <2> HIDE DEF c
    <2>3. c * n \in Nat /\ (100 - c) * n > 0 /\ (100 - c) * n = 100 * n - c * n
        BY <2>2
    <2>4. c * n < 100 * n
        BY <2>3
    <2> QED  BY <2>3, <2>4 DEF c
<1>2. TailIndex(n) = m \div 100
    BY DEF TailIndex
<1> HIDE DEF m
<1>3. m \div 100 \in Nat /\ 100 * (m \div 100) <= m /\ m < 100 * ((m \div 100) + 1)
    BY <1>1
<1> QED  BY <1>1, <1>2, <1>3 DEF m

\* The smaller of two numbers.
LEMMA MinOfTwo ==
    ASSUME NEW x \in Nat, NEW y \in Nat
    PROVE  /\ Min({x, y}) \in {x, y}
           /\ Min({x, y}) <= x /\ Min({x, y}) <= y
<1> DEFINE least(v) == v \in {x, y} /\ \A w \in {x, y} : v <= w
<1>1. \E v \in {x, y} : \A w \in {x, y} : v <= w
    <2>1. CASE x <= y
        BY <2>1
    <2>2. CASE ~(x <= y)
        BY <2>2
    <2> QED  BY <2>1, <2>2
<1>2. least(Min({x, y}))
    BY <1>1 DEF Min
<1> QED  BY <1>2

-----------------------------------------------------------------------------
(* The value at risk.                                                      *)

\* What VaRIsQuantile says, of any series.
IsQuantile(r, var) ==
    LET worse == Cardinality({i \in DOMAIN r : Less(r[i], var)})
        upTo  == Cardinality({i \in DOMAIN r : ~Less(var, r[i])})
    IN  /\ 100 * worse <= (100 - Confidence) * Len(r)
        /\ 100 * upTo > (100 - Confidence) * Len(r)

\* _historical_var returns the quantile of every series of returns.
LEMMA VaROfSeries ==
    ASSUME NEW r \in Seq(Fraction), r # <<>>
    PROVE  IsQuantile(r, HistoricalVaR(r))
<1> DEFINE n == Len(r)
           tail == TailIndex(n)
           k == Min({n, tail + 1})
           ahead(i) == {j \in 1..n : Ahead(r, j, i)}
<1>1. n \in Nat \ {0} /\ DOMAIN r = 1..n
    BY EmptySeq, LenProperties
<1>2. /\ tail \in Nat /\ 100 * tail <= (100 - Confidence) * n
      /\ (100 - Confidence) * n < 100 * (tail + 1)
      /\ (100 - Confidence) * n < 100 * n
    BY <1>1, TailRange
<1>3. k \in {n, tail + 1} /\ k <= n /\ k <= tail + 1
    BY <1>1, <1>2, MinOfTwo
<1> HIDE DEF k, tail
<1>4. k \in 1..n /\ k - 1 <= tail
    BY <1>1, <1>2, <1>3
<1>5. PICK i \in 1..n : Sorted(r)[k] = r[i] /\ Cardinality(ahead(i)) = k - 1
    BY <1>4, SortedAt
<1>6. HistoricalVaR(r) = r[i]
    BY <1>5 DEF HistoricalVaR, k, tail
<1>7. \A j \in 1..n : r[j] \in Fraction
    BY ElementOfSeq
<1> DEFINE worse == {j \in 1..n : Less(r[j], r[i])}
           upTo  == {j \in 1..n : ~Less(r[i], r[j])}
<1>8. IsFiniteSet(1..n)
    BY <1>1, FS_Interval
<1>9. IsFiniteSet(ahead(i)) /\ IsFiniteSet(upTo)
    <2>1. ahead(i) \in SUBSET (1..n) /\ upTo \in SUBSET (1..n)
        OBVIOUS
    <2> QED  BY <1>8, <2>1, FS_Subset
<1>10. worse \in SUBSET ahead(i)
    BY DEF Ahead
<1>11. ahead(i) \cup {i} \in SUBSET upTo /\ i \notin ahead(i)
    <2>1. ~Less(r[i], r[i])
        BY <1>7, AtMostTotal
    <2>2. ASSUME NEW j \in ahead(i) PROVE ~Less(r[i], r[j])
        BY <1>7, AtMostTotal DEF Ahead
    <2>3. ~(i < i)
        BY <1>1
    <2> QED  BY <2>1, <2>2, <2>3 DEF Ahead
<1>12. IsFiniteSet(worse) /\ Cardinality(worse) <= k - 1 /\ Cardinality(worse) \in Nat
    BY <1>5, <1>9, <1>10, FS_Subset, FS_CardinalityType
<1>13. Cardinality(upTo) >= k /\ Cardinality(upTo) \in Nat
    <2>1. Cardinality(ahead(i) \cup {i}) = (k - 1) + 1
        BY <1>5, <1>9, <1>11, FS_AddElement
    <2>2. Cardinality(ahead(i) \cup {i}) <= Cardinality(upTo)
        BY <1>9, <1>11, FS_Subset
    <2>3. Cardinality(upTo) \in Nat
        BY <1>9, FS_CardinalityType
    <2> HIDE DEF upTo
    <2> QED  BY <1>4, <2>1, <2>2, <2>3
<1> DEFINE w == Cardinality(worse)
           u == Cardinality(upTo)
           bound == (100 - Confidence) * n
<1>14. bound \in Int
    BY <1>1, ParametersAssumption
<1> HIDE DEF w, u, bound
<1>15. 100 * w <= bound /\ 100 * u > bound
    <2>1. w \in Nat /\ u \in Nat /\ w <= k - 1 /\ u >= k
        BY <1>12, <1>13 DEF w, u
    <2>2. 100 * tail <= bound /\ bound < 100 * (tail + 1) /\ bound < 100 * n
        BY <1>2 DEF bound
    <2>3. 100 * w <= 100 * tail
        BY <1>2, <1>4, <2>1
    <2>4. bound < 100 * k
        BY <1>3, <2>2
    <2> QED  BY <1>1, <1>2, <1>4, <1>14, <2>1, <2>2, <2>3, <2>4
<1> QED  BY <1>1, <1>6, <1>15 DEF IsQuantile, w, u, bound

\* What the histories and the series consist of.
InputsOK == prices \in [Asset -> Seq(Nat)] /\ returns \in Seq(Int \X {1})

\* Prices are counted in the smallest unit, and long series in whole numbers.
LEMMA InputsCorrect == Inputs => []InputsOK
<1>1. NoInput => InputsOK
    <2>1. <<>> \in Seq(Nat) /\ <<>> \in Seq(Int \X {1})
        BY EmptySeq
    <2> QED  BY <2>1 DEF NoInput, InputsOK
<1>2. InputsOK /\ [MoreInput]_inputs => InputsOK'
    <2> SUFFICES ASSUME InputsOK, [MoreInput]_inputs PROVE InputsOK'
        OBVIOUS
    <2>1. ASSUME NEW s \in Asset, NEW p \in Price, IngestEvent(s, p) PROVE InputsOK'
        <3>1. prices[s] \in Seq(Nat) /\ p \in Nat
            BY InputsAssumption DEF InputsOK
        <3>2. Append(prices[s], p) \in Seq(Nat)
            BY <3>1, AppendProperties
        <3> QED  BY <2>1, <3>2 DEF InputsOK, IngestEvent
    <2>2. ASSUME NEW v \in Value, AddReturn(v) PROVE InputsOK'
        <3>1. returns \in Seq(Int \X {1}) /\ <<v, 1>> \in Int \X {1}
            BY InputsAssumption DEF InputsOK
        <3>2. Append(returns, <<v, 1>>) \in Seq(Int \X {1})
            BY <3>1, AppendProperties
        <3> QED  BY <2>2, <3>2 DEF InputsOK, AddReturn
    <2>3. CASE UNCHANGED inputs
        BY <2>3 DEF InputsOK, inputs
    <2> QED  BY <2>1, <2>2, <2>3 DEF MoreInput
<1> QED  BY <1>1, <1>2, PTL DEF Inputs

\* The value at risk of every series is the quantile it claims to be.
THEOREM VaRQuantile == Inputs => []VaRIsQuantile
<1>1. InputsOK => VaRIsQuantile
    <2> SUFFICES ASSUME InputsOK, returns # <<>> PROVE IsQuantile(returns, HistoricalVaR(returns))
        BY DEF VaRIsQuantile, IsQuantile
    <2>1. Int \X {1} \subseteq Fraction
        BY DEF Fraction
    <2>2. returns \in Seq(Fraction)
        BY <2>1 DEF InputsOK
    <2> QED  BY <2>2, VaROfSeries
<1> QED  BY <1>1, InputsCorrect, PTL

-----------------------------------------------------------------------------
(* Fractions: results, extremes; induction.                                *)

\* Induction over the natural numbers, for a set.
LEMMA AllNaturals ==
    ASSUME NEW T, 0 \in T, \A n \in Nat : n \in T => n + 1 \in T
    PROVE  Nat \subseteq T
<1> SUFFICES ASSUME Nat \ T # {} PROVE FALSE
    OBVIOUS
<1> DEFINE U == Nat \ T
<1>1. U \in SUBSET Nat /\ U # {}
    OBVIOUS
<1> HIDE DEF U
<1>2. PICK x \in U : \A y \in U : ~ (<<y, x>> \in OpToRel(<, Nat))
    BY <1>1, NatLessThanWellFounded, WFMin, Zenon
<1>3. x \in Nat /\ x \notin T
    BY <1>2 DEF U
<1>4. x # 0 /\ x - 1 \in Nat /\ (x - 1) + 1 = x /\ x - 1 < x
    BY <1>3
<1>5. x - 1 \in U
    BY <1>3, <1>4 DEF U
<1>6. <<x - 1, x>> \in OpToRel(<, Nat)
    BY <1>3, <1>4 DEF OpToRel
<1> QED  BY <1>2, <1>5, <1>6

\* Sums, products and changes of fractions are fractions.
LEMMA FractionResults ==
    ASSUME NEW a \in Fraction, NEW b \in Fraction
    PROVE  /\ Plus(a, b) \in Fraction /\ Times(a, b) \in Fraction
           /\ b[1] > 0 => Change(a, b) \in Fraction
           /\ Zero \in Fraction /\ One \in Fraction
<1> DEFINE a1 == a[1]
           a2 == a[2]
           b1 == b[1]
           b2 == b[2]
<1>1. a1 \in Int /\ b1 \in Int /\ a2 \in Nat \ {0} /\ b2 \in Nat \ {0}
    BY FractionParts
<1> HIDE DEF a1, a2, b1, b2
<1>2. /\ a1 * b2 + b1 * a2 \in Int /\ a1 * b1 \in Int /\ a1 * b2 - b1 * a2 \in Int
      /\ a2 * b2 \in Nat \ {0} /\ (b1 > 0 => b1 * a2 \in Nat \ {0})
    BY <1>1
<1> QED  BY <1>2 DEF Fraction, Plus, Times, Change, Zero, One, a1, a2, b1, b2

\* A finite set of fractions has a smallest and a largest member.
LEMMA Extremes ==
    ASSUME NEW S \in SUBSET Fraction, IsFiniteSet(S), S # {}
    PROVE  /\ Lowest(S) \in S /\ \A y \in S : ~Less(y, Lowest(S))
           /\ Largest(S) \in S /\ \A y \in S : ~Less(Largest(S), y)
<1> DEFINE Bounded(R) == /\ \E x \in R : \A y \in R : ~Less(y, x)
                         /\ \E x \in R : \A y \in R : ~Less(x, y)
           T == {n \in Nat : \A R \in SUBSET S :
                     IsFiniteSet(R) /\ Cardinality(R) = n /\ R # {} => Bounded(R)}
<1>1. 0 \in T
    BY FS_EmptySet
<1>2. ASSUME NEW n \in Nat, n \in T PROVE n + 1 \in T
    <2> SUFFICES ASSUME NEW R \in SUBSET S, IsFiniteSet(R), Cardinality(R) = n + 1, R # {}
                 PROVE  Bounded(R)
        OBVIOUS
    <2>1. PICK z \in R : TRUE
        OBVIOUS
    <2> DEFINE Q == R \ {z}
    <2>2. IsFiniteSet(Q) /\ Cardinality(Q) = n /\ Q \in SUBSET S
        <3>1. IsFiniteSet(Q) /\ Cardinality(Q) = Cardinality(R) - 1
            BY <2>1, FS_RemoveElement
        <3>2. (n + 1) - 1 = n
            OBVIOUS
        <3> QED  BY <3>1, <3>2
    <2>3. \A x \in R : x \in Fraction
        OBVIOUS
    <2>4. CASE Q = {}
        <3>1. R = {z}
            BY <2>4
        <3> QED  BY <2>3, <3>1, AtMostTotal
    <2>5. CASE Q # {}
        <3>1. Bounded(Q)
            BY <1>2, <2>2, <2>5
        <3>2. \E x \in R : \A y \in R : ~Less(y, x)
            <4>1. PICK x \in Q : \A y \in Q : ~Less(y, x)
                BY <3>1
            <4>2. CASE Less(z, x)
                <5>1. ~Less(x, z)
                    BY <2>3, <4>2, AtMostTotal
                <5>2. \A y \in Q : ~Less(y, z)
                    BY <2>3, <4>1, <5>1, AtMostTransitive
                <5> QED  BY <2>3, <5>2, AtMostTotal
            <4>3. CASE ~Less(z, x)
                BY <4>1, <4>3
            <4> QED  BY <4>2, <4>3
        <3>3. \E x \in R : \A y \in R : ~Less(x, y)
            <4>1. PICK x \in Q : \A y \in Q : ~Less(x, y)
                BY <3>1
            <4>2. CASE Less(x, z)
                <5>1. ~Less(z, x)
                    BY <2>3, <4>2, AtMostTotal
                <5>2. \A y \in Q : ~Less(z, y)
                    BY <2>3, <4>1, <5>1, AtMostTransitive
                <5> QED  BY <2>3, <5>2, AtMostTotal
            <4>3. CASE ~Less(x, z)
                BY <4>1, <4>3
            <4> QED  BY <4>2, <4>3
        <3> QED  BY <3>2, <3>3
    <2> QED  BY <2>4, <2>5
<1>3. Nat \subseteq T
    <2> HIDE DEF T
    <2> QED  BY <1>1, <1>2, AllNaturals
<1>4. Cardinality(S) \in T
    BY <1>3, FS_CardinalityType
<1>5. Bounded(S)
    BY <1>4
<1> QED  BY <1>5 DEF Lowest, Largest

\* Two sets of which each has, to every member of the other, one that is not
\* larger have the same lowest member.
LEMMA SameLowest ==
    ASSUME NEW A \in SUBSET Fraction, NEW B \in SUBSET Fraction,
           IsFiniteSet(A), IsFiniteSet(B), A # {}, B # {},
           \A a \in A : \E b \in B : ~Less(a, b),
           \A b \in B : \E a \in A : ~Less(b, a)
    PROVE  Same(Lowest(A), Lowest(B))
<1> DEFINE x == Lowest(A)
           y == Lowest(B)
<1>1. x \in A /\ (\A a \in A : ~Less(a, x)) /\ y \in B /\ \A b \in B : ~Less(b, y)
    BY Extremes
<1> HIDE DEF x, y
<1>2. ~Less(x, y)
    <2>1. PICK b \in B : ~Less(x, b)
        BY <1>1
    <2>2. ~Less(b, y)
        BY <1>1
    <2> QED  BY <1>1, <2>1, <2>2, AtMostTransitive
<1>3. ~Less(y, x)
    <2>1. PICK a \in A : ~Less(y, a)
        BY <1>1
    <2>2. ~Less(a, x)
        BY <1>1
    <2> QED  BY <1>1, <2>1, <2>2, AtMostTransitive
<1>4. x[1] * y[2] \in Int /\ y[1] * x[2] \in Int
    BY <1>1, FractionParts, Products
<1>5. Same(x, y)
    BY <1>2, <1>3, <1>4 DEF Less, Same
<1> QED  BY <1>5 DEF x, y

-----------------------------------------------------------------------------
(* The equity curve, and the returns of a price history.                   *)

\* One step of the running product of _max_drawdown and _rolling_return.
Grown(e, r, i) == IF i = 0 THEN One ELSE Times(e[i - 1], Plus(One, r[i]))

\* The equity curve is a running product, of fractions if the returns are.
LEMMA CurveOf ==
    ASSUME NEW r \in Seq(Fraction)
    PROVE  \E e \in [0..Len(r) -> Fraction] :
               /\ e[0] = One
               /\ \A i \in 1..Len(r) : e[i] = Times(e[i - 1], Plus(One, r[i]))
               /\ EquityCurve(r) = [i \in 1..Len(r) |-> e[i]]
<1> DEFINE n == Len(r)
           T == {m \in Nat : \E e : e = [i \in 0..m |-> Grown(e, r, i)]}
           curve == CHOOSE e : e = [i \in 0..n |-> Grown(e, r, i)]
<1>1. n \in Nat /\ DOMAIN r = 1..n
    BY LenProperties
<1>2. 0 \in T
    <2> DEFINE e == [i \in 0..0 |-> One]
    <2>1. e = [i \in 0..0 |-> Grown(e, r, i)]
        BY DEF Grown
    <2> QED  BY <2>1
<1>3. ASSUME NEW m \in Nat, m \in T PROVE m + 1 \in T
    <2>1. PICK e : e = [i \in 0..m |-> Grown(e, r, i)]
        BY <1>3
    <2> DEFINE f == [i \in 0..(m + 1) |-> IF i = m + 1 THEN Grown(e, r, m + 1) ELSE e[i]]
    <2>2. ASSUME NEW i \in 0..(m + 1) PROVE f[i] = Grown(f, r, i)
        <3>1. CASE i = 0
            <4>1. f[i] = e[i] /\ e[i] = Grown(e, r, i)
                BY <2>1, <3>1
            <4> QED  BY <3>1, <4>1 DEF Grown
        <3>2. CASE i # 0
            <4>1. i - 1 \in 0..(m + 1) /\ i - 1 # m + 1
                BY <3>2
            <4>2. f[i - 1] = e[i - 1]
                BY <4>1
            <4>3. f[i] = Grown(e, r, i)
                <5>1. CASE i = m + 1
                    BY <5>1
                <5>2. CASE i # m + 1
                    <6>1. i \in 0..m
                        BY <5>2
                    <6>2. e[i] = Grown(e, r, i)
                        BY <2>1, <6>1
                    <6> QED  BY <5>2, <6>2
                <5> QED  BY <5>1, <5>2
            <4> QED  BY <3>2, <4>2, <4>3 DEF Grown
        <3> QED  BY <3>1, <3>2
    <2> DEFINE g == [i \in 0..(m + 1) |-> Grown(f, r, i)]
    <2>3. f = g
        <3>1. DOMAIN f = 0..(m + 1) /\ DOMAIN g = 0..(m + 1)
            OBVIOUS
        <3>2. \A i \in 0..(m + 1) : g[i] = Grown(f, r, i)
            OBVIOUS
        <3>3. f = [i \in 0..(m + 1) |-> f[i]] /\ g = [i \in 0..(m + 1) |-> g[i]]
            OBVIOUS
        <3> HIDE DEF f, g
        <3> QED  BY <2>2, <3>2, <3>3
    <2> HIDE DEF f
    <2> QED  BY <2>3
<1>4. n \in T
    <2> HIDE DEF T, n
    <2> QED  BY <1>1, <1>2, <1>3, AllNaturals
<1>5. curve = [i \in 0..n |-> Grown(curve, r, i)]
    BY <1>4
<1>6. EquityCurve(r) = [i \in 1..n |-> curve[i]]
    BY <1>1 DEF EquityCurve, Grown
<1> HIDE DEF curve
<1>7. \A i \in 0..n : curve[i] = Grown(curve, r, i)
    BY <1>5
<1>8. curve[0] = One /\ \A i \in 1..n : curve[i] = Times(curve[i - 1], Plus(One, r[i]))
    BY <1>1, <1>7 DEF Grown
<1> DEFINE U == {m \in Nat : m <= n => curve[m] \in Fraction}
<1>9. 0 \in U
    BY <1>8 DEF Fraction, One
<1>10. ASSUME NEW m \in Nat, m \in U PROVE m + 1 \in U
    <2> SUFFICES ASSUME m + 1 <= n PROVE curve[m + 1] \in Fraction
        OBVIOUS
    <2>1. m + 1 \in 1..n /\ (m + 1) - 1 = m /\ curve[m] \in Fraction
        BY <1>1, <1>10
    <2>2. curve[m + 1] = Times(curve[m], Plus(One, r[m + 1]))
        BY <1>8, <2>1
    <2>3. r[m + 1] \in Fraction /\ One \in Fraction
        BY <2>1, ElementOfSeq DEF One, Fraction
    <2>4. Plus(One, r[m + 1]) \in Fraction
        BY <2>3, FractionResults
    <2> QED  BY <2>1, <2>2, <2>4, FractionResults
<1>11. \A i \in 0..n : curve[i] \in Fraction
    <2>1. Nat \subseteq U
        <3> HIDE DEF U
        <3> QED  BY <1>9, <1>10, AllNaturals
    <2> QED  BY <1>1, <2>1
<1>12. curve \in [0..n -> Fraction]
    BY <1>5, <1>11
<1> QED  BY <1>6, <1>8, <1>12

\* The k-th number of a set, in ascending order, has k - 1 below it.
LEMMA AscendingAt ==
    ASSUME NEW S \in SUBSET Nat, IsFiniteSet(S), NEW k \in 1..Cardinality(S)
    PROVE  /\ InOrder(S, <)[k] \in S
           /\ Cardinality({j \in S : j < InOrder(S, <)[k]}) = k - 1
<1> DEFINE Before == {p \in S \X S : p[1] < p[2]}
           x == CHOOSE i \in S : Cardinality({j \in S : j < i}) = k - 1
<1>1. \A i, j \in S : <<i, j>> \in Before <=> i < j
    OBVIOUS
<1> HIDE DEF Before
<1>2. /\ \A i \in S : <<i, i>> \notin Before
      /\ \A i, j, l \in S :
             <<i, j>> \in Before /\ <<j, l>> \in Before => <<i, l>> \in Before
      /\ \A i, j \in S : i # j => <<i, j>> \in Before \/ <<j, i>> \in Before
    BY <1>1
<1>3. \A n \in 1..Cardinality(S) : \E i \in S :
          Cardinality({j \in S : <<j, i>> \in Before}) = n - 1
    BY <1>2, RankOnto
<1>4. \A i \in S : {j \in S : <<j, i>> \in Before} = {j \in S : j < i}
    BY <1>1
<1>5. \E i \in S : Cardinality({j \in S : j < i}) = k - 1
    <2>1. PICK i \in S : Cardinality({j \in S : <<j, i>> \in Before}) = k - 1
        BY <1>3
    <2> QED  BY <1>4, <2>1
<1>6. x \in S /\ Cardinality({j \in S : j < x}) = k - 1
    BY <1>5
<1>7. InOrder(S, <)[k] = x
    BY DEF InOrder
<1> HIDE DEF x
<1> QED  BY <1>6, <1>7

\* The places of the prices that have a return.
After(p) == {i \in 2..Len(p) : p[i - 1] # 0}

\* Each return is the change from the price before, which is not zero.
LEMMA ReturnsAt ==
    ASSUME NEW p \in Seq(Nat)
    PROVE  /\ IsFiniteSet(After(p)) /\ After(p) \in SUBSET Nat
           /\ Returns(p) \in Seq(Fraction) /\ Len(Returns(p)) = Cardinality(After(p))
           /\ \A k \in 1..Cardinality(After(p)) :
                  LET i == InOrder(After(p), <)[k]
                  IN  i \in After(p) /\ Returns(p)[k] = <<p[i] - p[i - 1], p[i - 1]>>
<1> DEFINE S == After(p)
           n == Cardinality(S)
           order == InOrder(S, <)
           ret == [k \in 1..n |-> <<p[order[k]] - p[order[k] - 1], p[order[k] - 1]>>]
<1>1. Len(p) \in Nat /\ \A i \in 1..Len(p) : p[i] \in Nat
    BY LenProperties, ElementOfSeq
<1>2. S \in SUBSET Nat /\ IsFiniteSet(S)
    <2>1. IsFiniteSet(2..Len(p)) /\ S \in SUBSET (2..Len(p))
        BY <1>1, FS_Interval DEF After
    <2> QED  BY <1>1, <2>1, FS_Subset
<1>3. n \in Nat
    BY <1>2, FS_CardinalityType
<1>4. DOMAIN order = 1..n
    BY DEF InOrder
<1>5. \A k \in 1..n : order[k] \in S
    BY <1>2, AscendingAt
<1> HIDE DEF order, n
<1>6. \A i \in S : i \in 1..Len(p) /\ i - 1 \in 1..Len(p) /\ p[i - 1] # 0
    BY <1>1 DEF After
<1>7. ASSUME NEW k \in 1..n
      PROVE  /\ Change(<<p[order[k]], 1>>, <<p[order[k] - 1], 1>>)
                    = <<p[order[k]] - p[order[k] - 1], p[order[k] - 1]>>
             /\ <<p[order[k]] - p[order[k] - 1], p[order[k] - 1]>> \in Fraction
    <2>1. p[order[k]] \in Nat /\ p[order[k] - 1] \in Nat \ {0}
        BY <1>1, <1>5, <1>6
    <2> QED  BY <2>1 DEF Change, Fraction
<1>8. Returns(p) = ret
    <2>1. Returns(p) = [k \in 1..n |-> Change(<<p[order[k]], 1>>, <<p[order[k] - 1], 1>>)]
        BY <1>4 DEF Returns, After, order
    <2> QED  BY <1>7, <2>1
<1>9. ret \in Seq(Fraction) /\ Len(ret) = n
    <2>1. \A k \in 1..n :
              <<p[order[k]] - p[order[k] - 1], p[order[k] - 1]>> \in Fraction
        BY <1>7
    <2>2. ret \in [1..n -> Fraction]
        BY <2>1
    <2> HIDE DEF ret
    <2> QED  BY <1>3, <2>2
<1> QED  BY <1>2, <1>5, <1>8, <1>9 DEF n, order

\* Without zero prices every price but the first has a return.
LEMMA ReturnsOfPositive ==
    ASSUME NEW p \in Seq(Nat), 0 \notin ToSet(p)
    PROVE  /\ Returns(p) \in Seq(Fraction)
           /\ Len(Returns(p)) = IF p = <<>> THEN 0 ELSE Len(p) - 1
           /\ \A k \in 1..Len(Returns(p)) :
                  Returns(p)[k] = <<p[k + 1] - p[k], p[k]>>
<1> DEFINE n == Len(p)
           S == After(p)
<1>1. n \in Nat /\ DOMAIN p = 1..n /\ (p = <<>> <=> n = 0)
    BY LenProperties, EmptySeq
<1>2. S = 2..n
    BY <1>1 DEF After, ToSet
<1>3. Cardinality(S) = IF p = <<>> THEN 0 ELSE n - 1
    BY <1>1, <1>2, FS_Interval
<1>4. /\ IsFiniteSet(S) /\ S \in SUBSET Nat
      /\ Returns(p) \in Seq(Fraction) /\ Len(Returns(p)) = Cardinality(S)
    BY ReturnsAt
<1>5. ASSUME NEW k \in 1..Cardinality(S) PROVE Returns(p)[k] = <<p[k + 1] - p[k], p[k]>>
    <2> DEFINE i == InOrder(S, <)[k]
    <2>1. i \in S /\ Returns(p)[k] = <<p[i] - p[i - 1], p[i - 1]>>
        BY ReturnsAt
    <2>2. Cardinality({j \in S : j < i}) = k - 1
        BY <1>4, AscendingAt
    <2> HIDE DEF i
    <2>3. {j \in S : j < i} = 2..(i - 1) /\ i \in 2..n
        BY <1>1, <1>2, <2>1
    <2>4. Cardinality(2..(i - 1)) = (i - 1) - 2 + 1
        <3>1. i \in Int /\ i >= 2
            BY <1>1, <2>3
        <3>2. i - 1 \in Int /\ 2 \in Int
            BY <3>1
        <3>3. Cardinality(2..(i - 1)) = IF 2 > i - 1 THEN 0 ELSE (i - 1) - 2 + 1
            BY <3>2, FS_Interval
        <3> QED  BY <3>1, <3>3
    <2>5. i = k + 1 /\ i - 1 = k
        <3>1. k \in Int /\ i \in Int
            BY <1>1, <1>3, <2>3
        <3>2. k - 1 = (i - 1) - 2 + 1
            BY <2>2, <2>3, <2>4
        <3> QED  BY <3>1, <3>2
    <2> QED  BY <2>1, <2>5
<1> QED  BY <1>3, <1>4, <1>5

-----------------------------------------------------------------------------
(* Sums, and the returns of a portfolio.                                   *)

\* One step of a fold: some member is added to the sum of the others.
Picked(U) == CHOOSE x \in U : TRUE
Summed(g, f, U) == IF U = {} THEN Zero ELSE Plus(f[Picked(U)], g[U \ {Picked(U)}])

\* What FoldFunction computes: the sum over the empty set is zero, the sum over
\* any other is one of its terms and the sum of the rest.
LEMMA SumOver ==
    ASSUME NEW S, IsFiniteSet(S), NEW f \in [S -> Fraction]
    PROVE  \E g \in [SUBSET S -> Fraction] :
               /\ g[{}] = Zero
               /\ \A U \in SUBSET S : U # {} =>
                      \E x \in U : g[U] = Plus(f[x], g[U \ {x}])
               /\ FoldFunction(Plus, Zero, f) = g[S]
<1> DEFINE upTo(m) == {U \in SUBSET S : Cardinality(U) <= m}
           T == {m \in Nat : \E g : g = [U \in upTo(m) |-> Summed(g, f, U)]}
           sum == CHOOSE g : g = [U \in SUBSET S |-> Summed(g, f, U)]
<1>1. \A U \in SUBSET S : /\ IsFiniteSet(U) /\ Cardinality(U) \in Nat
                          /\ Cardinality(U) <= Cardinality(S)
                          /\ Cardinality(U) = 0 <=> U = {}
    BY FS_Subset, FS_CardinalityType, FS_EmptySet
<1>2. \A U : U # {} => Picked(U) \in U
    BY DEF Picked
<1>3. 0 \in T
    <2> DEFINE g == [U \in upTo(0) |-> Zero]
    <2>1. \A U \in upTo(0) : U = {}
        BY <1>1
    <2>2. \A U \in upTo(0) : Summed(g, f, U) = Zero
        BY <2>1 DEF Summed
    <2>3. g = [U \in upTo(0) |-> Summed(g, f, U)]
        BY <2>2
    <2> HIDE DEF g
    <2> QED  BY <2>3
<1>4. ASSUME NEW m \in Nat, m \in T PROVE m + 1 \in T
    <2>1. PICK g : g = [U \in upTo(m) |-> Summed(g, f, U)]
        BY <1>4
    <2> DEFINE h == [U \in upTo(m + 1) |-> Summed(g, f, U)]
    <2>2. ASSUME NEW U \in upTo(m + 1) PROVE h[U] = Summed(h, f, U)
        <3>1. CASE U = {}
            <4>1. h[U] = Summed(g, f, U)
                OBVIOUS
            <4> HIDE DEF h
            <4> QED  BY <3>1, <4>1 DEF Summed
        <3>2. CASE U # {}
            <4> DEFINE V == U \ {Picked(U)}
            <4>1. Picked(U) \in U
                BY <1>2, <3>2
            <4>2. IsFiniteSet(U) /\ Cardinality(V) = Cardinality(U) - 1
                BY <1>1, <4>1, FS_RemoveElement
            <4>3. V \in SUBSET S /\ Cardinality(U) \in Nat /\ Cardinality(U) <= m + 1
                BY <1>1
            <4>4. V \in upTo(m) /\ V \in upTo(m + 1)
                BY <4>2, <4>3
            <4>5. h[U] = Summed(g, f, U) /\ h[V] = Summed(g, f, V)
                BY <4>4
            <4>6. g[V] = Summed(g, f, V)
                BY <2>1, <4>4
            <4> HIDE DEF h
            <4>7. h[V] = g[V]
                BY <4>5, <4>6
            <4> QED  BY <3>2, <4>5, <4>7 DEF Summed
        <3> QED  BY <3>1, <3>2
    <2>3. h = [U \in upTo(m + 1) |-> h[U]]
        OBVIOUS
    <2> HIDE DEF h
    <2>4. h = [U \in upTo(m + 1) |-> Summed(h, f, U)]
        BY <2>2, <2>3
    <2> HIDE DEF upTo
    <2>5. \E k : k = [U \in upTo(m + 1) |-> Summed(k, f, U)]
        BY <2>4
    <2> QED  BY <2>5
<1>5. Cardinality(S) \in T
    <2>1. Nat \subseteq T
        <3> HIDE DEF T
        <3> QED  BY <1>3, <1>4, AllNaturals
    <2> QED  BY <1>1, <2>1
<1>6. sum = [U \in SUBSET S |-> Summed(sum, f, U)]
    <2>1. upTo(Cardinality(S)) = SUBSET S
        BY <1>1
    <2>2. \E g : g = [U \in upTo(Cardinality(S)) |-> Summed(g, f, U)]
        BY <1>5
    <2> HIDE DEF upTo
    <2>3. \E g : g = [U \in SUBSET S |-> Summed(g, f, U)]
        BY <2>1, <2>2
    <2> QED  BY <2>3
<1>7. FoldFunction(Plus, Zero, f) = sum[S]
    <2>1. DOMAIN f = S
        OBVIOUS
    <2> QED  BY <2>1 DEF FoldFunction, FoldFunctionOnSet, MapThenFoldSet, Summed, Picked
<1> HIDE DEF sum
<1>8. sum[{}] = Zero
    <2>1. sum[{}] = Summed(sum, f, {})
        BY <1>6
    <2> QED  BY <2>1 DEF Summed
<1>9. ASSUME NEW U \in SUBSET S, U # {}
      PROVE  Picked(U) \in U /\ sum[U] = Plus(f[Picked(U)], sum[U \ {Picked(U)}])
    <2>1. sum[U] = Summed(sum, f, U)
        BY <1>6
    <2> QED  BY <1>2, <1>9, <2>1 DEF Summed
<1> DEFINE W == {m \in Nat : \A U \in SUBSET S : Cardinality(U) = m => sum[U] \in Fraction}
<1>10. 0 \in W
    BY <1>1, <1>8 DEF Zero, Fraction
<1>11. ASSUME NEW m \in Nat, m \in W PROVE m + 1 \in W
    <2> SUFFICES ASSUME NEW U \in SUBSET S, Cardinality(U) = m + 1 PROVE sum[U] \in Fraction
        OBVIOUS
    <2> DEFINE V == U \ {Picked(U)}
    <2>1. U # {}
        <3>1. m + 1 # 0
            OBVIOUS
        <3> QED  BY <1>1, <3>1
    <2>2. Picked(U) \in U /\ sum[U] = Plus(f[Picked(U)], sum[V])
        BY <1>9, <2>1
    <2>3. Cardinality(V) = (m + 1) - 1
        BY <1>1, <2>2, FS_RemoveElement
    <2>4. (m + 1) - 1 = m
        OBVIOUS
    <2>5. V \in SUBSET S /\ Cardinality(V) = m
        BY <2>3, <2>4
    <2>6. sum[V] \in Fraction /\ f[Picked(U)] \in Fraction
        BY <1>11, <2>2, <2>5
    <2> QED  BY <2>2, <2>6, FractionResults
<1>12. \A U \in SUBSET S : sum[U] \in Fraction
    <2>1. Nat \subseteq W
        <3> HIDE DEF W
        <3> QED  BY <1>10, <1>11, AllNaturals
    <2> QED  BY <1>1, <2>1
<1>13. sum \in [SUBSET S -> Fraction]
    BY <1>6, <1>12
<1> QED  BY <1>7, <1>8, <1>9, <1>13

\* A set of natural numbers has a smallest member.
LEMMA MinIsThere ==
    ASSUME NEW S \in SUBSET Nat, S # {}
    PROVE  Min(S) \in S /\ \A y \in S : Min(S) <= y
<1>1. PICK x \in S : \A y \in S : ~ (<<y, x>> \in OpToRel(<, Nat))
    BY NatLessThanWellFounded, WFMin, Zenon
<1>2. ASSUME NEW y \in S PROVE x <= y
    <2>1. x \in Nat /\ y \in Nat /\ ~(y < x)
        BY <1>1 DEF OpToRel
    <2> QED  BY <2>1
<1> QED  BY <1>1, <1>2 DEF Min

\* The common length is the shortest length of those that are not empty.
LEMMA CommonLengthOf ==
    ASSUME NEW S, NEW series \in [S -> Seq(Fraction)]
    PROVE  /\ CommonLength(series) \in Nat
           /\ \A s \in S : series[s] # <<>> =>
                  Len(series[s]) \in Nat /\ CommonLength(series) <= Len(series[s])
           /\ (\E s \in S : series[s] # <<>>) =>
                  \E s \in S : series[s] # <<>> /\ CommonLength(series) = Len(series[s])
           /\ (\A s \in S : series[s] = <<>>) => CommonLength(series) = 0
<1> DEFINE lengths == {Len(series[s]) : s \in S} \ {0}
<1>1. \A s \in S : Len(series[s]) \in Nat /\ (Len(series[s]) = 0 <=> series[s] = <<>>)
    <2>1. ASSUME NEW s \in S
          PROVE  Len(series[s]) \in Nat /\ (Len(series[s]) = 0 <=> series[s] = <<>>)
        <3>1. series[s] \in Seq(Fraction)
            OBVIOUS
        <3> QED  BY <3>1, LenProperties, EmptySeq
    <2> QED  BY <2>1
<1>2. lengths \in SUBSET Nat
    BY <1>1
<1>3. CommonLength(series) = IF lengths = {} THEN 0 ELSE Min(lengths)
    BY DEF CommonLength
<1>4. \A s \in S : series[s] # <<>> => Len(series[s]) \in lengths
    BY <1>1
<1>5. \A y \in lengths : \E s \in S : series[s] # <<>> /\ y = Len(series[s])
    BY <1>1
<1> HIDE DEF lengths
<1>6. CASE lengths = {}
    BY <1>1, <1>3, <1>4, <1>6
<1>7. CASE lengths # {}
    <2>1. Min(lengths) \in lengths /\ \A y \in lengths : Min(lengths) <= y
        BY <1>2, <1>7, MinIsThere
    <2>2. CommonLength(series) = Min(lengths)
        BY <1>3, <1>7
    <2>3. CommonLength(series) \in Nat
        BY <1>2, <2>1, <2>2
    <2>4. \A s \in S : series[s] # <<>> => CommonLength(series) <= Len(series[s])
        BY <1>4, <2>1, <2>2
    <2>5. \E s \in S : series[s] # <<>> /\ CommonLength(series) = Len(series[s])
        BY <1>5, <2>1, <2>2
    <2> QED  BY <1>1, <2>3, <2>4, <2>5
<1> QED  BY <1>6, <1>7

\* The weighted return of a position, i places into the common length.
Term(w, series, length, i) == Times(w, Aligned(series, length, i))

\* The portfolio's return is the sum of those of its positions.
LEMMA PortfolioAt ==
    ASSUME NEW S, NEW weight \in [S -> Fraction], NEW p
    PROVE  LET length == CommonLength([s \in S |-> Returns(p[s])])
           IN  PortfolioReturns(weight, p)
                 = [i \in 1..length |->
                      FoldFunction(Plus, Zero,
                          [s \in S |-> Term(weight[s], Returns(p[s]), length, i)])]
<1>1. DOMAIN weight = S
    OBVIOUS
<1> DEFINE series == [s \in S |-> Returns(p[s])]
           length == CommonLength(series)
<1>2. PortfolioReturns(weight, p)
        = [i \in 1..length |-> FoldFunction(Plus, Zero,
              [s \in S |-> Times(weight[s], Aligned(series[s], length, i))])]
    BY <1>1 DEF PortfolioReturns
<1>3. ASSUME NEW i
      PROVE  [s \in S |-> Times(weight[s], Aligned(series[s], length, i))]
                = [s \in S |-> Term(weight[s], Returns(p[s]), length, i)]
    <2> HIDE DEF length
    <2> QED  BY DEF Term
<1> QED  BY <1>2, <1>3

\* A term is a fraction.
LEMMA TermType ==
    ASSUME NEW w \in Fraction, NEW r \in Seq(Fraction), NEW n \in Nat, NEW i \in 1..n,
           r # <<>> => n <= Len(r)
    PROVE  /\ Term(w, r, n, i) \in Fraction
           /\ r # <<>> => Len(r) - n + i \in 1..Len(r) /\ Aligned(r, n, i) = r[Len(r) - n + i]
           /\ r = <<>> => Aligned(r, n, i) = Zero
<1>1. Len(r) \in Nat
    BY LenProperties
<1>2. CASE r = <<>>
    <2>1. Zero \in Fraction
        BY DEF Zero, Fraction
    <2> QED  BY <1>2, <2>1, FractionResults DEF Term, Aligned
<1>3. CASE r # <<>>
    <2>1. Len(r) - n + i \in 1..Len(r)
        BY <1>1, <1>3
    <2>2. r[Len(r) - n + i] \in Fraction
        BY <2>1, ElementOfSeq
    <2> QED  BY <1>3, <2>1, <2>2, FractionResults DEF Term, Aligned
<1> QED  BY <1>2, <1>3

\* One is neutral in a product and zero in a sum.
LEMMA Neutral ==
    ASSUME NEW x \in Fraction
    PROVE  Times(One, x) = x /\ Plus(x, Zero) = x
<1>1. PICK n \in Int, d \in Nat \ {0} : x = <<n, d>>
    BY DEF Fraction
<1>2. 1 * n = n /\ 1 * d = d /\ n * 1 + 0 * d = n /\ d * 1 = d
    BY <1>1
<1> QED  BY <1>1, <1>2 DEF Times, Plus, One, Zero

\* The returns of a portfolio of one symbol are those of the symbol.
LEMMA SingleSymbol ==
    ASSUME InputsOK, NEW s \in Asset
    PROVE  PortfolioReturns(Only(s), prices) = Returns(prices[s])
<1> DEFINE r == Returns(prices[s])
           series == [x \in {s} |-> Returns(prices[x])]
           length == CommonLength(series)
<1>1. prices[s] \in Seq(Nat)
    BY DEF InputsOK
<1>2. r \in Seq(Fraction) /\ Len(r) \in Nat /\ DOMAIN r = 1..Len(r)
    BY <1>1, ReturnsAt, LenProperties
<1>3. series \in [{s} -> Seq(Fraction)] /\ series[s] = r
    BY <1>2
<1>4. length = Len(r)
    <2>1. CASE r = <<>>
        BY <1>3, <2>1, CommonLengthOf, EmptySeq
    <2>2. CASE r # <<>>
        <3>1. \E x \in {s} : series[x] # <<>> /\ CommonLength(series) = Len(series[x])
            BY <1>3, <2>2, CommonLengthOf
        <3> QED  BY <1>3, <3>1
    <2> QED  BY <2>1, <2>2
<1>5. Only(s) \in [{s} -> Fraction] /\ Only(s)[s] = One
    BY DEF Only, Fraction, One
<1> DEFINE terms(i) == [x \in {s} |-> Term(Only(s)[x], Returns(prices[x]), length, i)]
<1>6. PortfolioReturns(Only(s), prices)
        = [i \in 1..length |-> FoldFunction(Plus, Zero, terms(i))]
    BY <1>5, PortfolioAt
<1> HIDE DEF length, r, series
<1>7. ASSUME NEW i \in 1..length PROVE FoldFunction(Plus, Zero, terms(i)) = r[i]
    <2>1. Len(r) - length + i = i /\ r # <<>> /\ length <= Len(r) /\ i \in 1..Len(r)
        <3>1. Len(r) # 0
            BY <1>2, <1>4, <1>7
        <3> QED  BY <1>2, <1>4, <1>7, <3>1, EmptySeq
    <2>2. r[i] \in Fraction
        BY <1>2, <2>1, ElementOfSeq
    <2>3. Term(One, r, length, i) = r[i]
        <3>1. Aligned(r, length, i) = r[i]
            BY <2>1 DEF Aligned
        <3> QED  BY <2>2, <3>1, Neutral DEF Term
    <2>4. terms(i) = [x \in {s} |-> r[i]]
        BY <1>5, <2>3 DEF r
    <2> DEFINE f == [x \in {s} |-> r[i]]
    <2>5. f \in [{s} -> Fraction] /\ f[s] = r[i] /\ IsFiniteSet({s})
        BY <2>2, FS_Singleton
    <2> HIDE DEF f
    <2>6. PICK g \in [SUBSET {s} -> Fraction] :
              /\ g[{}] = Zero
              /\ \A U \in SUBSET {s} : U # {} => \E x \in U : g[U] = Plus(f[x], g[U \ {x}])
              /\ FoldFunction(Plus, Zero, f) = g[{s}]
        BY <2>5, SumOver
    <2>7. g[{s}] = Plus(f[s], g[{s} \ {s}]) /\ {s} \ {s} = {}
        BY <2>6
    <2>8. FoldFunction(Plus, Zero, f) = Plus(r[i], Zero)
        BY <2>5, <2>6, <2>7
    <2> QED  BY <2>2, <2>4, <2>8, Neutral DEF f
<1>8. PortfolioReturns(Only(s), prices) = [i \in 1..Len(r) |-> r[i]]
    BY <1>4, <1>6, <1>7
<1> QED  BY <1>2, <1>8 DEF r

-----------------------------------------------------------------------------
(* How positions of unequal age are paired.                                *)

\* The prices that a history has last.
LEMMA NewerPrices ==
    ASSUME InputsOK, NEW s \in Asset, Positive(s), NEW n \in 1..Len(prices[s])
    PROVE  /\ Newer(s, n) \in Seq(Nat) /\ Len(Newer(s, n)) = n
           /\ 0 \notin ToSet(Newer(s, n))
           /\ \A i \in 1..n : Newer(s, n)[i] = prices[s][Len(prices[s]) - n + i]
<1> DEFINE p == prices[s]
           m == Len(p) - n + 1
           q == Newer(s, n)
<1>1. p \in Seq(Nat) /\ Len(p) \in Nat /\ DOMAIN p = 1..Len(p)
    BY LenProperties DEF InputsOK
<1>2. \A i \in 1..Len(p) : p[i] \in Nat \ {0}
    <2>1. \A i \in 1..Len(p) : p[i] \in Nat
        BY <1>1, ElementOfSeq
    <2> QED  BY <1>1, <2>1 DEF Positive, ToSet
<1>3. m \in 1..Len(p) /\ Len(p) - m + 1 = n
    BY <1>1
<1>4. q = SubSeq(p, m, Len(p))
    BY DEF Newer
<1> HIDE DEF p, m, q
<1>5. \A i \in m..Len(p) : p[i] \in Nat \ {0}
    BY <1>1, <1>2, <1>3
<1>6. /\ q \in Seq(Nat \ {0})
      /\ Len(q) = IF m <= Len(p) THEN Len(p) - m + 1 ELSE 0
      /\ \A i \in 1..Len(p) - m + 1 : q[i] = p[m + i - 1]
    BY <1>1, <1>3, <1>4, <1>5, SubSeqProperties
<1>7. Len(q) = n /\ \A i \in 1..n : q[i] = p[m + i - 1]
    <2>1. m <= Len(p)
        BY <1>1, <1>3
    <2> QED  BY <1>3, <1>6, <2>1
<1>8. q \in Seq(Nat) /\ 0 \notin ToSet(q)
    <2>1. \A i \in 1..Len(q) : q[i] \in Nat \ {0}
        BY <1>6, ElementOfSeq
    <2>2. DOMAIN q = 1..Len(q)
        BY <1>6, LenProperties
    <2>3. q \in Seq(Nat)
        BY <1>6, SeqMonotonic
    <2> QED  BY <2>1, <2>2, <2>3 DEF ToSet
<1>9. \A i \in 1..n : m + i - 1 = Len(p) - n + i
    BY <1>1 DEF m
<1> QED  BY <1>7, <1>8, <1>9 DEF p, q

\* Beyond the newest prices that all symbols have, nothing counts.
LEMMA TailMatters == InputsOK => OnlyCommonTailMatters
<1> DEFINE n == Min({Len(prices[s]) : s \in Asset})
           new == [s \in Asset |-> Newer(s, n)]
<1> SUFFICES ASSUME InputsOK, n > 1, \A s \in Asset : Positive(s)
             PROVE  PortfolioReturns(Equal, prices) = PortfolioReturns(Equal, new)
    BY DEF OnlyCommonTailMatters
<1>1. \A s \in Asset : /\ prices[s] \in Seq(Nat) /\ Len(prices[s]) \in Nat
                       /\ 0 \notin ToSet(prices[s])
    <2>1. ASSUME NEW s \in Asset PROVE prices[s] \in Seq(Nat) /\ Len(prices[s]) \in Nat
        BY LenProperties DEF InputsOK
    <2> QED  BY <2>1 DEF Positive
<1>2. /\ n \in Nat /\ \A s \in Asset : n <= Len(prices[s])
      /\ \E s \in Asset : n = Len(prices[s])
    <2> DEFINE L == {Len(prices[s]) : s \in Asset}
    <2>1. L \in SUBSET Nat /\ L # {}
        BY <1>1, InputsAssumption
    <2>2. Min(L) \in L /\ \A y \in L : Min(L) <= y
        BY <2>1, MinIsThere
    <2> QED  BY <2>1, <2>2
<1> HIDE DEF n
<1>3. \A s \in Asset : n \in 1..Len(prices[s])
    BY <1>1, <1>2
<1>4. \A s \in Asset : /\ new[s] \in Seq(Nat) /\ Len(new[s]) = n /\ 0 \notin ToSet(new[s])
                       /\ \A i \in 1..n : new[s][i] = prices[s][Len(prices[s]) - n + i]
    <2>1. ASSUME NEW s \in Asset
          PROVE  /\ Newer(s, n) \in Seq(Nat) /\ Len(Newer(s, n)) = n
                 /\ 0 \notin ToSet(Newer(s, n))
                 /\ \A i \in 1..n : Newer(s, n)[i] = prices[s][Len(prices[s]) - n + i]
        BY <1>3, NewerPrices
    <2> QED  BY <2>1
<1> HIDE DEF new
<1> DEFINE old == [s \in Asset |-> Returns(prices[s])]
           few == [s \in Asset |-> Returns(new[s])]
<1>5. \A s \in Asset :
          /\ old[s] \in Seq(Fraction) /\ Len(old[s]) = Len(prices[s]) - 1 /\ old[s] # <<>>
          /\ \A k \in 1..Len(old[s]) :
                 old[s][k] = <<prices[s][k + 1] - prices[s][k], prices[s][k]>>
    <2>1. ASSUME NEW s \in Asset
          PROVE  /\ Returns(prices[s]) \in Seq(Fraction)
                 /\ Len(Returns(prices[s])) = Len(prices[s]) - 1
                 /\ Returns(prices[s]) # <<>>
                 /\ \A k \in 1..Len(Returns(prices[s])) : Returns(prices[s])[k]
                        = <<prices[s][k + 1] - prices[s][k], prices[s][k]>>
        <3>1. prices[s] # <<>> /\ Len(prices[s]) - 1 # 0
            <4>1. Len(prices[s]) \in Nat /\ n \in Nat /\ n > 1 /\ n <= Len(prices[s])
                BY <1>1, <1>2
            <4> DEFINE l == Len(prices[s])
            <4> HIDE DEF l
            <4>2. l \in Nat /\ n \in Nat /\ n > 1 /\ n <= l
                BY <4>1 DEF l
            <4>3. l # 0 /\ l - 1 # 0
                BY <4>2
            <4> QED  BY <4>3, EmptySeq DEF l
        <3>2. /\ Returns(prices[s]) \in Seq(Fraction)
              /\ Len(Returns(prices[s])) = IF prices[s] = <<>> THEN 0 ELSE Len(prices[s]) - 1
              /\ \A k \in 1..Len(Returns(prices[s])) : Returns(prices[s])[k]
                     = <<prices[s][k + 1] - prices[s][k], prices[s][k]>>
            BY <1>1, ReturnsOfPositive
        <3>3. Returns(prices[s]) # <<>>
            BY <3>1, <3>2, EmptySeq
        <3> QED  BY <3>1, <3>2, <3>3
    <2> QED  BY <2>1
<1>6. \A s \in Asset :
          /\ few[s] \in Seq(Fraction) /\ Len(few[s]) = n - 1 /\ few[s] # <<>>
          /\ \A k \in 1..Len(few[s]) : few[s][k] = <<new[s][k + 1] - new[s][k], new[s][k]>>
    <2>1. ASSUME NEW s \in Asset
          PROVE  /\ Returns(new[s]) \in Seq(Fraction)
                 /\ Len(Returns(new[s])) = n - 1
                 /\ Returns(new[s]) # <<>>
                 /\ \A k \in 1..Len(Returns(new[s])) : Returns(new[s])[k]
                        = <<new[s][k + 1] - new[s][k], new[s][k]>>
        <3>1. new[s] # <<>> /\ n - 1 # 0
            <4>1. n \in Nat /\ n > 1 /\ Len(new[s]) = n
                BY <1>2, <1>4
            <4>2. Len(new[s]) # 0 /\ n - 1 # 0
                BY <4>1
            <4> QED  BY <4>2, EmptySeq
        <3>2. /\ Returns(new[s]) \in Seq(Fraction)
              /\ Len(Returns(new[s])) = IF new[s] = <<>> THEN 0 ELSE Len(new[s]) - 1
              /\ \A k \in 1..Len(Returns(new[s])) : Returns(new[s])[k]
                     = <<new[s][k + 1] - new[s][k], new[s][k]>>
            BY <1>4, ReturnsOfPositive
        <3>3. Len(Returns(new[s])) = n - 1
            BY <1>4, <3>1, <3>2
        <3>4. Returns(new[s]) # <<>>
            BY <3>1, <3>3, EmptySeq
        <3> QED  BY <3>2, <3>3, <3>4
    <2> QED  BY <2>1
<1> HIDE DEF old, few
<1>7. CommonLength(old) = n - 1
    <2>1. old \in [Asset -> Seq(Fraction)]
        BY <1>5 DEF old
    <2>2. PICK s \in Asset : CommonLength(old) = Len(old[s])
        BY <1>2, <1>5, <2>1, CommonLengthOf
    <2>3. PICK t \in Asset : n = Len(prices[t])
        BY <1>2
    <2>4. CommonLength(old) <= Len(old[t]) /\ CommonLength(old) \in Nat
        BY <1>5, <2>1, CommonLengthOf
    <2>5. Len(old[t]) = n - 1 /\ Len(old[s]) >= n - 1
        BY <1>1, <1>2, <1>5, <2>3
    <2> QED  BY <1>2, <2>2, <2>4, <2>5
<1>8. CommonLength(few) = n - 1
    <2>1. few \in [Asset -> Seq(Fraction)]
        BY <1>6 DEF few
    <2>2. PICK s \in Asset : CommonLength(few) = Len(few[s])
        BY <1>2, <1>6, <2>1, CommonLengthOf
    <2> QED  BY <1>6, <2>2
<1>9. ASSUME NEW i \in 1..(n - 1), NEW s \in Asset
      PROVE  Aligned(old[s], n - 1, i) = Aligned(few[s], n - 1, i)
    <2> DEFINE k == Len(prices[s]) - n + i
    <2>1. /\ k \in 1..Len(old[s]) /\ Len(old[s]) - (n - 1) + i = k
          /\ Len(few[s]) - (n - 1) + i = i /\ i \in 1..Len(few[s])
        <3>1. Len(prices[s]) \in Nat /\ n \in Nat /\ n > 1 /\ n <= Len(prices[s])
            BY <1>1, <1>2
        <3>2. Len(old[s]) = Len(prices[s]) - 1 /\ Len(few[s]) = n - 1 /\ i \in 1..(n - 1)
            BY <1>5, <1>6
        <3> HIDE DEF k
        <3>3. k = Len(prices[s]) - n + i
            BY DEF k
        <3> QED  BY <3>1, <3>2, <3>3
    <2>2. /\ Aligned(old[s], n - 1, i) = old[s][k]
          /\ Aligned(few[s], n - 1, i) = few[s][i]
        BY <1>5, <1>6, <2>1 DEF Aligned
    <2>3. new[s][i] = prices[s][k] /\ new[s][i + 1] = prices[s][k + 1]
        <3>1. i \in 1..n /\ i + 1 \in 1..n /\ Len(prices[s]) - n + (i + 1) = k + 1
            <4>1. Len(prices[s]) \in Nat /\ n \in Nat /\ i \in 1..(n - 1)
                BY <1>1, <1>2
            <4> DEFINE l == Len(prices[s])
            <4> HIDE DEF l
            <4>2. l \in Nat /\ n \in Nat /\ i \in 1..(n - 1) /\ k = l - n + i
                BY <4>1 DEF l
            <4> HIDE DEF k
            <4>3. i \in 1..n /\ i + 1 \in 1..n /\ l - n + (i + 1) = k + 1
                BY <4>2
            <4> QED  BY <4>3 DEF l
        <3> QED  BY <1>4, <3>1
    <2> HIDE DEF k
    <2>4. /\ old[s][k] = <<prices[s][k + 1] - prices[s][k], prices[s][k]>>
          /\ few[s][i] = <<new[s][i + 1] - new[s][i], new[s][i]>>
        BY <1>5, <1>6, <2>1
    <2> QED  BY <2>2, <2>3, <2>4
<1>10. Equal \in [Asset -> Fraction]
    BY DEF Equal, Fraction
<1>11. PortfolioReturns(Equal, prices)
         = [i \in 1..(n - 1) |-> FoldFunction(Plus, Zero,
                [s \in Asset |-> Term(Equal[s], Returns(prices[s]), n - 1, i)])]
    BY <1>7, <1>10, PortfolioAt DEF old
<1>12. PortfolioReturns(Equal, new)
         = [i \in 1..(n - 1) |-> FoldFunction(Plus, Zero,
                [s \in Asset |-> Term(Equal[s], Returns(new[s]), n - 1, i)])]
    BY <1>8, <1>10, PortfolioAt DEF few
<1>13. ASSUME NEW i \in 1..(n - 1)
       PROVE  [s \in Asset |-> Term(Equal[s], Returns(prices[s]), n - 1, i)]
                = [s \in Asset |-> Term(Equal[s], Returns(new[s]), n - 1, i)]
    <2>1. \A s \in Asset :
              Aligned(Returns(prices[s]), n - 1, i) = Aligned(Returns(new[s]), n - 1, i)
        BY <1>9 DEF old, few
    <2> QED  BY <2>1 DEF Term
<1> QED  BY <1>11, <1>12, <1>13

\* Adding a zero, whatever its denominator, keeps the value of a fraction.
LEMMA AddZero ==
    ASSUME NEW a \in Fraction, NEW b \in Fraction, NEW c \in Fraction
    PROVE  /\ a[1] = 0 /\ b[1] = 0 => Plus(a, b)[1] = 0
           /\ b[1] = 0 => Same(Plus(a, b), a)
           /\ a[1] = 0 /\ Same(b, c) => Same(Plus(a, b), c)
<1> DEFINE a1 == a[1]
           a2 == a[2]
           b1 == b[1]
           b2 == b[2]
           c1 == c[1]
           c2 == c[2]
<1>1. /\ a1 \in Int /\ b1 \in Int /\ c1 \in Int
      /\ a2 \in Int /\ b2 \in Int /\ c2 \in Int
    BY FractionParts
<1>2. Plus(a, b)[1] = a1 * b2 + b1 * a2 /\ Plus(a, b)[2] = a2 * b2
    BY DEF Plus
<1> DEFINE n == Plus(a, b)[1]
           d == Plus(a, b)[2]
<1>3. /\ Same(Plus(a, b), a) <=> n * a2 = a1 * d
      /\ Same(Plus(a, b), c) <=> n * c2 = c1 * d
      /\ Same(b, c) <=> b1 * c2 = c1 * b2
    BY DEF Same
<1> HIDE DEF a1, a2, b1, b2, c1, c2, n, d
<1>4. n = a1 * b2 + b1 * a2 /\ d = a2 * b2
    BY <1>2 DEF n, d
<1>5. 0 * b2 = 0 /\ 0 * a2 = 0 /\ a1 * b2 \in Int /\ b1 * a2 \in Int
    BY <1>1
<1>6. ASSUME a1 = 0, b1 = 0 PROVE n = 0
    BY <1>4, <1>5, <1>6
<1>7. ASSUME b1 = 0 PROVE n * a2 = a1 * d
    <2>1. n = a1 * b2
        BY <1>4, <1>5, <1>7
    <2>2. (a1 * b2) * a2 = a1 * (a2 * b2)
        BY <1>1, Products
    <2> QED  BY <1>4, <2>1, <2>2
<1>8. ASSUME a1 = 0, b1 * c2 = c1 * b2 PROVE n * c2 = c1 * d
    <2>1. n = b1 * a2
        BY <1>4, <1>5, <1>8
    <2>2. (b1 * a2) * c2 = (b1 * c2) * a2
        BY <1>1, Products
    <2>3. (c1 * b2) * a2 = c1 * (a2 * b2)
        BY <1>1, Products
    <2> QED  BY <1>4, <1>8, <2>1, <2>2, <2>3
<1> QED  BY <1>3, <1>6, <1>7, <1>8 DEF a1, b1, n

\* A sum of zeros and of one other term has the value of that term.
LEMMA SumOfOne ==
    ASSUME NEW S, IsFiniteSet(S), NEW f \in [S -> Fraction], NEW s \in S,
           \A x \in S \ {s} : f[x][1] = 0
    PROVE  Same(FoldFunction(Plus, Zero, f), f[s])
<1>1. PICK g \in [SUBSET S -> Fraction] :
          /\ g[{}] = Zero
          /\ \A U \in SUBSET S : U # {} => \E x \in U : g[U] = Plus(f[x], g[U \ {x}])
          /\ FoldFunction(Plus, Zero, f) = g[S]
    BY SumOver
<1> DEFINE Good(U) == IF s \in U THEN Same(g[U], f[s]) ELSE g[U][1] = 0
           T == {n \in Nat : \A U \in SUBSET S : Cardinality(U) = n => Good(U)}
<1>2. \A U \in SUBSET S : IsFiniteSet(U) /\ Cardinality(U) \in Nat
                          /\ (Cardinality(U) = 0 <=> U = {})
    BY FS_Subset, FS_CardinalityType, FS_EmptySet
<1>3. 0 \in T
    <2>1. Good({})
        BY <1>1 DEF Zero
    <2> HIDE DEF Good
    <2> QED  BY <1>2, <2>1
<1>4. ASSUME NEW n \in Nat, n \in T PROVE n + 1 \in T
    <2> SUFFICES ASSUME NEW U \in SUBSET S, Cardinality(U) = n + 1 PROVE Good(U)
        OBVIOUS
    <2>1. U # {}
        <3>1. n + 1 # 0
            OBVIOUS
        <3> QED  BY <1>2, <3>1
    <2>2. PICK x \in U : g[U] = Plus(f[x], g[U \ {x}])
        BY <1>1, <2>1
    <2> DEFINE V == U \ {x}
    <2>3. V \in SUBSET S /\ Cardinality(V) = n
        <3>1. Cardinality(V) = (n + 1) - 1
            BY <1>2, <2>2, FS_RemoveElement
        <3>2. (n + 1) - 1 = n
            OBVIOUS
        <3> QED  BY <3>1, <3>2
    <2>4. Good(V)
        BY <1>4, <2>3
    <2>5. g[V] \in Fraction /\ f[x] \in Fraction /\ f[s] \in Fraction
        BY <1>1, <2>3
    <2> HIDE DEF T
    <2>6. CASE x = s
        <3>1. g[V][1] = 0
            BY <2>4, <2>6
        <3>2. Same(Plus(f[s], g[V]), f[s])
            BY <2>5, <3>1, AddZero
        <3> QED  BY <2>2, <2>6, <3>2
    <2>7. CASE x # s
        <3>1. f[x][1] = 0
            BY <2>7
        <3>2. CASE s \in U
            <4>1. Same(g[V], f[s])
                BY <2>4, <2>7, <3>2
            <4>2. Same(Plus(f[x], g[V]), f[s])
                BY <2>5, <3>1, <4>1, AddZero
            <4> QED  BY <2>2, <3>2, <4>2
        <3>3. CASE s \notin U
            <4>1. g[V][1] = 0
                BY <2>4, <3>3
            <4>2. Plus(f[x], g[V])[1] = 0
                BY <2>5, <3>1, <4>1, AddZero
            <4> QED  BY <2>2, <3>3, <4>2
        <3> QED  BY <3>2, <3>3
    <2> QED  BY <2>6, <2>7
<1>5. Cardinality(S) \in T
    <2>1. Nat \subseteq T
        <3> HIDE DEF T
        <3> QED  BY <1>3, <1>4, AllNaturals
    <2> QED  BY <1>2, <2>1
<1>6. Good(S)
    <2> HIDE DEF Good
    <2> QED  BY <1>5
<1> QED  BY <1>1, <1>6

\* A history of less than two prices has no return.
LEMMA NoReturns ==
    ASSUME NEW p \in Seq(Nat), Len(p) < 2
    PROVE  Returns(p) = <<>>
<1>1. After(p) = {}
    BY LenProperties DEF After
<1>2. Returns(p) \in Seq(Fraction) /\ Len(Returns(p)) = 0
    BY <1>1, ReturnsAt, FS_EmptySet
<1> QED  BY <1>2, EmptySeq

\* A position without a return moves nothing.
LEMMA FlatPosition == InputsOK => NewPositionIsFlat
<1> SUFFICES ASSUME InputsOK, NEW s \in Asset,
                    \A x \in Asset \ {s} : Len(prices[x]) < 2
             PROVE  LET own   == Returns(prices[s])
                        total == PortfolioReturns(Equal, prices)
                    IN  /\ DOMAIN total = DOMAIN own
                        /\ \A i \in DOMAIN own : Same(total[i], Times(<<1, 2>>, own[i]))
    BY DEF NewPositionIsFlat
<1> DEFINE series == [x \in Asset |-> Returns(prices[x])]
           own == Returns(prices[s])
           n == CommonLength(series)
           terms(i) == [x \in Asset |-> Term(Equal[x], Returns(prices[x]), n, i)]
<1>1. \A x \in Asset : Returns(prices[x]) \in Seq(Fraction)
    <2>1. ASSUME NEW x \in Asset PROVE Returns(prices[x]) \in Seq(Fraction)
        <3>1. prices[x] \in Seq(Nat)
            BY DEF InputsOK
        <3> QED  BY <3>1, ReturnsAt
    <2> QED  BY <2>1
<1>2. series \in [Asset -> Seq(Fraction)]
    BY <1>1
<1>3. \A x \in Asset \ {s} : Returns(prices[x]) = <<>>
    BY NoReturns DEF InputsOK
<1>4. Equal \in [Asset -> Fraction] /\ \A x \in Asset : Equal[x] = <<1, 2>>
    BY DEF Equal, Fraction
<1>5. PortfolioReturns(Equal, prices) = [i \in 1..n |-> FoldFunction(Plus, Zero, terms(i))]
    BY <1>4, PortfolioAt
<1>6. n = Len(own) /\ n \in Nat
    <2>1. CASE own = <<>>
        <3>1. \A x \in Asset : series[x] = <<>>
            BY <1>3, <2>1
        <3>2. n = 0
            BY <1>2, <3>1, CommonLengthOf
        <3> QED  BY <2>1, <3>2, EmptySeq
    <2>2. CASE own # <<>>
        <3>1. \E x \in Asset : series[x] # <<>>
            BY <2>2
        <3>2. PICK x \in Asset : series[x] # <<>> /\ n = Len(series[x])
            BY <1>2, <3>1, CommonLengthOf
        <3>3. x = s
            BY <1>3, <3>2
        <3>4. n \in Nat
            BY <1>2, CommonLengthOf
        <3> QED  BY <3>2, <3>3, <3>4
    <2> QED  BY <2>1, <2>2
<1>7. own \in Seq(Fraction) /\ DOMAIN own = 1..n
    BY <1>1, <1>6, LenProperties
<1> HIDE DEF n, series
<1>8. ASSUME NEW i \in 1..n
      PROVE  Same(FoldFunction(Plus, Zero, terms(i)), Times(<<1, 2>>, own[i]))
    <2>1. <<1, 2>> \in Fraction
        BY DEF Fraction
    <2>2. own # <<>> /\ Len(own) - n + i = i
        <3>1. Len(own) # 0
            BY <1>6
        <3> QED  BY <1>6, <3>1, EmptySeq
    <2>3. Term(<<1, 2>>, own, n, i) \in Fraction /\ Aligned(own, n, i) = own[i]
        BY <1>6, <1>7, <2>1, <2>2, TermType
    <2>4. ASSUME NEW x \in Asset \ {s}
          PROVE  /\ Term(<<1, 2>>, Returns(prices[x]), n, i) \in Fraction
                 /\ Term(<<1, 2>>, Returns(prices[x]), n, i)[1] = 0
        <3>1. Returns(prices[x]) = <<>>
            BY <1>3
        <3>2. Term(<<1, 2>>, Returns(prices[x]), n, i) = <<0, 2>>
            BY <3>1 DEF Term, Aligned, Times, Zero
        <3> QED  BY <3>2 DEF Fraction
    <2> DEFINE f == terms(i)
    <2>5. /\ f \in [Asset -> Fraction] /\ f[s] = Times(<<1, 2>>, own[i])
          /\ \A x \in Asset \ {s} : f[x][1] = 0
        <3>1. f[s] = Term(<<1, 2>>, own, n, i)
            BY <1>4
        <3>2. \A x \in Asset \ {s} : f[x] \in Fraction /\ f[x][1] = 0
            BY <1>4, <2>4
        <3>3. f[s] = Times(<<1, 2>>, own[i])
            BY <2>3, <3>1 DEF Term
        <3>4. \A x \in Asset : f[x] \in Fraction
            BY <2>3, <3>1, <3>2
        <3> QED  BY <3>2, <3>3, <3>4
    <2> HIDE DEF f
    <2>6. Same(FoldFunction(Plus, Zero, f), f[s])
        BY <2>5, InputsAssumption, SumOfOne
    <2> QED  BY <2>5, <2>6 DEF f
<1> QED  BY <1>5, <1>7, <1>8

\* The series of a portfolio are aligned at their newest returns.
THEOREM Alignment == Inputs => []AlignedAtNewest
<1>1. InputsOK => AlignedAtNewest
    BY TailMatters, FlatPosition DEF AlignedAtNewest
<1> QED  BY <1>1, InputsCorrect, PTL

-----------------------------------------------------------------------------
(* The rolling return: the curve telescopes.                               *)

\* The larger of two numbers.
LEMMA MaxOfTwo ==
    ASSUME NEW x \in Int, NEW y \in Int
    PROVE  Max({x, y}) = IF x >= y THEN x ELSE y
<1> DEFINE greatest(v) == v \in {x, y} /\ \A w \in {x, y} : v >= w
           z == IF x >= y THEN x ELSE y
<1>1. greatest(z)
    OBVIOUS
<1>2. \A v : greatest(v) => v = z
    OBVIOUS
<1>3. \E v \in {x, y} : \A w \in {x, y} : v >= w
    BY <1>1
<1>4. greatest(Max({x, y}))
    BY <1>3 DEF Max
<1> HIDE DEF greatest, z
<1>5. Max({x, y}) = z
    BY <1>2, <1>4
<1> QED  BY <1>5 DEF z

\* One more than the change from one price to the next is their ratio.
LEMMA OneMore ==
    ASSUME NEW x \in Nat, NEW y \in Nat \ {0}
    PROVE  Plus(One, <<x - y, y>>) = <<x, y>>
<1>1. 1 * y + (x - y) * 1 = x /\ 1 * y = y
    OBVIOUS
<1> QED  BY <1>1 DEF Plus, One

\* The curve of the changes between positive prices is each price relative to
\* the first: the running product telescopes.
LEMMA Telescope ==
    ASSUME NEW x \in Seq(Nat \ {0}), NEW r \in Seq(Fraction),
           Len(x) = Len(r) + 1,
           \A k \in 1..Len(r) : r[k] = <<x[k + 1] - x[k], x[k]>>
    PROVE  /\ EquityCurve(r) \in Seq(Fraction) /\ Len(EquityCurve(r)) = Len(r)
           /\ x[1] \in Nat \ {0}
           /\ \A i \in 1..Len(r) : /\ x[i + 1] \in Nat \ {0}
                                   /\ EquityCurve(r)[i][1] > 0
                                   /\ Same(EquityCurve(r)[i], <<x[i + 1], x[1]>>)
<1> DEFINE n == Len(r)
<1>1. n \in Nat /\ \A i \in 1..(n + 1) : x[i] \in Nat \ {0}
    BY LenProperties, ElementOfSeq
<1>2. PICK e \in [0..n -> Fraction] :
          /\ e[0] = One
          /\ \A i \in 1..n : e[i] = Times(e[i - 1], Plus(One, r[i]))
          /\ EquityCurve(r) = [i \in 1..n |-> e[i]]
    BY CurveOf
<1> HIDE DEF n
<1> DEFINE Good(i) == e[i][1] > 0 /\ e[i][1] * x[1] = x[i + 1] * e[i][2]
           T == {i \in Nat : i <= n => Good(i)}
<1>3. x[1] \in Nat \ {0}
    BY <1>1
<1>4. 0 \in T
    <2>1. e[0][1] = 1 /\ e[0][2] = 1
        BY <1>2 DEF One
    <2>2. 1 * x[1] = x[0 + 1] * 1
        BY <1>3
    <2> QED  BY <2>1, <2>2
<1>5. ASSUME NEW i \in Nat, i \in T PROVE i + 1 \in T
    <2> SUFFICES ASSUME i + 1 <= n PROVE Good(i + 1)
        OBVIOUS
    <2>1. i + 1 \in 1..n /\ i \in 0..n /\ (i + 1) - 1 = i /\ i <= n
        BY <1>1
    <2>2. Good(i)
        BY <1>5, <2>1
    <2>3. x[i + 1] \in Nat \ {0} /\ x[(i + 1) + 1] \in Nat \ {0}
        <3>1. i + 1 \in 1..(n + 1) /\ (i + 1) + 1 \in 1..(n + 1)
            BY <1>1, <2>1
        <3> QED  BY <1>1, <3>1
    <2>4. Plus(One, r[i + 1]) = <<x[(i + 1) + 1], x[i + 1]>>
        <3>1. r[i + 1] = <<x[(i + 1) + 1] - x[i + 1], x[i + 1]>>
            BY <2>1 DEF n
        <3> QED  BY <2>3, <3>1, OneMore
    <2> DEFINE a == e[i][1]
               b == e[i][2]
               y == x[i + 1]
               z == x[(i + 1) + 1]
               f == x[1]
    <2>5. e[i + 1] = <<a * z, b * y>>
        BY <1>2, <2>1, <2>4 DEF Times
    <2>6. a \in Int /\ b \in Int /\ y \in Int /\ z \in Int /\ f \in Int
        <3>1. e[i] \in Fraction
            BY <1>2, <2>1
        <3> QED  BY <1>3, <2>3, <3>1, FractionParts
    <2>7. a > 0 /\ z > 0 /\ a * f = y * b
        BY <2>2, <2>3
    <2>8. e[i + 1][1] = a * z /\ e[i + 1][2] = b * y
        BY <2>5
    <2> HIDE DEF a, b, y, z, f
    <2>9. a * z > 0
        BY <2>6, <2>7
    <2>10. (a * z) * f = z * (b * y)
        <3>1. (a * z) * f = (a * f) * z /\ (y * b) * z = z * (b * y)
            BY <2>6, Products
        <3> QED  BY <2>7, <3>1
    <2> QED  BY <2>8, <2>9, <2>10 DEF z, f
<1>6. \A i \in 0..n : Good(i)
    <2>1. Nat \subseteq T
        <3> HIDE DEF T
        <3> QED  BY <1>4, <1>5, AllNaturals
    <2> QED  BY <1>1, <2>1
<1>7. EquityCurve(r) \in Seq(Fraction) /\ Len(EquityCurve(r)) = n
    <2>1. EquityCurve(r) \in [1..n -> Fraction]
        BY <1>1, <1>2
    <2> QED  BY <1>1, <2>1
<1>8. ASSUME NEW i \in 1..n
      PROVE  /\ x[i + 1] \in Nat \ {0} /\ EquityCurve(r)[i][1] > 0
             /\ Same(EquityCurve(r)[i], <<x[i + 1], x[1]>>)
    <2>1. i + 1 \in 1..(n + 1) /\ i \in 0..n
        BY <1>1
    <2>2. Good(i)
        BY <1>6, <2>1
    <2>3. EquityCurve(r)[i] = e[i]
        BY <1>2
    <2> QED  BY <1>1, <2>1, <2>2, <2>3 DEF Same
<1> QED  BY <1>3, <1>7, <1>8 DEF n

\* What the returns of positive prices are, for any stretch of a history.
LEMMA StretchReturns ==
    ASSUME NEW p \in Seq(Nat), 0 \notin ToSet(p), NEW m \in 1..Len(p)
    PROVE  /\ Len(p) \in Nat /\ Len(Returns(p)) = Len(p) - 1
           /\ \A i \in 1..Len(p) : p[i] \in Nat \ {0}
           /\ SubSeq(p, m, Len(p)) \in Seq(Nat \ {0})
           /\ Len(SubSeq(p, m, Len(p))) = Len(p) - m + 1
           /\ \A i \in 1..(Len(p) - m + 1) : SubSeq(p, m, Len(p))[i] = p[m + i - 1]
           /\ SubSeq(Returns(p), m, Len(Returns(p))) \in Seq(Fraction)
           /\ Len(SubSeq(Returns(p), m, Len(Returns(p)))) = Len(p) - m
           /\ \A i \in 1..(Len(p) - m) :
                  SubSeq(Returns(p), m, Len(Returns(p)))[i]
                    = <<p[m + i] - p[m + i - 1], p[m + i - 1]>>
<1> DEFINE n == Len(p)
           x == SubSeq(p, m, n)
           r == Returns(p)
           q == SubSeq(r, m, n - 1)
<1>1. n \in Nat /\ DOMAIN p = 1..n /\ p # <<>>
    BY LenProperties, EmptySeq
<1>2. \A i \in 1..n : p[i] \in Nat \ {0}
    <2>1. \A i \in 1..n : p[i] \in Nat
        BY ElementOfSeq
    <2> QED  BY <1>1, <2>1 DEF ToSet
<1>3. /\ r \in Seq(Fraction) /\ Len(r) = n - 1
      /\ \A k \in 1..(n - 1) : r[k] = <<p[k + 1] - p[k], p[k]>>
    BY <1>1, ReturnsOfPositive
<1>4. \A i \in 1..(n - 1) : r[i] \in Fraction
    BY <1>3, ElementOfSeq
<1> HIDE DEF n, r, x, q
<1>5. m \in Nat /\ m >= 1 /\ m <= n
    BY <1>1 DEF n
<1>6. /\ x \in Seq(Nat \ {0}) /\ Len(x) = n - m + 1
      /\ \A i \in 1..(n - m + 1) : x[i] = p[m + i - 1]
    <2>1. \A i \in m..n : p[i] \in Nat \ {0}
        BY <1>1, <1>2, <1>5
    <2>2. /\ x \in Seq(Nat \ {0}) /\ Len(x) = IF m <= n THEN n - m + 1 ELSE 0
          /\ \A i \in 1..n - m + 1 : x[i] = p[m + i - 1]
        BY <1>1, <1>5, <2>1, SubSeqProperties DEF x
    <2> QED  BY <1>5, <2>2
<1>7. /\ q \in Seq(Fraction) /\ Len(q) = n - m
      /\ \A i \in 1..(n - m) : q[i] = r[m + i - 1]
    <2> DEFINE l == n - 1
    <2>1. \A i \in m..l : r[i] \in Fraction
        BY <1>1, <1>4, <1>5
    <2>2. l \in Int /\ m \in Int /\ l - m + 1 = n - m
        BY <1>1, <1>5
    <2>3. q = SubSeq(r, m, l)
        BY DEF q
    <2> HIDE DEF l
    <2>4. /\ q \in Seq(Fraction) /\ Len(q) = IF m <= l THEN l - m + 1 ELSE 0
          /\ \A i \in 1..l - m + 1 : q[i] = r[m + i - 1]
        BY <2>1, <2>2, <2>3, SubSeqProperties
    <2>5. (IF m <= l THEN l - m + 1 ELSE 0) = n - m
        BY <1>1, <1>5, <2>2 DEF l
    <2> QED  BY <2>2, <2>4, <2>5
<1>8. \A i \in 1..(n - m) : q[i] = <<p[m + i] - p[m + i - 1], p[m + i - 1]>>
    <2>1. ASSUME NEW i \in 1..(n - m)
          PROVE  q[i] = <<p[m + i] - p[m + i - 1], p[m + i - 1]>>
        <3>1. m + i - 1 \in 1..(n - 1) /\ (m + i - 1) + 1 = m + i
            BY <1>1, <1>5
        <3>2. r[m + i - 1] = <<p[m + i] - p[m + i - 1], p[m + i - 1]>>
            BY <1>3, <3>1
        <3> QED  BY <1>7, <3>2
    <2> QED  BY <2>1
<1> QED  BY <1>1, <1>2, <1>3, <1>6, <1>7, <1>8 DEF n, r, x, q

\* The rolling return is the newest price against the one a window before.
LEMMA RollingIsRatio == InputsOK => RollingOfPrices
<1> SUFFICES ASSUME InputsOK, NEW s \in Asset, Positive(s), prices[s] # <<>>
             PROVE  Same(RollingReturn(PortfolioReturns(Only(s), prices)),
                         Change(<<Last(prices[s]), 1>>,
                             <<prices[s][Max({1, Len(prices[s]) - RollingWindow})], 1>>))
    BY DEF RollingOfPrices
<1> DEFINE p == prices[s]
           n == Len(p)
           r == Returns(p)
           m == IF 1 >= n - RollingWindow THEN 1 ELSE n - RollingWindow
<1>1. PortfolioReturns(Only(s), prices) = r
    BY SingleSymbol
<1>2. p \in Seq(Nat) /\ 0 \notin ToSet(p) /\ p # <<>>
    BY DEF InputsOK, Positive
<1>3. n \in Nat /\ n # 0
    BY <1>2, LenProperties, EmptySeq
<1>4. RollingWindow \in Nat /\ RollingWindow >= 1
    BY ParametersAssumption
<1> HIDE DEF n, r, m
<1>5. /\ m \in 1..n /\ m \in Int /\ Max({1, n - RollingWindow}) = m
      /\ n = 1 => m = 1
    <2>1. n - RollingWindow \in Int
        BY <1>3, <1>4
    <2>2. Max({1, n - RollingWindow}) = m
        BY <2>1, MaxOfTwo DEF m
    <2> QED  BY <1>3, <1>4, <2>2 DEF m
<1>6. /\ Len(r) = n - 1
      /\ \A i \in 1..n : p[i] \in Nat \ {0}
      /\ SubSeq(p, m, n) \in Seq(Nat \ {0}) /\ Len(SubSeq(p, m, n)) = n - m + 1
      /\ \A i \in 1..(n - m + 1) : SubSeq(p, m, n)[i] = p[m + i - 1]
      /\ SubSeq(r, m, Len(r)) \in Seq(Fraction) /\ Len(SubSeq(r, m, Len(r))) = n - m
      /\ \A i \in 1..(n - m) :
             SubSeq(r, m, Len(r))[i] = <<p[m + i] - p[m + i - 1], p[m + i - 1]>>
    BY <1>2, <1>5, StretchReturns DEF n, r
<1>7. Last(p) = p[n] /\ p[n] \in Nat \ {0} /\ p[m] \in Nat \ {0}
    BY <1>3, <1>5, <1>6 DEF Last, n
<1> DEFINE goal == Change(<<p[n], 1>>, <<p[m], 1>>)
<1>8. goal = <<p[n] - p[m], p[m]>>
    BY <1>7 DEF Change
<1>9. CASE n = 1
    <2>1. r = <<>>
        <3>1. r \in Seq(Fraction) /\ Len(r) = 0
            <4>1. r \in Seq(Fraction)
                BY <1>2, ReturnsAt DEF r
            <4>2. Len(r) = 1 - 1
                BY <1>6, <1>9
            <4> QED  BY <4>1, <4>2
        <3> QED  BY <3>1, EmptySeq
    <2>2. RollingReturn(r) = Zero
        BY <2>1 DEF RollingReturn
    <2>3. p[n] - p[m] = 0
        BY <1>5, <1>7, <1>9
    <2>4. 0 * p[m] = 0 * 1
        BY <1>7
    <2>5. Same(Zero, <<0, p[m]>>)
        BY <2>4 DEF Same, Zero
    <2>6. Same(RollingReturn(r), goal)
        BY <1>8, <2>2, <2>3, <2>5
    <2> QED  BY <1>1, <1>5, <1>7, <2>6 DEF n
<1>10. CASE n # 1
    <2> DEFINE x == SubSeq(p, m, n)
               q == SubSeq(r, m, Len(r))
               l == n - m
    <2>1. l \in Nat /\ l # 0
        BY <1>3, <1>4, <1>5, <1>10 DEF m
    <2>2. Newest(r) = q
        <3>1. Len(r) - RollingWindow + 1 = n - RollingWindow
            BY <1>3, <1>4, <1>6
        <3>2. Max({1, Len(r) - RollingWindow + 1}) = m
            BY <1>5, <3>1
        <3> QED  BY <3>2 DEF Newest
    <2> HIDE DEF x, q, l
    <2>3. /\ x \in Seq(Nat \ {0}) /\ Len(x) = l + 1 /\ q \in Seq(Fraction) /\ Len(q) = l
          /\ \A i \in 1..(l + 1) : x[i] = p[m + i - 1]
          /\ \A i \in 1..l : q[i] = <<p[m + i] - p[m + i - 1], p[m + i - 1]>>
        BY <1>6 DEF x, q, l
    <2>4. ASSUME NEW k \in 1..Len(q) PROVE q[k] = <<x[k + 1] - x[k], x[k]>>
        <3>1. k \in 1..l /\ k \in 1..(l + 1) /\ k + 1 \in 1..(l + 1)
            BY <2>1, <2>3
        <3>2. m + (k + 1) - 1 = m + k
            BY <1>5, <2>1, <3>1
        <3>3. x[k] = p[m + k - 1] /\ x[k + 1] = p[m + k]
            BY <2>3, <3>1, <3>2
        <3> QED  BY <2>3, <3>1, <3>3
    <2>5. Len(x) = Len(q) + 1
        BY <2>3
    <2> DEFINE curve == EquityCurve(q)
    <2>6. /\ curve \in Seq(Fraction) /\ Len(curve) = l
          /\ \A i \in 1..l : Same(curve[i], <<x[i + 1], x[1]>>)
        <3>1. /\ EquityCurve(q) \in Seq(Fraction) /\ Len(EquityCurve(q)) = Len(q)
              /\ \A i \in 1..Len(q) : Same(EquityCurve(q)[i], <<x[i + 1], x[1]>>)
            BY <2>3, <2>4, <2>5, Telescope
        <3> QED  BY <2>3, <3>1
    <2> HIDE DEF curve
    <2> DEFINE c == curve[l]
    <2>7. Same(c, <<p[n], p[m]>>) /\ c \in Fraction
        <3>1. l \in 1..l /\ l + 1 \in 1..(l + 1) /\ 1 \in 1..(l + 1)
            BY <2>1
        <3>2. m + (l + 1) - 1 = n /\ m + 1 - 1 = m
            BY <1>3, <1>5 DEF l
        <3>3. x[l + 1] = p[n] /\ x[1] = p[m]
            BY <2>3, <3>1, <3>2
        <3>4. c \in Fraction
            BY <2>6, <3>1, ElementOfSeq
        <3> QED  BY <2>6, <3>1, <3>3, <3>4
    <2>8. RollingReturn(r) = Plus(c, <<-1, 1>>)
        <3>1. r # <<>>
            <4>1. Len(r) # 0
                BY <1>3, <1>6, <1>10
            <4> QED  BY <4>1, EmptySeq
        <3>2. Last(curve) = c
            BY <2>6 DEF Last
        <3> QED  BY <2>2, <3>1, <3>2 DEF RollingReturn, curve
    <2> HIDE DEF c
    <2>9. Same(Plus(c, <<-1, 1>>), <<p[n] - p[m], p[m]>>)
        <3> DEFINE c1 == c[1]
                   c2 == c[2]
                   u == p[n]
                   v == p[m]
        <3>1. c1 * v = u * c2
            BY <2>7 DEF Same
        <3>2. Plus(c, <<-1, 1>>) = <<c1 * 1 + (-1) * c2, c2 * 1>>
            BY DEF Plus
        <3>3. c1 \in Int /\ c2 \in Int /\ u \in Int /\ v \in Int
            BY <1>7, <2>7, FractionParts
        <3> HIDE DEF c1, c2, u, v
        <3>4. c1 * 1 + (-1) * c2 = c1 - c2 /\ c2 * 1 = c2
            BY <3>3
        <3>5. (c1 - c2) * v = c1 * v - c2 * v /\ (u - v) * c2 = u * c2 - v * c2
            BY <3>3
        <3>6. c2 * v = v * c2 /\ c2 * v \in Int /\ u * c2 \in Int
            BY <3>3
        <3>7. (c1 - c2) * v = (u - v) * c2
            BY <3>1, <3>5, <3>6
        <3>8. Same(<<c1 - c2, c2>>, <<u - v, v>>)
            BY <3>7 DEF Same
        <3> QED  BY <3>2, <3>4, <3>8 DEF u, v
    <2>10. Same(RollingReturn(r), goal)
        BY <1>8, <2>8, <2>9
    <2> QED  BY <1>1, <1>5, <1>7, <2>10 DEF n
<1> QED  BY <1>9, <1>10

-----------------------------------------------------------------------------
(* The drawdown.                                                           *)

\* The image of a finite set is finite.
LEMMA FiniteImage ==
    ASSUME NEW S, IsFiniteSet(S), NEW h, DOMAIN h = S
    PROVE  IsFiniteSet({h[x] : x \in S})
<1> DEFINE T == {h[x] : x \in S}
           f == [x \in S |-> h[x]]
<1>1. f \in Surjection(S, T)
    BY DEF Surjection
<1> HIDE DEF f, T
<1>2. IsFiniteSet(T)
    BY <1>1, FS_Surjection
<1> QED  BY <1>2 DEF T

\* Fractions that are the same relative to a common third are ordered as these are.
LEMMA RelativeOrder ==
    ASSUME NEW a \in Fraction, NEW b \in Fraction,
           NEW x \in Int, NEW y \in Int, NEW d \in Nat \ {0},
           Same(a, <<x, d>>), Same(b, <<y, d>>), ~Less(a, b)
    PROVE  y <= x
<1> DEFINE a1 == a[1]
           a2 == a[2]
           b1 == b[1]
           b2 == b[2]
<1>1. /\ a1 \in Int /\ b1 \in Int /\ a2 \in Nat \ {0} /\ b2 \in Nat \ {0}
      /\ a2 \in Int /\ b2 \in Int /\ d \in Int
    BY FractionParts
<1>2. a1 * d = x * a2 /\ b1 * d = y * b2 /\ ~(a1 * b2 < b1 * a2)
    BY DEF Same, Less
<1> HIDE DEF a1, a2, b1, b2
<1>3. b1 * a2 <= a1 * b2 /\ b1 * a2 \in Int /\ a1 * b2 \in Int
    BY <1>1, <1>2
<1>4. (b1 * a2) * d <= (a1 * b2) * d
    BY <1>3, ScaleOrder
<1>5. (b1 * a2) * d = (b1 * d) * a2 /\ (a1 * b2) * d = (a1 * d) * b2
    BY <1>1, Products
<1>6. (y * b2) * a2 <= (x * a2) * b2
    BY <1>2, <1>4, <1>5
<1>7. (x * a2) * b2 = (x * b2) * a2
    BY <1>1, Products
<1>8. y * b2 \in Int /\ x * b2 \in Int
    BY <1>1
<1>9. y * b2 <= x * b2
    BY <1>1, <1>6, <1>7, <1>8, ScaleOrder
<1> QED  BY <1>1, <1>9, ScaleOrder

\* The change between them is that between the prices they stand for.
LEMMA RelativeChange ==
    ASSUME NEW a \in Fraction, NEW b \in Fraction, b[1] > 0,
           NEW x \in Int, NEW y \in Int, NEW d \in Nat \ {0},
           Same(a, <<x, d>>), Same(b, <<y, d>>)
    PROVE  Same(Change(a, b), <<x - y, y>>)
<1> DEFINE a1 == a[1]
           a2 == a[2]
           b1 == b[1]
           b2 == b[2]
<1>1. /\ a1 \in Int /\ b1 \in Int /\ a2 \in Int /\ b2 \in Int /\ d \in Int
    BY FractionParts
<1>2. a1 * d = x * a2 /\ b1 * d = y * b2
    BY DEF Same
<1>3. Change(a, b) = <<a1 * b2 - b1 * a2, b1 * a2>>
    BY DEF Change
<1> HIDE DEF a1, a2, b1, b2
<1> DEFINE u == (a1 * b2) * y
           v == x * (b1 * a2)
<1>4. u \in Int /\ v \in Int
    BY <1>1
<1>5. u * d = v * d
    <2>1. u * d = (a1 * d) * (y * b2)
        <3>1. (a1 * b2) * y = a1 * (y * b2)
            BY <1>1, Products
        <3>2. (a1 * (y * b2)) * d = (a1 * d) * (y * b2)
            BY <1>1, Products
        <3> QED  BY <3>1, <3>2
    <2>2. v * d = (x * a2) * (b1 * d)
        <3>1. x * (b1 * a2) = (x * a2) * b1
            BY <1>1, Products
        <3>2. ((x * a2) * b1) * d = (x * a2) * (b1 * d)
            BY <1>1, Products
        <3> QED  BY <3>1, <3>2
    <2> QED  BY <1>2, <2>1, <2>2
<1> HIDE DEF u, v
<1>6. u = v
    <2>1. u <= v /\ v <= u
        <3>1. u * d \in Int /\ v * d \in Int
            BY <1>1, <1>4
        <3>2. u * d <= v * d /\ v * d <= u * d
            BY <1>5, <3>1
        <3> QED  BY <1>4, <3>2, ScaleOrder
    <2> QED  BY <1>4, <2>1
<1>7. (a1 * b2 - b1 * a2) * y = (x - y) * (b1 * a2)
    <2>1. (a1 * b2 - b1 * a2) * y = (a1 * b2) * y - (b1 * a2) * y
        BY <1>1
    <2>2. (x - y) * (b1 * a2) = x * (b1 * a2) - y * (b1 * a2)
        BY <1>1
    <2>3. (b1 * a2) * y = y * (b1 * a2)
        BY <1>1
    <2> QED  BY <1>6, <2>1, <2>2, <2>3 DEF u, v
<1> QED  BY <1>3, <1>7 DEF Same

\* The same values are not less than one another.
LEMMA SameAtMost ==
    ASSUME NEW a \in Fraction, NEW b \in Fraction, Same(a, b)
    PROVE  ~Less(a, b) /\ ~Less(b, a)
<1>1. a[1] * b[2] \in Int /\ b[1] * a[2] \in Int
    BY FractionParts, Products
<1> QED  BY <1>1 DEF Less, Same

\* A fall from a larger price is at least as deep.
LEMMA DeeperFall ==
    ASSUME NEW x \in Nat, NEW y \in Nat \ {0}, NEW z \in Nat \ {0}, y <= z
    PROVE  ~Less(<<x - y, y>>, <<x - z, z>>)
<1>1. x * y <= x * z
    <2>1. CASE x = 0
        BY <2>1
    <2>2. CASE x # 0
        <3>1. y * x <= z * x
            BY <2>2, ScaleOrder
        <3> QED  BY <3>1, Products
    <2> QED  BY <2>1, <2>2
<1>2. (x - y) * z = x * z - y * z /\ (x - z) * y = x * y - z * y /\ y * z = z * y
    OBVIOUS
<1>3. x * y \in Int /\ x * z \in Int /\ y * z \in Int
    OBVIOUS
<1>4. ~((x - y) * z < (x - z) * y)
    BY <1>1, <1>2, <1>3
<1> QED  BY <1>4 DEF Less

\* The drawdown is the worst fall between two prices after the first.
LEMMA DrawdownIsFall == InputsOK => DrawdownOfPrices
<1> DEFINE pairs(n) == {y \in (2..n) \X (2..n) : y[1] <= y[2]}
           fall(p, x) == Change(<<p[x[2]], 1>>, <<p[x[1]], 1>>)
           later(p) == {fall(p, x) : x \in pairs(Len(p))}
<1> SUFFICES ASSUME InputsOK, NEW s \in Asset, Positive(s)
             PROVE  Same(MaxDrawdown(PortfolioReturns(Only(s), prices)),
                         IF later(prices[s]) = {} THEN Zero ELSE Lowest(later(prices[s])))
    BY DEF DrawdownOfPrices
<1> DEFINE p == prices[s]
           n == Len(p)
           r == Returns(p)
           curve == EquityCurve(r)
           A == {Zero} \cup {Change(curve[i], Peak(curve, i)) : i \in DOMAIN curve}
           B == later(p)
<1>1. PortfolioReturns(Only(s), prices) = r
    BY SingleSymbol
<1>2. p \in Seq(Nat) /\ 0 \notin ToSet(p)
    BY DEF InputsOK, Positive
<1>3. n \in Nat
    BY <1>2, LenProperties
<1>4. MaxDrawdown(r) = Lowest(A)
    BY DEF MaxDrawdown
<1>5. Zero \in Fraction
    BY DEF Zero, Fraction
<1>6. CASE n < 2
    <2>1. r = <<>>
        BY <1>2, <1>6, NoReturns
    <2>2. r \in Seq(Fraction) /\ Len(r) = 0
        BY <2>1, EmptySeq
    <2>3. DOMAIN curve = {}
        <3>1. PICK e \in [0..Len(r) -> Fraction] : curve = [i \in 1..Len(r) |-> e[i]]
            BY <2>2, CurveOf
        <3>2. DOMAIN curve = 1..Len(r) /\ 1..0 = {}
            BY <3>1
        <3> QED  BY <2>2, <3>2
    <2>4. A = {Zero}
        BY <2>3
    <2>5. Lowest(A) = Zero
        <3>1. Lowest({Zero}) \in {Zero}
            BY <1>5, FS_Singleton, Extremes
        <3> QED  BY <2>4, <3>1
    <2>6. B = {}
        <3>1. pairs(n) = {}
            BY <1>3, <1>6
        <3> QED  BY <3>1
    <2>7. Same(Zero, Zero)
        BY DEF Same
    <2> QED  BY <1>1, <1>4, <2>5, <2>6, <2>7
<1>7. CASE ~(n < 2)
    <2> HIDE DEF n, r
    <2>1. n >= 2 /\ 1 \in 1..n
        BY <1>3, <1>7
    <2> DEFINE l == n - 1
    <2>2. /\ Len(r) = l /\ l \in Nat /\ l >= 1 /\ r \in Seq(Fraction)
          /\ \A i \in 1..n : p[i] \in Nat \ {0}
          /\ \A i \in 1..l : r[i] = <<p[i + 1] - p[i], p[i]>>
          /\ p # <<>>
        <3>1. p # <<>>
            BY <2>1, <1>3, EmptySeq DEF n
        <3>2. /\ r \in Seq(Fraction) /\ Len(r) = n - 1
              /\ \A i \in 1..Len(r) : r[i] = <<p[i + 1] - p[i], p[i]>>
            BY <1>2, <3>1, ReturnsOfPositive DEF n, r
        <3>3. \A i \in 1..n : p[i] \in Nat \ {0}
            <4>1. n = Len(p) /\ 1 \in 1..Len(p)
                BY <2>1 DEF n
            <4> QED  BY <1>2, <4>1, StretchReturns
        <3> QED  BY <1>3, <2>1, <3>1, <3>2, <3>3
    <2> HIDE DEF l
    <2>3. n = l + 1 /\ \A i \in 1..l : i + 1 \in 2..n /\ i \in 1..n
        BY <1>3, <2>2 DEF l
    <2>4. p \in Seq(Nat \ {0}) /\ Len(p) = Len(r) + 1
        <3>1. p \in [1..n -> Nat \ {0}]
            <4>1. p \in [1..n -> Nat]
                BY <1>2, LenProperties DEF n
            <4> QED  BY <2>2, <4>1
        <3>2. p \in Seq(Nat \ {0})
            BY <1>3, <3>1
        <3> QED  BY <2>2, <2>3, <3>2 DEF n
    <2>5. /\ curve \in Seq(Fraction) /\ Len(curve) = l /\ p[1] \in Nat \ {0}
          /\ \A i \in 1..l : /\ p[i + 1] \in Nat \ {0} /\ curve[i][1] > 0
                             /\ Same(curve[i], <<p[i + 1], p[1]>>)
        BY <2>2, <2>4, Telescope
    <2>6. DOMAIN curve = 1..l /\ \A i \in 1..l : curve[i] \in Fraction
        BY <2>5, LenProperties, ElementOfSeq
    <2> HIDE DEF curve
    <2>7. ASSUME NEW i \in 1..l
          PROVE  \E m \in 1..i : /\ m \in 1..l /\ Peak(curve, i) = curve[m]
                                 /\ \A j \in 1..i : p[j + 1] <= p[m + 1]
        <3> DEFINE C == {curve[j] : j \in 1..i}
        <3>1. \A j \in 1..i : j \in 1..l
            BY <2>2
        <3>2. C \in SUBSET Fraction /\ C # {}
            <4>1. i \in 1..i
                BY <2>2
            <4> QED  BY <2>6, <3>1, <4>1
        <3>3. IsFiniteSet(C)
            <4> DEFINE h == [j \in 1..i |-> curve[j]]
            <4>1. IsFiniteSet(1..i) /\ DOMAIN h = 1..i
                BY <2>2, FS_Interval
            <4>2. IsFiniteSet({h[j] : j \in 1..i})
                <5> HIDE DEF h
                <5> QED  BY <4>1, FiniteImage
            <4>3. {h[j] : j \in 1..i} = C
                OBVIOUS
            <4> QED  BY <4>2, <4>3
        <3>4. Largest(C) \in C /\ \A y \in C : ~Less(Largest(C), y)
            BY <3>2, <3>3, Extremes
        <3>5. PICK m \in 1..i : Largest(C) = curve[m]
            BY <3>4
        <3>6. Peak(curve, i) = curve[m]
            BY <3>5 DEF Peak
        <3>7. ASSUME NEW j \in 1..i PROVE p[j + 1] <= p[m + 1]
            <4>1. ~Less(curve[m], curve[j])
                BY <3>4, <3>5
            <4>2. /\ curve[m] \in Fraction /\ curve[j] \in Fraction
                  /\ Same(curve[m], <<p[m + 1], p[1]>>) /\ Same(curve[j], <<p[j + 1], p[1]>>)
                  /\ p[m + 1] \in Int /\ p[j + 1] \in Int
                <5>1. m \in 1..l /\ j \in 1..l
                    BY <3>1
                <5>2. curve[m] \in Fraction /\ curve[j] \in Fraction
                    BY <2>6, <5>1
                <5>3. p[m + 1] \in Nat \ {0} /\ Same(curve[m], <<p[m + 1], p[1]>>)
                    BY <2>5, <5>1
                <5>4. p[j + 1] \in Nat \ {0} /\ Same(curve[j], <<p[j + 1], p[1]>>)
                    BY <2>5, <5>1
                <5>5. p[m + 1] \in Int /\ p[j + 1] \in Int
                    BY <5>3, <5>4
                <5> QED  BY <5>2, <5>3, <5>4, <5>5
            <4> QED  BY <2>5, <4>1, <4>2, RelativeOrder
        <3> QED  BY <3>1, <3>6, <3>7
    <2> DEFINE cut(i, m) == <<p[i + 1] - p[m + 1], p[m + 1]>>
    <2>8. ASSUME NEW i \in 1..l, NEW m \in 1..l
          PROVE  /\ Change(curve[i], curve[m]) \in Fraction /\ cut(i, m) \in Fraction
                 /\ Same(Change(curve[i], curve[m]), cut(i, m))
        <3>1. /\ curve[i] \in Fraction /\ curve[m] \in Fraction /\ curve[m][1] > 0
              /\ p[i + 1] \in Int /\ p[m + 1] \in Int /\ p[m + 1] \in Nat \ {0}
              /\ p[1] \in Nat \ {0}
              /\ Same(curve[i], <<p[i + 1], p[1]>>) /\ Same(curve[m], <<p[m + 1], p[1]>>)
            <4>1. curve[i] \in Fraction /\ curve[m] \in Fraction
                BY <2>6
            <4>2. p[i + 1] \in Nat \ {0} /\ Same(curve[i], <<p[i + 1], p[1]>>)
                BY <2>5
            <4>3. /\ p[m + 1] \in Nat \ {0} /\ Same(curve[m], <<p[m + 1], p[1]>>)
                  /\ curve[m][1] > 0
                BY <2>5
            <4>4. p[i + 1] \in Int /\ p[m + 1] \in Int
                BY <4>2, <4>3
            <4> QED  BY <2>5, <4>1, <4>2, <4>3, <4>4
        <3>2. Same(Change(curve[i], curve[m]), cut(i, m))
            BY <3>1, RelativeChange
        <3>3. Change(curve[i], curve[m]) \in Fraction
            BY <3>1, FractionResults
        <3>4. cut(i, m) \in Fraction
            BY <3>1 DEF Fraction
        <3> QED  BY <3>2, <3>3, <3>4
    <2>9. ASSUME NEW x \in pairs(n)
          PROVE  fall(p, x) = <<p[x[2]] - p[x[1]], p[x[1]]>> /\ fall(p, x) \in Fraction
        <3>1. x[1] \in 1..n /\ x[2] \in 1..n
            BY <1>3
        <3>2. p[x[1]] \in Nat \ {0} /\ p[x[2]] \in Nat \ {0}
            BY <2>2, <3>1
        <3> QED  BY <3>2 DEF Change, Fraction
    <2>10. A \in SUBSET Fraction /\ A # {}
        <3>1. ASSUME NEW i \in 1..l PROVE Change(curve[i], Peak(curve, i)) \in Fraction
            BY <2>7, <2>8
        <3> QED  BY <1>5, <2>6, <3>1
    <2>11. IsFiniteSet(A)
        <3> DEFINE h == [i \in 1..l |-> Change(curve[i], Peak(curve, i))]
        <3>1. IsFiniteSet(1..l)
            BY <2>2, FS_Interval
        <3>2. DOMAIN h = 1..l
            OBVIOUS
        <3>3. {h[i] : i \in 1..l} = {Change(curve[i], Peak(curve, i)) : i \in DOMAIN curve}
            BY <2>6
        <3> DEFINE H == {h[i] : i \in 1..l}
        <3> HIDE DEF h
        <3>4. IsFiniteSet(H)
            BY <3>1, <3>2, FiniteImage
        <3>5. A = H \cup {Zero}
            BY <3>3
        <3> HIDE DEF H, A
        <3> QED  BY <3>4, <3>5, FS_AddElement
    <2>12. B = {fall(p, x) : x \in pairs(n)}
        BY DEF n
    <2>13. B \in SUBSET Fraction /\ IsFiniteSet(B) /\ B # {}
        <3>1. <<2, 2>> \in pairs(n)
            BY <1>3, <2>1
        <3>2. IsFiniteSet(pairs(n))
            <4>1. IsFiniteSet(2..n)
                BY <1>3, FS_Interval
            <4>2. IsFiniteSet((2..n) \X (2..n))
                BY <4>1, FS_Product
            <4>3. pairs(n) \in SUBSET ((2..n) \X (2..n))
                OBVIOUS
            <4> HIDE DEF pairs
            <4> QED  BY <4>2, <4>3, FS_Subset
        <3> DEFINE h == [x \in pairs(n) |-> fall(p, x)]
        <3>3. {h[x] : x \in pairs(n)} = {fall(p, x) : x \in pairs(n)} /\ DOMAIN h = pairs(n)
            OBVIOUS
        <3> HIDE DEF h, pairs
        <3>4. IsFiniteSet({h[x] : x \in pairs(n)})
            BY <3>2, <3>3, FiniteImage
        <3>5. IsFiniteSet(B)
            BY <2>12, <3>3, <3>4
        <3>6. B # {}
            BY <2>12, <3>1
        <3>7. B \in SUBSET Fraction
            BY <2>9, <2>12
        <3> QED  BY <3>5, <3>6, <3>7
    <2>14. ASSUME NEW a \in A PROVE \E b \in B : ~Less(a, b)
        <3>1. CASE a = Zero
            <4> DEFINE x == <<2, 2>>
            <4>1. x \in pairs(n) /\ x[1] = 2 /\ x[2] = 2 /\ 2 \in 1..n
                BY <1>3, <2>1
            <4>2. fall(p, x) = <<p[2] - p[2], p[2]>> /\ fall(p, x) \in B
                BY <2>9, <2>12, <4>1
            <4>3. p[2] - p[2] = 0 /\ ~(0 * p[2] < 0 * 1)
                BY <2>2, <4>1
            <4>4. ~Less(Zero, <<0, p[2]>>)
                BY <4>3 DEF Less, Zero
            <4> QED  BY <3>1, <4>2, <4>3, <4>4
        <3>2. CASE a # Zero
            <4>1. PICK i \in 1..l : a = Change(curve[i], Peak(curve, i))
                BY <2>6, <3>2
            <4>2. PICK m \in 1..i : m \in 1..l /\ Peak(curve, i) = curve[m]
                BY <2>7
            <4> DEFINE x == <<m + 1, i + 1>>
            <4>3. m + 1 \in 2..n /\ i + 1 \in 2..n /\ m + 1 <= i + 1
                BY <1>3, <2>2, <2>3, <4>2
            <4>4. x \in pairs(n) /\ x[1] = m + 1 /\ x[2] = i + 1
                BY <4>3
            <4>5. fall(p, x) = cut(i, m) /\ fall(p, x) \in B
                BY <2>9, <2>12, <4>4
            <4>6. /\ Change(curve[i], curve[m]) \in Fraction /\ cut(i, m) \in Fraction
                  /\ Same(Change(curve[i], curve[m]), cut(i, m))
                BY <2>8, <4>2
            <4> HIDE DEF cut
            <4>7. ~Less(Change(curve[i], curve[m]), cut(i, m))
                BY <4>6, SameAtMost
            <4>8. ~Less(a, cut(i, m))
                BY <4>1, <4>2, <4>7
            <4> QED  BY <4>5, <4>8
        <3> QED  BY <3>1, <3>2
    <2>15. ASSUME NEW b \in B PROVE \E a \in A : ~Less(b, a)
        <3>1. PICK x \in pairs(n) : b = fall(p, x)
            BY <2>12
        <3>2. x[1] \in 2..n /\ x[2] \in 2..n /\ x[1] <= x[2]
            OBVIOUS
        <3> DEFINE i == x[2] - 1
                   j == x[1] - 1
        <3>3. i \in 1..l /\ j \in 1..i /\ i + 1 = x[2] /\ j + 1 = x[1] /\ j \in 1..l
            <4> DEFINE y == x[1]
                       z == x[2]
            <4> HIDE DEF y, z
            <4>1. y \in 2..n /\ z \in 2..n /\ y <= z /\ i = z - 1 /\ j = y - 1
                BY <3>2 DEF y, z
            <4> HIDE DEF i, j
            <4>2. i \in 1..l /\ j \in 1..i /\ i + 1 = z /\ j + 1 = y /\ j \in 1..l
                BY <1>3, <2>2, <2>3, <4>1
            <4> QED  BY <4>2 DEF y, z
        <3> HIDE DEF i, j
        <3>4. PICK m \in 1..i : /\ m \in 1..l /\ Peak(curve, i) = curve[m]
                                /\ \A k \in 1..i : p[k + 1] <= p[m + 1]
            BY <2>7, <3>3
        <3> DEFINE a == Change(curve[i], curve[m])
        <3>5. a \in A
            BY <2>6, <3>3, <3>4
        <3>6. a \in Fraction /\ cut(i, m) \in Fraction /\ Same(a, cut(i, m))
            BY <2>8, <3>3, <3>4
        <3>7. b = <<p[i + 1] - p[j + 1], p[j + 1]>> /\ b \in Fraction
            BY <2>9, <3>1, <3>3
        <3> HIDE DEF a
        <3>8. ~Less(b, cut(i, m))
            <4>1. p[j + 1] <= p[m + 1]
                BY <3>3, <3>4
            <4>2. p[i + 1] \in Nat /\ p[j + 1] \in Nat \ {0} /\ p[m + 1] \in Nat \ {0}
                BY <2>5, <3>3, <3>4
            <4>3. ~Less(<<p[i + 1] - p[j + 1], p[j + 1]>>, <<p[i + 1] - p[m + 1], p[m + 1]>>)
                BY <4>1, <4>2, DeeperFall
            <4> QED  BY <3>7, <4>3
        <3>9. ~Less(cut(i, m), a)
            <4> HIDE DEF cut
            <4> QED  BY <3>6, SameAtMost
        <3>10. ~Less(b, a)
            <4> HIDE DEF cut
            <4> QED  BY <3>6, <3>7, <3>8, <3>9, AtMostTransitive
        <3> QED  BY <3>5, <3>10
    <2>16. Same(Lowest(A), Lowest(B))
        <3> HIDE DEF A, B
        <3> QED  BY <2>10, <2>11, <2>13, <2>14, <2>15, SameLowest
    <2> QED  BY <1>1, <1>4, <2>13, <2>16 DEF r, n
<1> QED  BY <1>6, <1>7

\* The metrics say of the prices what they claim to say.
THEOREM Metrics == Inputs => []MetricsOfPrices
<1>1. InputsOK => MetricsOfPrices
    BY DrawdownIsFall, RollingIsRatio DEF MetricsOfPrices
<1> QED  BY <1>1, InputsCorrect, PTL

-----------------------------------------------------------------------------
(* Total losses.                                                           *)

\* Of returns that lose everything at most, the curve is never negative, and at
\* a total loss it is zero.
LEMMA CurveOfLosses ==
    ASSUME NEW r \in Seq(Fraction), \A k \in 1..Len(r) : r[k][1] + r[k][2] >= 0
    PROVE  /\ EquityCurve(r) \in Seq(Fraction) /\ Len(EquityCurve(r)) = Len(r)
           /\ \A i \in 1..Len(r) :
                  /\ EquityCurve(r)[i][1] >= 0
                  /\ r[i][1] + r[i][2] = 0 => EquityCurve(r)[i][1] = 0
           /\ r # <<>> => EquityCurve(r)[1][1] = r[1][1] + r[1][2]
<1> DEFINE n == Len(r)
<1>1. n \in Nat /\ \A i \in 1..n : r[i] \in Fraction
    BY LenProperties, ElementOfSeq
<1>2. PICK e \in [0..n -> Fraction] :
          /\ e[0] = One
          /\ \A i \in 1..n : e[i] = Times(e[i - 1], Plus(One, r[i]))
          /\ EquityCurve(r) = [i \in 1..n |-> e[i]]
    BY CurveOf
<1>3. \A k \in 1..n : r[k][1] + r[k][2] >= 0
    OBVIOUS
<1> HIDE DEF n
<1>4. ASSUME NEW i \in 1..n
      PROVE  /\ i - 1 \in 0..n /\ e[i - 1][1] \in Int /\ r[i][1] + r[i][2] \in Int
             /\ e[i][1] = e[i - 1][1] * (r[i][1] + r[i][2])
    <2> DEFINE u == r[i][1]
               v == r[i][2]
               a == e[i - 1][1]
    <2>1. i - 1 \in 0..n
        BY <1>1
    <2>2. u \in Int /\ v \in Int /\ a \in Int
        BY <1>1, <1>2, <2>1, FractionParts
    <2>3. Plus(One, r[i])[1] = 1 * v + u * 1
        BY DEF Plus, One
    <2>4. e[i][1] = a * Plus(One, r[i])[1]
        BY <1>2 DEF Times
    <2> HIDE DEF u, v, a
    <2>5. 1 * v + u * 1 = u + v /\ u + v \in Int
        BY <2>2
    <2> QED  BY <2>1, <2>2, <2>3, <2>4, <2>5 DEF u, v, a
<1> DEFINE T == {i \in Nat : i <= n => e[i][1] >= 0}
<1>5. 0 \in T
    BY <1>2 DEF One
<1>6. ASSUME NEW i \in Nat, i \in T PROVE i + 1 \in T
    <2> SUFFICES ASSUME i + 1 <= n PROVE e[i + 1][1] >= 0
        OBVIOUS
    <2>1. i + 1 \in 1..n /\ (i + 1) - 1 = i /\ e[i][1] >= 0
        BY <1>1, <1>6
    <2> DEFINE a == e[i][1]
               b == r[i + 1][1] + r[i + 1][2]
    <2>2. a \in Int /\ b \in Int /\ e[i + 1][1] = a * b
        BY <1>4, <2>1
    <2>3. a >= 0 /\ b >= 0
        BY <1>3, <2>1
    <2> HIDE DEF a, b
    <2>4. a * b >= 0
        BY <2>2, <2>3
    <2> QED  BY <2>2, <2>4
<1>7. \A i \in 0..n : e[i][1] >= 0
    <2>1. Nat \subseteq T
        <3> HIDE DEF T
        <3> QED  BY <1>5, <1>6, AllNaturals
    <2> QED  BY <1>1, <2>1
<1>8. EquityCurve(r) \in Seq(Fraction) /\ Len(EquityCurve(r)) = n
    <2>1. EquityCurve(r) \in [1..n -> Fraction]
        BY <1>1, <1>2
    <2> QED  BY <1>1, <2>1
<1>9. ASSUME NEW i \in 1..n
      PROVE  /\ EquityCurve(r)[i][1] >= 0
             /\ r[i][1] + r[i][2] = 0 => EquityCurve(r)[i][1] = 0
    <2>1. EquityCurve(r)[i] = e[i] /\ i \in 0..n
        BY <1>1, <1>2
    <2> DEFINE a == e[i - 1][1]
    <2>2. a \in Int /\ e[i][1] = a * (r[i][1] + r[i][2])
        BY <1>4
    <2> HIDE DEF a
    <2>3. a * 0 = 0
        BY <2>2
    <2> QED  BY <1>7, <2>1, <2>2, <2>3
<1>10. r # <<>> => EquityCurve(r)[1][1] = r[1][1] + r[1][2]
    <2> SUFFICES ASSUME r # <<>> PROVE EquityCurve(r)[1][1] = r[1][1] + r[1][2]
        OBVIOUS
    <2>1. 1 \in 1..n
        BY <1>1, EmptySeq DEF n
    <2>2. EquityCurve(r)[1] = e[1] /\ e[1 - 1][1] = 1
        BY <1>2, <2>1 DEF One
    <2> DEFINE b == r[1][1] + r[1][2]
    <2>3. b \in Int /\ e[1][1] = e[1 - 1][1] * b
        BY <1>4, <2>1
    <2> HIDE DEF b
    <2>4. 1 * b = b
        BY <2>3
    <2> QED  BY <2>2, <2>3, <2>4 DEF b
<1> QED  BY <1>8, <1>9, <1>10 DEF n

\* The first price with a return comes after the first that is not zero.
LEMMA FirstReturn ==
    ASSUME NEW p \in Seq(Nat)
    PROVE  LET positive == {i \in DOMAIN p : p[i] # 0}
               first == InOrder(After(p), <)[1]
           IN  /\ Returns(p) # <<>> <=> positive # {} /\ Min(positive) + 1 \in DOMAIN p
               /\ Returns(p) # <<>> => /\ first = Min(positive) + 1
                                       /\ Min(positive) \in positive
<1> DEFINE positive == {i \in DOMAIN p : p[i] # 0}
           S == After(p)
           first == InOrder(S, <)[1]
           m == Min(positive)
<1>1. Len(p) \in Nat /\ DOMAIN p = 1..Len(p)
    BY LenProperties
<1>2. IsFiniteSet(S) /\ S \in SUBSET Nat /\ Cardinality(S) \in Nat
      /\ (Cardinality(S) = 0 <=> S = {})
    BY ReturnsAt, FS_CardinalityType, FS_EmptySet
<1>3. Returns(p) # <<>> <=> S # {}
    <2>1. Returns(p) \in Seq(Fraction) /\ Len(Returns(p)) = Cardinality(S)
        BY ReturnsAt
    <2>2. Returns(p) = <<>> <=> Len(Returns(p)) = 0
        BY <2>1, EmptySeq
    <2> QED  BY <1>2, <2>1, <2>2
<1>4. S = {i \in 2..Len(p) : p[i - 1] # 0}
    BY DEF After
<1>5. ASSUME positive # {}
      PROVE  m \in positive /\ (\A y \in positive : m <= y) /\ positive \in SUBSET Nat
    <2>1. positive \in SUBSET Nat
        BY <1>1
    <2> HIDE DEF positive
    <2> QED  BY <1>5, <2>1, MinIsThere
<1> HIDE DEF m, S
<1>6. ASSUME positive # {}, m + 1 \in DOMAIN p PROVE S # {}
    <2>1. m \in positive
        BY <1>5, <1>6
    <2>2. m + 1 \in 2..Len(p) /\ (m + 1) - 1 = m
        BY <1>1, <1>6, <2>1
    <2>3. m + 1 \in S
        BY <1>4, <2>1, <2>2
    <2> QED  BY <2>3
<1>7. ASSUME S # {} PROVE /\ positive # {} /\ m + 1 \in DOMAIN p
                          /\ first = m + 1 /\ m \in positive
    <2>1. 1 \in 1..Cardinality(S)
        <3> DEFINE c == Cardinality(S)
        <3>1. c \in Nat /\ c # 0
            BY <1>2, <1>7
        <3> HIDE DEF c
        <3>2. 1 \in 1..c
            BY <3>1
        <3> QED  BY <3>2 DEF c
    <2>2. first \in S /\ Cardinality({j \in S : j < first}) = 1 - 1
        BY <1>2, <2>1, AscendingAt
    <2> HIDE DEF first
    <2>3. {j \in S : j < first} = {}
        <3> DEFINE U == {j \in S : j < first}
        <3>1. U \in SUBSET S /\ 1 - 1 = 0
            OBVIOUS
        <3>2. Cardinality(U) = 0
            BY <2>2, <3>1
        <3> HIDE DEF U
        <3>3. IsFiniteSet(U)
            BY <1>2, <3>1, FS_Subset
        <3>4. U = {}
            BY <3>2, <3>3, FS_EmptySet
        <3> QED  BY <3>4 DEF U
    <2>4. first - 1 \in positive /\ first \in 2..Len(p)
        BY <1>1, <1>4, <2>2
    <2>5. m \in positive /\ m <= first - 1 /\ m \in Nat
        BY <1>5, <2>4
    <2>6. m + 1 \in S
        <3>1. m + 1 \in 2..Len(p) /\ (m + 1) - 1 = m
            BY <1>1, <2>4, <2>5
        <3> QED  BY <1>4, <2>5, <3>1
    <2>7. ~(m + 1 < first)
        BY <2>3, <2>6
    <2>8. first = m + 1
        BY <1>1, <2>4, <2>5, <2>7
    <2> QED  BY <1>1, <2>4, <2>5, <2>8
<1> QED  BY <1>3, <1>6, <1>7 DEF m, S, first

\* A total loss among the falls is the lowest of them.
LEMMA LowestTotalLoss ==
    ASSUME NEW A \in SUBSET Fraction, IsFiniteSet(A),
           \A a \in A : ~Less(a, <<-1, 1>>),
           \E a \in A : Same(a, <<-1, 1>>)
    PROVE  Same(Lowest(A), <<-1, 1>>)
<1> DEFINE x == Lowest(A)
           loss == <<-1, 1>>
<1>1. x \in A /\ \A a \in A : ~Less(a, x)
    BY Extremes
<1>2. loss \in Fraction
    BY DEF Fraction
<1> HIDE DEF x, loss
<1>3. PICK a \in A : Same(a, loss)
    BY DEF loss
<1>4. ~Less(x, loss) /\ ~Less(loss, a) /\ ~Less(a, x)
    BY <1>1, <1>2, <1>3, SameAtMost DEF loss
<1>5. ~Less(loss, x)
    BY <1>1, <1>2, <1>3, <1>4, AtMostTransitive
<1>6. x[1] * loss[2] \in Int /\ loss[1] * x[2] \in Int
    BY <1>1, <1>2, FractionParts, Products
<1>7. Same(x, loss)
    BY <1>4, <1>5, <1>6 DEF Less, Same
<1> QED  BY <1>7 DEF x, loss

\* A fall from a positive value to one that is not negative is a total loss at
\* most, and exactly if nothing is left.
LEMMA FallAtMostTotal ==
    ASSUME NEW a \in Fraction, NEW b \in Fraction, a[1] >= 0, b[1] > 0
    PROVE  /\ Change(a, b) \in Fraction /\ ~Less(Change(a, b), <<-1, 1>>)
           /\ a[1] = 0 => Same(Change(a, b), <<-1, 1>>)
<1> DEFINE a1 == a[1]
           a2 == a[2]
           b1 == b[1]
           b2 == b[2]
           n == a1 * b2 - b1 * a2
           d == b1 * a2
<1>1. a1 \in Int /\ b1 \in Int /\ a2 \in Nat \ {0} /\ b2 \in Nat \ {0}
    BY FractionParts
<1>2. a1 >= 0 /\ b1 > 0
    OBVIOUS
<1>3. Change(a, b)[1] = n /\ Change(a, b)[2] = d
    BY DEF Change
<1>4. Change(a, b) \in Fraction
    BY FractionResults
<1> HIDE DEF a1, a2, b1, b2
<1>5. a1 * b2 >= 0 /\ a1 * b2 \in Int /\ d \in Int
    BY <1>1, <1>2
<1>6. n * 1 = n /\ (-1) * d = -d /\ n \in Int /\ n >= -d
    BY <1>5
<1>7. a1 = 0 => n = -d
    <2>1. 0 * b2 = 0
        BY <1>1
    <2> QED  BY <1>5, <2>1
<1> HIDE DEF n, d
<1>8. ~(n * 1 < (-1) * d) /\ (a1 = 0 => n * 1 = (-1) * d)
    BY <1>5, <1>6, <1>7
<1> QED  BY <1>3, <1>4, <1>8 DEF Less, Same, a1

\* The drawdown raises only on a total loss at the first return.
LEMMA RaisesAtFirstReturn == InputsOK => RaisesOnlyOnTotalLoss
<1> SUFFICES ASSUME InputsOK, NEW s \in Asset
             PROVE  LET positive == {i \in DOMAIN prices[s] : prices[s][i] # 0}
                        series   == PortfolioReturns(Only(s), prices)
                    IN  /\ DrawdownRaises(series) <=>
                              positive # {} /\ Min(positive) + 1 \in DOMAIN prices[s] \ positive
                        /\ (\E i \in DOMAIN series : Same(series[i], <<-1, 1>>))
                               /\ ~DrawdownRaises(series)
                              => Same(MaxDrawdown(series), <<-1, 1>>)
    BY DEF RaisesOnlyOnTotalLoss
<1> DEFINE p == prices[s]
           r == Returns(p)
           S == After(p)
           order == InOrder(S, <)
           curve == EquityCurve(r)
           positive == {i \in DOMAIN p : p[i] # 0}
           m == Min(positive)
           A == {Zero} \cup {Change(curve[i], Peak(curve, i)) : i \in DOMAIN curve}
           n == Len(r)
<1>1. PortfolioReturns(Only(s), prices) = r
    BY SingleSymbol
<1>2. p \in Seq(Nat)
    BY DEF InputsOK
<1>3. /\ r \in Seq(Fraction) /\ n \in Nat /\ DOMAIN r = 1..n
      /\ \A k \in 1..n : /\ order[k] \in S
                         /\ r[k] = <<p[order[k]] - p[order[k] - 1], p[order[k] - 1]>>
    <2>1. /\ r \in Seq(Fraction) /\ n = Cardinality(S)
          /\ \A k \in 1..Cardinality(S) :
                 /\ order[k] \in S
                 /\ r[k] = <<p[order[k]] - p[order[k] - 1], p[order[k] - 1]>>
        BY <1>2, ReturnsAt
    <2> QED  BY <2>1, LenProperties
<1>4. \A k \in S : k \in DOMAIN p /\ p[k] \in Nat /\ p[k - 1] \in Nat \ {0}
    <2>1. Len(p) \in Nat /\ DOMAIN p = 1..Len(p) /\ \A i \in 1..Len(p) : p[i] \in Nat
        BY <1>2, LenProperties, ElementOfSeq
    <2>2. ASSUME NEW k \in S PROVE k \in DOMAIN p /\ p[k] \in Nat /\ p[k - 1] \in Nat \ {0}
        <3>1. k \in 2..Len(p) /\ p[k - 1] # 0
            BY DEF After
        <3>2. k \in 1..Len(p) /\ k - 1 \in 1..Len(p)
            BY <2>1, <3>1
        <3> QED  BY <2>1, <3>1, <3>2
    <2> QED  BY <2>2
<1> HIDE DEF order, S, n
<1>5. \A k \in 1..n : /\ r[k][1] \in Int /\ r[k][2] \in Nat \ {0}
                      /\ r[k][1] + r[k][2] = p[order[k]] /\ p[order[k]] \in Nat
    <2>1. ASSUME NEW k \in 1..n
          PROVE  /\ r[k][1] \in Int /\ r[k][2] \in Nat \ {0}
                 /\ r[k][1] + r[k][2] = p[order[k]] /\ p[order[k]] \in Nat
        <3> DEFINE x == p[order[k]]
                   y == p[order[k] - 1]
        <3>1. x \in Nat /\ y \in Nat \ {0}
            BY <1>3, <1>4
        <3>2. r[k] = <<x - y, y>>
            BY <1>3
        <3> HIDE DEF x, y
        <3>3. (x - y) + y = x /\ x - y \in Int
            BY <3>1
        <3> QED  BY <3>1, <3>2, <3>3 DEF x
    <2> QED  BY <2>1
<1>6. /\ curve \in Seq(Fraction) /\ Len(curve) = n
      /\ \A i \in 1..n : /\ curve[i][1] >= 0
                         /\ r[i][1] + r[i][2] = 0 => curve[i][1] = 0
      /\ r # <<>> => curve[1][1] = r[1][1] + r[1][2]
    <2>1. \A k \in 1..Len(r) : r[k][1] + r[k][2] >= 0
        BY <1>5 DEF n
    <2> QED  BY <1>3, <2>1, CurveOfLosses DEF n
<1> HIDE DEF r, curve
<1>7. DOMAIN curve = 1..n /\ \A i \in 1..n : curve[i] \in Fraction
    BY <1>6, LenProperties, ElementOfSeq
<1>8. r # <<>> => 1 \in 1..n
    BY <1>3, EmptySeq DEF n
<1>9. ASSUME NEW j \in 1..n, curve[1][1] > 0
      PROVE  Peak(curve, j) \in Fraction /\ Peak(curve, j)[1] > 0
    <2> DEFINE C == {curve[k] : k \in 1..j}
    <2>1. \A k \in 1..j : k \in 1..n
        BY <1>3
    <2>2. 1 \in 1..j
        BY <1>3
    <2>3. C \in SUBSET Fraction /\ C # {} /\ curve[1] \in C
        BY <1>7, <2>1, <2>2
    <2>4. IsFiniteSet(C)
        <3> DEFINE h == [k \in 1..j |-> curve[k]]
        <3>1. IsFiniteSet(1..j) /\ DOMAIN h = 1..j
            BY <1>3, FS_Interval
        <3>2. IsFiniteSet({h[k] : k \in 1..j})
            <4> HIDE DEF h
            <4> QED  BY <3>1, FiniteImage
        <3>3. {h[k] : k \in 1..j} = C
            OBVIOUS
        <3> QED  BY <3>2, <3>3
    <2> DEFINE top == Largest(C)
    <2>5. top \in Fraction /\ ~Less(top, curve[1])
        BY <2>3, <2>4, Extremes
    <2>6. Peak(curve, j) = top
        BY DEF Peak
    <2> HIDE DEF top
    <2>7. top[1] > 0
        <3> DEFINE t1 == top[1]
                   t2 == top[2]
                   c1 == curve[1][1]
                   c2 == curve[1][2]
        <3>1. t1 \in Int /\ t2 \in Nat \ {0} /\ c1 \in Int /\ c2 \in Nat \ {0}
            BY <2>3, <2>5, FractionParts
        <3>2. ~(t1 * c2 < c1 * t2) /\ c1 > 0
            BY <1>9, <2>5 DEF Less
        <3> HIDE DEF t1, t2, c1, c2
        <3>3. c1 * t2 > 0 /\ t1 * c2 \in Int /\ c1 * t2 \in Int
            BY <3>1, <3>2
        <3>4. t1 * c2 > 0
            BY <3>2, <3>3
        <3>5. t1 > 0
            <4>1. t1 <= 0 => t1 * c2 <= 0 * c2
                BY <3>1, ScaleOrder
            <4>2. 0 * c2 = 0
                BY <3>1
            <4> QED  BY <3>1, <3>3, <3>4, <4>1, <4>2
        <3> QED  BY <3>5 DEF t1
    <2> QED  BY <2>5, <2>6, <2>7
<1>10. DrawdownRaises(r) <=> r # <<>> /\ curve[1][1] = 0
    <2>1. DrawdownRaises(r) <=> \E i \in 1..n : Same(Peak(curve, i), Zero)
        BY <1>7 DEF DrawdownRaises, curve
    <2>2. \A x \in Fraction : Same(x, Zero) <=> x[1] = 0
        <3>1. ASSUME NEW x \in Fraction PROVE Same(x, Zero) <=> x[1] = 0
            <4>1. Same(x, Zero) <=> x[1] * 1 = 0 * x[2]
                BY DEF Same, Zero
            <4>2. x[1] * 1 = x[1] /\ 0 * x[2] = 0
                BY FractionParts
            <4> QED  BY <4>1, <4>2
        <3> QED  BY <3>1
    <2>3. CASE r = <<>>
        <3>1. 1..n = {}
            BY <1>3, <2>3, EmptySeq DEF n
        <3> QED  BY <2>1, <2>3, <3>1
    <2>4. CASE r # <<>>
        <3>1. 1 \in 1..n /\ curve[1] \in Fraction
            BY <1>7, <1>8, <2>4
        <3>2. Peak(curve, 1) = curve[1]
            <4>1. {curve[k] : k \in 1..1} = {curve[1]}
                OBVIOUS
            <4>2. IsFiniteSet({curve[1]}) /\ {curve[1]} # {} /\ {curve[1]} \in SUBSET Fraction
                BY <3>1, FS_Singleton
            <4>3. Largest({curve[1]}) \in {curve[1]}
                BY <4>2, Extremes
            <4> QED  BY <4>1, <4>3 DEF Peak
        <3>3. curve[1][1] = 0 \/ curve[1][1] > 0
            <4>1. curve[1][1] >= 0 /\ curve[1][1] \in Int
                BY <1>6, <3>1, FractionParts
            <4> QED  BY <4>1
        <3>4. CASE curve[1][1] = 0
            BY <2>1, <2>2, <2>4, <3>1, <3>2, <3>4
        <3>5. CASE curve[1][1] > 0
            <4>1. ASSUME NEW i \in 1..n PROVE ~Same(Peak(curve, i), Zero)
                <5>1. Peak(curve, i) \in Fraction /\ Peak(curve, i)[1] > 0
                    BY <1>9, <3>5
                <5> QED  BY <2>2, <5>1
            <4> QED  BY <2>1, <3>5, <4>1
        <3> QED  BY <3>3, <3>4, <3>5
    <2> QED  BY <2>3, <2>4
<1>11. DrawdownRaises(r) <=> positive # {} /\ m + 1 \in DOMAIN p \ positive
    <2>1. /\ r # <<>> <=> positive # {} /\ m + 1 \in DOMAIN p
          /\ r # <<>> => order[1] = m + 1
        BY <1>2, FirstReturn DEF r, order, S
    <2>2. r # <<>> => curve[1][1] = p[order[1]]
        BY <1>5, <1>6, <1>8
    <2> HIDE DEF m
    <2> QED  BY <1>10, <2>1, <2>2
<1>12. ASSUME NEW i \in DOMAIN r, Same(r[i], <<-1, 1>>), ~DrawdownRaises(r)
       PROVE  Same(MaxDrawdown(r), <<-1, 1>>)
    <2>1. i \in 1..n
        BY <1>3
    <2>2. r # <<>>
        <3>1. n # 0
            BY <1>3, <2>1
        <3> QED  BY <3>1, EmptySeq DEF n
    <2>3. curve[1][1] > 0 /\ 1 \in 1..n
        <3>1. curve[1][1] # 0 /\ 1 \in 1..n
            BY <1>8, <1>10, <1>12, <2>2
        <3>2. curve[1][1] >= 0 /\ curve[1][1] \in Int
            BY <1>6, <1>7, <3>1, FractionParts
        <3> QED  BY <3>1, <3>2
    <2>4. curve[i][1] = 0
        <3>1. r[i][1] * 1 = (-1) * r[i][2]
            BY <1>12 DEF Same
        <3>2. r[i][1] \in Int /\ r[i][2] \in Int
            BY <1>5, <2>1
        <3>3. r[i][1] + r[i][2] = 0
            BY <3>1, <3>2
        <3> QED  BY <1>6, <2>1, <3>3
    <2>5. \A j \in 1..n : Peak(curve, j) \in Fraction /\ Peak(curve, j)[1] > 0
        BY <1>9, <2>3
    <2>6. ASSUME NEW j \in 1..n
          PROVE  /\ Change(curve[j], Peak(curve, j)) \in Fraction
                 /\ ~Less(Change(curve[j], Peak(curve, j)), <<-1, 1>>)
                 /\ curve[j][1] = 0 => Same(Change(curve[j], Peak(curve, j)), <<-1, 1>>)
        BY <1>6, <1>7, <2>5, FallAtMostTotal
    <2>7. Zero \in Fraction /\ ~Less(Zero, <<-1, 1>>)
        <3>1. ~(0 * 1 < (-1) * 1)
            OBVIOUS
        <3> QED  BY <3>1 DEF Zero, Less, Fraction
    <2>8. A \in SUBSET Fraction /\ \A a \in A : ~Less(a, <<-1, 1>>)
        BY <1>7, <2>6, <2>7
    <2>9. \E a \in A : Same(a, <<-1, 1>>)
        BY <1>7, <2>1, <2>4, <2>6
    <2>10. IsFiniteSet(A)
        <3> DEFINE h == [j \in 1..n |-> Change(curve[j], Peak(curve, j))]
                   H == {h[j] : j \in 1..n}
        <3>1. IsFiniteSet(1..n) /\ DOMAIN h = 1..n
            BY <1>3, FS_Interval
        <3>2. H = {Change(curve[j], Peak(curve, j)) : j \in DOMAIN curve}
            BY <1>7
        <3> HIDE DEF h
        <3>3. IsFiniteSet(H)
            BY <3>1, FiniteImage
        <3>4. A = H \cup {Zero}
            BY <3>2
        <3> HIDE DEF H, A
        <3> QED  BY <3>3, <3>4, FS_AddElement
    <2>11. MaxDrawdown(r) = Lowest(A)
        BY DEF MaxDrawdown, curve
    <2> HIDE DEF A
    <2> QED  BY <2>8, <2>9, <2>10, <2>11, LowestTotalLoss
<1> QED  BY <1>1, <1>11, <1>12

\* compute_risk raises only on a total loss at the first return, and a later one
\* is a drawdown of 100 percent.
THEOREM RaisesOnTotalLoss == Inputs => []RaisesOnlyOnTotalLoss
<1>1. InputsOK => RaisesOnlyOnTotalLoss
    BY RaisesAtFirstReturn
<1> QED  BY <1>1, InputsCorrect, PTL

=============================================================================
