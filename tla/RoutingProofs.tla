--------------------------- MODULE RoutingProofs ---------------------------
(***************************************************************************)
(* Theorems about EventRouting, for every set of threads and of targets,   *)
(* every way to provide the stages, any number of attempts and events, and *)
(* any number of lost appends and discoveries.                             *)
(***************************************************************************)
EXTENDS EventRouting, FiniteSetTheorems, TLAPS

\* Thread t serves a request.
Busy(t) == pc[t] # "idle"

\* Thread t has chosen target p of stage s and not gone on to the next one.
Current(t, s, p) ==
    /\ pc[t] \in {"call", "waiting", "routed", "failed"}
    /\ s = job[t].stage /\ p = job[t].target

\* Thread t has not yet come to target p of stage s.
Open(t, s, p) ==
    /\ Busy(t)
    /\ \/ s > job[t].stage
       \/ s = job[t].stage /\ (pc[t] \in {"ingested", "discover"} \/ p \in job[t].todo)

\* The other threads are not affected by a step of t.
Others(t) == \A u \in Thread \ {t} :
                 pc'[u] = pc[u] /\ job'[u] = job[u] /\ answer'[u] = answer[u]

Place == {"idle", "ingested", "discover", "next", "call", "waiting", "routed", "failed"}

-----------------------------------------------------------------------------
(* Types, and the events of the threads.                                   *)

\* Every event is served by one thread, and no call is about one to come; a
\* target is called only after it was taken from those still to be called.
Own ==
    /\ \A t \in Thread : Busy(t) => job[t].event \in 1..ingested
    /\ \A t, u \in Thread : Busy(t) /\ Busy(u) /\ job[t].event = job[u].event => t = u
    /\ \A c \in wire : c.event <= ingested
    /\ \A t \in Thread : pc[t] \in {"call", "waiting", "routed", "failed"}
                             => job[t].target \notin job[t].todo

TypeInv == TypeOK /\ Own

\* The constants, one by one.
LEMMA ConstantsAreGood ==
    /\ Providers \in [Stage -> SUBSET Target] /\ Retries \in Nat \ {0}
    /\ MaxEvents \in Nat /\ MaxLost \in Nat /\ NoTarget \in Target
    /\ 1 \in 1..Retries /\ Stage \subseteq Nat /\ Event \subseteq Nat
    /\ Stage = {1, 2, 3} /\ Compute = 3
<1>1. NoTarget \in Target
    BY RoutingAssumption DEF NoTarget
<1> QED  BY <1>1, RoutingAssumption DEF Stage, Compute, Event

\* The parts of TypeInv that the proofs below need one by one.
LEMMA TypeFacts ==
    ASSUME TypeInv
    PROVE  /\ pc \in [Thread -> Place] /\ job \in [Thread -> Job]
           /\ answer \in [Thread -> {"none", "ok", "error"}]
           /\ ingested \in 0..MaxEvents /\ ingested \in Nat
           /\ wire \subseteq Call /\ blocks \subseteq Block
           /\ processed \in [Event \X Stage \X Target -> Nat]
           /\ outcome \in [Event -> {"none", "forwarded", "failed"}]
           /\ undiscovered \subseteq Event /\ lost \in 0..MaxLost
           /\ \A t \in Thread :
                  /\ job[t] \in Job /\ job[t].event \in Nat
                  /\ job[t].stage \in Stage /\ job[t].target \in Target
                  /\ job[t].todo \subseteq Target /\ job[t].attempt \in 1..Retries
                  /\ job[t].failures \in Nat
                  /\ Busy(t) => job[t].event \in Event /\ job[t].event <= ingested
<1>1. TypeOK /\ Own /\ MaxEvents \in Nat
    BY ConstantsAreGood DEF TypeInv
<1>2. /\ pc \in [Thread -> Place] /\ job \in [Thread -> Job]
      /\ answer \in [Thread -> {"none", "ok", "error"}]
      /\ ingested \in 0..MaxEvents /\ ingested \in Nat
      /\ wire \subseteq Call /\ blocks \subseteq Block
      /\ processed \in [Event \X Stage \X Target -> Nat]
      /\ outcome \in [Event -> {"none", "forwarded", "failed"}]
      /\ undiscovered \subseteq Event /\ lost \in 0..MaxLost
    BY <1>1 DEF TypeOK, Place
<1>3. ASSUME NEW t \in Thread
      PROVE  /\ job[t] \in Job /\ job[t].event \in Nat
             /\ job[t].stage \in Stage /\ job[t].target \in Target
             /\ job[t].todo \subseteq Target /\ job[t].attempt \in 1..Retries
             /\ job[t].failures \in Nat
    BY <1>2 DEF Job
<1>4. ASSUME NEW t \in Thread, Busy(t)
      PROVE  job[t].event \in Event /\ job[t].event <= ingested
    BY <1>1, <1>2, <1>4 DEF Own, Event
<1> QED  BY <1>2, <1>3, <1>4

\* A new request gets the next event.
LEMMA IngestEffect ==
    ASSUME TypeInv, NEW t \in Thread, Ingest(t)
    PROVE  /\ pc[t] = "idle" /\ pc'[t] = "ingested" /\ Others(t)
           /\ ingested' = ingested + 1 /\ ingested + 1 \in 1..MaxEvents
           /\ pc' \in [Thread -> Place] /\ job' \in [Thread -> Job]
           /\ job'[t].event = ingested + 1 /\ job'[t].stage = 1
           /\ job'[t].failures = 0
           /\ UNCHANGED <<answer, wire, processed, blocks, outcome, undiscovered, lost>>
<1>1. /\ pc \in [Thread -> Place] /\ job \in [Thread -> Job] /\ job[t] \in Job
      /\ ingested \in Nat /\ MaxEvents \in Nat
    BY TypeFacts, ConstantsAreGood
<1>2. ingested + 1 \in 1..MaxEvents
    BY <1>1 DEF Ingest
<1> DEFINE new == [job[t] EXCEPT !.event = ingested + 1, !.stage = 1, !.failures = 0]
<1>3. job' = [job EXCEPT ![t] = new]
    BY DEF Ingest
<1>4. new \in Job
    <2>1. ingested + 1 \in 0..MaxEvents /\ 1 \in Stage /\ 0 \in Nat
        BY <1>2, ConstantsAreGood
    <2> QED  BY <1>1, <2>1 DEF Job
<1>5. new.event = ingested + 1 /\ new.stage = 1 /\ new.failures = 0
    BY <1>1 DEF Job
<1> HIDE DEF new
<1>6. /\ job' \in [Thread -> Job] /\ job'[t] = new
      /\ \A u \in Thread \ {t} : job'[u] = job[u]
    BY <1>1, <1>3, <1>4
<1>7. /\ pc[t] = "idle" /\ pc'[t] = "ingested" /\ pc' \in [Thread -> Place]
      /\ \A u \in Thread \ {t} : pc'[u] = pc[u]
    BY <1>1 DEF Ingest, Go, Place
<1> QED  BY <1>2, <1>5, <1>6, <1>7 DEF Ingest, Others

\* What every step of a request has in common: it stays with its event, and a
\* target is first open, then current, then done with.
Moves(t) ==
    /\ Busy(t) /\ ingested' = ingested /\ Others(t)
    /\ pc' \in [Thread -> Place] /\ job' \in [Thread -> Job]
    /\ answer' \in [Thread -> {"none", "ok", "error"}]
    /\ job'[t].event = job[t].event
    /\ \A s \in Stage, p \in Target :
           /\ Open(t, s, p)' => Open(t, s, p)
           /\ Current(t, s, p)' => Current(t, s, p) \/ Open(t, s, p)
    /\ pc'[t] \in {"call", "waiting", "routed", "failed"} => job'[t].target \notin job'[t].todo
    /\ pc'[t] = "call" =>
           \/ /\ pc[t] = "next" /\ job'[t].attempt = 1
              /\ \A s \in Stage, p \in Target : Current(t, s, p)' => Open(t, s, p)
           \/ /\ pc[t] = "waiting" /\ job'[t].attempt = job[t].attempt + 1
              /\ \A s \in Stage, p \in Target : Current(t, s, p)' => Current(t, s, p)
    /\ IF pc[t] = "failed" THEN job'[t].failures > 0
                           ELSE job'[t].failures = job[t].failures

\* A step that only moves t on from one place to the next.
LEMMA GoEffect ==
    ASSUME TypeInv, NEW t \in Thread, NEW from \in Place, NEW to \in Place, Go(t, from, to)
    PROVE  /\ pc[t] = from /\ pc'[t] = to /\ pc' \in [Thread -> Place]
           /\ \A u \in Thread \ {t} : pc'[u] = pc[u]
<1>1. pc \in [Thread -> Place]
    BY TypeFacts
<1> QED  BY <1>1 DEF Go

\* Steps that leave the local variables alone.
LEMMA PlainMoves ==
    ASSUME TypeInv, NEW t \in Thread,
           \/ RecordIngested(t) \/ Finish(t) \/ Send(t) \/ Succeeds(t) \/ RecordRouted(t)
    PROVE  Moves(t) /\ job' = job
<1>1. PICK from \in Place, to \in Place :
          /\ Go(t, from, to)
          /\ \/ from = "ingested" /\ to = "discover"
             \/ from = "next" /\ to = "idle" /\ job[t].stage = 3 /\ job[t].todo = {}
             \/ from = "call" /\ to = "waiting"
             \/ from = "waiting" /\ to \in {"next", "routed"}
             \/ from = "routed" /\ to = "next"
    BY DEF RecordIngested, Finish, Send, Succeeds, RecordRouted, Place, Compute
<1>2. /\ job' = job /\ ingested' = ingested
      /\ answer' = answer \/ answer' = [answer EXCEPT ![t] = "none"]
    BY DEF RecordIngested, Finish, Send, Succeeds, RecordRouted
<1>3. /\ pc[t] = from /\ pc'[t] = to /\ pc' \in [Thread -> Place]
      /\ \A u \in Thread \ {t} : pc'[u] = pc[u]
    BY <1>1, GoEffect
<1>4. /\ job \in [Thread -> Job] /\ answer \in [Thread -> {"none", "ok", "error"}]
      /\ job[t].stage \in Stage
    BY TypeFacts
<1>5. answer' \in [Thread -> {"none", "ok", "error"}] /\ Others(t)
    BY <1>2, <1>3, <1>4 DEF Others
<1>6. ASSUME NEW s \in Stage, NEW p \in Target
      PROVE  /\ Open(t, s, p)' => Open(t, s, p)
             /\ Current(t, s, p)' => Current(t, s, p) \/ Open(t, s, p)
    BY <1>1, <1>2, <1>3 DEF Open, Current, Busy
<1>7. pc'[t] \in {"call", "waiting", "routed", "failed"} => job'[t].target \notin job'[t].todo
    BY <1>1, <1>2, <1>3 DEF TypeInv, Own
<1> QED  BY <1>1, <1>2, <1>3, <1>4, <1>5, <1>6, <1>7 DEF Moves, Busy

\* Steps that change them.
LEMMA JobMoves ==
    ASSUME TypeInv, NEW t \in Thread,
           \/ Discover(t) \/ NextPeer(t) \/ NextStage(t) \/ AttemptFails(t)
           \/ RecordFailed(t)
    PROVE  Moves(t)
<1>1. /\ pc \in [Thread -> Place] /\ job \in [Thread -> Job] /\ job[t] \in Job
      /\ answer \in [Thread -> {"none", "ok", "error"}]
      /\ job[t].stage \in Stage /\ job[t].todo \subseteq Target
      /\ job[t].attempt \in 1..Retries /\ job[t].failures \in Nat
      /\ Providers[job[t].stage] \subseteq Target
    BY TypeFacts, ConstantsAreGood
<1>2. \A s \in Stage : s \in Nat
    BY ConstantsAreGood
\* What becomes of the variables of the threads.
<1>effect. ASSUME NEW from \in Place, NEW to \in Place, Go(t, from, to),
                  NEW new \in Job, job' = [job EXCEPT ![t] = new],
                  answer' = answer \/ answer' = [answer EXCEPT ![t] = "none"]
           PROVE  /\ pc[t] = from /\ pc'[t] = to /\ pc' \in [Thread -> Place]
                  /\ job' \in [Thread -> Job] /\ job'[t] = new
                  /\ answer' \in [Thread -> {"none", "ok", "error"}] /\ Others(t)
    <2>1. /\ pc[t] = from /\ pc'[t] = to /\ pc' \in [Thread -> Place]
          /\ \A u \in Thread \ {t} : pc'[u] = pc[u]
        BY <1>effect, GoEffect
    <2>2. /\ job' \in [Thread -> Job] /\ job'[t] = new
          /\ \A u \in Thread \ {t} : job'[u] = job[u]
        BY <1>effect, <1>1
    <2>3. /\ answer' \in [Thread -> {"none", "ok", "error"}]
          /\ \A u \in Thread \ {t} : answer'[u] = answer[u]
        BY <1>effect, <1>1
    <2> QED  BY <2>1, <2>2, <2>3 DEF Others
<1>3. CASE Discover(t)
    <2>1. PICK found \in {Providers[job[t].stage], {}} : job' = [job EXCEPT ![t].todo = found]
        BY <1>3 DEF Discover
    <2> DEFINE new == [job[t] EXCEPT !.todo = found]
    <2>2. job' = [job EXCEPT ![t] = new]
        BY <2>1
    <2>3. /\ new \in Job /\ new.event = job[t].event /\ new.stage = job[t].stage
          /\ new.todo \subseteq Target /\ new.failures = job[t].failures
        BY <1>1, <2>1 DEF Job
    <2> HIDE DEF new
    <2>4. Go(t, "discover", "next") /\ ingested' = ingested /\ answer' = answer
        BY <1>3 DEF Discover
    <2>5. /\ pc[t] = "discover" /\ pc'[t] = "next" /\ pc' \in [Thread -> Place]
          /\ job' \in [Thread -> Job] /\ job'[t] = new
          /\ answer' \in [Thread -> {"none", "ok", "error"}] /\ Others(t)
        BY <2>2, <2>3, <2>4, <1>effect DEF Place
    <2>6. ASSUME NEW s \in Stage, NEW p \in Target
          PROVE  (Open(t, s, p)' => Open(t, s, p)) /\ ~Current(t, s, p)'
        BY <2>3, <2>5 DEF Open, Current, Busy
    <2> QED  BY <2>3, <2>4, <2>5, <2>6 DEF Moves, Busy
<1>4. CASE NextPeer(t)
    <2>1. PICK p \in job[t].todo :
              job' = [job EXCEPT ![t].target = p, ![t].attempt = 1, ![t].todo = @ \ {p}]
        BY <1>4 DEF NextPeer
    <2>2. 1 \in 1..Retries /\ p \in Target
        BY <1>1, <2>1, ConstantsAreGood
    <2>3. PICK new \in Job :
             /\ job' = [job EXCEPT ![t] = new]
             /\ new.event = job[t].event /\ new.stage = job[t].stage
             /\ new.todo = job[t].todo \ {p} /\ new.failures = job[t].failures
             /\ new.target = p /\ new.attempt = 1
        <3>1. /\ job'[t] \in Job
              /\ job'[t].event = job[t].event /\ job'[t].stage = job[t].stage
              /\ job'[t].todo = job[t].todo \ {p} /\ job'[t].failures = job[t].failures
              /\ job'[t].target = p /\ job'[t].attempt = 1
            BY <1>1, <2>1, <2>2 DEF Job
        <3>2. job' = [job EXCEPT ![t] = job'[t]]
            BY <1>1, <2>1
        <3> QED  BY <3>1, <3>2
    <2>4. Go(t, "next", "call") /\ ingested' = ingested /\ answer' = answer
        BY <1>4 DEF NextPeer
    <2>5. /\ pc[t] = "next" /\ pc'[t] = "call" /\ pc' \in [Thread -> Place]
          /\ job' \in [Thread -> Job] /\ job'[t] = new
          /\ answer' \in [Thread -> {"none", "ok", "error"}] /\ Others(t)
        BY <2>3, <2>4, <1>effect DEF Place
    <2>6. ASSUME NEW s \in Stage, NEW q \in Target
          PROVE  /\ Open(t, s, q)' => Open(t, s, q)
                 /\ Current(t, s, q)' => Open(t, s, q)
        BY <2>1, <2>3, <2>5 DEF Open, Current, Busy
    <2> QED  BY <2>3, <2>4, <2>5, <2>6 DEF Moves, Busy
<1>5. CASE NextStage(t)
    <2> DEFINE new == [job[t] EXCEPT !.stage = @ + 1]
    <2>1. job' = [job EXCEPT ![t] = new]
        BY <1>5 DEF NextStage
    <2>2. /\ new \in Job /\ new.event = job[t].event /\ new.stage = job[t].stage + 1
          /\ new.failures = job[t].failures
        <3>1. job[t].stage + 1 \in Stage
            BY <1>1, <1>5 DEF NextStage, Stage, Compute
        <3> QED  BY <1>1, <3>1 DEF Job
    <2> HIDE DEF new
    <2>3. Go(t, "next", "discover") /\ ingested' = ingested /\ answer' = answer
        BY <1>5 DEF NextStage
    <2>4. /\ pc[t] = "next" /\ pc'[t] = "discover" /\ pc' \in [Thread -> Place]
          /\ job' \in [Thread -> Job] /\ job'[t] = new
          /\ answer' \in [Thread -> {"none", "ok", "error"}] /\ Others(t)
        BY <2>1, <2>2, <2>3, <1>effect DEF Place
    <2>5. ASSUME NEW s \in Stage, NEW p \in Target
          PROVE  (Open(t, s, p)' => Open(t, s, p)) /\ ~Current(t, s, p)'
        <3>1. s >= job[t].stage + 1 => s > job[t].stage
            BY <1>1, <1>2
        <3>2. Open(t, s, p)' => s >= job[t].stage + 1
            BY <1>1, <1>2, <2>2, <2>4 DEF Open
        <3> QED  BY <2>4, <3>1, <3>2 DEF Open, Current, Busy
    <2> QED  BY <2>2, <2>3, <2>4, <2>5 DEF Moves, Busy
<1>6. CASE AttemptFails(t)
    <2>1. ingested' = ingested /\ answer' = [answer EXCEPT ![t] = "none"]
        BY <1>6 DEF AttemptFails
    <2>2. pc[t] = "waiting" /\ job[t].target \notin job[t].todo
        BY <1>6 DEF AttemptFails, Go, TypeInv, Own
    <2>3. CASE /\ job[t].attempt < Retries
               /\ Go(t, "waiting", "call")
               /\ job' = [job EXCEPT ![t].attempt = @ + 1]
        <3> DEFINE new == [job[t] EXCEPT !.attempt = @ + 1]
        <3>1. job' = [job EXCEPT ![t] = new]
            BY <2>3
        <3>2. /\ new \in Job /\ new.event = job[t].event /\ new.stage = job[t].stage
              /\ new.failures = job[t].failures /\ new.attempt = job[t].attempt + 1
              /\ new.todo = job[t].todo /\ new.target = job[t].target
            <4>1. job[t].attempt + 1 \in 1..Retries
                BY <1>1, <2>3, ConstantsAreGood
            <4> QED  BY <1>1, <4>1 DEF Job
        <3> HIDE DEF new
        <3>3. /\ pc'[t] = "call" /\ pc' \in [Thread -> Place]
              /\ job' \in [Thread -> Job] /\ job'[t] = new
              /\ answer' \in [Thread -> {"none", "ok", "error"}] /\ Others(t)
            BY <2>1, <2>3, <3>1, <3>2, <1>effect DEF Place
        <3>4. ASSUME NEW s \in Stage, NEW p \in Target
              PROVE  /\ Open(t, s, p)' => Open(t, s, p)
                     /\ Current(t, s, p)' => Current(t, s, p)
            BY <2>2, <3>2, <3>3 DEF Open, Current, Busy
        <3> QED  BY <2>1, <2>2, <3>2, <3>3, <3>4 DEF Moves, Busy
    <2>4. CASE Go(t, "waiting", "failed") /\ job' = job
        <3>1. job' = [job EXCEPT ![t] = job[t]]
            BY <1>1, <2>4
        <3>2. /\ pc'[t] = "failed" /\ pc' \in [Thread -> Place]
              /\ job' \in [Thread -> Job] /\ job'[t] = job[t]
              /\ answer' \in [Thread -> {"none", "ok", "error"}] /\ Others(t)
            BY <1>1, <2>1, <2>4, <3>1, <1>effect DEF Place
        <3>3. ASSUME NEW s \in Stage, NEW p \in Target
              PROVE  /\ Open(t, s, p)' => Open(t, s, p)
                     /\ Current(t, s, p)' => Current(t, s, p)
            BY <2>2, <3>2 DEF Open, Current, Busy
        <3> QED  BY <2>1, <2>2, <3>2, <3>3 DEF Moves, Busy
    <2> QED  BY <1>6, <2>3, <2>4 DEF AttemptFails
<1>7. CASE RecordFailed(t)
    <2> DEFINE new == [job[t] EXCEPT !.failures = @ + 1]
    <2>1. job' = [job EXCEPT ![t] = new]
        BY <1>7 DEF RecordFailed
    <2>2. /\ new \in Job /\ new.event = job[t].event /\ new.stage = job[t].stage
          /\ new.failures > 0 /\ new.todo = job[t].todo
        BY <1>1 DEF Job
    <2> HIDE DEF new
    <2>3. Go(t, "failed", "next") /\ ingested' = ingested /\ answer' = answer
        BY <1>7 DEF RecordFailed
    <2>4. /\ pc[t] = "failed" /\ pc'[t] = "next" /\ pc' \in [Thread -> Place]
          /\ job' \in [Thread -> Job] /\ job'[t] = new
          /\ answer' \in [Thread -> {"none", "ok", "error"}] /\ Others(t)
        BY <2>1, <2>2, <2>3, <1>effect DEF Place
    <2>5. ASSUME NEW s \in Stage, NEW p \in Target
          PROVE  (Open(t, s, p)' => Open(t, s, p)) /\ ~Current(t, s, p)'
        BY <2>2, <2>4 DEF Open, Current, Busy
    <2> QED  BY <2>2, <2>3, <2>4, <2>5 DEF Moves, Busy
<1> QED  BY <1>3, <1>4, <1>5, <1>6, <1>7

\* Every step of a request moves it.
LEMMA StepMoves ==
    ASSUME TypeInv, NEW t \in Thread, Step(t)
    PROVE  Moves(t)
BY PlainMoves, JobMoves DEF Step

\* The end of a call, by the target or by the network.
LEMMA DeliverEffect ==
    ASSUME TypeInv, NEW c \in wire, NEW what \in {"ok", "error", "none"}, Deliver(c, what)
    PROVE  /\ wire' = wire \ {c} /\ answer' \in [Thread -> {"none", "ok", "error"}]
           /\ \A t \in Thread :
                  answer'[t] = IF pc[t] = "waiting" /\ CallOf(t) = c THEN what ELSE answer[t]
           /\ UNCHANGED <<pc, job, ingested, blocks, outcome, undiscovered, lost>>
BY TypeFacts DEF Deliver

\* What the targets count.
LEMMA CountEffect ==
    ASSUME TypeInv, NEW c \in wire,
           Executed(c) \/ processed' = processed
    PROVE  /\ processed' \in [Event \X Stage \X Target -> Nat]
           /\ c.event \in Event /\ c.stage \in Stage /\ c.target \in Target
           /\ Executed(c) => /\ processed'[<<c.event, c.stage, c.target>>]
                                   = processed[<<c.event, c.stage, c.target>>] + 1
                             /\ \A e \in Event, s \in Stage, p \in Target :
                                    <<e, s, p>> # <<c.event, c.stage, c.target>>
                                    => processed'[<<e, s, p>>] = processed[<<e, s, p>>]
           /\ \A e \in Event, s \in Stage, p \in Target :
                  /\ processed[<<e, s, p>>] \in Nat
                  /\ processed'[<<e, s, p>>] >= processed[<<e, s, p>>]
<1> DEFINE x == <<c.event, c.stage, c.target>>
<1>1. /\ processed \in [Event \X Stage \X Target -> Nat]
      /\ c.event \in Event /\ c.stage \in Stage /\ c.target \in Target
    BY TypeFacts DEF Call
<1>2. x \in Event \X Stage \X Target
    BY <1>1
<1>3. Executed(c) => processed' = [processed EXCEPT ![x] = @ + 1]
    BY DEF Executed
<1>4. \A e \in Event, s \in Stage, p \in Target : <<e, s, p>> \in Event \X Stage \X Target
    OBVIOUS
<1> HIDE DEF x
<1>5. /\ processed' \in [Event \X Stage \X Target -> Nat]
      /\ Executed(c) => /\ processed'[x] = processed[x] + 1
                        /\ \A y \in Event \X Stage \X Target :
                               y # x => processed'[y] = processed[y]
      /\ \A y \in Event \X Stage \X Target :
             processed[y] \in Nat /\ processed'[y] >= processed[y]
    BY <1>1, <1>2, <1>3
<1> QED  BY <1>1, <1>4, <1>5 DEF x

\* A block on the ledger, or a failed append.
LEMMA AppendLedgerEffect ==
    ASSUME TypeInv, NEW block \in Block, AppendLedger(block)
    PROVE  /\ blocks' \subseteq Block /\ lost' \in 0..MaxLost
           /\ blocks \subseteq blocks' /\ \A b \in blocks' : b \in blocks \/ b = block
<1>1. blocks \subseteq Block /\ lost \in 0..MaxLost /\ MaxLost \in Nat
    BY TypeFacts, ConstantsAreGood
<1> QED  BY <1>1 DEF AppendLedger, Lose

\* A verdict is a block.
LEMMA VerdictType ==
    ASSUME TypeInv, NEW t \in Thread, Busy(t), NEW type \in Type
    PROVE  /\ Verdict(t, type) \in Block
           /\ [Verdict(t, "market_event_ingested") EXCEPT !.target = NoTarget] \in Block
           /\ [Verdict(t, "market_event_ingested") EXCEPT !.target = NoTarget].type
                = "market_event_ingested"
           /\ [Verdict(t, "market_event_ingested") EXCEPT !.target = NoTarget].event
                = job[t].event
<1>1. /\ job[t].event \in Event /\ job[t].stage \in Stage /\ job[t].target \in Target
      /\ NoTarget \in Target /\ "market_event_ingested" \in Type
    BY TypeFacts, ConstantsAreGood DEF Type
<1> QED  BY <1>1 DEF Verdict, Block

\* A call is a call.
LEMMA CallType ==
    ASSUME TypeInv, NEW t \in Thread, Busy(t)
    PROVE  CallOf(t) \in Call
<1>1. /\ job[t].event \in Event /\ job[t].stage \in Stage /\ job[t].target \in Target
      /\ job[t].attempt \in 1..Retries
    BY TypeFacts
<1> QED  BY <1>1 DEF CallOf, Call

\* What the steps of a request do to what it shares with others.
LEMMA SharedEffect ==
    ASSUME TypeInv, NEW t \in Thread, Step(t)
    PROVE  /\ processed' = processed
           /\ wire' = wire \/ (Send(t) /\ wire' = wire \cup {CallOf(t)})
           /\ blocks' \subseteq Block /\ lost' \in 0..MaxLost
           /\ outcome' \in [Event -> {"none", "forwarded", "failed"}]
           /\ undiscovered' \subseteq Event
           /\ undiscovered \subseteq undiscovered'
<1>0. Moves(t)
    BY StepMoves
<1>1. /\ Busy(t) /\ job[t].event \in Event /\ blocks \subseteq Block
      /\ lost \in 0..MaxLost /\ undiscovered \subseteq Event
      /\ outcome \in [Event -> {"none", "forwarded", "failed"}] /\ MaxLost \in Nat
    BY <1>0, TypeFacts, ConstantsAreGood DEF Moves
<1>2. /\ processed' = processed
      /\ wire' = wire \/ (Send(t) /\ wire' = wire \cup {CallOf(t)})
    BY DEF Step, RecordIngested, Discover, NextPeer, NextStage, Finish, Send, Succeeds,
           AttemptFails, RecordRouted, RecordFailed
<1>3. blocks' \subseteq Block /\ lost' \in 0..MaxLost
    <2>1. CASE \E block \in Block : AppendLedger(block)
        BY <2>1, AppendLedgerEffect
    <2>2. CASE blocks' = blocks /\ (lost' = lost \/ Lose)
        BY <1>1, <2>2 DEF Lose
    <2>3. \/ \E block \in Block : AppendLedger(block)
          \/ blocks' = blocks /\ (lost' = lost \/ Lose)
        <3>1. \A type \in Type : Verdict(t, type) \in Block
            BY <1>1, VerdictType
        <3>2. [Verdict(t, "market_event_ingested") EXCEPT !.target = NoTarget] \in Block
            BY <1>1, VerdictType DEF Type
        <3> QED
            BY <3>1, <3>2
            DEF Step, RecordIngested, Discover, NextPeer, NextStage, Finish, Send,
                Succeeds, AttemptFails, RecordRouted, RecordFailed, Type
    <2> QED  BY <2>1, <2>2, <2>3
<1>4. \/ outcome' = outcome
      \/ \E x \in {"forwarded", "failed"} : outcome' = [outcome EXCEPT ![job[t].event] = x]
    BY DEF Step, RecordIngested, Discover, NextPeer, NextStage, Finish, Send, Succeeds,
           AttemptFails, RecordRouted, RecordFailed
<1>5. undiscovered' = undiscovered \/ undiscovered' = undiscovered \cup {job[t].event}
    BY DEF Step, RecordIngested, Discover, NextPeer, NextStage, Finish, Send, Succeeds,
           AttemptFails, RecordRouted, RecordFailed
<1> QED  BY <1>1, <1>2, <1>3, <1>4, <1>5

\* Every step keeps the types.
LEMMA StepTypeInv == TypeInv /\ [Next]_vars => TypeInv'
<1> SUFFICES ASSUME TypeInv, [Next]_vars PROVE TypeInv'
    OBVIOUS
<1>own. Own
    BY DEF TypeInv
<1>1. /\ wire \subseteq Call /\ blocks \subseteq Block
      /\ processed \in [Event \X Stage \X Target -> Nat]
      /\ outcome \in [Event -> {"none", "forwarded", "failed"}]
      /\ undiscovered \subseteq Event /\ lost \in 0..MaxLost
      /\ ingested \in 0..MaxEvents /\ ingested \in Nat
      /\ answer \in [Thread -> {"none", "ok", "error"}]
      /\ pc \in [Thread -> Place] /\ job \in [Thread -> Job]
      /\ \A c \in wire : c.event \in Nat
      /\ \A t \in Thread : job[t].event \in Nat
    <2>1. \A c \in Call : c.event \in Nat
        BY ConstantsAreGood DEF Call
    <2> QED  BY <2>1, TypeFacts
<1>2. ASSUME NEW t \in Thread, Ingest(t) PROVE TypeInv'
    <2>1. /\ pc[t] = "idle" /\ pc'[t] = "ingested" /\ Others(t)
          /\ ingested' = ingested + 1 /\ ingested + 1 \in 1..MaxEvents
          /\ pc' \in [Thread -> Place] /\ job' \in [Thread -> Job]
          /\ job'[t].event = ingested + 1
          /\ UNCHANGED <<answer, wire, processed, blocks, outcome, undiscovered, lost>>
        BY <1>2, IngestEffect
    <2>2. TypeOK'
        BY <1>1, <2>1 DEF TypeOK, Place
    <2>3. \A u \in Thread : Busy(u)' => job'[u].event \in 1..ingested'
        BY <1>1, <1>own, <2>1 DEF Own, Busy, Others
    <2>4. \A u, w \in Thread :
              Busy(u)' /\ Busy(w)' /\ job'[u].event = job'[w].event => u = w
        <3>1. \A u \in Thread \ {t} : Busy(u)' => Busy(u) /\ job'[u].event # ingested + 1
            BY <1>1, <1>own, <2>1 DEF Own, Busy, Others
        <3> QED  BY <1>own, <2>1, <3>1 DEF Own, Others
    <2>5. \A c \in wire' : c.event <= ingested'
        BY <1>1, <1>own, <2>1 DEF Own
    <2>6. \A u \in Thread : pc'[u] \in {"call", "waiting", "routed", "failed"}
                                => job'[u].target \notin job'[u].todo
        BY <1>own, <2>1 DEF Own, Others
    <2> QED  BY <2>2, <2>3, <2>4, <2>5, <2>6 DEF TypeInv, Own
<1>3. ASSUME NEW t \in Thread, Step(t) PROVE TypeInv'
    <2>1. Moves(t)
        BY <1>3, StepMoves
    <2>2. /\ processed' = processed
          /\ wire' = wire \/ (Send(t) /\ wire' = wire \cup {CallOf(t)})
          /\ blocks' \subseteq Block /\ lost' \in 0..MaxLost
          /\ outcome' \in [Event -> {"none", "forwarded", "failed"}]
          /\ undiscovered' \subseteq Event
        BY <1>3, SharedEffect
    <2>3. Busy(t) /\ CallOf(t) \in Call /\ CallOf(t).event <= ingested
        <3>1. Busy(t)
            BY <2>1 DEF Moves
        <3> QED  BY <3>1, CallType, TypeFacts DEF CallOf
    <2>4. wire' \subseteq Call /\ \A c \in wire' : c.event <= ingested
        BY <1>1, <1>own, <2>2, <2>3 DEF Own
    <2>5. TypeOK'
        BY <1>1, <2>1, <2>2, <2>4 DEF Moves, TypeOK, Place
    <2>6. \A u \in Thread : (Busy(u)' => Busy(u)) /\ job'[u].event = job[u].event
        BY <2>1 DEF Moves, Others, Busy
    <2>7. \A u \in Thread : pc'[u] \in {"call", "waiting", "routed", "failed"}
                                => job'[u].target \notin job'[u].todo
        BY <1>own, <2>1 DEF Own, Moves, Others
    <2>8. ingested' = ingested
        BY <2>1 DEF Moves
    <2> QED  BY <1>own, <2>4, <2>5, <2>6, <2>7, <2>8 DEF TypeInv, Own
<1>4. ASSUME NEW c \in wire, Execute(c) \/ Refuse(c) PROVE TypeInv'
    <2>1. PICK what \in {"ok", "error", "none"} : Deliver(c, what)
        BY <1>4 DEF Execute, Refuse
    <2>2. /\ wire' = wire \ {c} /\ answer' \in [Thread -> {"none", "ok", "error"}]
          /\ UNCHANGED <<pc, job, ingested, blocks, outcome, undiscovered, lost>>
        BY <2>1, DeliverEffect
    <2>3. processed' \in [Event \X Stage \X Target -> Nat]
        BY <1>4, CountEffect DEF Execute, Refuse
    <2>4. TypeOK'
        BY <1>1, <2>2, <2>3 DEF TypeOK, Place
    <2> QED  BY <1>own, <2>2, <2>4 DEF TypeInv, Own, Busy
<1>5. CASE UNCHANGED vars
    BY <1>5 DEF vars, TypeInv, TypeOK, Own, Busy
<1> QED  BY <1>2, <1>3, <1>4, <1>5 DEF Next

\* The types hold at the start.
LEMMA InitTypeInv == Init => TypeInv
<1> SUFFICES ASSUME Init PROVE TypeInv
    OBVIOUS
<1> DEFINE new == [event |-> 0, stage |-> 1, todo |-> {}, target |-> NoTarget,
                   attempt |-> 1, failures |-> 0]
<1>1. new \in Job
    BY ConstantsAreGood DEF Job, Stage
<1>2. job = [t \in Thread |-> new]
    BY DEF Init
<1> HIDE DEF new
<1>3. job \in [Thread -> Job]
    BY <1>1, <1>2
<1>4. /\ 0 \in 0..MaxEvents /\ 0 \in 0..MaxLost
    BY ConstantsAreGood
<1>6. processed \in [Event \X Stage \X Target -> Nat]
    BY DEF Init
<1>7. TypeOK
    BY <1>3, <1>4, <1>6 DEF Init, TypeOK
<1>5. Own
    BY DEF Init, Own, Busy
<1> QED  BY <1>5, <1>7 DEF TypeInv

\* What a thread of route_with_retries works on, the calls on the wire and the
\* counters always have their types, and what is under way is a thread's own.
THEOREM TypeCorrect == Spec => []TypeOK
<1>1. TypeInv => TypeOK
    BY DEF TypeInv
<1> QED  BY <1>1, InitTypeInv, StepTypeInv, PTL DEF Spec

-----------------------------------------------------------------------------
(* A target works on an event no more often than it was called.            *)

\* The calls for an event to a target at a stage that are still under way.
WireOf(e, s, p) == {c \in wire : c.event = e /\ c.stage = s /\ c.target = p}

\* Those, and the times the target has executed such a call.
Load(e, s, p) == processed[<<e, s, p>>] + Cardinality(WireOf(e, s, p))

\* There are never more calls than attempts made, by the only thread that ever
\* makes any.
LoadInv ==
    \A e \in Event, s \in Stage, p \in Target :
        /\ Load(e, s, p) <= Retries
        /\ e > ingested => Load(e, s, p) = 0
        /\ \A t \in Thread : Busy(t) /\ job[t].event = e =>
               /\ Open(t, s, p) => Load(e, s, p) = 0
               /\ Current(t, s, p) /\ pc[t] = "call" => Load(e, s, p) < job[t].attempt
               /\ Current(t, s, p) /\ pc[t] = "waiting" => Load(e, s, p) <= job[t].attempt

\* The calls to a target differ in the attempt only.
LEMMA WireOfFinite ==
    ASSUME TypeInv, NEW e \in Event, NEW s \in Stage, NEW p \in Target
    PROVE  IsFiniteSet(WireOf(e, s, p)) /\ Cardinality(WireOf(e, s, p)) \in Nat
<1> DEFINE W == WireOf(e, s, p)
           f == [c \in W |-> c.attempt]
<1>1. W \subseteq Call /\ \A c \in W : c.event = e /\ c.stage = s /\ c.target = p
    BY TypeFacts DEF WireOf
<1> HIDE DEF W
<1>2. \A c \in W : c.attempt \in 1..Retries
    BY <1>1 DEF Call
<1>3. \A c, d \in W : c.attempt = d.attempt => c = d
    BY <1>1 DEF Call
<1>4. f \in Injection(W, 1..Retries)
    BY <1>2, <1>3 DEF Injection, IsInjective
<1>5. IsFiniteSet(1..Retries)
    BY ConstantsAreGood, FS_Interval
<1>6. IsFiniteSet(W)
    BY <1>4, <1>5, FS_Injection
<1> QED  BY <1>6, FS_CardinalityType DEF W

\* Every step keeps the calls within the attempts.
LEMMA StepLoadInv == TypeInv /\ LoadInv /\ [Next]_vars => LoadInv'
<1> SUFFICES ASSUME TypeInv, LoadInv, [Next]_vars PROVE LoadInv'
    OBVIOUS
<1>1. /\ Retries \in Nat /\ ingested \in Nat /\ Event \subseteq Nat
      /\ \A t \in Thread :
             /\ job[t].attempt \in 1..Retries /\ job[t].attempt \in Nat
             /\ Busy(t) => job[t].event \in Event /\ job[t].event <= ingested
      /\ \A e \in Event, s \in Stage, p \in Target : Load(e, s, p) \in Nat
    <2>2. ASSUME NEW e \in Event, NEW s \in Stage, NEW p \in Target
          PROVE  Load(e, s, p) \in Nat
        <3>1. processed[<<e, s, p>>] \in Nat /\ Cardinality(WireOf(e, s, p)) \in Nat
            BY TypeFacts, WireOfFinite
        <3> QED  BY <3>1 DEF Load
    <2>3. \A t \in Thread : job[t].attempt \in 1..Retries /\ job[t].attempt \in Nat
        BY TypeFacts, ConstantsAreGood
    <2> QED  BY <2>2, <2>3, TypeFacts, ConstantsAreGood
<1>2. ASSUME NEW t \in Thread, Ingest(t) PROVE LoadInv'
    <2>1. /\ pc[t] = "idle" /\ pc'[t] = "ingested" /\ Others(t)
          /\ ingested' = ingested + 1
          /\ job'[t].event = ingested + 1
          /\ processed' = processed /\ wire' = wire
        BY <1>2, IngestEffect
    <2>2. ASSUME NEW e \in Event, NEW s \in Stage, NEW p \in Target
          PROVE  /\ Load(e, s, p)' <= Retries
                 /\ e > ingested' => Load(e, s, p)' = 0
                 /\ \A u \in Thread : Busy(u)' /\ job'[u].event = e =>
                      /\ Open(u, s, p)' => Load(e, s, p)' = 0
                      /\ Current(u, s, p)' /\ pc'[u] = "call"
                             => Load(e, s, p)' < job'[u].attempt
                      /\ Current(u, s, p)' /\ pc'[u] = "waiting"
                             => Load(e, s, p)' <= job'[u].attempt
        <3>1. Load(e, s, p)' = Load(e, s, p)
            BY <2>1 DEF Load, WireOf
        <3>2. e \in Nat /\ (e > ingested + 1 => e > ingested)
            BY <1>1
        <3>3. job'[t].event = e => Load(e, s, p) = 0 /\ ~Current(t, s, p)'
            BY <1>1, <2>1, <3>2 DEF LoadInv, Current
        <3>4. \A u \in Thread \ {t} : /\ Busy(u)' = Busy(u) /\ job'[u] = job[u] /\ pc'[u] = pc[u]
                                      /\ Open(u, s, p)' = Open(u, s, p)
                                      /\ Current(u, s, p)' = Current(u, s, p)
            BY <2>1 DEF Others, Busy, Open, Current
        <3>5. \A u \in Thread \ {t} : Busy(u)' /\ job'[u].event = e =>
                      /\ Open(u, s, p)' => Load(e, s, p)' = 0
                      /\ Current(u, s, p)' /\ pc'[u] = "call"
                             => Load(e, s, p)' < job'[u].attempt
                      /\ Current(u, s, p)' /\ pc'[u] = "waiting"
                             => Load(e, s, p)' <= job'[u].attempt
            BY <3>1, <3>4 DEF LoadInv
        <3>6. Load(e, s, p) <= Retries /\ (e > ingested => Load(e, s, p) = 0)
            BY DEF LoadInv
        <3> QED  BY <2>1, <3>1, <3>2, <3>3, <3>5, <3>6
    <2> QED  BY <2>2 DEF LoadInv
<1>3. ASSUME NEW t \in Thread, Step(t) PROVE LoadInv'
    <2>1. Moves(t) /\ processed' = processed
        BY <1>3, StepMoves, SharedEffect
    <2>2. /\ Busy(t) /\ ingested' = ingested /\ job'[t].event = job[t].event
          /\ \A u \in Thread \ {t} : job'[u] = job[u] /\ pc'[u] = pc[u]
        BY <2>1 DEF Moves, Others
    <2>3. wire' = wire \/ (Send(t) /\ wire' = wire \cup {CallOf(t)})
        BY <1>3, SharedEffect
    <2>4. ASSUME NEW e \in Event, NEW s \in Stage, NEW p \in Target
          PROVE  \/ Load(e, s, p)' = Load(e, s, p)
                 \/ /\ Send(t) /\ e = job[t].event /\ Current(t, s, p)
                    /\ Load(e, s, p)' <= Load(e, s, p) + 1 /\ Load(e, s, p)' \in Nat
        <3>1. CASE WireOf(e, s, p)' = WireOf(e, s, p)
            BY <2>1, <3>1 DEF Load
        <3>2. CASE WireOf(e, s, p)' # WireOf(e, s, p)
            <4>1. /\ Send(t) /\ wire' = wire \cup {CallOf(t)}
                BY <2>3, <3>2 DEF WireOf
            <4>2. /\ CallOf(t).event = e /\ CallOf(t).stage = s /\ CallOf(t).target = p
                  /\ WireOf(e, s, p)' = WireOf(e, s, p) \cup {CallOf(t)}
                BY <3>2, <4>1 DEF WireOf
            <4>3. e = job[t].event /\ s = job[t].stage /\ p = job[t].target
                BY <4>2 DEF CallOf
            <4>4. pc[t] = "call"
                BY <4>1 DEF Send, Go
            <4>5. /\ Cardinality(WireOf(e, s, p)') <= Cardinality(WireOf(e, s, p)) + 1
                  /\ Cardinality(WireOf(e, s, p)') \in Nat
                  /\ Cardinality(WireOf(e, s, p)) \in Nat
                <5>1. /\ IsFiniteSet(WireOf(e, s, p))
                      /\ Cardinality(WireOf(e, s, p)) \in Nat
                    BY WireOfFinite
                <5>2. Cardinality(WireOf(e, s, p) \cup {CallOf(t)})
                          = IF CallOf(t) \in WireOf(e, s, p)
                            THEN Cardinality(WireOf(e, s, p))
                            ELSE Cardinality(WireOf(e, s, p)) + 1
                    BY <5>1, FS_AddElement
                <5> QED  BY <4>2, <5>1, <5>2
            <4>6. processed[<<e, s, p>>] \in Nat
                BY TypeFacts
            <4> QED  BY <2>1, <4>1, <4>3, <4>4, <4>5, <4>6 DEF Load, Current
        <3> QED  BY <3>1, <3>2
    <2>5. ASSUME NEW e \in Event, NEW s \in Stage, NEW p \in Target
          PROVE  /\ Load(e, s, p)' <= Retries
                 /\ e > ingested' => Load(e, s, p)' = 0
                 /\ \A u \in Thread : Busy(u)' /\ job'[u].event = e =>
                      /\ Open(u, s, p)' => Load(e, s, p)' = 0
                      /\ Current(u, s, p)' /\ pc'[u] = "call"
                             => Load(e, s, p)' < job'[u].attempt
                      /\ Current(u, s, p)' /\ pc'[u] = "waiting"
                             => Load(e, s, p)' <= job'[u].attempt
        <3>0. /\ Load(e, s, p) <= Retries /\ (e > ingested => Load(e, s, p) = 0)
              /\ Load(e, s, p) \in Nat /\ e \in Nat
            BY <1>1 DEF LoadInv
        <3>1. CASE Load(e, s, p)' = Load(e, s, p)
            <4>1. \A u \in Thread \ {t} : Busy(u)' /\ job'[u].event = e =>
                      /\ Open(u, s, p)' => Load(e, s, p)' = 0
                      /\ Current(u, s, p)' /\ pc'[u] = "call"
                             => Load(e, s, p)' < job'[u].attempt
                      /\ Current(u, s, p)' /\ pc'[u] = "waiting"
                             => Load(e, s, p)' <= job'[u].attempt
                <5>1. \A u \in Thread \ {t} : /\ Busy(u)' = Busy(u)
                                              /\ Open(u, s, p)' = Open(u, s, p)
                                              /\ Current(u, s, p)' = Current(u, s, p)
                    BY <2>2 DEF Busy, Open, Current
                <5> QED  BY <2>2, <3>1, <5>1 DEF LoadInv
            <4>2. Open(t, s, p)' /\ job'[t].event = e => Load(e, s, p)' = 0
                BY <2>1, <2>2, <3>1 DEF LoadInv, Moves
            <4>3. Current(t, s, p)' /\ job'[t].event = e /\ pc'[t] = "call"
                      => Load(e, s, p)' < job'[t].attempt
                <5> SUFFICES ASSUME Current(t, s, p)', job'[t].event = e, pc'[t] = "call"
                             PROVE  Load(e, s, p) < job'[t].attempt
                    BY <3>1
                <5>1. CASE job'[t].attempt = 1 /\ Open(t, s, p)
                    <6>1. Load(e, s, p) = 0
                        BY <2>2, <5>1 DEF LoadInv
                    <6> QED  BY <5>1, <6>1
                <5>2. CASE /\ pc[t] = "waiting" /\ job'[t].attempt = job[t].attempt + 1
                           /\ Current(t, s, p)
                    <6>1. Load(e, s, p) <= job[t].attempt
                        BY <2>2, <5>2 DEF LoadInv
                    <6> QED  BY <1>1, <3>0, <5>2, <6>1
                <5> QED  BY <2>1, <5>1, <5>2 DEF Moves
            <4>4. Current(t, s, p)' /\ job'[t].event = e /\ pc'[t] = "waiting"
                      => Load(e, s, p)' <= job'[t].attempt
                <5> SUFFICES ASSUME Current(t, s, p)', job'[t].event = e, pc'[t] = "waiting"
                             PROVE  Load(e, s, p) <= job'[t].attempt
                    BY <3>1
                <5>1. pc[t] = "call" /\ job' = job
                    <6>1. pc \in [Thread -> Place]
                        BY TypeFacts
                    <6> QED
                        BY <1>3, <6>1
                        DEF Step, RecordIngested, Discover, NextPeer, NextStage, Finish,
                            Send, Succeeds, AttemptFails, RecordRouted, RecordFailed, Go
                <5>2. Current(t, s, p)
                    BY <5>1 DEF Current
                <5>3. Load(e, s, p) < job[t].attempt
                    BY <2>2, <5>1, <5>2 DEF LoadInv
                <5> QED  BY <1>1, <3>0, <5>1, <5>3
            <4> QED  BY <2>2, <3>0, <3>1, <4>1, <4>2, <4>3, <4>4
        <3>2. CASE /\ Send(t) /\ e = job[t].event /\ Current(t, s, p)
                   /\ Load(e, s, p)' <= Load(e, s, p) + 1 /\ Load(e, s, p)' \in Nat
            <4>1. pc[t] = "call" /\ pc'[t] = "waiting" /\ job' = job
                <5>1. pc \in [Thread -> Place]
                    BY TypeFacts
                <5> QED  BY <3>2, <5>1 DEF Send, Go
            <4>2. Load(e, s, p) < job[t].attempt
                BY <2>2, <3>2, <4>1 DEF LoadInv
            <4>3. Load(e, s, p)' <= job[t].attempt /\ Load(e, s, p)' <= Retries
                BY <1>1, <3>0, <3>2, <4>2
            <4>4. \A u \in Thread : Busy(u)' /\ job'[u].event = e => u = t
                BY <2>2, <3>2, <4>1 DEF TypeInv, Own, Busy
            <4>5. ~Open(t, s, p)'
                BY <3>2, <4>1 DEF Open, Current, TypeInv, Own, Stage
            <4>6. e <= ingested
                BY <1>1, <2>2, <3>2
            <4>7. ~(e > ingested)
                BY <1>1, <3>0, <4>6
            <4> QED  BY <2>2, <4>1, <4>3, <4>4, <4>5, <4>7
        <3> QED  BY <2>4, <3>1, <3>2
    <2> QED  BY <2>5 DEF LoadInv
<1>4. ASSUME NEW c \in wire, Execute(c) \/ Refuse(c) PROVE LoadInv'
    <2>1. PICK what \in {"ok", "error", "none"} : Deliver(c, what)
        BY <1>4 DEF Execute, Refuse
    <2>2. wire' = wire \ {c} /\ pc' = pc /\ job' = job /\ ingested' = ingested
        BY <2>1, DeliverEffect
    <2>3. Executed(c) \/ processed' = processed
        BY <1>4 DEF Execute, Refuse
    <2>4. ASSUME NEW e \in Event, NEW s \in Stage, NEW p \in Target
          PROVE  Load(e, s, p)' <= Load(e, s, p) /\ Load(e, s, p)' \in Nat
        <3>1. /\ IsFiniteSet(WireOf(e, s, p)) /\ Cardinality(WireOf(e, s, p)) \in Nat
              /\ processed[<<e, s, p>>] \in Nat
            BY WireOfFinite, TypeFacts
        <3>2. WireOf(e, s, p)' = WireOf(e, s, p) \ {c}
            BY <2>2 DEF WireOf
        <3>3. /\ Cardinality(WireOf(e, s, p)') = IF c \in WireOf(e, s, p)
                                                 THEN Cardinality(WireOf(e, s, p)) - 1
                                                 ELSE Cardinality(WireOf(e, s, p))
              /\ Cardinality(WireOf(e, s, p)') \in Nat
            <4>1. IsFiniteSet(WireOf(e, s, p)')
                BY <3>1, <3>2, FS_RemoveElement
            <4> QED  BY <3>1, <3>2, <4>1, FS_RemoveElement, FS_CardinalityType
        <3>4. c \in WireOf(e, s, p) <=> <<e, s, p>> = <<c.event, c.stage, c.target>>
            BY DEF WireOf
        <3>5. \/ processed'[<<e, s, p>>] = processed[<<e, s, p>>]
              \/ /\ <<e, s, p>> = <<c.event, c.stage, c.target>>
                 /\ processed'[<<e, s, p>>] = processed[<<e, s, p>>] + 1
            BY <2>3, CountEffect
        <3> QED  BY <3>1, <3>3, <3>4, <3>5 DEF Load
    <2>5. ASSUME NEW e \in Event, NEW s \in Stage, NEW p \in Target
          PROVE  /\ Load(e, s, p)' <= Retries
                 /\ e > ingested' => Load(e, s, p)' = 0
                 /\ \A u \in Thread : Busy(u)' /\ job'[u].event = e =>
                      /\ Open(u, s, p)' => Load(e, s, p)' = 0
                      /\ Current(u, s, p)' /\ pc'[u] = "call"
                             => Load(e, s, p)' < job'[u].attempt
                      /\ Current(u, s, p)' /\ pc'[u] = "waiting"
                             => Load(e, s, p)' <= job'[u].attempt
        <3>1. /\ Load(e, s, p)' <= Load(e, s, p) /\ Load(e, s, p)' \in Nat
              /\ Load(e, s, p) \in Nat
            BY <1>1, <2>4
        <3>2. \A u \in Thread : /\ Busy(u)' = Busy(u) /\ Open(u, s, p)' = Open(u, s, p)
                                /\ Current(u, s, p)' = Current(u, s, p)
            BY <2>2 DEF Busy, Open, Current
        <3>3. /\ Load(e, s, p) <= Retries
              /\ e > ingested => Load(e, s, p) = 0
              /\ \A u \in Thread : Busy(u) /\ job[u].event = e =>
                      /\ Open(u, s, p) => Load(e, s, p) = 0
                      /\ Current(u, s, p) /\ pc[u] = "call"
                             => Load(e, s, p) < job[u].attempt
                      /\ Current(u, s, p) /\ pc[u] = "waiting"
                             => Load(e, s, p) <= job[u].attempt
            BY DEF LoadInv
        <3> QED  BY <1>1, <2>2, <3>1, <3>2, <3>3
    <2> QED  BY <2>5 DEF LoadInv
<1>5. CASE UNCHANGED vars
    <2>1. \A e \in Event, s \in Stage, p \in Target :
              /\ Load(e, s, p)' = Load(e, s, p)
              /\ \A t \in Thread : /\ Open(t, s, p)' = Open(t, s, p)
                                   /\ Current(t, s, p)' = Current(t, s, p)
                                   /\ Busy(t)' = Busy(t)
        BY <1>5 DEF vars, Load, WireOf, Open, Current, Busy
    <2>2. UNCHANGED <<job, pc, ingested>>
        BY <1>5 DEF vars
    <2> QED  BY <2>1, <2>2 DEF LoadInv
<1> QED  BY <1>2, <1>3, <1>4, <1>5 DEF Next

\* At the start nothing was called.
LEMMA InitLoadInv == Init => LoadInv
<1> SUFFICES ASSUME Init PROVE LoadInv
    OBVIOUS
<1>2. ASSUME NEW e \in Event, NEW s \in Stage, NEW p \in Target
      PROVE  Load(e, s, p) = 0
    <2>1. processed[<<e, s, p>>] = 0 /\ WireOf(e, s, p) = {}
        BY DEF Init, WireOf
    <2>2. Cardinality(WireOf(e, s, p)) = 0
        BY <2>1, FS_EmptySet
    <2> QED  BY <2>1, <2>2 DEF Load
<1>3. \A t \in Thread : ~Busy(t)
    BY DEF Init, Busy
<1>4. Retries >= 0
    BY ConstantsAreGood
<1> QED  BY <1>2, <1>3, <1>4 DEF LoadInv

\* However late the calls that timed out are executed, a target works on an
\* event at most as often as there are attempts, per stage that it serves.
THEOREM WorkIsBounded == Spec => []BoundedDuplication
<1>1. TypeInv /\ LoadInv => BoundedDuplication
    BY DEF LoadInv, Load, WireOf, BoundedDuplication
<1>2. TypeInv /\ LoadInv /\ [Next]_vars => (TypeInv /\ LoadInv)'
    BY StepTypeInv, StepLoadInv
<1>3. Init => TypeInv /\ LoadInv
    BY InitTypeInv, InitLoadInv
<1> QED  BY <1>1, <1>2, <1>3, PTL DEF Spec

-----------------------------------------------------------------------------
(* What the ledger says of a delivery is true.                             *)

\* Target p has executed event e at stage s.
Reached(e, s, p) == processed[<<e, s, p>>] > 0

\* Only one verdict is ever given on a target, after which nobody comes back to
\* it; and who was answered with a success has been served.
VerdictInv ==
    /\ \A b \in blocks : b.event <= ingested
    /\ \A b \in blocks : b.type # "market_event_ingested" =>
           \A t \in Thread : Busy(t) /\ job[t].event = b.event =>
               ~Open(t, b.stage, b.target) /\ ~Current(t, b.stage, b.target)
    /\ \A b \in blocks : b.type = "event_routed" => Reached(b.event, b.stage, b.target)
    /\ \A b, d \in blocks : b.type = "event_routed" /\ d.type = "routing_failed" =>
           ~(b.event = d.event /\ b.stage = d.stage /\ b.target = d.target)
    /\ \A t \in Thread : pc[t] = "routed" \/ (pc[t] = "waiting" /\ answer[t] = "ok") =>
           Reached(job[t].event, job[t].stage, job[t].target)
    /\ \A t \in Thread : pc[t] # "waiting" => answer[t] = "none"

\* What was reached stays reached, and an executed call reaches its target.
LEMMA ReachedStays ==
    ASSUME TypeInv, NEW c \in wire, Executed(c) \/ processed' = processed
    PROVE  /\ \A e \in Event, s \in Stage, p \in Target :
                  Reached(e, s, p) => Reached(e, s, p)'
           /\ Executed(c) => Reached(c.event, c.stage, c.target)'
<1>1. ASSUME NEW e \in Event, NEW s \in Stage, NEW p \in Target, Reached(e, s, p)
      PROVE  Reached(e, s, p)'
    <2>1. /\ processed[<<e, s, p>>] \in Nat /\ processed'[<<e, s, p>>] >= processed[<<e, s, p>>]
          /\ processed' \in [Event \X Stage \X Target -> Nat]
        BY CountEffect
    <2>2. processed'[<<e, s, p>>] \in Nat
        BY <2>1
    <2> QED  BY <1>1, <2>1, <2>2 DEF Reached
<1>2. c.event \in Event /\ c.stage \in Stage /\ c.target \in Target
    BY CountEffect
<1>3. Executed(c) => processed'[<<c.event, c.stage, c.target>>]
                         = processed[<<c.event, c.stage, c.target>>] + 1
    BY CountEffect
<1>4. processed[<<c.event, c.stage, c.target>>] \in Nat
    BY <1>2, CountEffect
<1> QED  BY <1>1, <1>3, <1>4 DEF Reached

\* The blocks a step of a request writes.
LEMMA StepBlocks ==
    ASSUME TypeInv, NEW t \in Thread, Step(t)
    PROVE  \A b \in blocks' :
               \/ b \in blocks
               \/ b.type = "market_event_ingested" /\ b.event = job[t].event
               \/ /\ b = Verdict(t, "event_routed") /\ pc[t] = "routed" /\ pc'[t] = "next"
                  /\ job' = job
               \/ /\ b = Verdict(t, "routing_failed") /\ RecordFailed(t)
                  /\ pc[t] = "failed" /\ pc'[t] = "next"
<1>0. pc \in [Thread -> Place] /\ Busy(t)
    BY TypeFacts, StepMoves DEF Moves
<1>1. CASE RecordIngested(t)
    BY <1>0, <1>1, VerdictType DEF RecordIngested, AppendLedger, Type
<1>2. CASE RecordRouted(t)
    BY <1>0, <1>2 DEF RecordRouted, AppendLedger, Go
<1>3. CASE RecordFailed(t)
    BY <1>0, <1>3 DEF RecordFailed, AppendLedger, Go
<1>4. CASE \/ Discover(t) \/ NextPeer(t) \/ NextStage(t) \/ Finish(t) \/ Send(t)
           \/ Succeeds(t) \/ AttemptFails(t)
    BY <1>4 DEF Discover, NextPeer, NextStage, Finish, Send, Succeeds, AttemptFails
<1> QED  BY <1>1, <1>2, <1>3, <1>4 DEF Step

\* The places at which a request has been answered with a success.
LEMMA StepServed ==
    ASSUME TypeInv, NEW t \in Thread, Step(t)
    PROVE  /\ pc'[t] = "routed" => pc[t] = "waiting" /\ answer[t] = "ok" /\ job' = job
           /\ pc'[t] = "waiting" => pc[t] = "call" /\ answer' = answer
           /\ answer' = answer \/ answer'[t] = "none"
           /\ pc[t] = "waiting" => answer'[t] = "none"
<1>0. pc \in [Thread -> Place] /\ answer \in [Thread -> {"none", "ok", "error"}]
    BY TypeFacts
<1>1. CASE Succeeds(t) \/ AttemptFails(t)
    BY <1>0, <1>1 DEF Succeeds, AttemptFails, Go
<1>2. CASE \/ RecordIngested(t) \/ Discover(t) \/ NextPeer(t) \/ NextStage(t) \/ Finish(t)
           \/ Send(t) \/ RecordRouted(t) \/ RecordFailed(t)
    <2>1. answer' = answer
        BY <1>2
        DEF RecordIngested, Discover, NextPeer, NextStage, Finish, Send, RecordRouted,
            RecordFailed
    <2>2. PICK from \in Place, to \in Place :
             Go(t, from, to) /\ to # "routed" /\ from # "waiting"
                             /\ (to = "waiting" => from = "call")
        BY <1>2
        DEF RecordIngested, Discover, NextPeer, NextStage, Finish, Send, RecordRouted,
            RecordFailed, Place
    <2> QED  BY <1>0, <2>1, <2>2 DEF Go
<1> QED  BY <1>1, <1>2 DEF Step

\* A request that is not the one of t is not affected by a step of t.
LEMMA OthersStay ==
    ASSUME NEW t \in Thread, Others(t)
    PROVE  \A u \in Thread \ {t} :
               /\ Busy(u)' = Busy(u) /\ job'[u] = job[u]
               /\ pc'[u] = pc[u] /\ answer'[u] = answer[u]
               /\ \A s \in Stage, p \in Target : /\ Open(u, s, p)' = Open(u, s, p)
                                                 /\ Current(u, s, p)' = Current(u, s, p)
BY DEF Others, Busy, Open, Current

\* Every step keeps the verdicts true.
LEMMA StepVerdictInv == TypeInv /\ VerdictInv /\ [Next]_vars => VerdictInv'
<1> SUFFICES ASSUME TypeInv, VerdictInv, [Next]_vars PROVE VerdictInv'
    OBVIOUS
<1>1. /\ ingested \in Nat /\ blocks \subseteq Block /\ Event \subseteq Nat
      /\ \A b \in blocks : /\ b.event \in Event /\ b.event \in Nat
                           /\ b.stage \in Stage /\ b.target \in Target
      /\ \A t \in Thread :
             /\ job[t].stage \in Stage /\ job[t].target \in Target
             /\ Busy(t) => job[t].event \in Event /\ job[t].event <= ingested
    <2>1. blocks \subseteq Block /\ Event \subseteq Nat
        BY TypeFacts, ConstantsAreGood
    <2>2. \A b \in blocks : /\ b.event \in Event /\ b.event \in Nat
                            /\ b.stage \in Stage /\ b.target \in Target
        BY <2>1 DEF Block
    <2> QED  BY <2>1, <2>2, TypeFacts
<1>2. ASSUME NEW t \in Thread, Ingest(t) PROVE VerdictInv'
    <2>1. /\ pc[t] = "idle" /\ pc'[t] = "ingested" /\ Others(t)
          /\ ingested' = ingested + 1 /\ job'[t].event = ingested + 1
          /\ UNCHANGED <<answer, processed, blocks>>
        BY <1>2, IngestEffect
    <2>2. \A b \in blocks : b.event <= ingested' /\ b.event # job'[t].event
        BY <1>1, <2>1 DEF VerdictInv
    <2>4. \A u \in Thread \ {t} : Busy(u)' = Busy(u) /\ job'[u] = job[u] /\ pc'[u] = pc[u]
        BY <2>1, OthersStay
    <2>5. \A d \in blocks : d.type # "market_event_ingested" =>
              \A u \in Thread : Busy(u)' /\ job'[u].event = d.event =>
                  ~Open(u, d.stage, d.target)' /\ ~Current(u, d.stage, d.target)'
        BY <1>1, <2>1, <2>2, <2>4, OthersStay DEF VerdictInv
    <2>6. \A e, s, p : Reached(e, s, p)' = Reached(e, s, p)
        BY <2>1 DEF Reached
    <2>7. /\ pc'[t] # "waiting" /\ pc'[t] # "routed" /\ answer'[t] = "none"
        BY <2>1 DEF VerdictInv
    <2>8. \A u \in Thread : pc'[u] = "routed" \/ (pc'[u] = "waiting" /\ answer'[u] = "ok")
              => Reached(job'[u].event, job'[u].stage, job'[u].target)
        BY <2>1, <2>4, <2>7 DEF VerdictInv
    <2> QED  BY <2>1, <2>2, <2>4, <2>5, <2>6, <2>7, <2>8 DEF VerdictInv
<1>3. ASSUME NEW t \in Thread, Step(t) PROVE VerdictInv'
    <2>1. Moves(t) /\ processed' = processed
        BY <1>3, StepMoves, SharedEffect
    <2>2. /\ Busy(t) /\ ingested' = ingested /\ job'[t].event = job[t].event /\ Others(t)
        BY <2>1 DEF Moves
    <2>3. \A e, s, p : Reached(e, s, p)' = Reached(e, s, p)
        BY <2>1 DEF Reached
    <2>4. \A d \in blocks' :
              \/ d \in blocks
              \/ d.type = "market_event_ingested" /\ d.event = job[t].event
              \/ /\ d.event = job[t].event /\ d.stage = job[t].stage
                 /\ d.target = job[t].target /\ pc'[t] = "next" /\ job'[t].todo = job[t].todo
                 /\ job'[t].stage = job[t].stage
                 /\ \/ d.type = "event_routed" /\ pc[t] = "routed"
                    \/ d.type = "routing_failed" /\ pc[t] = "failed"
        <3>1. RecordFailed(t) => job'[t].todo = job[t].todo /\ job'[t].stage = job[t].stage
            <4>1. job \in [Thread -> Job]
                BY TypeFacts
            <4> QED  BY <4>1 DEF RecordFailed, Job
        <3> QED  BY <1>3, <3>1, StepBlocks DEF Verdict
    <2>5. \A d \in blocks' : d.event <= ingested'
        BY <1>1, <2>2, <2>4 DEF VerdictInv
    <2>6. ASSUME NEW d \in blocks', d.type # "market_event_ingested",
                 NEW u \in Thread, Busy(u)', job'[u].event = d.event
          PROVE  ~Open(u, d.stage, d.target)' /\ ~Current(u, d.stage, d.target)'
        <3>0. Busy(u) /\ job[u].event = d.event
            BY <2>2, <2>6, OthersStay
        <3>1. CASE d \in blocks
            <4>1. ~Open(u, d.stage, d.target) /\ ~Current(u, d.stage, d.target)
                BY <2>6, <3>0, <3>1 DEF VerdictInv
            <4>2. d.stage \in Stage /\ d.target \in Target
                BY <1>1, <3>1
            <4>3. CASE u = t
                BY <2>1, <4>1, <4>2, <4>3 DEF Moves
            <4>4. CASE u # t
                BY <2>2, <4>1, <4>2, <4>4, OthersStay
            <4> QED  BY <4>3, <4>4
        <3>2. CASE d \notin blocks
            <4>1. /\ d.event = job[t].event /\ d.stage = job[t].stage
                  /\ d.target = job[t].target /\ pc'[t] = "next"
                  /\ job'[t].todo = job[t].todo /\ job'[t].stage = job[t].stage
                  /\ pc[t] \in {"routed", "failed"}
                BY <2>4, <2>6, <3>2
            <4>2. u = t
                BY <2>2, <3>0, <4>1 DEF TypeInv, Own
            <4>3. job[t].target \notin job[t].todo /\ job[t].stage \in Nat
                BY <1>1, <4>1, ConstantsAreGood DEF TypeInv, Own
            <4> QED  BY <4>1, <4>2, <4>3 DEF Open, Current
        <3> QED  BY <3>1, <3>2
    <2>7. \A d \in blocks' : d.type = "event_routed" => Reached(d.event, d.stage, d.target)
        BY <2>4 DEF VerdictInv
    <2>8. ASSUME NEW x \in blocks', NEW d \in blocks', x.type = "event_routed",
                 d.type = "routing_failed", x.event = d.event, x.stage = d.stage,
                 x.target = d.target
          PROVE  FALSE
        <3>1. CASE x \in blocks /\ d \in blocks
            BY <2>8, <3>1 DEF VerdictInv
        <3>2. CASE ~(x \in blocks /\ d \in blocks)
            <4>1. /\ x.event = job[t].event /\ x.stage = job[t].stage
                  /\ x.target = job[t].target
                BY <2>4, <2>8, <3>2
            <4>2. pc[t] \in {"routed", "failed"}
                BY <2>4, <2>8, <3>2
            <4>3. Current(t, x.stage, x.target)
                BY <4>1, <4>2 DEF Current
            <4>4. x \notin blocks /\ d \notin blocks
                BY <2>2, <2>8, <4>1, <4>3 DEF VerdictInv
            <4> QED  BY <2>4, <2>8, <4>4
        <3> QED  BY <3>1, <3>2
    <2>9. \A u \in Thread : /\ pc'[u] = "routed" \/ (pc'[u] = "waiting" /\ answer'[u] = "ok")
                                => Reached(job'[u].event, job'[u].stage, job'[u].target)
                            /\ pc'[u] # "waiting" => answer'[u] = "none"
        <3>1. /\ pc'[t] = "routed" => pc[t] = "waiting" /\ answer[t] = "ok" /\ job' = job
              /\ pc'[t] = "waiting" => pc[t] = "call" /\ answer' = answer
              /\ answer' = answer \/ answer'[t] = "none"
              /\ pc[t] = "waiting" => answer'[t] = "none"
            BY <1>3, StepServed
        <3> QED  BY <2>2, <3>1, OthersStay DEF VerdictInv
    <2> QED  BY <2>3, <2>5, <2>6, <2>7, <2>8, <2>9 DEF VerdictInv
<1>4. ASSUME NEW c \in wire, Execute(c) \/ Refuse(c) PROVE VerdictInv'
    <2>1. PICK what \in {"ok", "error", "none"} :
             Deliver(c, what) /\ (what = "ok" => Executed(c))
        BY <1>4 DEF Execute, Refuse
    <2>2. Executed(c) \/ processed' = processed
        BY <1>4 DEF Execute, Refuse
    <2>3. /\ UNCHANGED <<pc, job, ingested, blocks>>
          /\ \A t \in Thread :
                 answer'[t] = IF pc[t] = "waiting" /\ CallOf(t) = c THEN what ELSE answer[t]
        BY <2>1, DeliverEffect
    <2>4. \A e \in Event, s \in Stage, p \in Target : Reached(e, s, p) => Reached(e, s, p)'
        BY <2>2, ReachedStays
    <2>5. Executed(c) => Reached(c.event, c.stage, c.target)'
        BY <2>2, ReachedStays
    <2>6. ASSUME NEW u \in Thread,
                 pc[u] = "routed" \/ (pc[u] = "waiting" /\ answer'[u] = "ok")
          PROVE  Reached(job[u].event, job[u].stage, job[u].target)'
        <3>1. CASE pc[u] = "waiting" /\ CallOf(u) = c
            <4>1. /\ c.event = job[u].event /\ c.stage = job[u].stage
                  /\ c.target = job[u].target
                BY <3>1 DEF CallOf
            <4>2. what = "ok"
                BY <2>3, <2>6, <3>1
            <4> QED  BY <2>1, <2>3, <2>5, <4>1, <4>2
        <3>2. CASE ~(pc[u] = "waiting" /\ CallOf(u) = c)
            <4>1. Reached(job[u].event, job[u].stage, job[u].target)
                BY <2>3, <2>6, <3>2 DEF VerdictInv
            <4>2. /\ job[u].event \in Event /\ job[u].stage \in Stage
                  /\ job[u].target \in Target
                BY <1>1, <2>6 DEF Busy
            <4> QED  BY <2>3, <2>4, <4>1, <4>2
        <3> QED  BY <3>1, <3>2
    <2>7. \A b \in blocks : b.type = "event_routed" => Reached(b.event, b.stage, b.target)'
        BY <1>1, <2>4 DEF VerdictInv
    <2>8. \A t \in Thread : \A s, p :
              /\ Busy(t)' = Busy(t) /\ Open(t, s, p)' = Open(t, s, p)
              /\ Current(t, s, p)' = Current(t, s, p)
        BY <2>3 DEF Busy, Open, Current
    <2> QED  BY <2>3, <2>6, <2>7, <2>8 DEF VerdictInv
<1>5. CASE UNCHANGED vars
    BY <1>5 DEF vars, VerdictInv, Reached, Open, Current, Busy
<1> QED  BY <1>2, <1>3, <1>4, <1>5 DEF Next

\* At the start there are no verdicts.
LEMMA InitVerdictInv == Init => VerdictInv
BY DEF Init, VerdictInv

\* The ledger never claims a delivery that did not happen, and never both that
\* an event reached a target and that routing to it failed.
THEOREM LedgerIsTrue == Spec => []VerdictsAreTrue
<1>1. TypeInv /\ VerdictInv => VerdictsAreTrue
    <2> SUFFICES ASSUME TypeInv, VerdictInv, NEW b \in blocks, b.type = "event_routed"
                 PROVE  /\ processed[<<b.event, b.stage, b.target>>] > 0
                        /\ [b EXCEPT !.type = "routing_failed"] \notin blocks
        BY DEF VerdictsAreTrue
    <2> DEFINE d == [b EXCEPT !.type = "routing_failed"]
    <2>1. b \in Block
        BY TypeFacts
    <2>2. /\ d.event = b.event /\ d.stage = b.stage /\ d.target = b.target
          /\ d.type = "routing_failed"
        BY <2>1 DEF Block
    <2> HIDE DEF d
    <2>3. d \notin blocks
        BY <2>2 DEF VerdictInv
    <2> QED  BY <2>3 DEF VerdictInv, Reached, d
<1>2. TypeInv /\ VerdictInv /\ [Next]_vars => (TypeInv /\ VerdictInv)'
    BY StepTypeInv, StepVerdictInv
<1>3. Init => TypeInv /\ VerdictInv
    BY InitTypeInv, InitVerdictInv
<1> QED  BY <1>1, <1>2, <1>3, PTL DEF Spec

-----------------------------------------------------------------------------
(* What is counted as forwarded was forwarded.                             *)

\* Nothing failed for event e, and every peer offered for it was reached or is
\* still to be called by thread t.
OnTheWay(t, e) ==
    /\ \A b \in blocks : b.event = e => b.type # "routing_failed"
    /\ \/ e \in undiscovered
       \/ \A s \in Stage : \A p \in Providers[s] :
              Reached(e, s, p) \/ Open(t, s, p) \/ Current(t, s, p)

\* As long as no failure was counted an event is on its way; once counted it is
\* nobody's any more.
ReachInv ==
    /\ \A e \in Event : outcome[e] # "none" =>
           e <= ingested /\ \A t \in Thread : Busy(t) => job[t].event # e
    /\ \A t \in Thread : Busy(t) /\ job[t].failures = 0 => OnTheWay(t, job[t].event)
    /\ ForwardedReachedAll

\* No peer is passed over, unless its discovery failed.
LEMMA NobodyPassedOver ==
    ASSUME TypeInv, NEW t \in Thread, Step(t), NEW s \in Stage, NEW p \in Providers[s]
    PROVE  /\ Open(t, s, p) => \/ Open(t, s, p)' \/ Current(t, s, p)'
                               \/ job[t].event \in undiscovered'
           /\ Current(t, s, p) => \/ Current(t, s, p)'
                                  \/ pc[t] \in {"routed", "failed"}
                                  \/ pc[t] = "waiting" /\ answer[t] = "ok"
<1>1. /\ pc \in [Thread -> Place] /\ job \in [Thread -> Job] /\ job[t] \in Job
      /\ job[t].stage \in Nat /\ s \in Nat /\ p \in Target /\ s <= Compute
    <2>1. job[t].stage \in Nat /\ s \in Nat /\ p \in Target /\ s <= Compute
        BY TypeFacts, ConstantsAreGood
    <2> QED  BY <2>1, TypeFacts
<1>2. CASE RecordIngested(t)
    BY <1>1, <1>2 DEF RecordIngested, Go, Open, Current, Busy
<1>3. CASE Discover(t)
    <2>1. pc[t] = "discover" /\ pc'[t] = "next"
        BY <1>1, <1>3 DEF Discover, Go
    <2>2. \/ job'[t].todo = Providers[job[t].stage] /\ job'[t].stage = job[t].stage
          \/ /\ undiscovered' = undiscovered \cup {job[t].event}
        BY <1>1, <1>3 DEF Discover, Job
    <2>3. ~Current(t, s, p)
        BY <2>1 DEF Current
    <2>4. CASE job'[t].todo = Providers[job[t].stage] /\ job'[t].stage = job[t].stage
        BY <2>1, <2>3, <2>4 DEF Open, Busy
    <2> QED  BY <2>2, <2>3, <2>4
<1>4. CASE NextPeer(t)
    <2>1. PICK q \in job[t].todo :
              job' = [job EXCEPT ![t].target = q, ![t].attempt = 1, ![t].todo = @ \ {q}]
        BY <1>4 DEF NextPeer
    <2>2. /\ job'[t].target = q /\ job'[t].todo = job[t].todo \ {q}
          /\ job'[t].stage = job[t].stage
        BY <1>1, <2>1 DEF Job
    <2>3. pc[t] = "next" /\ pc'[t] = "call"
        BY <1>1, <1>4 DEF NextPeer, Go
    <2> QED  BY <2>2, <2>3 DEF Open, Current, Busy
<1>5. CASE NextStage(t)
    <2>1. job'[t].stage = job[t].stage + 1 /\ job[t].todo = {}
        BY <1>1, <1>5 DEF NextStage, Job
    <2>2. pc[t] = "next" /\ pc'[t] = "discover"
        BY <1>1, <1>5 DEF NextStage, Go
    <2>3. s > job[t].stage => s = job[t].stage + 1 \/ s > job[t].stage + 1
        BY <1>1
    <2> QED  BY <2>1, <2>2, <2>3 DEF Open, Current, Busy
<1>6. CASE Finish(t)
    <2>1. pc[t] = "next" /\ job[t].todo = {} /\ job[t].stage = Compute
        BY <1>1, <1>6 DEF Finish, Go
    <2>2. ~(s > job[t].stage)
        BY <1>1, <2>1 DEF Compute
    <2> QED  BY <2>1, <2>2 DEF Open, Current
<1>7. CASE Send(t)
    BY <1>1, <1>7 DEF Send, Go, Open, Current, Busy
<1>8. CASE Succeeds(t)
    BY <1>1, <1>8 DEF Succeeds, Go, Open, Current, Busy
<1>9. CASE AttemptFails(t)
    <2>1. /\ pc[t] = "waiting" /\ pc'[t] \in {"call", "failed"}
        BY <1>1, <1>9 DEF AttemptFails, Go
    <2>2. /\ job'[t].todo = job[t].todo /\ job'[t].stage = job[t].stage
          /\ job'[t].target = job[t].target
        BY <1>1, <1>9 DEF AttemptFails, Job
    <2> QED  BY <2>1, <2>2 DEF Open, Current, Busy
<1>10. CASE RecordRouted(t)
    BY <1>1, <1>10 DEF RecordRouted, Go, Open, Current, Busy
<1>11. CASE RecordFailed(t)
    <2>1. pc[t] = "failed" /\ pc'[t] = "next"
        BY <1>1, <1>11 DEF RecordFailed, Go
    <2>2. job'[t].todo = job[t].todo /\ job'[t].stage = job[t].stage
        BY <1>1, <1>11 DEF RecordFailed, Job
    <2> QED  BY <2>1, <2>2 DEF Open, Current, Busy
<1> QED
    BY <1>2, <1>3, <1>4, <1>5, <1>6, <1>7, <1>8, <1>9, <1>10, <1>11 DEF Step

\* Every step keeps the events on their way.
LEMMA StepReachInv == TypeInv /\ VerdictInv /\ ReachInv /\ [Next]_vars => ReachInv'
<1> SUFFICES ASSUME TypeInv, VerdictInv, ReachInv, [Next]_vars PROVE ReachInv'
    OBVIOUS
<1>1. /\ ingested \in Nat /\ Event \subseteq Nat /\ ingested <= MaxEvents
      /\ outcome \in [Event -> {"none", "forwarded", "failed"}]
      /\ blocks \subseteq Block /\ \A b \in blocks : b.event \in Nat
      /\ \A s \in Stage : Providers[s] \subseteq Target
      /\ \A t \in Thread :
             /\ job[t].failures \in Nat
             /\ Busy(t) => job[t].event \in Event /\ job[t].event <= ingested
    <2>1. blocks \subseteq Block /\ \A b \in Block : b.event \in Nat
        BY TypeFacts, ConstantsAreGood DEF Block
    <2>2. ingested <= MaxEvents
        BY TypeFacts, ConstantsAreGood
    <2> QED  BY <2>1, <2>2, TypeFacts, ConstantsAreGood
<1>2. ASSUME NEW t \in Thread, Ingest(t) PROVE ReachInv'
    <2>1. /\ pc[t] = "idle" /\ pc'[t] = "ingested" /\ Others(t)
          /\ ingested' = ingested + 1 /\ job'[t].event = ingested + 1 /\ job'[t].stage = 1
          /\ UNCHANGED <<processed, blocks, outcome, undiscovered>>
        BY <1>2, IngestEffect
    <2>2. ForwardedReachedAll'
        BY <2>1 DEF ReachInv, ForwardedReachedAll
    <2>3. OnTheWay(t, job[t].event)'
        <3>1. PICK e : e = ingested + 1
            OBVIOUS
        <3>2. \A b \in blocks' : b.event # e
            BY <1>1, <2>1, <3>1 DEF VerdictInv
        <3>3. \A s \in Stage : \A p : Open(t, s, p)'
            BY <2>1, ConstantsAreGood DEF Open, Busy, Stage
        <3>4. OnTheWay(t, e)'
            BY <3>2, <3>3 DEF OnTheWay
        <3> QED  BY <2>1, <3>1, <3>4
    <2>4. ASSUME NEW u \in Thread \ {t}, Busy(u)', job'[u].failures = 0
          PROVE  OnTheWay(u, job[u].event)'
        <3>1. Busy(u) /\ OnTheWay(u, job[u].event) /\ job'[u] = job[u]
            BY <2>1, <2>4, OthersStay DEF ReachInv
        <3>2. \A s, p : /\ Open(u, s, p)' = Open(u, s, p)
                        /\ Current(u, s, p)' = Current(u, s, p)
            BY <2>1 DEF Others, Open, Current, Busy
        <3>3. PICK e : e = job[u].event
            OBVIOUS
        <3>4. OnTheWay(u, e)'
            BY <2>1, <3>1, <3>2, <3>3 DEF OnTheWay, Reached
        <3> QED  BY <3>1, <3>3, <3>4
    <2>5. \A e \in Event : outcome'[e] # "none" =>
              e <= ingested' /\ \A u \in Thread : Busy(u)' => job'[u].event # e
        BY <1>1, <2>1, OthersStay DEF ReachInv
    <2> QED  BY <2>1, <2>2, <2>3, <2>4, <2>5 DEF ReachInv
<1>3. ASSUME NEW t \in Thread, Step(t) PROVE ReachInv'
    <2>1. /\ Moves(t) /\ processed' = processed /\ undiscovered \subseteq undiscovered'
          /\ pc \in [Thread -> Place]
        BY <1>3, StepMoves, SharedEffect, TypeFacts
    <2>0. PICK e : e = job[t].event
        OBVIOUS
    <2>2. /\ Busy(t) /\ ingested' = ingested /\ job'[t].event = e /\ Others(t) /\ e \in Event
          /\ e <= ingested
        BY <1>1, <2>0, <2>1 DEF Moves
    <2>3. \A b \in blocks' :
              \/ b \in blocks
              \/ b.event = e /\ (b.type = "routing_failed" => pc[t] = "failed")
        BY <1>3, <2>0, StepBlocks DEF Verdict
    <2>4. \A u \in Thread : (Busy(u)' => Busy(u)) /\ job'[u].event = job[u].event
        BY <2>0, <2>2, OthersStay
    <2>5. \A u \in Thread \ {t} : Busy(u) => job[u].event # e
        BY <2>0, <2>2 DEF TypeInv, Own
\* The event of t is still on its way, if nothing failed.
    <2>6. ASSUME job'[t].failures = 0
          PROVE  OnTheWay(t, e)'
        <3>1. pc[t] # "failed" /\ job[t].failures = 0
            BY <2>1, <2>6 DEF Moves
        <3>2. OnTheWay(t, e)
            BY <2>0, <2>2, <3>1 DEF ReachInv
        <3>3. \A b \in blocks' : b.event = e => b.type # "routing_failed"
            BY <2>3, <3>1, <3>2 DEF OnTheWay
        <3>4. ASSUME e \notin undiscovered', NEW s \in Stage, NEW p \in Providers[s]
              PROVE  Reached(e, s, p)' \/ Open(t, s, p)' \/ Current(t, s, p)'
            <4>1. Reached(e, s, p) \/ Open(t, s, p) \/ Current(t, s, p)
                BY <2>1, <3>2, <3>4 DEF OnTheWay
            <4>2. CASE Reached(e, s, p)
                BY <2>1, <4>2 DEF Reached
            <4>3. CASE Open(t, s, p)
                BY <1>3, <3>4, <4>3, NobodyPassedOver, <2>0
            <4>4. CASE Current(t, s, p)
                <5>1. \/ Current(t, s, p)'
                      \/ pc[t] = "routed"
                      \/ pc[t] = "waiting" /\ answer[t] = "ok"
                    BY <1>3, <3>1, <4>4, NobodyPassedOver
                <5>2. pc[t] = "routed" \/ (pc[t] = "waiting" /\ answer[t] = "ok")
                          => Reached(e, s, p)
                    BY <2>0, <4>4 DEF VerdictInv, Current
                <5> QED  BY <2>1, <5>1, <5>2 DEF Reached
            <4> QED  BY <4>1, <4>2, <4>3, <4>4
        <3> QED  BY <3>3, <3>4 DEF OnTheWay
    <2>7. ASSUME NEW u \in Thread \ {t}, Busy(u)', job'[u].failures = 0
          PROVE  OnTheWay(u, job[u].event)'
        <3>1. /\ Busy(u) /\ job'[u] = job[u] /\ job[u].event # e
              /\ OnTheWay(u, job[u].event)
            BY <2>2, <2>5, <2>7, OthersStay DEF ReachInv
        <3>2. \A s, p : /\ Open(u, s, p)' = Open(u, s, p)
                        /\ Current(u, s, p)' = Current(u, s, p)
            BY <2>2 DEF Others, Open, Current, Busy
        <3>3. \A b \in blocks' : b.event = job[u].event => b.type # "routing_failed"
            BY <2>3, <3>1 DEF OnTheWay
        <3>4. PICK f : f = job[u].event
            OBVIOUS
        <3>5. OnTheWay(u, f)'
            BY <2>1, <3>1, <3>2, <3>3, <3>4 DEF OnTheWay, Reached
        <3> QED  BY <3>1, <3>4, <3>5
    <2>8. \/ outcome' = outcome
          \/ /\ Finish(t) /\ pc'[t] = "idle" /\ job' = job
             /\ undiscovered' = undiscovered /\ blocks' = blocks
             /\ \A f \in Event \ {e} : outcome'[f] = outcome[f]
             /\ outcome'[e] = "forwarded" => job[t].failures = 0
        <3>1. CASE Finish(t)
            BY <1>1, <2>0, <2>1, <2>2, <3>1 DEF Finish, Go
        <3>2. CASE ~Finish(t)
            BY <1>3, <3>2
            DEF Step, RecordIngested, Discover, NextPeer, NextStage, Send, Succeeds,
                AttemptFails, RecordRouted, RecordFailed
        <3> QED  BY <3>1, <3>2
    <2>9. \A f \in Event : outcome'[f] # "none" =>
              f <= ingested' /\ \A u \in Thread : Busy(u)' => job'[u].event # f
        <3>1. \A f \in Event : outcome[f] # "none" =>
                  f <= ingested' /\ \A u \in Thread : Busy(u)' => job'[u].event # f
            BY <2>2, <2>4 DEF ReachInv
        <3>2. CASE outcome' = outcome
            BY <3>1, <3>2
        <3>3. CASE /\ pc'[t] = "idle"
                   /\ \A f \in Event \ {e} : outcome'[f] = outcome[f]
            <4>1. \A u \in Thread : Busy(u)' => job'[u].event # e
                BY <2>4, <2>5, <3>3 DEF Busy
            <4> QED  BY <2>2, <3>1, <3>3, <4>1
        <3> QED  BY <2>8, <3>2, <3>3
    <2>10. ASSUME NEW f \in Event, outcome'[f] = "forwarded"
           PROVE  /\ f \in undiscovered'
                         \/ \A s \in Stage : \A p \in Providers[s] : processed'[<<f, s, p>>] > 0
                  /\ \A b \in blocks' : b.event = f => b.type # "routing_failed"
        <3>1. CASE outcome[f] = "forwarded"
            <4>1. f # e
                BY <2>0, <2>2, <3>1 DEF ReachInv
            <4>2. /\ f \in undiscovered
                         \/ \A s \in Stage : \A p \in Providers[s] : processed[<<f, s, p>>] > 0
                  /\ \A b \in blocks : b.event = f => b.type # "routing_failed"
                BY <3>1 DEF ReachInv, ForwardedReachedAll
            <4> QED  BY <2>1, <2>3, <4>1, <4>2
        <3>2. CASE outcome[f] # "forwarded"
            <4>1. /\ Finish(t) /\ f = e /\ job[t].failures = 0
                  /\ undiscovered' = undiscovered /\ blocks' = blocks
                BY <2>8, <2>10, <3>2
            <4>2. OnTheWay(t, e)
                BY <2>0, <2>2, <4>1 DEF ReachInv
            <4>3. pc[t] = "next" /\ job[t].todo = {} /\ job[t].stage = Compute
                BY <4>1 DEF Finish, Go
            <4>4. \A s \in Stage : \A p : ~Open(t, s, p) /\ ~Current(t, s, p)
                BY <4>3 DEF Open, Current, Stage, Compute
            <4> QED  BY <2>1, <4>1, <4>2, <4>4 DEF OnTheWay, Reached
        <3> QED  BY <3>1, <3>2
    <2>11. \A u \in Thread :
               Busy(u)' /\ job'[u].failures = 0 => OnTheWay(u, job[u].event)'
        <3>1. job'[t].failures = 0 => OnTheWay(t, job[t].event)'
            BY <2>0, <2>2, <2>6
        <3> QED  BY <2>7, <3>1
    <2>12. ForwardedReachedAll'
        BY <2>10 DEF ForwardedReachedAll
    <2> QED  BY <2>9, <2>11, <2>12 DEF ReachInv
<1>4. ASSUME NEW c \in wire, Execute(c) \/ Refuse(c) PROVE ReachInv'
    <2>1. PICK what \in {"ok", "error", "none"} : Deliver(c, what)
        BY <1>4 DEF Execute, Refuse
    <2>2. Executed(c) \/ processed' = processed
        BY <1>4 DEF Execute, Refuse
    <2>3. UNCHANGED <<pc, job, ingested, blocks, outcome, undiscovered>>
        BY <2>1, DeliverEffect
    <2>4. \A e \in Event, s \in Stage, p \in Target : Reached(e, s, p) => Reached(e, s, p)'
        BY <2>2, ReachedStays
    <2>5. \A t \in Thread : \A s, p :
              /\ Busy(t)' = Busy(t) /\ Open(t, s, p)' = Open(t, s, p)
              /\ Current(t, s, p)' = Current(t, s, p)
        BY <2>3 DEF Busy, Open, Current
    <2>6. \A t \in Thread, e \in Event : OnTheWay(t, e) => OnTheWay(t, e)'
        BY <1>1, <2>3, <2>4, <2>5 DEF OnTheWay
    <2>7. ForwardedReachedAll'
        BY <1>1, <2>3, <2>4 DEF ReachInv, ForwardedReachedAll, Reached
    <2> QED  BY <1>1, <2>3, <2>5, <2>6, <2>7 DEF ReachInv
<1>5. CASE UNCHANGED vars
    <2>1. UNCHANGED <<pc, job, ingested, blocks, outcome, undiscovered, processed>>
        BY <1>5 DEF vars
    <2>2. \A t \in Thread : \A s, p :
              /\ Busy(t)' = Busy(t) /\ Open(t, s, p)' = Open(t, s, p)
              /\ Current(t, s, p)' = Current(t, s, p)
        BY <2>1 DEF Busy, Open, Current
    <2>3. \A t \in Thread : \A e : OnTheWay(t, e) => OnTheWay(t, e)'
        BY <2>1, <2>2 DEF OnTheWay, Reached
    <2> QED  BY <2>1, <2>2, <2>3 DEF ReachInv, ForwardedReachedAll
<1> QED  BY <1>2, <1>3, <1>4, <1>5 DEF Next

\* At the start no event is under way.
LEMMA InitReachInv == Init => ReachInv
BY DEF Init, ReachInv, ForwardedReachedAll, Busy

\* An event that is counted as forwarded was executed by every peer that the
\* overlay offers for every stage, unless a discovery failed for it, and the
\* ledger has no failure for it.
THEOREM ForwardedIsForwarded == Spec => []ForwardedReachedAll
<1>1. ReachInv => ForwardedReachedAll
    BY DEF ReachInv
<1>2. TypeInv /\ VerdictInv /\ ReachInv /\ [Next]_vars
          => (TypeInv /\ VerdictInv /\ ReachInv)'
    BY StepTypeInv, StepVerdictInv, StepReachInv
<1>3. Init => TypeInv /\ VerdictInv /\ ReachInv
    BY InitTypeInv, InitVerdictInv, InitReachInv
<1> QED  BY <1>1, <1>2, <1>3, PTL DEF Spec

-----------------------------------------------------------------------------
(* Requests come to an end: a bound on their steps.                        *)

\* The steps of one target, of one stage and of a whole request, at most.
PerTarget    == 2 * Retries + 2
PerStage     == Cardinality(Target) * PerTarget + 2
RequestSteps == 3 * PerStage + 1

\* What is left to do for the target at hand, and to go on from there.
AtHand(place, attempt) ==
    CASE place = "discover" -> 0
      [] place \in {"ingested", "next"} -> 1
      [] place \in {"routed", "failed"} -> 2
      [] place = "waiting" -> 2 * (Retries - attempt) + 3
      [] place = "call" -> 2 * (Retries - attempt) + 4

\* For n more targets of this stage, or all of them, and for the next stages.
StepsFrom(place, stage, n, attempt) ==
    IF place = "idle" THEN 0
    ELSE AtHand(place, attempt) + (Compute - stage) * PerStage
         + (IF place \in {"ingested", "discover"} THEN PerStage ELSE n * PerTarget)

Left(t) == StepsFrom(pc[t], job[t].stage, Cardinality(job[t].todo), job[t].attempt)

\* A request starts with RequestSteps steps to go, each of its own steps leaves
\* fewer, and nothing else changes how many.
GetsOn == \A t \in Thread :
    /\ Ingest(t) => Left(t)' = RequestSteps
    /\ Step(t) => Left(t)' < Left(t)
    /\ ~Ingest(t) /\ ~Step(t) => Left(t)' = Left(t)

-----------------------------------------------------------------------------
\* The numbers behind them.
LEMMA WorkNumbers ==
    ASSUME IsFiniteSet(Target)
    PROVE  /\ PerTarget \in Nat /\ PerTarget = 2 * Retries + 2 /\ Retries \in Nat
           /\ PerStage \in Nat /\ RequestSteps = 3 * PerStage + 1
           /\ \A n \in 0..Cardinality(Target) :
                  /\ n * PerTarget \in Nat /\ n * PerTarget <= PerStage - 2
                  /\ n > 0 => (n - 1) * PerTarget = n * PerTarget - PerTarget
<1>1. PerTarget \in Nat /\ PerTarget = 2 * Retries + 2 /\ Retries \in Nat
    BY ConstantsAreGood DEF PerTarget
<1>2. Cardinality(Target) \in Nat
    BY FS_CardinalityType
<1> DEFINE c == Cardinality(Target)
           k == PerTarget
<1>3. PerStage = c * k + 2
    BY DEF PerStage
<1>4. c \in Nat /\ k \in Nat
    BY <1>1, <1>2
<1> HIDE DEF c, k
<1>5. c * k \in Nat /\ PerStage \in Nat
    BY <1>3, <1>4
<1>6. ASSUME NEW n \in 0..c
      PROVE  /\ n * k \in Nat /\ n * k <= c * k
             /\ n > 0 => (n - 1) * k = n * k - k
    <2>1. n \in Nat /\ c - n \in Nat
        BY <1>4
    <2>2. n * k \in Nat /\ (c - n) * k \in Nat
        BY <1>4, <2>1
    <2>3. (c - n) * k = c * k - n * k
        BY <1>4, <2>1
    <2>4. (n - 1) * k = n * k - k
        BY <1>4, <2>1
    <2> QED  BY <1>5, <2>2, <2>3, <2>4
<1>7. \A n \in 0..c : /\ n * k \in Nat /\ n * k <= PerStage - 2
                      /\ n > 0 => (n - 1) * k = n * k - k
    BY <1>3, <1>5, <1>6
<1> QED  BY <1>1, <1>5, <1>7 DEF c, k, RequestSteps

\* What a step of a request does to its place and its targets.
LEMMA StepShape ==
    ASSUME TypeInv, NEW t \in Thread, Step(t)
    PROVE  LET same == job'[t].stage = job[t].stage /\ job'[t].todo = job[t].todo
               on(from, to) == pc[t] = from /\ pc'[t] = to
           IN  \/ on("ingested", "discover") /\ same
               \/ on("discover", "next") /\ job'[t].stage = job[t].stage
               \/ /\ on("next", "call") /\ job'[t].stage = job[t].stage
                  /\ \E p \in job[t].todo : job'[t].todo = job[t].todo \ {p}
                  /\ job'[t].attempt = 1
               \/ /\ on("next", "discover") /\ job[t].stage < 3
                  /\ job'[t].stage = job[t].stage + 1
               \/ on("next", "idle")
               \/ on("call", "waiting") /\ same /\ job'[t].attempt = job[t].attempt
               \/ (on("waiting", "next") \/ on("waiting", "routed")) /\ same
               \/ /\ on("waiting", "call") /\ same
                  /\ job'[t].attempt = job[t].attempt + 1
               \/ on("waiting", "failed") /\ same
               \/ (on("routed", "next") \/ on("failed", "next")) /\ same
<1>1. /\ pc \in [Thread -> Place] /\ job \in [Thread -> Job] /\ job[t] \in Job
    BY TypeFacts
<1>2. \A from, to : Go(t, from, to) => pc[t] = from /\ pc'[t] = to
    BY <1>1 DEF Go
<1>3. \A new : job' = [job EXCEPT ![t] = new] => job'[t] = new
    BY <1>1
<1>4. \A x : /\ [job[t] EXCEPT !.todo = x].stage = job[t].stage
             /\ [job[t] EXCEPT !.attempt = x].stage = job[t].stage
             /\ [job[t] EXCEPT !.attempt = x].todo = job[t].todo
             /\ [job[t] EXCEPT !.attempt = x].attempt = x
             /\ [job[t] EXCEPT !.stage = x].stage = x
             /\ [job[t] EXCEPT !.failures = x].stage = job[t].stage
             /\ [job[t] EXCEPT !.failures = x].todo = job[t].todo
    BY <1>1 DEF Job
<1>5. CASE RecordIngested(t) \/ Finish(t) \/ Send(t) \/ Succeeds(t) \/ RecordRouted(t)
    BY <1>2, <1>5 DEF RecordIngested, Finish, Send, Succeeds, RecordRouted
<1>6. CASE Discover(t)
    <2>1. \E x : job' = [job EXCEPT ![t] = [job[t] EXCEPT !.todo = x]]
        BY <1>6 DEF Discover
    <2> QED  BY <1>2, <1>3, <1>4, <1>6, <2>1 DEF Discover
<1>7. CASE NextPeer(t)
    <2>1. PICK p \in job[t].todo :
              job' = [job EXCEPT ![t].target = p, ![t].attempt = 1, ![t].todo = @ \ {p}]
        BY <1>7 DEF NextPeer
    <2>2. /\ job'[t].stage = job[t].stage /\ job'[t].todo = job[t].todo \ {p}
          /\ job'[t].attempt = 1
        BY <1>1, <2>1 DEF Job
    <2> QED  BY <1>2, <1>7, <2>2 DEF NextPeer
<1>8. CASE NextStage(t)
    <2>1. job' = [job EXCEPT ![t] = [job[t] EXCEPT !.stage = job[t].stage + 1]]
        BY <1>8 DEF NextStage
    <2>2. job'[t].stage = job[t].stage + 1
        BY <1>3, <1>4, <2>1
    <2>3. Go(t, "next", "discover") /\ job[t].stage < 3
        BY <1>8 DEF NextStage, Compute
    <2>4. pc[t] = "next" /\ pc'[t] = "discover"
        BY <1>2, <2>3
    <2> QED  BY <2>2, <2>3, <2>4
<1>9. CASE AttemptFails(t)
    <2>1. \/ /\ Go(t, "waiting", "call")
             /\ job' = [job EXCEPT ![t] = [job[t] EXCEPT !.attempt = job[t].attempt + 1]]
          \/ Go(t, "waiting", "failed") /\ job' = job
        BY <1>9 DEF AttemptFails
    <2>2. \/ /\ Go(t, "waiting", "call")
             /\ job'[t].stage = job[t].stage /\ job'[t].todo = job[t].todo
             /\ job'[t].attempt = job[t].attempt + 1
          \/ /\ Go(t, "waiting", "failed")
             /\ job'[t].stage = job[t].stage /\ job'[t].todo = job[t].todo
        BY <1>3, <1>4, <2>1
    <2>3. ASSUME Go(t, "waiting", "call") PROVE pc[t] = "waiting" /\ pc'[t] = "call"
        BY <1>2, <2>3
    <2>4. ASSUME Go(t, "waiting", "failed") PROVE pc[t] = "waiting" /\ pc'[t] = "failed"
        BY <1>2, <2>4
    <2> QED  BY <2>2, <2>3, <2>4
<1>10. CASE RecordFailed(t)
    <2>1. job' = [job EXCEPT ![t] = [job[t] EXCEPT !.failures = job[t].failures + 1]]
        BY <1>10 DEF RecordFailed
    <2> QED  BY <1>2, <1>3, <1>4, <1>10, <2>1 DEF RecordFailed
<1> QED  BY <1>5, <1>6, <1>7, <1>8, <1>9, <1>10 DEF Step

\* What is left is a number between 0 and all the steps of a request.
LEMMA LeftIsBounded ==
    ASSUME IsFiniteSet(Target), TypeInv, NEW t \in Thread
    PROVE  /\ Left(t) \in 0..RequestSteps
           /\ Cardinality(job[t].todo) \in 0..Cardinality(Target)
           /\ IsFiniteSet(job[t].todo)
<1> DEFINE n == Cardinality(job[t].todo)
           s == job[t].stage
           a == job[t].attempt
<1>1. /\ s \in {1, 2, 3} /\ a \in 1..Retries /\ pc[t] \in Place
      /\ job[t].todo \subseteq Target /\ Retries \in Nat
    BY TypeFacts, ConstantsAreGood
<1>2. IsFiniteSet(job[t].todo) /\ n \in 0..Cardinality(Target)
    BY <1>1, FS_Subset, FS_CardinalityType
<1>3. pc[t] \in {"call", "waiting", "routed", "failed"} => n < Cardinality(Target)
    <2> SUFFICES ASSUME pc[t] \in {"call", "waiting", "routed", "failed"}
                 PROVE  n < Cardinality(Target)
        OBVIOUS
    <2>1. job[t].target \in Target \ job[t].todo
        BY TypeFacts DEF TypeInv, Own
    <2>2. job[t].todo # Target
        BY <2>1
    <2> QED  BY <1>1, <1>2, <2>2, FS_Subset, FS_CardinalityType
<1>4. /\ PerTarget \in Nat /\ PerTarget = 2 * Retries + 2 /\ PerStage \in Nat
      /\ RequestSteps = 3 * PerStage + 1
      /\ n * PerTarget \in Nat /\ n * PerTarget <= PerStage - 2
      /\ n < Cardinality(Target) => n * PerTarget + PerTarget <= PerStage - 2
    <2>1. /\ PerTarget \in Nat /\ PerTarget = 2 * Retries + 2 /\ PerStage \in Nat
          /\ RequestSteps = 3 * PerStage + 1
          /\ n * PerTarget \in Nat /\ n * PerTarget <= PerStage - 2
        BY <1>2, WorkNumbers
    <2>2. ASSUME n < Cardinality(Target)
          PROVE  n * PerTarget + PerTarget <= PerStage - 2
        <3> DEFINE m == n + 1
        <3>1. m \in 0..Cardinality(Target) /\ m > 0 /\ m - 1 = n
            BY <1>2, <2>2, FS_CardinalityType
        <3> HIDE DEF m
        <3>2. /\ m * PerTarget \in Nat /\ m * PerTarget <= PerStage - 2
              /\ (m - 1) * PerTarget = m * PerTarget - PerTarget
            BY <3>1, WorkNumbers
        <3>3. n * PerTarget = m * PerTarget - PerTarget
            BY <3>1, <3>2
        <3> QED  BY <2>1, <3>2, <3>3
    <2> QED  BY <2>1, <2>2
<1> DEFINE w == n * PerTarget
<1>5. Left(t) = StepsFrom(pc[t], s, n, a)
    BY DEF Left
<1>6. /\ w \in Nat /\ w <= PerStage - 2
      /\ pc[t] \in {"call", "waiting", "routed", "failed"} => w + PerTarget <= PerStage - 2
    BY <1>3, <1>4
<1>7. StepsFrom(pc[t], s, n, a) =
          IF pc[t] = "idle" THEN 0
          ELSE AtHand(pc[t], a) + (3 - s) * PerStage
               + (IF pc[t] \in {"ingested", "discover"} THEN PerStage ELSE w)
    BY DEF StepsFrom, Compute
<1>8. (3 - s) * PerStage \in {2 * PerStage, PerStage, 0}
    BY <1>1, <1>4
<1>9. /\ AtHand(pc[t], a) \in Nat \/ pc[t] = "idle"
      /\ pc[t] \in {"ingested", "discover", "next"} => AtHand(pc[t], a) <= 1
      /\ pc[t] \in {"call", "waiting", "routed", "failed"} => AtHand(pc[t], a) <= PerTarget + 2
    <2>1. Retries - a \in Nat /\ Retries - a <= Retries - 1
        BY <1>1
    <2> QED  BY <1>1, <1>4, <2>1 DEF AtHand, Place
<1> HIDE DEF n, s, a, w
<1>10. StepsFrom(pc[t], s, n, a) \in 0..RequestSteps
    BY <1>1, <1>4, <1>6, <1>7, <1>8, <1>9 DEF Place
<1> QED  BY <1>2, <1>5, <1>10 DEF n

\* A step of a request leaves fewer to do.
LEMMA StepLeavesFewer ==
    ASSUME IsFiniteSet(Target), TypeInv, TypeInv', NEW t \in Thread, Step(t)
    PROVE  Left(t)' < Left(t)
<1> DEFINE n  == Cardinality(job[t].todo)
           m  == Cardinality(job'[t].todo)
           s  == job[t].stage
           r  == job'[t].stage
           a  == job[t].attempt
           b  == job'[t].attempt
           w  == n * PerTarget
           v  == m * PerTarget
           c  == Cardinality(Target)
<1>1. /\ s \in {1, 2, 3} /\ a \in 1..Retries /\ Retries \in Nat
      /\ n \in 0..c /\ IsFiniteSet(job[t].todo)
    BY TypeFacts, ConstantsAreGood, LeftIsBounded
<1>2. /\ r \in {1, 2, 3} /\ b \in 1..Retries /\ m \in 0..c
    <2>1. job' \in [Thread -> Job] /\ IsFiniteSet(Target)
        BY DEF TypeInv, TypeOK
    <2>2. job'[t].stage \in Stage /\ job'[t].attempt \in 1..Retries /\ job'[t].todo \subseteq Target
        BY <2>1 DEF Job
    <2>3. m \in 0..c
        BY <2>2, FS_Subset, FS_CardinalityType
    <2> QED  BY <2>2, <2>3, ConstantsAreGood
<1>3. /\ PerTarget \in Nat /\ PerTarget = 2 * Retries + 2 /\ PerStage \in Nat
      /\ w \in Nat /\ v \in Nat /\ v <= PerStage - 2
      /\ n > 0 => (n - 1) * PerTarget = w - PerTarget
    BY <1>1, <1>2, WorkNumbers
<1>4. /\ job'[t].todo = job[t].todo => v = w
      /\ (\E p \in job[t].todo : job'[t].todo = job[t].todo \ {p}) => v = w - PerTarget
    <2>1. ASSUME NEW p \in job[t].todo, job'[t].todo = job[t].todo \ {p}
          PROVE  m = n - 1 /\ n > 0
        <3>1. Cardinality(job[t].todo \ {p}) = n - 1
            BY <1>1, FS_RemoveElement
        <3>2. n \in Nat /\ n # 0
            BY <1>1, FS_EmptySet, FS_CardinalityType
        <3> QED  BY <2>1, <3>1, <3>2
    <2> QED  BY <1>3, <2>1
<1>5. /\ Left(t) = StepsFrom(pc[t], s, n, a)
      /\ Left(t)' = StepsFrom(pc'[t], r, m, b)
    BY DEF Left
<1> DEFINE stages(x) == (3 - x) * PerStage
<1>6. /\ StepsFrom(pc[t], s, n, a) =
             IF pc[t] = "idle" THEN 0
             ELSE AtHand(pc[t], a) + stages(s)
                  + (IF pc[t] \in {"ingested", "discover"} THEN PerStage ELSE w)
      /\ StepsFrom(pc'[t], r, m, b) =
             IF pc'[t] = "idle" THEN 0
             ELSE AtHand(pc'[t], b) + stages(r)
                  + (IF pc'[t] \in {"ingested", "discover"} THEN PerStage ELSE v)
    BY DEF StepsFrom, Compute
<1>7. /\ stages(s) \in Nat /\ stages(r) \in Nat
      /\ r = s => stages(r) = stages(s)
      /\ r = s + 1 => stages(r) = stages(s) - PerStage
    BY <1>1, <1>2, <1>3
<1>8. /\ \A x : AtHand("discover", x) = 0 /\ AtHand("ingested", x) = 1
                /\ AtHand("next", x) = 1 /\ AtHand("routed", x) = 2 /\ AtHand("failed", x) = 2
      /\ AtHand("waiting", a) = 2 * (Retries - a) + 3
      /\ AtHand("call", a) = 2 * (Retries - a) + 4
      /\ AtHand("waiting", b) = 2 * (Retries - b) + 3
      /\ AtHand("call", b) = 2 * (Retries - b) + 4
    BY DEF AtHand
<1>9. LET same == r = s /\ v = w
          on(from, to) == pc[t] = from /\ pc'[t] = to
      IN  \/ on("ingested", "discover") /\ same
          \/ on("discover", "next") /\ r = s
          \/ on("next", "call") /\ r = s /\ v = w - PerTarget /\ b = 1
          \/ on("next", "discover") /\ r = s + 1
          \/ on("next", "idle")
          \/ on("call", "waiting") /\ same /\ b = a
          \/ (on("waiting", "next") \/ on("waiting", "routed")) /\ same
          \/ on("waiting", "call") /\ same /\ b = a + 1
          \/ on("waiting", "failed") /\ same
          \/ (on("routed", "next") \/ on("failed", "next")) /\ same
    BY <1>4, StepShape
<1> HIDE DEF n, m, s, r, a, b, w, v, c, stages
<1>10. StepsFrom(pc'[t], r, m, b) < StepsFrom(pc[t], s, n, a)
    BY <1>1, <1>2, <1>3, <1>6, <1>7, <1>8, <1>9
<1> QED  BY <1>5, <1>10

\* A request starts with all its steps to go.
LEMMA IngestLeavesAll ==
    ASSUME IsFiniteSet(Target), TypeInv, NEW t \in Thread, Ingest(t)
    PROVE  Left(t)' = RequestSteps
<1>1. pc'[t] = "ingested" /\ job'[t].stage = 1
    BY IngestEffect
<1>2. PerStage \in Nat /\ RequestSteps = 3 * PerStage + 1
    BY WorkNumbers
<1>3. Left(t)' = StepsFrom("ingested", 1, Cardinality(job'[t].todo), job'[t].attempt)
    BY <1>1 DEF Left
<1>4. \A n, a : StepsFrom("ingested", 1, n, a) = 1 + (3 - 1) * PerStage + PerStage
    BY DEF StepsFrom, AtHand, Compute
<1> QED  BY <1>2, <1>3, <1>4

\* Neither the other threads nor the targets and the network change how many.
LEMMA OthersLeaveIt ==
    ASSUME TypeInv, [Next]_vars, NEW t \in Thread, ~Ingest(t), ~Step(t)
    PROVE  Left(t)' = Left(t)
<1>1. pc'[t] = pc[t] /\ job'[t] = job[t]
    <2>1. CASE UNCHANGED vars
        BY <2>1 DEF vars
    <2>2. ASSUME NEW u \in Thread, Ingest(u)
          PROVE  pc'[t] = pc[t] /\ job'[t] = job[t]
        BY <2>2, IngestEffect DEF Others
    <2>3. ASSUME NEW u \in Thread, Step(u)
          PROVE  pc'[t] = pc[t] /\ job'[t] = job[t]
        BY <2>3, StepMoves DEF Moves, Others
    <2>4. ASSUME NEW c \in wire, Execute(c) \/ Refuse(c)
          PROVE  pc'[t] = pc[t] /\ job'[t] = job[t]
        BY <2>4 DEF Execute, Refuse, Deliver
    <2> QED  BY <2>1, <2>2, <2>3, <2>4 DEF Next
<1> QED  BY <1>1 DEF Left

\* Routing cannot go on for ever: whatever the targets, the network and the
\* other threads do, a request is over after at most RequestSteps of its own
\* steps, Retries attempts for each target of the three stages among them.
THEOREM RoutingIsBounded ==
    ASSUME IsFiniteSet(Target)
    PROVE  Spec => [](\A t \in Thread : Left(t) \in 0..RequestSteps) /\ [][GetsOn]_vars
<1>1. Init => TypeInv
    BY InitTypeInv
<1>2. TypeInv /\ [Next]_vars => TypeInv'
    BY StepTypeInv
<1>3. TypeInv => \A t \in Thread : Left(t) \in 0..RequestSteps
    BY LeftIsBounded
<1>4. TypeInv /\ TypeInv' /\ [Next]_vars => GetsOn
    BY IngestLeavesAll, StepLeavesFewer, OthersLeaveIt DEF GetsOn
<1> QED  BY <1>1, <1>2, <1>3, <1>4, PTL DEF Spec

=============================================================================
