--------------------------- MODULE IngestionProofs ---------------------------
(***************************************************************************)
(* Theorems about IngestionService, for every set of threads and symbols   *)
(* and every value of the bounds.                                          *)
(***************************************************************************)
EXTENDS IngestionService, SequenceTheorems, WellFoundedInduction, TLAPS

-----------------------------------------------------------------------------
(* Lemmas about the operators.                                             *)

\* A nonempty set of positions of a sequence has a last one.
LEMMA MaxIsThere ==
    ASSUME NEW n \in Nat, NEW S \in SUBSET (1..n), S # {}
    PROVE  Max(S) \in S /\ \A j \in S : Max(S) >= j
<1> DEFINE T == {n - i : i \in S}
<1>1. T \subseteq Nat /\ T # {}
    <2>1. \A i \in S : i \in 1..n /\ n - i \in Nat
        OBVIOUS
    <2> QED  BY <2>1
<1>2. PICK x \in T : \A y \in T : ~ (<<y, x>> \in OpToRel(<, Nat))
    BY <1>1, NatLessThanWellFounded, WFMin, Zenon
<1>3. PICK i \in S : x = n - i
    BY <1>2
<1>4. ASSUME NEW j \in S PROVE i >= j
    <2>1. n - j \in T /\ n - j \in Nat /\ x \in Nat
        BY <1>1, <1>2
    <2>2. ~ (n - j < x)
        BY <2>1, <1>2 DEF OpToRel
    <2> QED  BY <2>2, <1>3
<1> QED  BY <1>3, <1>4 DEF Max

\* The last message of a symbol is a message that was taken, or none.
LEMMA LastOfType ==
    ASSUME NEW messages \in Seq(Message), NEW s
    PROVE  LastOf(messages, s) \in Id \cup {None}
<1> DEFINE own == {i \in DOMAIN messages : messages[i].symbol = s}
<1>1. CASE own = {}
    BY <1>1 DEF LastOf
<1>2. CASE own # {}
    <2>1. Max(own) \in 1..Len(messages)
        BY <1>2, MaxIsThere, LenProperties
    <2>2. messages[Max(own)] \in Message
        BY <2>1, ElementOfSeq
    <2>3. messages[Max(own)].id \in Id
        BY <2>2 DEF Message
    <2> QED  BY <1>2, <2>3 DEF LastOf
<1> QED  BY <1>1, <1>2

\* An append adds the identifier of what is appended, and no other.
LEMMA IdsOfAppend ==
    ASSUME NEW s \in Seq(Event), NEW e \in Event
    PROVE  /\ Append(s, e) \in Seq(Event)
           /\ IdsOf(Append(s, e)) = IdsOf(s) \cup {e.id}
<1>1. /\ Append(s, e) \in Seq(Event)
      /\ Len(Append(s, e)) = Len(s) + 1
      /\ \A i \in 1..Len(s) : Append(s, e)[i] = s[i]
      /\ Append(s, e)[Len(s) + 1] = e
    BY AppendProperties
<1>2. DOMAIN s = 1..Len(s) /\ DOMAIN Append(s, e) = 1..Len(s) + 1 /\ Len(s) \in Nat
    BY <1>1, LenProperties
<1> QED  BY <1>1, <1>2 DEF IdsOf

\* The identifiers of stored events are identifiers.
LEMMA IdsOfType ==
    ASSUME NEW s \in Seq(Event)
    PROVE  IdsOf(s) \subseteq Id
<1>1. \A i \in DOMAIN s : s[i] \in Event
    BY ElementOfSeq, LenProperties
<1> QED  BY <1>1 DEF IdsOf, Event

\* The bounds, one by one.
LEMMA BoundsAreNat == MaxOps \in Nat /\ MaxSaveFailures \in Nat /\ MaxCrashes \in Nat
BY BoundsAssumption

\* A counter below its bound may be incremented.
LEMMA NextCount ==
    ASSUME NEW max \in Nat, NEW n \in 0..max, n < max
    PROVE  n + 1 \in 1..max /\ n + 1 \in 0..max
OBVIOUS

-----------------------------------------------------------------------------
(* Types.                                                                  *)

\* TypeOK says of a job only that a busy thread has an event; which steps keep
\* it also depends on the record around it.
Job      == [event : Event \cup {NoEvent}, copy : File]
JobTyped == job \in [Thread -> Job]

TypeInv == TypeOK /\ JobTyped

\* The copy of the messages changes nothing else in a thread's variables.
LEMMA CopyRawFields ==
    ASSUME TypeInv, NEW t \in Thread, CopyRaw(t)
    PROVE  /\ job' \in [Thread -> Job]
           /\ \A u \in Thread : /\ job'[u].event = job[u].event
                                 /\ job'[u].copy.events = job[u].copy.events
           /\ \A u \in Thread \ {t} : job'[u] = job[u]
           /\ job'[t].copy.raw = raw
<1> DEFINE copy == [raw |-> raw, events |-> job[t].copy.events]
           new  == [event |-> job[t].event, copy |-> copy]
<1>1. job \in [Thread -> Job] /\ raw \in Seq(Message)
    BY DEF TypeInv, TypeOK, JobTyped
<1>2. job' = [job EXCEPT ![t].copy.raw = raw]
    BY DEF CopyRaw
<1>3. job[t] \in Job /\ job[t].copy \in File
    BY <1>1 DEF Job
<1>4. [job[t].copy EXCEPT !.raw = raw] = copy /\ copy \in File
    BY <1>1, <1>3 DEF File
<1>5. [job[t] EXCEPT !.copy.raw = raw] = new /\ new \in Job
    BY <1>3, <1>4 DEF Job
<1>6. job' = [job EXCEPT ![t] = new]
    BY <1>2, <1>5
<1>7. /\ new.event = job[t].event /\ new.copy.events = job[t].copy.events
      /\ new.copy.raw = raw
    OBVIOUS
<1> QED
    <2> HIDE DEF new
    <2> QED  BY <1>1, <1>5, <1>6, <1>7

\* Nor does the copy of the events.
LEMMA CopyEventsFields ==
    ASSUME TypeInv, NEW t \in Thread, CopyEvents(t)
    PROVE  /\ job' \in [Thread -> Job]
           /\ \A u \in Thread : job'[u].event = job[u].event
           /\ \A u \in Thread \ {t} : job'[u] = job[u]
           /\ job'[t].copy.events = events /\ job'[t].copy.raw = job[t].copy.raw
<1> DEFINE copy == [raw |-> job[t].copy.raw, events |-> events]
           new  == [event |-> job[t].event, copy |-> copy]
<1>1. job \in [Thread -> Job] /\ events \in Seq(Event)
    BY DEF TypeInv, TypeOK, JobTyped
<1>2. job' = [job EXCEPT ![t].copy.events = events]
    BY DEF CopyEvents
<1>3. job[t] \in Job /\ job[t].copy \in File
    BY <1>1 DEF Job
<1>4. [job[t].copy EXCEPT !.events = events] = copy /\ copy \in File
    BY <1>1, <1>3 DEF File
<1>5. [job[t] EXCEPT !.copy.events = events] = new /\ new \in Job
    BY <1>3, <1>4 DEF Job
<1>6. job' = [job EXCEPT ![t] = new]
    BY <1>2, <1>5
<1>7. /\ new.event = job[t].event /\ new.copy.events = events
      /\ new.copy.raw = job[t].copy.raw
    OBVIOUS
<1> QED
    <2> HIDE DEF new
    <2> QED  BY <1>1, <1>5, <1>6, <1>7

\* The initial state is well typed.
LEMMA InitTypeInv == Init => TypeInv
<1> SUFFICES ASSUME Init PROVE TypeInv
    OBVIOUS
<1>1. Empty \in File
    BY EmptySeq DEF Empty, File
<1>2. NoJob \in Job
    BY <1>1 DEF NoJob, Job
<1>3. raw \in Seq(Message) /\ events \in Seq(Event)
    BY EmptySeq DEF Init
<1>4. {0} \subseteq 0..MaxOps \cap 0..MaxSaveFailures \cap 0..MaxCrashes
    BY BoundsAreNat
<1>5. JobTyped
    BY <1>2 DEF Init, JobTyped
<1> QED  BY <1>1, <1>3, <1>4, <1>5 DEF Init, TypeInv, TypeOK

\* A request starts with an event that has a number of its own.
LEMMA ReceiveKeepsTypes ==
    ASSUME TypeInv, NEW t \in Thread, NEW event \in Event, NEW to \in {"raw", "events"},
           Receive(t, event, to)
    PROVE  TypeInv'
<1> USE DEF TypeInv, TypeOK, JobTyped, Job
<1>1. ops' \in 0..MaxOps
    BY BoundsAreNat, NextCount DEF Receive
<1>2. pc' = [pc EXCEPT ![t] = to] /\ overlapped' \in BOOLEAN
    BY DEF Receive, Go, Overlaps
<1>3. job' = [job EXCEPT ![t].event = event]
    BY DEF Receive
<1>4. JobTyped'
    BY <1>3
<1>5. \A u \in Thread : pc'[u] # "idle" => job'[u].event \in Event
    BY <1>2, <1>3
<1> QED
    BY <1>1, <1>2, <1>4, <1>5 DEF Receive, memory

\* No step breaks the types.
LEMMA StepTypeInv == TypeInv /\ [Next]_vars => TypeInv'
<1> SUFFICES ASSUME TypeInv, [Next]_vars PROVE TypeInv'
    OBVIOUS
<1> USE DEF TypeInv, TypeOK, JobTyped
<1>1. ASSUME NEW t \in Thread, NEW s \in Symbol, BuildEvent(t, s) PROVE TypeInv'
    <2>1. ops + 1 \in Id
        BY <1>1, BoundsAreNat, NextCount DEF BuildEvent, Receive, Id
    <2>2. [id |-> ops + 1, symbol |-> s, base |-> last[s], op |-> "ingest"] \in Event
        BY <2>1 DEF Event
    <2> QED  BY <1>1, <2>2, ReceiveKeepsTypes DEF BuildEvent
<1>2. ASSUME NEW t \in Thread, NEW s \in Symbol, ReceiveEvent(t, s) PROVE TypeInv'
    <2>1. ops + 1 \in Id
        BY <1>2, BoundsAreNat, NextCount DEF ReceiveEvent, Receive, Id
    <2>2. [id |-> ops + 1, symbol |-> s, base |-> None, op |-> "store"] \in Event
        BY <2>1 DEF Event
    <2> QED  BY <1>2, <2>2, ReceiveKeepsTypes DEF ReceiveEvent
<1>3. ASSUME NEW t \in Thread, AppendRaw(t) PROVE TypeInv'
    <2>1. job[t].event \in Event
        BY <1>3 DEF AppendRaw, Go
    <2>2. [id |-> job[t].event.id, symbol |-> job[t].event.symbol] \in Message
        BY <2>1 DEF Event, Message
    <2>3. raw' \in Seq(Message)
        BY <1>3, <2>2, AppendProperties DEF AppendRaw
    <2>4. \A u \in Thread : pc'[u] # "idle" => pc[u] # "idle"
        BY <1>3 DEF AppendRaw, Go
    <2> QED  BY <1>3, <2>3, <2>4 DEF AppendRaw, Go, history, bounds
<1>4. ASSUME NEW t \in Thread, AppendEvent(t) PROVE TypeInv'
    <2>1. job[t].event \in Event
        BY <1>4 DEF AppendEvent, Go
    <2>2. events' \in Seq(Event)
        BY <1>4, <2>1, IdsOfAppend DEF AppendEvent
    <2>3. \A u \in Thread : pc'[u] # "idle" => pc[u] # "idle"
        BY <1>4 DEF AppendEvent, Go
    <2> QED  BY <1>4, <2>2, <2>3 DEF AppendEvent, Go, history, bounds
<1>5. ASSUME NEW t \in Thread, SetLast(t) PROVE TypeInv'
    <2>1. job[t].event \in Event
        BY <1>5 DEF SetLast, Go
    <2>2. last' \in [Symbol -> Id \cup {None}]
        BY <1>5, <2>1 DEF SetLast, Event
    <2>3. \A u \in Thread : pc'[u] # "idle" => pc[u] # "idle"
        BY <1>5 DEF SetLast, Go
    <2> QED  BY <1>5, <2>2, <2>3 DEF SetLast, Go, history, bounds
<1>6. ASSUME NEW t \in Thread, CopyRaw(t) PROVE TypeInv'
    <2>1. /\ pc[t] # "idle" /\ pc' = [pc EXCEPT ![t] = "copy events"]
        BY <1>6 DEF CopyRaw, Go
    <2>2. JobTyped'
        BY <1>6, <2>1, CopyRawFields
    <2>3. \A u \in Thread : pc'[u] # "idle" => pc[u] # "idle" /\ job'[u].event = job[u].event
        BY <1>6, <2>1, CopyRawFields
    <2> QED  BY <1>6, <2>1, <2>2, <2>3 DEF CopyRaw, memory, history, bounds
<1>7. ASSUME NEW t \in Thread, CopyEvents(t) PROVE TypeInv'
    <2>1. /\ pc[t] # "idle" /\ pc' = [pc EXCEPT ![t] = "save"]
        BY <1>7 DEF CopyEvents, Go
    <2>2. JobTyped'
        BY <1>7, <2>1, CopyEventsFields
    <2>3. \A u \in Thread : pc'[u] # "idle" => pc[u] # "idle" /\ job'[u].event = job[u].event
        BY <1>7, <2>1, CopyEventsFields
    <2> QED  BY <1>7, <2>1, <2>2, <2>3 DEF CopyEvents, memory, history, bounds
<1>8. ASSUME NEW t \in Thread, Replace(t) PROVE TypeInv'
    <2>1. job[t].copy \in File /\ job[t].copy.events \in Seq(Event)
        BY DEF Job, File
    <2>2. everStored' \subseteq Id
        BY <1>8, <2>1, IdsOfType DEF Replace
    <2>3. \A u \in Thread : pc'[u] # "idle" => pc[u] # "idle"
        BY <1>8 DEF Replace, Go
    <2> QED  BY <1>8, <2>1, <2>2, <2>3 DEF Replace, Go, memory, bounds
<1>9. ASSUME NEW t \in Thread, SaveFails(t) PROVE TypeInv'
    <2>1. JobTyped' /\ \A u \in Thread : pc'[u] # "idle" => pc[u] # "idle" /\ job'[u] = job[u]
        BY <1>9, EmptySeq DEF SaveFails, Go, NoJob, Empty, Job, File
    <2>2. saveFailures' \in 0..MaxSaveFailures
        BY <1>9, BoundsAreNat, NextCount DEF SaveFails
    <2> QED  BY <1>9, <2>1, <2>2 DEF SaveFails, Go, memory, history
<1>10. ASSUME NEW t \in Thread, Record(t) PROVE TypeInv'
    <2>1. job[t].event.id \in Id
        BY <1>10 DEF Record, Go, Event
    <2>2. \A u \in Thread : pc'[u] # "idle" => pc[u] # "idle"
        BY <1>10 DEF Record, Go
    <2> QED  BY <1>10, <2>1, <2>2 DEF Record, Go, memory, bounds
<1>11. ASSUME NEW t \in Thread, Forward(t) PROVE TypeInv'
    <2>1. \A u \in Thread : pc'[u] # "idle" => pc[u] # "idle"
        BY <1>11 DEF Forward, Go
    <2> QED  BY <1>11, <2>1 DEF Forward, Go, memory, history, bounds
<1>12. ASSUME NEW t \in Thread, Answer(t) PROVE TypeInv'
    <2>1. job[t].event.id \in Id
        BY <1>12 DEF Answer, Go, Event
    <2>2. JobTyped' /\ \A u \in Thread : pc'[u] # "idle" => pc[u] # "idle" /\ job'[u] = job[u]
        BY <1>12, EmptySeq DEF Answer, Go, NoJob, Empty, Job, File
    <2> QED  BY <1>12, <2>1, <2>2 DEF Answer, Go, memory, bounds
<1>13. CASE Restart
    <2>1. file.raw \in Seq(Message) /\ file.events \in Seq(Event)
        BY DEF File
    <2>2. last' \in [Symbol -> Id \cup {None}]
        BY <1>13, <2>1, LastOfType DEF Restart
    <2>3. JobTyped' /\ pc' = [u \in Thread |-> "idle"]
        BY <1>13, EmptySeq DEF Restart, NoJob, Empty, Job, File
    <2>4. crashes' \in 0..MaxCrashes
        BY <1>13, BoundsAreNat, NextCount DEF Restart
    <2> QED  BY <1>13, <2>1, <2>2, <2>3, <2>4 DEF Restart, history
<1>14. CASE UNCHANGED vars
    BY <1>14 DEF vars, memory, history, bounds
<1> QED
    BY <1>1, <1>2, <1>3, <1>4, <1>5, <1>6, <1>7, <1>8, <1>9, <1>10, <1>11, <1>12,
       <1>13, <1>14 DEF Next, Step

\* Every variable keeps its type, whatever the threads, symbols and bounds.
THEOREM IngestionTypes == Spec => []TypeOK
<1>1. TypeInv => TypeOK
    BY DEF TypeInv
<1> QED  BY InitTypeInv, StepTypeInv, <1>1, PTL DEF Spec

-----------------------------------------------------------------------------
(* The ledger hears of saved events only.                                  *)

\* Where a thread's own event is, by what the thread still has to do: in the
\* list, in the thread's copy of it, in the file.  Other threads only add to
\* the list, and what was once in the file stays in everStored.
OwnEventKept ==
    \A t \in Thread :
        /\ pc[t] \in {"last", "copy raw", "copy events"}
               => job[t].event.id \in IdsOf(events)
        /\ pc[t] = "save" => job[t].event.id \in IdsOf(job[t].copy.events)
        /\ pc[t] \in {"record", "forward", "answer"}
               => job[t].event.id \in everStored

SavedInv == RecordedAfterSave /\ OwnEventKept

\* No step records or answers what is not saved, or loses track of it.
LEMMA StepSavedInv == TypeInv /\ SavedInv /\ [Next]_vars => SavedInv'
<1> SUFFICES ASSUME TypeInv, SavedInv, [Next]_vars PROVE SavedInv'
    OBVIOUS
<1>types. /\ pc \in [Thread -> {"idle", "raw", "events", "last", "copy raw",
                                "copy events", "save", "record", "forward", "answer"}]
          /\ job \in [Thread -> Job]
          /\ events \in Seq(Event)
          /\ \A u \in Thread : pc[u] # "idle" => job[u].event \in Event
    BY DEF TypeInv, TypeOK, JobTyped
<1> USE DEF SavedInv, RecordedAfterSave, OwnEventKept
<1>1. ASSUME NEW t \in Thread, NEW event, NEW to \in {"raw", "events"},
             Receive(t, event, to)
      PROVE  SavedInv'
    <2>1. /\ pc' = [pc EXCEPT ![t] = to]
          /\ \A u \in Thread \ {t} : job'[u] = job[u]
          /\ UNCHANGED <<events, recorded, acked, everStored>>
        BY <1>1, <1>types DEF Receive, Go, memory
    <2> QED  BY <2>1, <1>types
<1>2. ASSUME NEW t \in Thread, AppendRaw(t) PROVE SavedInv'
    BY <1>2, <1>types DEF AppendRaw, Go, history
<1>3. ASSUME NEW t \in Thread, AppendEvent(t) PROVE SavedInv'
    <2>1. IdsOf(events)' = IdsOf(events) \cup {job[t].event.id}
        BY <1>3, <1>types, IdsOfAppend DEF AppendEvent, Go
    <2>2. /\ UNCHANGED <<job, recorded, acked, everStored>>
          /\ \A u \in Thread \ {t} : pc'[u] = pc[u]
          /\ pc'[t] \in {"last", "copy raw"}
        BY <1>3, <1>types DEF AppendEvent, Go, history
    <2> QED  BY <2>1, <2>2, <1>types
<1>4. ASSUME NEW t \in Thread, SetLast(t) PROVE SavedInv'
    BY <1>4, <1>types DEF SetLast, Go, history
<1>5. ASSUME NEW t \in Thread, CopyRaw(t) PROVE SavedInv'
    <2>1. \A u \in Thread : /\ job'[u].event = job[u].event
                            /\ job'[u].copy.events = job[u].copy.events
        BY <1>5, CopyRawFields
    <2>2. /\ UNCHANGED <<events, recorded, acked, everStored>>
          /\ pc[t] = "copy raw" /\ pc' = [pc EXCEPT ![t] = "copy events"]
        BY <1>5 DEF CopyRaw, Go, memory, history
    <2> QED  BY <2>1, <2>2, <1>types
<1>6. ASSUME NEW t \in Thread, CopyEvents(t) PROVE SavedInv'
    <2>1. /\ \A u \in Thread : job'[u].event = job[u].event
          /\ \A u \in Thread \ {t} : job'[u] = job[u]
          /\ job'[t].copy.events = events
        BY <1>6, CopyEventsFields
    <2>2. /\ UNCHANGED <<events, recorded, acked, everStored>>
          /\ pc[t] = "copy events" /\ pc' = [pc EXCEPT ![t] = "save"]
        BY <1>6 DEF CopyEvents, Go, memory, history
    <2> QED  BY <2>1, <2>2, <1>types
<1>7. ASSUME NEW t \in Thread, Replace(t) PROVE SavedInv'
    <2>1. /\ UNCHANGED <<events, job, recorded, acked>>
          /\ pc[t] = "save" /\ pc' = [pc EXCEPT ![t] = "record"]
          /\ everStored' = everStored \cup IdsOf(job[t].copy.events)
        BY <1>7 DEF Replace, Go, memory
    <2> QED  BY <2>1, <1>types
<1>8. ASSUME NEW t \in Thread, SaveFails(t) PROVE SavedInv'
    <2>1. /\ UNCHANGED <<events, recorded, acked, everStored>>
          /\ pc' = [pc EXCEPT ![t] = "idle"]
          /\ \A u \in Thread \ {t} : job'[u] = job[u]
        BY <1>8, <1>types DEF SaveFails, Go, memory, history
    <2> QED  BY <2>1, <1>types
<1>9. ASSUME NEW t \in Thread, Record(t) PROVE SavedInv'
    <2>1. /\ UNCHANGED <<events, job, acked, everStored>>
          /\ recorded' = recorded \cup {job[t].event.id}
          /\ pc[t] = "record"
          /\ \A u \in Thread \ {t} : pc'[u] = pc[u]
          /\ pc'[t] \in {"forward", "answer"}
        BY <1>9, <1>types DEF Record, Go, memory
    <2> QED  BY <2>1, <1>types
<1>10. ASSUME NEW t \in Thread, Forward(t) PROVE SavedInv'
    BY <1>10, <1>types DEF Forward, Go, memory, history
<1>11. ASSUME NEW t \in Thread, Answer(t) PROVE SavedInv'
    <2>1. /\ UNCHANGED <<events, recorded, everStored>>
          /\ acked' = acked \cup {job[t].event.id}
          /\ pc[t] = "answer" /\ pc' = [pc EXCEPT ![t] = "idle"]
          /\ \A u \in Thread \ {t} : job'[u] = job[u]
        BY <1>11, <1>types DEF Answer, Go, memory
    <2> QED  BY <2>1, <1>types
<1>12. CASE Restart
    BY <1>12 DEF Restart, history
<1>13. CASE UNCHANGED vars
    BY <1>13 DEF vars, memory, history
<1> QED
    BY <1>1, <1>2, <1>3, <1>4, <1>5, <1>6, <1>7, <1>8, <1>9, <1>10, <1>11, <1>12,
       <1>13 DEF Next, Step, BuildEvent, ReceiveEvent

\* Whatever interleaves, fails or restarts: an event that the ledger or a
\* client heard of was in state.json before.
THEOREM RecordedIsSaved == Spec => []RecordedAfterSave
<1>1. Init => TypeInv /\ SavedInv
    BY InitTypeInv DEF Init, SavedInv, RecordedAfterSave, OwnEventKept
<1>2. SavedInv => RecordedAfterSave
    BY DEF SavedInv
<1> QED  BY <1>1, <1>2, StepTypeInv, StepSavedInv, PTL DEF Spec

-----------------------------------------------------------------------------
(* Nothing answered is lost as long as requests come one at a time.        *)

\* Then a copy cannot be older than the list it is saved for, the file never
\* has what the list has not, and a save only adds to it.
InTurn ==
    /\ \A t, u \in Thread : pc[t] # "idle" /\ pc[u] # "idle" => t = u
    /\ AckedStored
    /\ IdsOf(file.events) \subseteq IdsOf(events)
    /\ \A t \in Thread :
        /\ pc[t] = "save" => IdsOf(job[t].copy.events) = IdsOf(events)
        /\ pc[t] \in {"record", "forward", "answer"}
               => job[t].event.id \in IdsOf(file.events)

InTurnInv == ~overlapped => InTurn

\* A step that ends or begins no overlap keeps the three in their order.
LEMMA StepInTurnInv == TypeInv /\ SavedInv /\ InTurnInv /\ [Next]_vars => InTurnInv'
<1> SUFFICES ASSUME TypeInv, SavedInv, InTurnInv, [Next]_vars, ~overlapped'
             PROVE  InTurn'
    BY DEF InTurnInv
<1>types. /\ pc \in [Thread -> {"idle", "raw", "events", "last", "copy raw",
                                "copy events", "save", "record", "forward", "answer"}]
          /\ job \in [Thread -> Job]
          /\ events \in Seq(Event)
          /\ \A u \in Thread : pc[u] # "idle" => job[u].event \in Event
    BY DEF TypeInv, TypeOK, JobTyped
<1> USE DEF InTurn, AckedStored
<1>1. ASSUME NEW t \in Thread, NEW event, NEW to \in {"raw", "events"},
             Receive(t, event, to)
      PROVE  InTurn'
    <2>1. /\ pc' = [pc EXCEPT ![t] = to]
          /\ \A u \in Thread \ {t} : pc[u] = "idle"
          /\ UNCHANGED <<events, file, acked>>
          /\ ~overlapped
        BY <1>1 DEF Receive, Go, memory, Overlaps
    <2>2. InTurn
        BY <2>1 DEF InTurnInv
    <2> QED  BY <2>1, <2>2, <1>types
<1>inTurn. ASSUME UNCHANGED overlapped PROVE InTurn
    BY <1>inTurn DEF InTurnInv
<1>2. ASSUME NEW t \in Thread, AppendRaw(t) PROVE InTurn'
    BY <1>2, <1>types, <1>inTurn DEF AppendRaw, Go, history
<1>3. ASSUME NEW t \in Thread, AppendEvent(t) PROVE InTurn'
    <2>1. IdsOf(events)' = IdsOf(events) \cup {job[t].event.id}
        BY <1>3, <1>types, IdsOfAppend DEF AppendEvent, Go
    <2>2. /\ UNCHANGED <<job, file, acked>>
          /\ pc[t] # "idle"
          /\ \A u \in Thread \ {t} : pc'[u] = pc[u]
          /\ pc'[t] \in {"last", "copy raw"}
        BY <1>3, <1>types DEF AppendEvent, Go, history
    <2>3. InTurn
        BY <1>3, <1>inTurn DEF AppendEvent, history
    <2> QED  BY <2>1, <2>2, <2>3, <1>types
<1>4. ASSUME NEW t \in Thread, SetLast(t) PROVE InTurn'
    BY <1>4, <1>types, <1>inTurn DEF SetLast, Go, history
<1>5. ASSUME NEW t \in Thread, CopyRaw(t) PROVE InTurn'
    <2>1. \A u \in Thread : /\ job'[u].event = job[u].event
                            /\ job'[u].copy.events = job[u].copy.events
        BY <1>5, CopyRawFields
    <2>2. /\ UNCHANGED <<events, file, acked, overlapped>>
          /\ pc[t] = "copy raw" /\ pc' = [pc EXCEPT ![t] = "copy events"]
        BY <1>5 DEF CopyRaw, Go, memory, history
    <2> QED  BY <2>1, <2>2, <1>types, <1>inTurn
<1>6. ASSUME NEW t \in Thread, CopyEvents(t) PROVE InTurn'
    <2>1. /\ \A u \in Thread : job'[u].event = job[u].event
          /\ \A u \in Thread \ {t} : job'[u] = job[u]
          /\ job'[t].copy.events = events
        BY <1>6, CopyEventsFields
    <2>2. /\ UNCHANGED <<events, file, acked, overlapped>>
          /\ pc[t] = "copy events" /\ pc' = [pc EXCEPT ![t] = "save"]
        BY <1>6 DEF CopyEvents, Go, memory, history
    <2> QED  BY <2>1, <2>2, <1>types, <1>inTurn
<1>7. ASSUME NEW t \in Thread, Replace(t) PROVE InTurn'
    <2>1. /\ UNCHANGED <<events, job, acked, overlapped>>
          /\ pc[t] = "save" /\ pc' = [pc EXCEPT ![t] = "record"]
          /\ file' = job[t].copy
        BY <1>7 DEF Replace, Go, memory
    <2>2. InTurn
        BY <2>1, <1>inTurn
    <2>3. IdsOf(file.events)' = IdsOf(events)
        BY <2>1, <2>2
    <2>4. job[t].event.id \in IdsOf(events)
        BY <2>1, <2>2 DEF SavedInv, OwnEventKept
    <2> QED  BY <2>1, <2>2, <2>3, <2>4, <1>types
<1>8. ASSUME NEW t \in Thread, SaveFails(t) PROVE InTurn'
    <2>1. /\ UNCHANGED <<events, file, acked, overlapped>>
          /\ pc' = [pc EXCEPT ![t] = "idle"]
          /\ \A u \in Thread \ {t} : job'[u] = job[u]
        BY <1>8, <1>types DEF SaveFails, Go, memory, history
    <2> QED  BY <2>1, <1>types, <1>inTurn
<1>9. ASSUME NEW t \in Thread, Record(t) PROVE InTurn'
    <2>1. /\ UNCHANGED <<events, file, job, acked, overlapped>>
          /\ pc[t] = "record"
          /\ \A u \in Thread \ {t} : pc'[u] = pc[u]
          /\ pc'[t] \in {"forward", "answer"}
        BY <1>9, <1>types DEF Record, Go, memory
    <2> QED  BY <2>1, <1>types, <1>inTurn
<1>10. ASSUME NEW t \in Thread, Forward(t) PROVE InTurn'
    BY <1>10, <1>types, <1>inTurn DEF Forward, Go, memory, history
<1>11. ASSUME NEW t \in Thread, Answer(t) PROVE InTurn'
    <2>1. /\ UNCHANGED <<events, file, overlapped>>
          /\ acked' = acked \cup {job[t].event.id}
          /\ pc[t] = "answer" /\ pc' = [pc EXCEPT ![t] = "idle"]
          /\ \A u \in Thread \ {t} : job'[u] = job[u]
        BY <1>11, <1>types DEF Answer, Go, memory
    <2> QED  BY <2>1, <1>types, <1>inTurn
<1>12. CASE Restart
    <2>1. /\ events' = file.events /\ UNCHANGED <<file, acked, overlapped>>
          /\ pc' = [u \in Thread |-> "idle"]
        BY <1>12 DEF Restart, history
    <2> QED  BY <2>1, <1>inTurn
<1>13. CASE UNCHANGED vars
    <2>1. UNCHANGED <<events, file, pc, job, acked, overlapped>>
        BY <1>13 DEF vars, memory, history
    <2> QED  BY <2>1, <1>inTurn
<1> QED
    BY <1>1, <1>2, <1>3, <1>4, <1>5, <1>6, <1>7, <1>8, <1>9, <1>10, <1>11, <1>12,
       <1>13 DEF Next, Step, BuildEvent, ReceiveEvent

\* As long as no two requests overlapped, an event that was answered is in
\* state.json, whatever saves failed and however often the process restarted.
THEOREM AnsweredInTurnIsStored == Spec => []AckedStoredInTurn
<1>1. Init => TypeInv /\ SavedInv
    BY InitTypeInv DEF Init, SavedInv, RecordedAfterSave, OwnEventKept
<1>2. Init => InTurnInv
    BY DEF Init, Empty, InTurnInv, InTurn, AckedStored
<1>3. InTurnInv => AckedStoredInTurn
    BY DEF InTurnInv, InTurn, AckedStoredInTurn
<1> QED  BY <1>1, <1>2, <1>3, StepTypeInv, StepSavedInv, StepInTurnInv, PTL DEF Spec

-----------------------------------------------------------------------------
(* What the changes of an event are relative to.                           *)

\* The last message of a symbol after one more message.
LEMMA LastOfAppend ==
    ASSUME NEW r \in Seq(Message), NEW m \in Message, NEW s
    PROVE  LastOf(Append(r, m), s) = IF m.symbol = s THEN m.id ELSE LastOf(r, s)
<1> DEFINE n   == Len(r)
           a   == Append(r, m)
           old == {i \in DOMAIN r : r[i].symbol = s}
           own == {i \in DOMAIN a : a[i].symbol = s}
<1>1. /\ n \in Nat /\ DOMAIN r = 1..n /\ DOMAIN a = 1..n + 1
      /\ \A i \in 1..n : a[i] = r[i]
      /\ a[n + 1] = m
    BY AppendProperties, LenProperties
<1>2. /\ old \in SUBSET (1..n) /\ own \in SUBSET (1..n + 1)
      /\ n + 1 \in Nat /\ n + 1 \in 1..n + 1
    BY <1>1
<1>3. CASE m.symbol = s
    <2>1. n + 1 \in own /\ own # {}
        BY <1>1, <1>2, <1>3
    <2>2. Max(own) \in 1..n + 1 /\ Max(own) >= n + 1
        <3> HIDE DEF own
        <3> QED  BY <1>2, <2>1, MaxIsThere
    <2>3. Max(own) = n + 1
        <3> HIDE DEF own
        <3> QED  BY <1>1, <2>2
    <2>4. LastOf(a, s) = a[Max(own)].id
        BY <2>1 DEF LastOf
    <2> QED  BY <1>1, <1>3, <2>3, <2>4
<1>4. CASE m.symbol # s
    <2>1. own = old
        BY <1>1, <1>4
    <2>2. CASE old = {}
        BY <2>1, <2>2, <1>4 DEF LastOf
    <2>3. CASE old # {}
        <3>1. Max(old) \in 1..n
            <4> HIDE DEF old
            <4> QED  BY <1>1, <1>2, <2>3, MaxIsThere
        <3>2. LastOf(a, s) = a[Max(own)].id /\ LastOf(r, s) = r[Max(old)].id
            BY <2>1, <2>3 DEF LastOf
        <3> QED  BY <1>1, <1>4, <2>1, <3>1, <3>2
    <2> QED  BY <2>2, <2>3
<1> QED  BY <1>3, <1>4

\* Message i of the list is the event's own, and its base the one before.
Placed(r, e) ==
    \E i \in DOMAIN r : r[i].id = e.id /\ e.base = LastOf(Before(r, i), e.symbol)

\* What was taken before a message does not change when another is taken.
LEMMA BeforeOfAppend ==
    ASSUME NEW r \in Seq(Message), NEW m \in Message, NEW i \in 1..Len(r)
    PROVE  Before(Append(r, m), i) = Before(r, i)
<1>1. /\ Len(r) \in Nat /\ Len(Append(r, m)) = Len(r) + 1
      /\ \A j \in 1..Len(r) : Append(r, m)[j] = r[j]
    BY AppendProperties, LenProperties
<1> QED  BY <1>1 DEF Before

\* Before the message appended, the list was what it was.
LEMMA BeforeTheAppended ==
    ASSUME NEW r \in Seq(Message), NEW m \in Message
    PROVE  Before(Append(r, m), Len(r) + 1) = r
<1>1. /\ Len(r) \in Nat /\ Len(Append(r, m)) = Len(r) + 1
      /\ \A j \in 1..Len(r) : Append(r, m)[j] = r[j]
    BY AppendProperties, LenProperties
<1> QED  BY <1>1 DEF Before

\* An event keeps its place when another message is taken.
LEMMA PlacedStays ==
    ASSUME NEW r \in Seq(Message), NEW m \in Message, NEW e, Placed(r, e)
    PROVE  Placed(Append(r, m), e)
<1>1. PICK i \in 1..Len(r) : r[i].id = e.id /\ e.base = LastOf(Before(r, i), e.symbol)
    BY LenProperties DEF Placed
<1>2. i \in DOMAIN Append(r, m) /\ Append(r, m)[i] = r[i]
    BY AppendProperties, LenProperties
<1>3. Before(Append(r, m), i) = Before(r, i)
    BY BeforeOfAppend
<1> QED  BY <1>1, <1>2, <1>3 DEF Placed

\* An event built against the last message of its symbol has its place once its
\* own message is taken.
LEMMA PlacedByAppend ==
    ASSUME NEW r \in Seq(Message), NEW m \in Message, NEW e,
           m.id = e.id, e.base = LastOf(r, e.symbol)
    PROVE  Placed(Append(r, m), e)
<1>1. Len(r) + 1 \in DOMAIN Append(r, m) /\ Append(r, m)[Len(r) + 1] = m
    BY AppendProperties, LenProperties
<1>2. Before(Append(r, m), Len(r) + 1) = r
    BY BeforeTheAppended
<1> QED  BY <1>1, <1>2 DEF Placed

-----------------------------------------------------------------------------
(* Without overlap every base is the predecessor's.                        *)

\* Whether a thread took its message but has not yet noted it as the last one.
Noting(t) == pc[t] \in {"events", "last"} /\ job[t].event.op = "ingest"

\* What one thread relies on: its base is still the last of its symbol when its
\* message is taken, and its copies are as new as the lists.
Predecessors(t) ==
    /\ pc[t] \in {"raw", "last"} => job[t].event.op = "ingest"
    /\ pc[t] = "raw" => job[t].event.base = LastOf(raw, job[t].event.symbol)
    /\ Noting(t) => /\ job[t].event.id = LastOf(raw, job[t].event.symbol)
                    /\ Placed(raw, job[t].event)
    /\ pc[t] \in {"copy events", "save"} => job[t].copy.raw = raw
    /\ pc[t] = "save" => job[t].copy.events = events

AllPlaced(r, es) == \A i \in DOMAIN es : es[i].op = "ingest" => Placed(r, es[i])

\* The dict of last messages is that of the list, but for the symbol of a thread
\* that is between the two.
LastIsLast ==
    \A s \in Symbol :
        \/ last[s] = LastOf(raw, s)
        \/ \E t \in Thread : Noting(t) /\ job[t].event.symbol = s

Bases == /\ AllPlaced(raw, events)
         /\ AllPlaced(file.raw, file.events)
         /\ LastIsLast
         /\ \A t \in Thread : Predecessors(t)

BasesInv == ~overlapped => Bases

\* A step of the only busy thread keeps lists, file, dict and copies in step.
LEMMA StepBasesInv == TypeInv /\ InTurnInv /\ BasesInv /\ [Next]_vars => BasesInv'
<1> SUFFICES ASSUME TypeInv, InTurnInv, BasesInv, [Next]_vars, ~overlapped'
             PROVE  Bases'
    BY DEF BasesInv
<1>types. /\ pc \in [Thread -> {"idle", "raw", "events", "last", "copy raw",
                                "copy events", "save", "record", "forward", "answer"}]
          /\ job \in [Thread -> Job]
          /\ raw \in Seq(Message) /\ events \in Seq(Event)
          /\ last \in [Symbol -> Id \cup {None}]
          /\ \A u \in Thread : pc[u] # "idle" => job[u].event \in Event
    BY DEF TypeInv, TypeOK, JobTyped
<1>alone. ASSUME ~overlapped, NEW t \in Thread, pc[t] # "idle"
          PROVE  \A u \in Thread \ {t} : pc[u] = "idle"
    BY <1>alone DEF InTurnInv, InTurn
<1>bases. ASSUME UNCHANGED overlapped PROVE ~overlapped /\ Bases
    BY <1>bases DEF BasesInv
<1>idle. ASSUME NEW u \in Thread, pc'[u] = "idle" PROVE Predecessors(u)'
    BY <1>idle DEF Predecessors, Noting
<1>1. ASSUME NEW t \in Thread, NEW s \in Symbol, BuildEvent(t, s) PROVE Bases'
    <2> DEFINE e == [id |-> ops + 1, symbol |-> s, base |-> last[s], op |-> "ingest"]
    <2>1. /\ pc' = [pc EXCEPT ![t] = "raw"] /\ pc[t] = "idle"
          /\ \A u \in Thread \ {t} : pc[u] = "idle"
          /\ UNCHANGED <<raw, events, last, file>>
          /\ job' = [job EXCEPT ![t].event = e]
          /\ ~overlapped
        BY <1>1 DEF BuildEvent, Receive, Go, memory, Overlaps
    <2>2. Bases
        BY <2>1 DEF BasesInv
    <2>3. /\ pc'[t] = "raw" /\ job'[t].event = e
          /\ \A u \in Thread \ {t} : pc'[u] = "idle"
        BY <2>1, <1>types DEF Job
    <2>4. last[s] = LastOf(raw, s) /\ LastIsLast'
        BY <2>1, <2>2, <1>types DEF Bases, LastIsLast, Noting
    <2>5. /\ job'[t].event.op = "ingest" /\ job'[t].event.symbol = s
          /\ job'[t].event.base = LastOf(raw', s)
        BY <2>1, <2>3, <2>4
    <2>6. Predecessors(t)'
        BY <2>3, <2>5 DEF Predecessors, Noting
    <2> QED  BY <2>1, <2>2, <2>3, <2>4, <2>6, <1>idle DEF Bases
<1>2. ASSUME NEW t \in Thread, NEW s \in Symbol, ReceiveEvent(t, s) PROVE Bases'
    <2> DEFINE e == [id |-> ops + 1, symbol |-> s, base |-> None, op |-> "store"]
    <2>1. /\ pc' = [pc EXCEPT ![t] = "events"] /\ pc[t] = "idle"
          /\ \A u \in Thread \ {t} : pc[u] = "idle"
          /\ UNCHANGED <<raw, events, last, file>>
          /\ job' = [job EXCEPT ![t].event = e]
          /\ ~overlapped
        BY <1>2 DEF ReceiveEvent, Receive, Go, memory, Overlaps
    <2>2. Bases
        BY <2>1 DEF BasesInv
    <2>3. /\ pc'[t] = "events" /\ job'[t].event.op = "store"
          /\ \A u \in Thread \ {t} : pc'[u] = "idle"
        BY <2>1, <1>types DEF Job
    <2>4. LastIsLast'
        BY <2>1, <2>2, <1>types DEF Bases, LastIsLast, Noting
    <2>5. Predecessors(t)'
        BY <2>3 DEF Predecessors, Noting
    <2> QED  BY <2>1, <2>2, <2>3, <2>4, <2>5, <1>idle DEF Bases
<1>3. ASSUME NEW t \in Thread, AppendRaw(t) PROVE Bases'
    <2> DEFINE m == [id |-> job[t].event.id, symbol |-> job[t].event.symbol]
    <2>1. /\ pc[t] = "raw" /\ pc' = [pc EXCEPT ![t] = "events"]
          /\ raw' = Append(raw, m)
          /\ UNCHANGED <<events, last, file, job, overlapped>>
        BY <1>3 DEF AppendRaw, Go, history
    <2>2. ~overlapped /\ Bases
        BY <2>1, <1>bases
    <2>3. \A u \in Thread \ {t} : pc[u] = "idle" /\ pc'[u] = "idle"
        BY <2>1, <2>2, <1>alone, <1>types
    <2>4. job[t].event \in Event /\ m \in Message
        BY <2>1, <1>types DEF Event, Message
    <2>5. /\ job[t].event.op = "ingest"
          /\ job[t].event.base = LastOf(raw, job[t].event.symbol)
        BY <2>1, <2>2 DEF Bases, Predecessors
    <2>6. Placed(raw', job[t].event)
        BY <2>1, <2>4, <2>5, <1>types, PlacedByAppend
    <2>7. \A s : LastOf(raw', s) = IF m.symbol = s THEN m.id ELSE LastOf(raw, s)
        BY <2>1, <2>4, <1>types, LastOfAppend
    <2>8. AllPlaced(raw', events)
        BY <2>1, <2>2, <2>4, <1>types, PlacedStays DEF Bases, AllPlaced
    <2>9. Noting(t)' /\ job'[t].event.symbol = m.symbol
        BY <2>1, <2>5, <1>types DEF Noting
    <2>10. \A s \in Symbol : s # m.symbol => last[s] = LastOf(raw, s)
        BY <2>2, <2>3, <2>1 DEF Bases, LastIsLast, Noting
    <2>11. LastIsLast'
        BY <2>1, <2>7, <2>9, <2>10 DEF LastIsLast
    <2>12. job[t].event.id = LastOf(raw', job[t].event.symbol)
        BY <2>7
    <2>13. Predecessors(t)'
        BY <2>1, <2>6, <2>12, <1>types DEF Predecessors, Noting
    <2> QED  BY <2>1, <2>2, <2>3, <2>8, <2>11, <2>13, <1>idle DEF Bases, AllPlaced
<1>4. ASSUME NEW t \in Thread, AppendEvent(t) PROVE Bases'
    <2>1. /\ pc[t] = "events"
          /\ pc' = [pc EXCEPT ![t] = IF job[t].event.op = "ingest"
                                     THEN "last" ELSE "copy raw"]
          /\ events' = Append(events, job[t].event)
          /\ UNCHANGED <<raw, last, file, job, overlapped>>
        BY <1>4 DEF AppendEvent, Go, history
    <2>2. ~overlapped /\ Bases
        BY <2>1, <1>bases
    <2>3. \A u \in Thread \ {t} : pc[u] = "idle" /\ pc'[u] = "idle"
        BY <2>1, <2>2, <1>alone, <1>types
    <2>4. /\ job[t].event \in Event
          /\ job[t].event.op = "ingest" => Placed(raw, job[t].event)
        BY <2>1, <2>2, <1>types DEF Bases, Predecessors, Noting
    <2>5. /\ DOMAIN events' = 1..Len(events) + 1 /\ DOMAIN events = 1..Len(events)
          /\ Len(events) \in Nat
          /\ \A i \in 1..Len(events) : events'[i] = events[i]
          /\ events'[Len(events) + 1] = job[t].event
        <3> DEFINE e == job[t].event
        <3>1. events' = Append(events, e) /\ e \in Event /\ events \in Seq(Event)
            BY <2>1, <2>4, <1>types
        <3> HIDE DEF e
        <3>2. /\ DOMAIN Append(events, e) = 1..Len(events) + 1
              /\ \A i \in 1..Len(events) : Append(events, e)[i] = events[i]
              /\ Append(events, e)[Len(events) + 1] = e
              /\ DOMAIN events = 1..Len(events) /\ Len(events) \in Nat
            BY <3>1, AppendProperties, LenProperties
        <3>3. job[t].event = e
            BY DEF e
        <3> QED  BY <3>1, <3>2, <3>3
    <2>6. AllPlaced(raw, events')
        BY <2>2, <2>4, <2>5 DEF Bases, AllPlaced
    <2>7. pc'[t] \in {"last", "copy raw"} /\ (pc'[t] = "last" <=> job[t].event.op = "ingest")
        BY <2>1, <1>types
    <2>8. \A u \in Thread : Noting(u)' <=> Noting(u)
        BY <2>1, <2>3, <2>7 DEF Noting
    <2>9. LastIsLast'
        BY <2>1, <2>2, <2>8 DEF Bases, LastIsLast
    <2>10. Predecessors(t)'
        BY <2>1, <2>2, <2>7 DEF Bases, Predecessors, Noting
    <2> QED  BY <2>1, <2>2, <2>3, <2>6, <2>9, <2>10, <1>idle DEF Bases
<1>5. ASSUME NEW t \in Thread, SetLast(t) PROVE Bases'
    <2> DEFINE s == job[t].event.symbol
    <2>1. /\ pc[t] = "last" /\ pc' = [pc EXCEPT ![t] = "copy raw"]
          /\ last' = [last EXCEPT ![s] = job[t].event.id]
          /\ UNCHANGED <<raw, events, file, job, overlapped>>
        BY <1>5 DEF SetLast, Go, history
    <2>2. ~overlapped /\ Bases
        BY <2>1, <1>bases
    <2>3. \A u \in Thread \ {t} : pc[u] = "idle" /\ pc'[u] = "idle"
        BY <2>1, <2>2, <1>alone, <1>types
    <2>4. job[t].event.id = LastOf(raw, s)
        BY <2>1, <2>2 DEF Bases, Predecessors, Noting
    <2>5. \A r \in Symbol : r # s => last[r] = LastOf(raw, r)
        BY <2>1, <2>2, <2>3 DEF Bases, LastIsLast, Noting
    <2>6. LastIsLast'
        BY <2>1, <2>4, <2>5, <1>types DEF LastIsLast
    <2>7. Predecessors(t)'
        BY <2>1, <1>types DEF Predecessors, Noting
    <2> QED  BY <2>1, <2>2, <2>3, <2>6, <2>7, <1>idle DEF Bases
<1>6. ASSUME NEW t \in Thread, CopyRaw(t) PROVE Bases'
    <2>1. job'[t].copy.raw = raw
        BY <1>6, CopyRawFields
    <2>2. /\ UNCHANGED <<raw, events, last, file, overlapped>>
          /\ pc[t] = "copy raw" /\ pc' = [pc EXCEPT ![t] = "copy events"]
        BY <1>6 DEF CopyRaw, Go, memory, history
    <2>3. ~overlapped /\ Bases
        BY <2>2, <1>bases
    <2>4. \A u \in Thread \ {t} : pc[u] = "idle" /\ pc'[u] = "idle"
        BY <2>2, <2>3, <1>alone, <1>types
    <2>5. LastIsLast'
        BY <2>2, <2>3, <2>4 DEF Bases, LastIsLast, Noting
    <2>6. Predecessors(t)'
        BY <2>1, <2>2, <1>types DEF Predecessors, Noting
    <2> QED  BY <2>2, <2>3, <2>4, <2>5, <2>6, <1>idle DEF Bases
<1>7. ASSUME NEW t \in Thread, CopyEvents(t) PROVE Bases'
    <2>1. job'[t].copy.raw = job[t].copy.raw /\ job'[t].copy.events = events
        BY <1>7, CopyEventsFields
    <2>2. /\ UNCHANGED <<raw, events, last, file, overlapped>>
          /\ pc[t] = "copy events" /\ pc' = [pc EXCEPT ![t] = "save"]
        BY <1>7 DEF CopyEvents, Go, memory, history
    <2>3. ~overlapped /\ Bases
        BY <2>2, <1>bases
    <2>4. \A u \in Thread \ {t} : pc[u] = "idle" /\ pc'[u] = "idle"
        BY <2>2, <2>3, <1>alone, <1>types
    <2>5. LastIsLast'
        BY <2>2, <2>3, <2>4 DEF Bases, LastIsLast, Noting
    <2>6. Predecessors(t)'
        BY <2>1, <2>2, <2>3, <1>types DEF Bases, Predecessors, Noting
    <2> QED  BY <2>2, <2>3, <2>4, <2>5, <2>6, <1>idle DEF Bases
<1>8. ASSUME NEW t \in Thread, Replace(t) PROVE Bases'
    <2>1. /\ UNCHANGED <<raw, events, last, job, overlapped>>
          /\ pc[t] = "save" /\ pc' = [pc EXCEPT ![t] = "record"]
          /\ file' = job[t].copy
        BY <1>8 DEF Replace, Go, memory
    <2>2. ~overlapped /\ Bases
        BY <2>1, <1>bases
    <2>3. \A u \in Thread \ {t} : pc[u] = "idle" /\ pc'[u] = "idle"
        BY <2>1, <2>2, <1>alone, <1>types
    <2>4. file'.raw = raw /\ file'.events = events
        BY <2>1, <2>2 DEF Bases, Predecessors
    <2>5. LastIsLast'
        BY <2>1, <2>2, <2>3 DEF Bases, LastIsLast, Noting
    <2>6. Predecessors(t)'
        BY <2>1, <1>types DEF Predecessors, Noting
    <2> QED  BY <2>1, <2>2, <2>3, <2>4, <2>5, <2>6, <1>idle DEF Bases
<1>still. ASSUME NEW t \in Thread, pc[t] \in {"save", "record", "forward", "answer"},
                 pc' = [pc EXCEPT ![t] = pc'[t]],
                 pc'[t] \in {"idle", "forward", "answer"},
                 UNCHANGED <<raw, events, last, file, overlapped>>
          PROVE  Bases'
    <2>1. ~overlapped /\ Bases
        BY <1>still, <1>bases
    <2>2. \A u \in Thread \ {t} : pc[u] = "idle" /\ pc'[u] = "idle"
        BY <1>still, <2>1, <1>alone, <1>types
    <2>3. LastIsLast'
        BY <1>still, <2>1, <2>2 DEF Bases, LastIsLast, Noting
    <2>4. Predecessors(t)'
        BY <1>still DEF Predecessors, Noting
    <2> QED  BY <1>still, <2>1, <2>2, <2>3, <2>4, <1>idle DEF Bases
<1>9. ASSUME NEW t \in Thread, SaveFails(t) PROVE Bases'
    BY <1>9, <1>types, <1>still DEF SaveFails, Go, memory, history
<1>10. ASSUME NEW t \in Thread, Record(t) PROVE Bases'
    BY <1>10, <1>types, <1>still DEF Record, Go, memory
<1>11. ASSUME NEW t \in Thread, Forward(t) PROVE Bases'
    BY <1>11, <1>types, <1>still DEF Forward, Go, memory, history
<1>12. ASSUME NEW t \in Thread, Answer(t) PROVE Bases'
    BY <1>12, <1>types, <1>still DEF Answer, Go, memory
<1>13. CASE Restart
    <2>1. /\ raw' = file.raw /\ events' = file.events /\ UNCHANGED <<file, overlapped>>
          /\ last' = [s \in Symbol |-> LastOf(file.raw, s)]
          /\ \A u \in Thread : pc'[u] = "idle"
        BY <1>13 DEF Restart, history
    <2>2. Bases
        BY <2>1, <1>bases
    <2>3. LastIsLast'
        BY <2>1 DEF LastIsLast
    <2> QED  BY <2>1, <2>2, <2>3, <1>idle DEF Bases
<1>14. CASE UNCHANGED vars
    <2>1. UNCHANGED <<raw, events, last, file, pc, job, overlapped>>
        BY <1>14 DEF vars, memory, history
    <2>2. Bases
        BY <2>1, <1>bases
    <2> QED  BY <2>1, <2>2 DEF Bases, LastIsLast, Noting, Predecessors
<1> QED
    BY <1>1, <1>2, <1>3, <1>4, <1>5, <1>6, <1>7, <1>8, <1>9, <1>10, <1>11, <1>12,
       <1>13, <1>14 DEF Next, Step

-----------------------------------------------------------------------------
(* Under any interleaving a base is an earlier message of its symbol.      *)

\* What BaseWasTaken says of one event.
Taken(r, e) ==
    e.base # None =>
        \E j \in DOMAIN r : /\ r[j].id = e.base
                            /\ r[j].symbol = e.symbol
                            /\ \A k \in DOMAIN r : r[k].id = e.id => j < k

IsTaken(r, id, s) == \E j \in DOMAIN r : r[j].id = id /\ r[j].symbol = s

\* Nothing has a number that was not given yet, so the message of a new event
\* comes after all that were taken; and the dict has only what was taken.
Takes ==
    /\ \A i \in DOMAIN raw : raw[i].id <= ops
    /\ \A i \in DOMAIN events : Taken(raw, events[i])
    /\ \A s \in Symbol : last[s] # None => IsTaken(raw, last[s], s)
    /\ \A t \in Thread : pc[t] # "idle" =>
        /\ job[t].event.id <= ops
        /\ Taken(raw, job[t].event)
        /\ pc[t] \in {"raw", "last"} => job[t].event.op = "ingest"
        /\ pc[t] \in {"events", "last"} /\ job[t].event.op = "ingest"
               => IsTaken(raw, job[t].event.id, job[t].event.symbol)

TakesInv == crashes = 0 => Takes

\* One more message at the end leaves what was taken where it was.
LEMMA TakenStays ==
    ASSUME NEW r \in Seq(Message), NEW m \in Message
    PROVE  /\ \A e : Taken(r, e) => Taken(Append(r, m), e)
           /\ \A id, s : IsTaken(r, id, s) => IsTaken(Append(r, m), id, s)
           /\ IsTaken(Append(r, m), m.id, m.symbol)
<1> DEFINE a == Append(r, m)
<1>1. /\ Len(r) \in Nat /\ DOMAIN r = 1..Len(r)
      /\ DOMAIN a = 1..Len(r) + 1
      /\ \A i \in 1..Len(r) : a[i] = r[i]
      /\ a[Len(r) + 1] = m
    BY AppendProperties, LenProperties
<1>2. ASSUME NEW e, Taken(r, e), e.base # None
      PROVE  \E j \in DOMAIN a : /\ a[j].id = e.base
                                 /\ a[j].symbol = e.symbol
                                 /\ \A k \in DOMAIN a : a[k].id = e.id => j < k
    <2>1. PICK j \in DOMAIN r : /\ r[j].id = e.base
                                /\ r[j].symbol = e.symbol
                                /\ \A k \in DOMAIN r : r[k].id = e.id => j < k
        BY <1>2 DEF Taken
    <2>2. \A k \in DOMAIN a : a[k].id = e.id => j < k
        BY <1>1, <2>1
    <2> QED  BY <1>1, <2>1, <2>2
<1>3. \A e : Taken(r, e) => Taken(a, e)
    BY <1>2 DEF Taken
<1>4. \A id, s : IsTaken(r, id, s) => IsTaken(a, id, s)
    BY <1>1 DEF IsTaken
<1>5. IsTaken(a, m.id, m.symbol)
    BY <1>1 DEF IsTaken
<1> QED  BY <1>3, <1>4, <1>5

\* Before the first restart no step loses a message or gives a number twice.
LEMMA StepTakesInv == TypeInv /\ TakesInv /\ [Next]_vars => TakesInv'
<1> SUFFICES ASSUME TypeInv, TakesInv, [Next]_vars, crashes' = 0
             PROVE  Takes'
    BY DEF TakesInv
<1>types. /\ pc \in [Thread -> {"idle", "raw", "events", "last", "copy raw",
                                "copy events", "save", "record", "forward", "answer"}]
          /\ job \in [Thread -> Job]
          /\ raw \in Seq(Message) /\ events \in Seq(Event)
          /\ last \in [Symbol -> Id \cup {None}]
          /\ \A u \in Thread : pc[u] # "idle" => job[u].event \in Event
    BY DEF TypeInv, TypeOK, JobTyped
<1>nat. ops \in Nat /\ crashes \in Nat
    <2>1. ops \in 0..MaxOps /\ crashes \in 0..MaxCrashes
        BY DEF TypeInv, TypeOK
    <2> QED  BY <2>1, BoundsAreNat
<1>ids. \A e \in Event : e.id \in Nat
    BY BoundsAreNat DEF Event, Id
<1>takes. ASSUME UNCHANGED crashes PROVE Takes
    BY <1>takes DEF TakesInv
\* What a request begins with.
<1>1. ASSUME NEW t \in Thread, NEW e \in Event, NEW to \in {"raw", "events"},
             Receive(t, e, to), e.id = ops + 1,
             to = "raw" <=> e.op = "ingest",
             e.base # None => e.base = last[e.symbol]
      PROVE  Takes'
    <2>1. /\ pc' = [pc EXCEPT ![t] = to] /\ job' = [job EXCEPT ![t].event = e]
          /\ ops' = ops + 1
          /\ UNCHANGED <<raw, events, last, crashes>>
        BY <1>1 DEF Receive, Go, memory
    <2>2. Takes
        BY <2>1, <1>takes
    <2>3. /\ pc'[t] = to /\ job'[t].event = e
          /\ \A u \in Thread \ {t} : pc'[u] = pc[u] /\ job'[u] = job[u]
        BY <2>1, <1>types DEF Job
    <2>4. \A k \in DOMAIN raw : raw[k].id \in Nat /\ raw[k].id <= ops
        <3>1. \A k \in DOMAIN raw : raw[k] \in Message
            BY <1>types, ElementOfSeq, LenProperties
        <3> QED  BY <2>2, <3>1, BoundsAreNat DEF Takes, Message, Id
    <2>5. \A k \in DOMAIN raw : raw[k].id <= ops' /\ raw[k].id # e.id
        BY <2>1, <2>4, <1>1, <1>nat
    <2>6. Taken(raw, e)
        <3>1. CASE e.base = None
            BY <3>1 DEF Taken
        <3>2. CASE e.base # None
            <4>1. e.symbol \in Symbol /\ e.base = last[e.symbol]
                BY <1>1, <3>2 DEF Event
            <4>2. IsTaken(raw, e.base, e.symbol)
                BY <2>2, <3>2, <4>1 DEF Takes
            <4> QED  BY <2>5, <4>2 DEF Taken, IsTaken
        <3> QED  BY <3>1, <3>2
    <2>9. ASSUME NEW u \in Thread, pc'[u] # "idle"
          PROVE  /\ job'[u].event.id <= ops'
                 /\ Taken(raw, job'[u].event)
                 /\ pc'[u] \in {"raw", "last"} => job'[u].event.op = "ingest"
                 /\ pc'[u] \in {"events", "last"} /\ job'[u].event.op = "ingest"
                        => IsTaken(raw, job'[u].event.id, job'[u].event.symbol)
        <3>1. CASE u = t
            BY <3>1, <2>1, <2>3, <2>6, <1>1, <1>nat
        <3>2. CASE u # t
            <4>1. job[u].event.id \in Nat /\ job[u].event.id <= ops
                BY <3>2, <2>9, <2>2, <2>3, <1>types, <1>ids DEF Takes
            <4>2. job'[u].event.id <= ops'
                BY <3>2, <2>1, <2>3, <4>1, <1>nat
            <4> QED  BY <3>2, <2>9, <2>2, <2>3, <4>2 DEF Takes
        <3> QED  BY <3>1, <3>2
    <2> QED  BY <2>1, <2>2, <2>5, <2>9 DEF Takes
<1>2. ASSUME NEW t \in Thread, AppendRaw(t) PROVE Takes'
    <2> DEFINE m == [id |-> job[t].event.id, symbol |-> job[t].event.symbol]
    <2>1. /\ pc[t] = "raw" /\ pc' = [pc EXCEPT ![t] = "events"]
          /\ raw' = Append(raw, m)
          /\ UNCHANGED <<events, last, job, ops, crashes>>
        BY <1>2 DEF AppendRaw, Go, history, bounds
    <2>2. Takes
        BY <2>1, <1>takes
    <2>3. m \in Message /\ m.id = job[t].event.id /\ m.symbol = job[t].event.symbol
        BY <2>1, <1>types DEF Event, Message
    <2>4. /\ \A e : Taken(raw, e) => Taken(raw', e)
          /\ \A id, s : IsTaken(raw, id, s) => IsTaken(raw', id, s)
          /\ IsTaken(raw', m.id, m.symbol)
        <3>1. m \in Message /\ raw \in Seq(Message) /\ raw' = Append(raw, m)
            BY <2>1, <2>3, <1>types
        <3> HIDE DEF m
        <3> QED  BY <3>1, TakenStays
    <2>5. \A i \in DOMAIN raw' : raw'[i].id <= ops'
        <3>1. /\ Len(raw) \in Nat /\ DOMAIN raw = 1..Len(raw)
              /\ DOMAIN raw' = 1..Len(raw) + 1
              /\ \A i \in 1..Len(raw) : raw'[i] = raw[i]
              /\ raw'[Len(raw) + 1] = m
            <4>1. m \in Message /\ raw \in Seq(Message) /\ raw' = Append(raw, m)
                BY <2>1, <2>3, <1>types
            <4> HIDE DEF m
            <4> QED  BY <4>1, AppendProperties, LenProperties
        <3>2. m.id <= ops
            BY <2>1, <2>2, <2>3 DEF Takes
        <3> HIDE DEF m
        <3> QED  BY <2>1, <2>2, <3>1, <3>2 DEF Takes
    <2>6. ASSUME NEW u \in Thread, pc'[u] # "idle"
          PROVE  /\ pc[u] # "idle"
                 /\ pc'[u] \in {"raw", "last"} => pc[u] = pc'[u]
                 /\ pc'[u] \in {"events", "last"} => u = t \/ pc'[u] = pc[u]
        BY <2>1, <2>6, <1>types
    <2>7. IsTaken(raw', job[t].event.id, job[t].event.symbol)
        BY <2>1, <2>3, <2>4
    <2>8. ASSUME NEW u \in Thread, pc'[u] # "idle"
          PROVE  /\ job'[u].event.id <= ops'
                 /\ Taken(raw', job[u].event)
                 /\ pc'[u] \in {"raw", "last"} => job'[u].event.op = "ingest"
                 /\ pc'[u] \in {"events", "last"} /\ job'[u].event.op = "ingest"
                        => IsTaken(raw', job[u].event.id, job[u].event.symbol)
        BY <2>1, <2>2, <2>4, <2>6, <2>7, <2>8 DEF Takes
    <2> QED  BY <2>1, <2>2, <2>4, <2>5, <2>8 DEF Takes
<1>3. ASSUME NEW t \in Thread, AppendEvent(t) PROVE Takes'
    <2> DEFINE e == job[t].event
    <2>1. /\ pc[t] = "events"
          /\ pc' = [pc EXCEPT ![t] = IF e.op = "ingest" THEN "last" ELSE "copy raw"]
          /\ events' = Append(events, e)
          /\ UNCHANGED <<raw, last, job, ops, crashes>>
        BY <1>3 DEF AppendEvent, Go, history, bounds
    <2>2. Takes
        BY <2>1, <1>takes
    <2>3. e \in Event /\ Taken(raw, e)
        BY <2>1, <2>2, <1>types DEF Takes
    <2>4. /\ DOMAIN events' = 1..Len(events) + 1 /\ DOMAIN events = 1..Len(events)
          /\ Len(events) \in Nat
          /\ \A i \in 1..Len(events) : events'[i] = events[i]
          /\ events'[Len(events) + 1] = e
        <3>1. e \in Event /\ events \in Seq(Event) /\ events' = Append(events, e)
            BY <2>1, <2>3, <1>types
        <3> HIDE DEF e
        <3> QED  BY <3>1, AppendProperties, LenProperties
    <2>5. \A i \in DOMAIN events' : Taken(raw, events'[i])
        <3> HIDE DEF e
        <3> QED  BY <2>2, <2>3, <2>4 DEF Takes
    <2>6. ASSUME NEW u \in Thread, pc'[u] # "idle"
          PROVE  /\ pc[u] # "idle"
                 /\ pc'[u] \in {"raw", "last"} => pc[u] = pc'[u] \/ job[u].event.op = "ingest"
                 /\ pc'[u] \in {"events", "last"} => pc[u] \in {"events", "last"}
        BY <2>1, <2>6, <1>types
    <2>7. \A i \in DOMAIN events' : Taken(raw', events'[i])
        BY <2>1, <2>5
    <2>8. \A x \in Symbol : last'[x] # None => IsTaken(raw', last'[x], x)
        BY <2>1, <2>2 DEF Takes
    <2>9. ASSUME NEW u \in Thread, pc'[u] # "idle"
          PROVE  /\ job'[u].event.id <= ops'
                 /\ Taken(raw', job'[u].event)
                 /\ pc'[u] \in {"raw", "last"} => job'[u].event.op = "ingest"
                 /\ pc'[u] \in {"events", "last"} /\ job'[u].event.op = "ingest"
                        => IsTaken(raw', job'[u].event.id, job'[u].event.symbol)
        BY <2>1, <2>2, <2>6, <2>9 DEF Takes
    <2> QED  BY <2>1, <2>2, <2>7, <2>8, <2>9 DEF Takes
<1>4. ASSUME NEW t \in Thread, SetLast(t) PROVE Takes'
    <2> DEFINE s == job[t].event.symbol
    <2>1. /\ pc[t] = "last" /\ pc' = [pc EXCEPT ![t] = "copy raw"]
          /\ last' = [last EXCEPT ![s] = job[t].event.id]
          /\ UNCHANGED <<raw, events, job, ops, crashes>>
        BY <1>4 DEF SetLast, Go, history, bounds
    <2>2. Takes
        BY <2>1, <1>takes
    <2>3. IsTaken(raw, job[t].event.id, s)
        BY <2>1, <2>2 DEF Takes
    <2>4. \A x \in Symbol : last'[x] # None => IsTaken(raw', last'[x], x)
        BY <2>1, <2>2, <2>3, <1>types DEF Takes
    <2> QED  BY <2>1, <2>2, <2>4, <1>types DEF Takes
\* The other steps leave lists and dict alone, and a thread's event too, unless
\* the thread is done.
<1>still. ASSUME NEW t \in Thread,
                 pc[t] \notin {"idle", "raw", "events", "last"},
                 pc' = [pc EXCEPT ![t] = pc'[t]],
                 pc'[t] \notin {"raw", "events", "last"},
                 \A u \in Thread : pc'[u] # "idle" => job'[u].event = job[u].event,
                 UNCHANGED <<raw, events, last, ops, crashes>>
          PROVE  Takes'
    <2>1. Takes
        BY <1>still, <1>takes
    <2>2. ASSUME NEW u \in Thread, pc'[u] # "idle"
          PROVE  /\ pc[u] # "idle" /\ job'[u].event = job[u].event
                 /\ pc'[u] \in {"raw", "events", "last"} => pc'[u] = pc[u]
        BY <1>still, <2>2, <1>types
    <2> QED  BY <1>still, <2>1, <2>2 DEF Takes
<1>5. ASSUME NEW t \in Thread, CopyRaw(t) PROVE Takes'
    BY <1>5, <1>types, <1>still, CopyRawFields DEF CopyRaw, Go, memory, bounds
<1>6. ASSUME NEW t \in Thread, CopyEvents(t) PROVE Takes'
    BY <1>6, <1>types, <1>still, CopyEventsFields DEF CopyEvents, Go, memory, bounds
<1>7. ASSUME NEW t \in Thread, Replace(t) PROVE Takes'
    BY <1>7, <1>types, <1>still DEF Replace, Go, memory, bounds
<1>8. ASSUME NEW t \in Thread, SaveFails(t) PROVE Takes'
    BY <1>8, <1>types, <1>still DEF SaveFails, Go, memory
<1>9. ASSUME NEW t \in Thread, Record(t) PROVE Takes'
    BY <1>9, <1>types, <1>still DEF Record, Go, memory, bounds
<1>10. ASSUME NEW t \in Thread, Forward(t) PROVE Takes'
    BY <1>10, <1>types, <1>still DEF Forward, Go, memory, bounds
<1>11. ASSUME NEW t \in Thread, Answer(t) PROVE Takes'
    BY <1>11, <1>types, <1>still DEF Answer, Go, memory, bounds
<1>12. CASE Restart
    BY <1>12, <1>nat DEF Restart
<1>13. CASE UNCHANGED vars
    <2>1. UNCHANGED <<raw, events, last, pc, job, ops, crashes>>
        BY <1>13 DEF vars, memory, bounds
    <2> QED  BY <2>1, <1>takes DEF Takes
<1>14. ASSUME NEW t \in Thread, NEW s \in Symbol, BuildEvent(t, s) PROVE Takes'
    <2> DEFINE e == [id |-> ops + 1, symbol |-> s, base |-> last[s], op |-> "ingest"]
    <2>1. e \in Event
        <3>1. ops + 1 \in Id
            BY <1>14, BoundsAreNat, NextCount DEF BuildEvent, Receive, Id, TypeInv, TypeOK
        <3> QED  BY <3>1, <1>types DEF Event
    <2>2. /\ e.id = ops + 1 /\ e.op = "ingest" /\ e.base = last[e.symbol]
          /\ Receive(t, e, "raw")
        BY <1>14 DEF BuildEvent
    <2> HIDE DEF e
    <2> QED  BY <1>1, <2>1, <2>2
<1>15. ASSUME NEW t \in Thread, NEW s \in Symbol, ReceiveEvent(t, s) PROVE Takes'
    <2> DEFINE e == [id |-> ops + 1, symbol |-> s, base |-> None, op |-> "store"]
    <2>1. e \in Event
        <3>1. ops + 1 \in Id
            BY <1>15, BoundsAreNat, NextCount DEF ReceiveEvent, Receive, Id, TypeInv, TypeOK
        <3> QED  BY <3>1 DEF Event
    <2>2. /\ e.id = ops + 1 /\ e.op = "store" /\ e.base = None
          /\ Receive(t, e, "events")
        BY <1>15 DEF ReceiveEvent
    <2> HIDE DEF e
    <2> QED  BY <1>1, <2>1, <2>2
<1> QED
    BY <1>2, <1>3, <1>4, <1>5, <1>6, <1>7, <1>8, <1>9, <1>10, <1>11, <1>12, <1>13,
       <1>14, <1>15 DEF Next, Step

\* What the price and volume changes of an event are relative to: without overlap
\* the message of the symbol directly before its own, across failed saves and
\* restarts; under any interleaving, until a restart, an earlier one.
THEOREM BasesAreOfTheSymbol == Spec => []BasesAreRight
<1>1. Init => TypeInv /\ SavedInv
    BY InitTypeInv DEF Init, SavedInv, RecordedAfterSave, OwnEventKept
<1>2. Init => InTurnInv
    BY DEF Init, Empty, InTurnInv, InTurn, AckedStored
<1>3. Init => BasesInv
    <2>1. \A s : LastOf(<<>>, s) = None
        BY DEF LastOf
    <2> QED
        BY <2>1 DEF Init, Empty, BasesInv, Bases, AllPlaced, LastIsLast, Predecessors, Noting
<1>4. Init => TakesInv
    BY DEF Init, TakesInv, Takes
<1>5. BasesInv => BaseIsPredecessor
    BY DEF BasesInv, Bases, AllPlaced, Placed, BaseIsPredecessor, ToSet
<1>6. TakesInv => BaseWasTaken
    BY DEF TakesInv, Takes, Taken, BaseWasTaken
<1>7. BasesInv /\ TakesInv => BasesAreRight
    BY <1>5, <1>6 DEF BasesAreRight
<1> QED
    BY <1>1, <1>2, <1>3, <1>4, <1>7, StepTypeInv, StepSavedInv, StepInTurnInv,
       StepBasesInv, StepTakesInv, PTL DEF Spec

=============================================================================
