-------------------------- MODULE IngestionService --------------------------
(***************************************************************************)
(* IngestionService (aws_ingestion/service.py): what one ingestion peer    *)
(* keeps in memory and in state.json.  Handlers run in threads of the      *)
(* server's pool and nothing here takes a lock, so every statement that    *)
(* touches shared state is a step: reading the symbol's last message,      *)
(* three appends and assignments, copying the messages, copying the        *)
(* events, and replacing the file.                                         *)
(*                                                                         *)
(* A message stands for its number; its event stands for the pair of the   *)
(* message and the base its changes were computed from (a base with price  *)
(* or volume zero gives that change as 0.0).  A copy made by a             *)
(* comprehension over a list that grows has all that was appended before   *)
(* it ends, so it is one step.  Routing itself is EventRouting's.          *)
(***************************************************************************)
EXTENDS Naturals, SequencesExt

CONSTANTS
    Thread,             \* threads that serve POST requests
    Symbol,             \* market symbols
    NoEvent,            \* "no request"
    MaxOps,             \* bounds: requests received,
    MaxSaveFailures,    \* saves that raise,
    MaxCrashes          \* restarts of the process

ASSUME BoundsAssumption == {MaxOps, MaxSaveFailures, MaxCrashes} \subseteq Nat

None == 0
Id   == 1..MaxOps

VARIABLES
    raw,            \* raw_messages
    events,         \* events
    last,           \* _last_message_by_symbol
    file,           \* state.json: [raw, events]
    pc, job,        \* where each thread is, and its local variables
    recorded,       \* history: events whose ledger append was made
    acked,          \* history: events of requests answered with success
    everStored,     \* history: events that were in state.json at some time
    overlapped,     \* history: whether two requests were ever in progress at once
    ops, saveFailures, crashes  \* counters of the bounds

memory  == <<raw, events, last>>
history == <<recorded, acked, everStored, overlapped>>
bounds  == <<ops, saveFailures, crashes>>
vars    == <<memory, file, pc, job, history, bounds>>

Message == [id : Id, symbol : Symbol]
Event   == [id : Id, symbol : Symbol, base : Id \cup {None}, op : {"ingest", "store"}]
File    == [raw : Seq(Message), events : Seq(Event)]

TypeOK ==
    /\ raw \in Seq(Message) /\ events \in Seq(Event)
    /\ last \in [Symbol -> Id \cup {None}]
    /\ file \in File
    /\ pc \in [Thread -> {"idle", "raw", "events", "last", "copy raw",
                          "copy events", "save", "record", "forward", "answer"}]
    /\ \A t \in Thread : pc[t] # "idle" => job[t].event \in Event
    /\ recorded \subseteq Id /\ acked \subseteq Id /\ everStored \subseteq Id
    /\ overlapped \in BOOLEAN
    /\ ops \in 0..MaxOps
    /\ saveFailures \in 0..MaxSaveFailures
    /\ crashes \in 0..MaxCrashes

Empty    == [raw |-> <<>>, events |-> <<>>]
NoJob    == [event |-> NoEvent, copy |-> Empty]
IdsOf(s) == {s[i].id : i \in DOMAIN s}

\* The last of the messages with symbol s, as a dict comprehension keeps it.
LastOf(messages, s) ==
    LET own == {i \in DOMAIN messages : messages[i].symbol = s}
    IN  IF own = {} THEN None ELSE messages[Max(own)].id

Init ==
    /\ raw = <<>> /\ events = <<>>
    /\ last = [s \in Symbol |-> None]
    /\ file = Empty
    /\ pc = [t \in Thread |-> "idle"] /\ job = [t \in Thread |-> NoJob]
    /\ recorded = {} /\ acked = {} /\ everStored = {} /\ overlapped = FALSE
    /\ ops = 0 /\ saveFailures = 0 /\ crashes = 0

Go(t, from, to) == pc[t] = from /\ pc' = [pc EXCEPT ![t] = to]

Overlaps(t) == overlapped' = (overlapped \/ \E u \in Thread \ {t} : pc[u] # "idle")

Receive(t, event, to) ==
    /\ ops < MaxOps
    /\ ops' = ops + 1
    /\ Go(t, "idle", to)
    /\ job' = [job EXCEPT ![t].event = event]
    /\ Overlaps(t)
    /\ UNCHANGED <<memory, file, recorded, acked, everStored, saveFailures, crashes>>

-----------------------------------------------------------------------------
(* ingest_message and store_normalized_event.                              *)

\* The event is built against the last message seen for its symbol.
BuildEvent(t, s) ==
    Receive(t, [id |-> ops + 1, symbol |-> s, base |-> last[s], op |-> "ingest"], "raw")

\* An event normalized elsewhere: no raw message, no base of ours.
ReceiveEvent(t, s) ==
    Receive(t, [id |-> ops + 1, symbol |-> s, base |-> None, op |-> "store"], "events")

AppendRaw(t) ==
    /\ Go(t, "raw", "events")
    /\ raw' = Append(raw, [id |-> job[t].event.id, symbol |-> job[t].event.symbol])
    /\ UNCHANGED <<events, last, file, job, history, bounds>>

AppendEvent(t) ==
    /\ Go(t, "events", IF job[t].event.op = "ingest" THEN "last" ELSE "copy raw")
    /\ events' = Append(events, job[t].event)
    /\ UNCHANGED <<raw, last, file, job, history, bounds>>

SetLast(t) ==
    /\ Go(t, "last", "copy raw")
    /\ last' = [last EXCEPT ![job[t].event.symbol] = job[t].event.id]
    /\ UNCHANGED <<raw, events, file, job, history, bounds>>

-----------------------------------------------------------------------------
(* _save_state.                                                            *)

CopyRaw(t) ==
    /\ Go(t, "copy raw", "copy events")
    /\ job' = [job EXCEPT ![t].copy.raw = raw]
    /\ UNCHANGED <<memory, file, history, bounds>>

CopyEvents(t) ==
    /\ Go(t, "copy events", "save")
    /\ job' = [job EXCEPT ![t].copy.events = events]
    /\ UNCHANGED <<memory, file, history, bounds>>

\* Mutant: the save is handed to a background task and answered ahead of it.
ReplaceLater(t) ==
    /\ Go(t, "save", "record")
    /\ UNCHANGED <<memory, file, job, history, bounds>>

Replace(t) ==
    /\ Go(t, "save", "record")
    /\ file' = job[t].copy
    /\ everStored' = everStored \cup IdsOf(job[t].copy.events)
    /\ UNCHANGED <<memory, job, recorded, acked, overlapped, bounds>>

\* Mutant: the save's exception is swallowed and the request goes on.
SaveFailsUnnoticed(t) ==
    /\ saveFailures < MaxSaveFailures
    /\ saveFailures' = saveFailures + 1
    /\ Go(t, "save", "record")
    /\ UNCHANGED <<memory, file, job, history, ops, crashes>>

\* The write raises: the request ends with an error, memory stays ahead.
SaveFails(t) ==
    /\ saveFailures < MaxSaveFailures
    /\ saveFailures' = saveFailures + 1
    /\ Go(t, "save", "idle")
    /\ job' = [job EXCEPT ![t] = NoJob]
    /\ UNCHANGED <<memory, file, history, ops, crashes>>

\* Whether the append succeeds is append_ledger's business (EventRouting).
Record(t) ==
    /\ Go(t, "record", IF job[t].event.op = "ingest" THEN "forward" ELSE "answer")
    /\ recorded' = recorded \cup {job[t].event.id}
    /\ UNCHANGED <<memory, file, job, acked, everStored, overlapped, bounds>>

\* _forward_event counts and swallows what routing raises.
Forward(t) ==
    /\ Go(t, "forward", "answer")
    /\ UNCHANGED <<memory, file, job, history, bounds>>

Answer(t) ==
    /\ Go(t, "answer", "idle")
    /\ acked' = acked \cup {job[t].event.id}
    /\ job' = [job EXCEPT ![t] = NoJob]
    /\ UNCHANGED <<memory, file, recorded, everStored, overlapped, bounds>>

\* Mutant: the last messages are not rebuilt from the file.
RestartForgetful ==
    /\ crashes < MaxCrashes
    /\ crashes' = crashes + 1
    /\ raw' = file.raw /\ events' = file.events
    /\ last' = [s \in Symbol |-> None]
    /\ pc' = [t \in Thread |-> "idle"] /\ job' = [t \in Thread |-> NoJob]
    /\ UNCHANGED <<file, history, ops, saveFailures>>

\* The process stops anywhere and starts again with _load_state.
Restart ==
    /\ crashes < MaxCrashes
    /\ crashes' = crashes + 1
    /\ raw' = file.raw /\ events' = file.events
    /\ last' = [s \in Symbol |-> LastOf(file.raw, s)]
    /\ pc' = [t \in Thread |-> "idle"] /\ job' = [t \in Thread |-> NoJob]
    /\ UNCHANGED <<file, history, ops, saveFailures>>

Step(t) == \/ AppendRaw(t) \/ AppendEvent(t) \/ SetLast(t)
           \/ CopyRaw(t) \/ CopyEvents(t) \/ Replace(t) \/ SaveFails(t)
           \/ Record(t) \/ Forward(t) \/ Answer(t)

Next == \/ \E t \in Thread, s \in Symbol : BuildEvent(t, s) \/ ReceiveEvent(t, s)
        \/ \E t \in Thread : Step(t)
        \/ Restart

Spec == Init /\ [][Next]_vars

-----------------------------------------------------------------------------
(* What must hold.                                                         *)

\* What was answered with success is in state.json.
AckedStored == acked \subseteq IdsOf(file.events)

\* As long as no two requests overlapped, it stays there whatever fails or
\* restarts.
AckedStoredInTurn == ~overlapped => AckedStored

\* The messages taken before raw message i.
Before(messages, i) == SubSeq(messages, 1, i - 1)

\* The ledger and the downstream peers hear of an event only once a save that
\* has it was completed.
RecordedAfterSave == recorded \cup acked \subseteq everStored

\* As long as no two requests overlapped, the changes of every stored event
\* are relative to the message of the same symbol directly before its own,
\* also across restarts and failed saves.
BaseIsPredecessor ==
    ~overlapped => \A e \in ToSet(file.events) : e.op = "ingest" =>
        \E i \in DOMAIN file.raw :
            /\ file.raw[i].id = e.id
            /\ e.base = LastOf(Before(file.raw, i), e.symbol)

\* A base is an earlier message of the symbol that the service really took,
\* and stays so until a restart.
BaseWasTaken ==
    crashes = 0 => \A i \in DOMAIN events :
        events[i].base # None =>
            \E j \in DOMAIN raw : /\ raw[j].id = events[i].base
                                  /\ raw[j].symbol = events[i].symbol
                                  /\ \A k \in DOMAIN raw : raw[k].id = events[i].id => j < k

\* Both: what the price and volume changes of an event are relative to.
BasesAreRight == BaseIsPredecessor /\ BaseWasTaken

=============================================================================
