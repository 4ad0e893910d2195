---------------------------- MODULE RiskService ----------------------------
(***************************************************************************)
(* RiskService (gcp_risk/service.py, main.py): the events, the portfolio   *)
(* and the snapshots of the risk peer, with auto_compute on as main.py has *)
(* it.  Handlers run in the threads of the server's pool without a lock:   *)
(* every access to shared state is a step, and so is each symbol of a loop *)
(* over all of them.  The order in which a loop takes them is left open.   *)
(*                                                                         *)
(* An event stands for the number of the request that brought it; a        *)
(* portfolio has that number and the symbols of its positions, a snapshot  *)
(* its portfolio and the events it was computed from.                      *)
(* RiskMath has the metrics.                                               *)
(***************************************************************************)
EXTENDS Naturals, FiniteSetsExt, SequencesExt

CONSTANTS
    Thread,             \* threads that serve POST requests
    Symbol,             \* market symbols
    Holdings,           \* the sets of symbols portfolios have positions in
    MaxOps,             \* bounds: requests received,
    MaxSaveFailures,    \* saves that raise,
    MaxCrashes          \* restarts of the process

ASSUME BoundsAssumption == {MaxOps, MaxSaveFailures, MaxCrashes} \subseteq Nat

\* The market has some symbols, and not without end.
ASSUME SymbolAssumption == IsFiniteSet(Symbol) /\ Symbol # {}

\* A portfolio has positions in some of them.
ASSUME HoldingsAssumption == Holdings \subseteq SUBSET Symbol

None        == 0
Id          == 1..MaxOps
Portfolio   == [id : Id, positions : SUBSET Symbol]
NoPortfolio == [id |-> None, positions |-> {}]
Claim       == [id : Id, symbol : Symbol, held : SUBSET Symbol]

VARIABLES
    events,         \* events_by_symbol
    portfolio,      \* the portfolio or NoPortfolio
    snapshots,
    file,           \* state.json
    pc, job,        \* where each thread is, and its local variables
    recorded,       \* history: snapshots whose ledger append was made
    acked,          \* history: <<op, id>> of requests answered with success
    priced,         \* history: events answered after a computation, since the start,
                    \* with their symbols and what was held then
    lost,           \* history: requests ended by a failed save or a restart
    overlapped,     \* history: whether two requests were ever in progress at once
    ops, saveFailures, crashes  \* counters of the bounds

memory  == <<events, portfolio, snapshots>>
history == <<recorded, acked, priced, lost, overlapped>>
bounds  == <<ops, saveFailures, crashes>>
vars    == <<memory, file, pc, job, history, bounds>>

Events   == [Symbol -> Seq(Id)]
Snapshot == [id : Id, basis : SUBSET Id, portfolio : Portfolio]
State    == [events : Events, portfolio : Portfolio \cup {NoPortfolio},
             snapshots : Seq(Snapshot)]
Job      == [id : Id \cup {None}, op : {"none", "event", "portfolio", "compute"},
             symbol : Symbol, portfolio : Portfolio \cup {NoPortfolio}, priced : BOOLEAN,
             rest : SUBSET Symbol, size : Nat, copy : State]

TypeOK ==
    /\ events \in Events /\ portfolio \in Portfolio \cup {NoPortfolio}
    /\ snapshots \in Seq(Snapshot)
    /\ file \in State
    /\ pc \in [Thread -> {"idle", "append", "assign", "save", "copy", "replace",
                          "price", "read", "snapshot", "record", "answer"}]
    /\ job \in [Thread -> Job]
    /\ recorded \cup lost \subseteq Id /\ priced \subseteq Claim
    /\ acked \subseteq {"event", "portfolio", "compute"} \X Id
    /\ overlapped \in BOOLEAN
    /\ {ops, saveFailures, crashes} \subseteq Nat

NoEvents == [s \in Symbol |-> <<>>]
Empty    == [events |-> NoEvents, portfolio |-> NoPortfolio, snapshots |-> <<>>]
NoJob    == [id |-> None, op |-> "none", symbol |-> CHOOSE s \in Symbol : TRUE,
             portfolio |-> NoPortfolio, priced |-> FALSE, rest |-> {}, size |-> 0,
             copy |-> Empty]

Known(book)    == {s \in Symbol : book[s] # <<>>}
IdsIn(book)    == UNION {ToSet(book[s]) : s \in Symbol}
IdsOf(list)    == {list[i].id : i \in DOMAIN list}

Init ==
    /\ events = NoEvents /\ portfolio = NoPortfolio /\ snapshots = <<>>
    /\ file = Empty
    /\ pc = [t \in Thread |-> "idle"] /\ job = [t \in Thread |-> NoJob]
    /\ recorded = {} /\ acked = {} /\ priced = {} /\ lost = {} /\ overlapped = FALSE
    /\ ops = 0 /\ saveFailures = 0 /\ crashes = 0

Go(t, from, to) == pc[t] = from /\ pc' = [pc EXCEPT ![t] = to]

\* The request ends with an error.
Fail(t, from) ==
    /\ Go(t, from, "idle")
    /\ lost' = lost \cup {job[t].id}
    /\ job' = [job EXCEPT ![t] = NoJob]
    /\ UNCHANGED <<memory, file, recorded, acked, priced, overlapped>>

Receive(t, op, s, given, to) ==
    /\ ops < MaxOps
    /\ ops' = ops + 1
    /\ Go(t, "idle", to)
    /\ job' = [job EXCEPT ![t] = [NoJob EXCEPT !.id = ops + 1, !.op = op,
                                               !.symbol = s, !.portfolio = given]]
    /\ overlapped' = (overlapped \/ \E u \in Thread \ {t} : pc[u] # "idle")
    /\ UNCHANGED <<memory, file, recorded, acked, priced, lost, saveFailures, crashes>>

Posted == {[id |-> ops + 1, positions |-> held] : held \in Holdings}

PostEvent(t, s)  == Receive(t, "event", s, NoPortfolio, "append")
PostPortfolio(t) == \E given \in Posted :
                        Receive(t, "portfolio", NoJob.symbol, given, "assign")
PostCompute(t)   == \E given \in Posted \cup {NoPortfolio} :
                        Receive(t, "compute", NoJob.symbol, given, "price")

-----------------------------------------------------------------------------
(* ingest_event, set_portfolio.                                            *)

AppendEvent(t) ==
    /\ Go(t, "append", "save")
    /\ events' = [events EXCEPT ![job[t].symbol] = Append(@, job[t].id)]
    /\ UNCHANGED <<portfolio, snapshots, file, job, history, bounds>>

AssignPortfolio(t) ==
    /\ Go(t, "assign", "save")
    /\ portfolio' = job[t].portfolio
    /\ UNCHANGED <<events, snapshots, file, job, history, bounds>>

-----------------------------------------------------------------------------
(* _save_state: the events symbol by symbol, then the rest (the portfolio   *)
(* and the snapshots in one step: nothing below tells them apart).          *)

Loop(t, to, over) ==
    /\ Go(t, pc[t], to)
    /\ job' = [job EXCEPT ![t].rest = over, ![t].size = Cardinality(over),
                          ![t].copy = Empty]
    /\ UNCHANGED <<memory, file, history, bounds>>

StartSave(t) == pc[t] = "save" /\ Loop(t, "copy", Known(events))

TakeSymbol(t, at) ==
    /\ pc[t] = at
    /\ \E s \in job[t].rest :
           job' = [job EXCEPT ![t].rest = @ \ {s}, ![t].copy.events[s] = events[s]]
    /\ UNCHANGED <<memory, file, pc, history, bounds>>

CopySymbol(t) == Cardinality(Known(events)) = job[t].size /\ TakeSymbol(t, "copy")

\* The loop is over the dictionary itself: a new symbol makes it raise.
CopyRaises(t) ==
    /\ Cardinality(Known(events)) # job[t].size
    /\ Fail(t, "copy")
    /\ UNCHANGED bounds

CopyRest(t) ==
    /\ Cardinality(Known(events)) = job[t].size /\ job[t].rest = {}
    /\ Go(t, "copy", "replace")
    /\ job' = [job EXCEPT ![t].copy.portfolio = portfolio,
                          ![t].copy.snapshots = snapshots]
    /\ UNCHANGED <<memory, file, history, bounds>>

\* After the save of an event the risk is computed, if there is a portfolio.
AfterSave(t) == IF job[t].op = "event" /\ ~job[t].priced /\ portfolio # NoPortfolio
                THEN "price" ELSE "answer"

\* Mutant: the save is handed to a background task and answered ahead of it.
ReplaceLater(t) ==
    /\ Go(t, "replace", AfterSave(t))
    /\ UNCHANGED <<memory, file, job, history, bounds>>

Replace(t) ==
    /\ Go(t, "replace", AfterSave(t))
    /\ file' = job[t].copy
    /\ UNCHANGED <<memory, job, history, bounds>>

SaveFails(t) ==
    /\ saveFailures < MaxSaveFailures
    /\ saveFailures' = saveFailures + 1
    /\ Fail(t, "replace")
    /\ UNCHANGED <<ops, crashes>>

-----------------------------------------------------------------------------
(* compute_risk.                                                           *)

\* Without any portfolio: ValueError, answered with 400.
Refuse(t) ==
    /\ job[t].portfolio = NoPortfolio /\ portfolio = NoPortfolio
    /\ Fail(t, "price")
    /\ UNCHANGED bounds

ChoosePortfolio(t) ==
    /\ Go(t, "price", "read")
    /\ LET given  == job[t].portfolio
           chosen == IF given # NoPortfolio THEN given ELSE portfolio
       IN  /\ chosen # NoPortfolio
           /\ job' = [job EXCEPT ![t].portfolio = chosen, ![t].priced = TRUE,
                                 ![t].rest = chosen.positions, ![t].copy = Empty]
    /\ UNCHANGED <<memory, file, history, bounds>>

\* The returns of one symbol the portfolio has a position in.
ReadSymbol(t) == TakeSymbol(t, "read")

\* The drawdown's division by zero (RiskMath!DrawdownRaises).
ComputeRaises(t) ==
    /\ job[t].rest = {}
    /\ Fail(t, "read")
    /\ UNCHANGED bounds

\* Mutant: inserts the newest snapshot ahead of the others.
AppendSnapshotFirst(t) ==
    /\ job[t].rest = {}
    /\ Go(t, "read", "record")
    /\ snapshots' = <<[id |-> job[t].id, basis |-> IdsIn(job[t].copy.events),
                       portfolio |-> job[t].portfolio]>> \o snapshots
    /\ UNCHANGED <<events, portfolio, file, job, history, bounds>>

AppendSnapshot(t) ==
    /\ job[t].rest = {}
    /\ Go(t, "read", "record")
    /\ snapshots' = Append(snapshots, [id |-> job[t].id,
                                       basis |-> IdsIn(job[t].copy.events),
                                       portfolio |-> job[t].portfolio])
    /\ UNCHANGED <<events, portfolio, file, job, history, bounds>>

\* Mutant: answers without saving.
RecordUnsaved(t) ==
    /\ Go(t, "record", "answer")
    /\ recorded' = recorded \cup {job[t].id}
    /\ UNCHANGED <<memory, file, job, acked, priced, lost, overlapped, bounds>>

\* The ledger hears of the snapshot before it is saved.
Record(t) ==
    /\ Go(t, "record", "save")
    /\ recorded' = recorded \cup {job[t].id}
    /\ UNCHANGED <<memory, file, job, acked, priced, lost, overlapped, bounds>>

Answer(t) ==
    /\ Go(t, "answer", "idle")
    /\ acked' = acked \cup {<<job[t].op, job[t].id>>}
    /\ priced' = IF job[t].op = "event" /\ job[t].priced
                 THEN priced \cup {[id |-> job[t].id, symbol |-> job[t].symbol,
                                    held |-> job[t].portfolio.positions]}
                 ELSE priced
    /\ job' = [job EXCEPT ![t] = NoJob]
    /\ UNCHANGED <<memory, file, recorded, lost, overlapped, bounds>>

\* The process stops anywhere and starts again with _load_state.
Restart ==
    /\ crashes < MaxCrashes
    /\ crashes' = crashes + 1
    /\ events' = file.events /\ portfolio' = file.portfolio
    /\ snapshots' = file.snapshots
    /\ lost' = lost \cup {job[t].id : t \in {u \in Thread : pc[u] # "idle"}}
    /\ priced' = {}
    /\ pc' = [t \in Thread |-> "idle"] /\ job' = [t \in Thread |-> NoJob]
    /\ UNCHANGED <<file, recorded, acked, overlapped, ops, saveFailures>>

Post(t) == (\E s \in Symbol : PostEvent(t, s)) \/ PostPortfolio(t) \/ PostCompute(t)

Save(t) == \/ StartSave(t) \/ CopySymbol(t) \/ CopyRaises(t) \/ CopyRest(t)
           \/ Replace(t) \/ SaveFails(t)

Compute(t) == \/ Refuse(t) \/ ChoosePortfolio(t) \/ ReadSymbol(t)
              \/ ComputeRaises(t) \/ AppendSnapshot(t) \/ Record(t)

Step(t) == AppendEvent(t) \/ AssignPortfolio(t) \/ Save(t) \/ Compute(t) \/ Answer(t)

Next == (\E t \in Thread : Post(t) \/ Step(t)) \/ Restart

Spec == Init /\ [][Next]_vars

-----------------------------------------------------------------------------
(* What must hold.                                                         *)

\* The events of these symbols that were answered after a computation over a
\* portfolio with positions in all of them.
Due(symbols) == {c \in priced : c.symbol \in symbols /\ symbols \subseteq c.held}

\* Whatever requests overlap and however portfolios change: for any symbols,
\* among the snapshots is one that was computed from all their answered events
\* whose own computation had positions in those symbols.  The newest snapshot
\* need not be that one, see below; an event of a symbol that nobody holds is
\* answered without a snapshot that has it.
SomeSnapshotCoversPriced ==
    \A symbols \in SUBSET Symbol : Due(symbols) # {} =>
        \E i \in DOMAIN snapshots : \A c \in Due(symbols) : c.id \in snapshots[i].basis

\* As long as no two requests overlapped, the newest snapshot, the one that
\* /risk/latest shows, has every answered event of the symbols it is about.
LatestCoversPricedInTurn ==
    ~overlapped => \A c \in priced :
        /\ snapshots # <<>>
        /\ c.symbol \in Last(snapshots).portfolio.positions => c.id \in Last(snapshots).basis

\* Both: what the history of snapshots owes to those who were answered.
SnapshotsCoverPriced == SomeSnapshotCoversPriced /\ LatestCoversPricedInTurn

\* As long as no two requests overlapped, state.json has every event and
\* snapshot of an answered request, the last answered portfolio or a newer one,
\* and the events a stored snapshot was computed from, whatever failed and
\* restarted.
AckedStoredInTurn ==
    ~overlapped =>
        /\ \A a \in acked :
               CASE a[1] = "event"     -> a[2] \in IdsIn(file.events)
                 [] a[1] = "compute"   -> a[2] \in IdsOf(file.snapshots)
                 [] a[1] = "portfolio" -> a[2] <= file.portfolio.id
        /\ \A c \in priced : c.id \in IdsOf(file.snapshots)
        /\ \A i \in DOMAIN file.snapshots :
               file.snapshots[i].basis \subseteq IdsIn(file.events)

\* A block on the ledger without its snapshot in state.json belongs to a
\* request still under way, or to one that never was answered with success:
\* the gap the order of record and save leaves.
LedgerGapUnanswered ==
    ~overlapped =>
        recorded \ IdsOf(file.snapshots)
            \subseteq lost \cup {job[t].id : t \in Thread}

=============================================================================
