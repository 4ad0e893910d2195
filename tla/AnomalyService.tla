--------------------------- MODULE AnomalyService ---------------------------
(***************************************************************************)
(* AnomalyService (azure_anomaly/service.py): the windows of recent events *)
(* per symbol, the alerts raised from them, their reviews, and the one     *)
(* JSON document that holds both.  Handlers run in threads of the server's *)
(* pool; nothing here takes a lock.                                        *)
(*                                                                         *)
(* An event stands for its number, which also names the alert raised for   *)
(* it.  Scoring (rules, isolation forest, thresholds) is a choice between  *)
(* "alert" and "no alert".  A comprehension over a dict raises when the    *)
(* dict changes size before it ends, and sees each value as it was at some *)
(* moment in between.                                                      *)
(***************************************************************************)
EXTENDS Naturals, SequencesExt

CONSTANTS
    Thread,             \* threads that serve POST requests
    Symbol,             \* market symbols
    Verdict,            \* what a review may decide
    Pending,            \* the status of a new alert, "pending_review"
    Window,             \* history_window
    NoJob,              \* "no request"
    MaxEvents,          \* bounds: events analyzed,
    MaxReviews,         \* reviews asked for,
    MaxSaveFailures,    \* saves that raise,
    MaxCrashes          \* restarts of the process

ASSUME ParametersAssumption ==
    /\ Window \in Nat \ {0}
    /\ Pending \notin Verdict
    /\ {MaxEvents, MaxReviews, MaxSaveFailures, MaxCrashes} \subseteq Nat

Id     == 1..MaxEvents
Status == Verdict \cup {Pending}

VARIABLES
    history,        \* history_by_symbol, a map from the tracked symbols
    alerts,         \* alerts: a map from alert to status
    file,           \* the stored document: [alerts, history]
    pc, job,        \* where each thread is, and its local variables
    symbolOf,       \* history: the symbols of the events, in order of arrival
    created,        \* history: alerts answered to the caller
    reviewed,       \* history: alerts with a review answered to the caller
    analyzed,       \* history: events answered to the caller
    overlapped,     \* history: whether two requests were ever in progress at once
    reviews, saveFailures, crashes      \* counters of the bounds

memory == <<history, alerts>>
ghosts == <<symbolOf, created, reviewed, analyzed, overlapped>>
bounds == <<reviews, saveFailures, crashes>>
vars   == <<memory, file, pc, job, ghosts, bounds>>

IsHistory(h) == /\ DOMAIN h \subseteq Symbol
                /\ \A s \in DOMAIN h : h[s] \in Seq(Id) /\ Len(h[s]) <= Window
IsAlerts(a)  == DOMAIN a \subseteq Id /\ \A i \in DOMAIN a : a[i] \in Status

TypeOK ==
    /\ IsHistory(history) /\ IsAlerts(alerts)
    /\ IsHistory(file.history) /\ IsAlerts(file.alerts)
    /\ pc \in [Thread -> {"idle", "append", "alert", "review", "save", "alerts",
                          "history", "store", "record", "answer"}]
    /\ \A t \in Thread : pc[t] # "idle" => job[t].id \in Id
    /\ symbolOf \in Seq(Symbol)
    /\ created \cup reviewed \cup analyzed \subseteq Id
    /\ overlapped \in BOOLEAN
    /\ reviews \in 0..MaxReviews
    /\ saveFailures \in 0..MaxSaveFailures
    /\ crashes \in 0..MaxCrashes

Nothing == [alerts |-> <<>>, history |-> <<>>]

Init ==
    /\ history = <<>> /\ alerts = <<>>
    /\ file = Nothing
    /\ pc = [t \in Thread |-> "idle"] /\ job = [t \in Thread |-> NoJob]
    /\ symbolOf = <<>> /\ created = {} /\ reviewed = {} /\ analyzed = {}
    /\ overlapped = FALSE
    /\ reviews = 0 /\ saveFailures = 0 /\ crashes = 0

Go(t, from, to) == pc[t] = from /\ pc' = [pc EXCEPT ![t] = to]

Overlaps(t) == overlapped' = (overlapped \/ \E u \in Thread \ {t} : pc[u] # "idle")

\* f with the value v at x.
Put(f, x, v) == [y \in DOMAIN f \cup {x} |-> IF y = x THEN v ELSE f[y]]

\* A deque with maxlen: the oldest item makes room.
PushBounded(q, x) == LET longer == Append(q, x)
                     IN  IF Len(longer) > Window THEN Tail(longer) ELSE longer

\* What a dict comprehension started when the dict was f may find now.  A value
\* that came and went in between is left out: no property tells it apart.
Seen(f, now) ==
    {g \in [DOMAIN f -> {f[x] : x \in DOMAIN f} \cup {now[x] : x \in DOMAIN f}] :
        \A x \in DOMAIN f : g[x] \in {f[x], now[x]}}

Resized(f, now) == DOMAIN f # DOMAIN now

-----------------------------------------------------------------------------
(* analyze_event.                                                          *)

\* Reading the symbol's history tracks the symbol.
ReceiveEvent(t, s) ==
    /\ Len(symbolOf) < MaxEvents
    /\ Go(t, "idle", "append")
    /\ symbolOf' = Append(symbolOf, s)
    /\ history' = IF s \in DOMAIN history THEN history ELSE Put(history, s, <<>>)
    /\ job' = [job EXCEPT ![t] = [op |-> "analyze", id |-> Len(symbolOf) + 1]]
    /\ Overlaps(t)
    /\ UNCHANGED <<alerts, file, created, reviewed, analyzed, bounds>>

\* The event enters the window; the score is below the threshold or not.
AppendHistory(t) ==
    /\ \/ Go(t, "append", "answer") /\ job' = [job EXCEPT ![t].op = "no alert"]
       \/ Go(t, "append", "alert") /\ UNCHANGED job
    /\ LET s == symbolOf[job[t].id]
       IN  history' = [history EXCEPT ![s] = PushBounded(@, job[t].id)]
    /\ UNCHANGED <<alerts, file, ghosts, bounds>>

SetAlert(t) ==
    /\ Go(t, "alert", "save")
    /\ alerts' = Put(alerts, job[t].id, Pending)
    /\ UNCHANGED <<history, file, job, ghosts, bounds>>

-----------------------------------------------------------------------------
(* review_alert: an unknown alert is a 404 and changes nothing.            *)

ReceiveReview(t, a, verdict) ==
    /\ reviews < MaxReviews
    /\ reviews' = reviews + 1
    /\ a \in DOMAIN alerts
    /\ Go(t, "idle", "review")
    /\ job' = [job EXCEPT ![t] = [op |-> "review", id |-> a, verdict |-> verdict]]
    /\ Overlaps(t)
    /\ UNCHANGED <<memory, file, symbolOf, created, reviewed, analyzed, saveFailures, crashes>>

SetReview(t) ==
    /\ Go(t, "review", "save")
    /\ alerts' = Put(alerts, job[t].id, job[t].verdict)
    /\ UNCHANGED <<history, file, job, ghosts, bounds>>

-----------------------------------------------------------------------------
(* _save_state.                                                            *)

Abort(t) == job' = [job EXCEPT ![t] = NoJob] /\ UNCHANGED <<memory, ghosts>>

BeginCopy(t) ==
    /\ Go(t, "save", "alerts")
    /\ job' = [job EXCEPT ![t] = [op |-> @.op, id |-> @.id, alerts |-> alerts]]
    /\ UNCHANGED <<memory, file, ghosts, bounds>>

CopyAlerts(t) ==
    /\ Go(t, "alerts", "history")
    /\ ~ Resized(job[t].alerts, alerts)
    /\ \E copy \in Seen(job[t].alerts, alerts) :
           job' = [job EXCEPT ![t] = [op |-> @.op, id |-> @.id, copy |-> copy,
                                      history |-> history]]
    /\ UNCHANGED <<memory, file, ghosts, bounds>>

\* Mutant: the document takes the windows first and the alerts after them.
CopyHistoryFirst(t) ==
    /\ Go(t, "history", "store")
    /\ job' = [job EXCEPT ![t] = [op |-> @.op, id |-> @.id,
                   document |-> [alerts |-> alerts, history |-> @.history]]]
    /\ UNCHANGED <<memory, file, ghosts, bounds>>

CopyHistory(t) ==
    /\ Go(t, "history", "store")
    /\ ~ Resized(job[t].history, history)
    /\ \E copy \in Seen(job[t].history, history) :
           job' = [job EXCEPT ![t] = [op |-> @.op, id |-> @.id,
                       document |-> [alerts |-> job[t].copy, history |-> copy]]]
    /\ UNCHANGED <<memory, file, ghosts, bounds>>

\* RuntimeError: another thread added an alert or a symbol meanwhile.
CopyRaises(t) ==
    /\ \/ Go(t, "alerts", "idle") /\ Resized(job[t].alerts, alerts)
       \/ Go(t, "history", "idle") /\ Resized(job[t].history, history)
    /\ Abort(t)
    /\ UNCHANGED <<file, bounds>>

Store(t) ==
    /\ Go(t, "store", "record")
    /\ file' = job[t].document
    /\ UNCHANGED <<memory, job, ghosts, bounds>>

\* Mutant: the request goes on although the store raised.
StoreFailsUnnoticed(t) ==
    /\ saveFailures < MaxSaveFailures
    /\ saveFailures' = saveFailures + 1
    /\ Go(t, "store", "record")
    /\ UNCHANGED <<memory, file, job, ghosts, reviews, crashes>>

\* The store raises; of an upload, only the answer may have been lost.
StoreFails(t) ==
    /\ saveFailures < MaxSaveFailures
    /\ saveFailures' = saveFailures + 1
    /\ Go(t, "store", "idle")
    /\ file' \in {file, job[t].document}
    /\ Abort(t)
    /\ UNCHANGED <<reviews, crashes>>

\* Mutant: the alert is put back after its block was recorded.
RecordRestores(t) ==
    /\ Go(t, "record", "answer")
    /\ alerts' = IF job[t].op = "analyze" THEN Put(alerts, job[t].id, Pending) ELSE alerts
    /\ UNCHANGED <<history, file, job, ghosts, bounds>>

\* record_ledger_event; whether the append succeeds goes unnoticed.
Record(t) ==
    /\ Go(t, "record", "answer")
    /\ UNCHANGED <<memory, file, job, ghosts, bounds>>

Answer(t) ==
    /\ Go(t, "answer", "idle")
    /\ LET is(op) == IF job[t].op = op THEN {job[t].id} ELSE {}
       IN  /\ created'  = created \cup is("analyze")
           /\ reviewed' = reviewed \cup is("review")
           /\ analyzed' = analyzed \cup is("analyze") \cup is("no alert")
    /\ job' = [job EXCEPT ![t] = NoJob]
    /\ UNCHANGED <<memory, file, symbolOf, overlapped, bounds>>

\* The process stops anywhere and starts again with _load_state.
Restart ==
    /\ crashes < MaxCrashes
    /\ crashes' = crashes + 1
    /\ alerts' = file.alerts /\ history' = file.history
    /\ pc' = [t \in Thread |-> "idle"] /\ job' = [t \in Thread |-> NoJob]
    /\ UNCHANGED <<file, ghosts, reviews, saveFailures>>

Step(t) == \/ AppendHistory(t) \/ SetAlert(t) \/ SetReview(t)
           \/ BeginCopy(t) \/ CopyAlerts(t) \/ CopyHistory(t) \/ CopyRaises(t)
           \/ Store(t) \/ StoreFails(t) \/ Record(t) \/ Answer(t)

Next == \/ \E t \in Thread, s \in Symbol : ReceiveEvent(t, s)
        \/ \E t \in Thread, a \in Id, v \in Verdict : ReceiveReview(t, a, v)
        \/ \E t \in Thread : Step(t)
        \/ Restart

Spec == Init /\ [][Next]_vars

-----------------------------------------------------------------------------
(* What must hold.                                                         *)

\* As long as no two requests overlapped: an alert the caller was told of is
\* stored, and once a review was answered its alert is never stored as pending
\* again, whatever fails or restarts later.
AckedStored ==
    ~overlapped => /\ created \subseteq DOMAIN file.alerts
                   /\ \A a \in reviewed : file.alerts[a] # Pending

\* Under any interleaving: the document never holds an alert without
\* the event that raised it, unless newer events have filled the window: the
\* window and the alerts grow in that order, and are copied in the other.
AlertsHaveTheirHistory ==
    \A a \in DOMAIN file.alerts :
        LET s == symbolOf[a]
        IN  /\ s \in DOMAIN file.history
            /\ a \in ToSet(file.history[s]) \/ Len(file.history[s]) = Window

\* Under any interleaving: within one process no alert falls back from
\* a reviewed status to pending.
ReviewNotUndone ==
    [][crashes' = crashes =>
          \A a \in DOMAIN alerts : alerts[a] # Pending =>
              a \in DOMAIN alerts' /\ alerts'[a] # Pending]_vars

=============================================================================
