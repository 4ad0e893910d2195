--------------------------- MODULE RegistryStore ---------------------------
(***************************************************************************)
(* The registry service: InMemoryRegistryStore (registry_service/store.py) *)
(* under the request handlers and the periodic verifier of main.py.        *)
(*                                                                         *)
(* Handlers are plain functions, so each request runs in a thread of the   *)
(* server's pool; the verifier is one more thread.  A store operation holds *)
(* the lock while it changes memory and then writes peers.json and, after  *)
(* it, ledger.json, each replaced atomically.  Between two operations of a *)
(* handler the lock is free.  The process may stop at any step, a write    *)
(* may raise, and a stored block may be altered behind the program's back. *)
(***************************************************************************)
EXTENDS LedgerChain

CONSTANTS
    Worker,             \* threads that serve requests
    Node,               \* node_id of the peers
    NoBlock,            \* "nothing appended yet"
    MaxClock,           \* bounds of the instance: the clock,
    MaxRequests,        \* requests received,
    MaxSaveFailures,    \* writes that raise,
    MaxCrashes,         \* process restarts,
    MaxTampers,         \* alterations of the stored ledger,
    MaxFailures         \* failed verifications counted by one process

Verifier == "verifier"
Thread   == Worker \cup {Verifier}
Free     == "free"
Registry == "registry_service"

\* The event type each kind of request records.
EventOf == [register  |-> "peer_registered",
            heartbeat |-> "peer_heartbeat",
            append    |-> "client_event",
            report    |-> "ledger_verification_failed"]
Op == {"register", "heartbeat", "append", "report"}

ASSUME NamesAssumption ==
    /\ {EventOf[op] : op \in Op} \subseteq EventType
    /\ Node \cup {Registry} \subseteq Actor
    /\ Verifier \notin Worker
    /\ Free \notin Worker
    /\ NoBlock \notin Block

ASSUME BoundsAssumption ==
    /\ {MaxClock, MaxRequests, MaxSaveFailures} \subseteq Nat
    /\ {MaxCrashes, MaxTampers, MaxFailures} \subseteq Nat

VARIABLES
    peers,          \* _peers: last_heartbeat of each registered node
    ledger,         \* _ledger
    peersFile,      \* peers.json
    ledgerFile,     \* ledger.json
    lock,           \* the thread that holds _lock
    saving,         \* the file the lock's holder is about to write
    pc,             \* what each thread does once it does not hold the lock
    req,            \* its request
    result,         \* the block it appended
    verification,   \* _verification_state: failures, last_result.valid
    clock,          \* utc_now(), assumed not to run backwards
    acked,          \* history: blocks of requests answered with success
    requests, saveFailures, crashes, tampers    \* counters of the bounds

memory == <<peers, ledger>>
files  == <<peersFile, ledgerFile>>
bounds == <<requests, saveFailures, crashes, tampers>>
vars   == <<memory, files, lock, saving, pc, req, result, verification,
            clock, acked, bounds>>

\* A request: what is asked, by whom, and its number: the observed_at of a
\* heartbeat, the payload of an append, the block count of a report.
Request == [op : Op, actor : Actor, arg : Nat]

IsPeerMap(f) == f \in [DOMAIN f -> Nat] /\ DOMAIN f \subseteq Node

TypeOK ==
    /\ IsPeerMap(peers) /\ IsPeerMap(peersFile)
    /\ ledger \in Seq(Block) /\ ledgerFile \in Seq(Block)
    /\ lock \in Thread \cup {Free}
    /\ saving \in {"no", "peers", "ledger"}
    /\ pc \in [Thread -> {"idle", "peer", "block", "reply"}]
    /\ req \in [Thread -> Request]
    /\ result \in [Thread -> Block \cup {NoBlock}]
    /\ verification \in [failures : Nat, valid : BOOLEAN]
    /\ clock \in Nat
    /\ acked \subseteq Block
    /\ {requests, saveFailures, crashes, tampers} \subseteq Nat

NoRequest    == [op |-> "report", actor |-> Registry, arg |-> 0]
Unverified   == [failures |-> 0, valid |-> TRUE]
AllIdle      == [t \in Thread |-> "idle"]
NoRequests   == [t \in Thread |-> NoRequest]
NoResults    == [t \in Thread |-> NoBlock]

Init ==
    /\ peers = <<>> /\ peersFile = <<>>
    /\ ledger = <<>> /\ ledgerFile = <<>>
    /\ lock = Free /\ saving = "no"
    /\ pc = AllIdle /\ req = NoRequests /\ result = NoResults
    /\ verification = Unverified
    /\ clock = 0
    /\ acked = {}
    /\ requests = 0 /\ saveFailures = 0 /\ crashes = 0 /\ tampers = 0

-----------------------------------------------------------------------------
(* Requests: a worker picks one up; a heartbeat is stamped while it is parsed. *)

Accept(w, request, first) ==
    /\ pc[w] = "idle" /\ lock # w
    /\ requests < MaxRequests
    /\ requests' = requests + 1
    /\ req' = [req EXCEPT ![w] = request]
    /\ pc' = [pc EXCEPT ![w] = first]
    /\ UNCHANGED <<memory, files, lock, saving, result, verification, clock,
                   acked, saveFailures, crashes, tampers>>

ReceiveRegister(w, n) ==
    Accept(w, [op |-> "register", actor |-> n, arg |-> 0], "peer")

ReceiveHeartbeat(w, n) ==
    Accept(w, [op |-> "heartbeat", actor |-> n, arg |-> clock], "peer")

\* POST /ledger/blocks leaves the event type and the actor to the client; no
\* service posts blocks of the registry's own types, and none does here.
ReceiveAppend(w, n) ==
    Accept(w, [op |-> "append", actor |-> n, arg |-> requests], "block")

-----------------------------------------------------------------------------
(* The store operations, each one region of the lock.                      *)

\* Mutant: stores how long ago the heartbeat was instead of when.
SetPeerRelative(n, time) ==
    peers' = [m \in DOMAIN peers \cup {n} |-> IF m = n THEN time - clock ELSE peers[m]]

SetPeer(n, time) ==
    peers' = [m \in DOMAIN peers \cup {n} |-> IF m = n THEN time ELSE peers[m]]

Lock(t, next) ==
    /\ lock = Free
    /\ lock' = t
    /\ saving' = "peers"
    /\ pc' = [pc EXCEPT ![t] = next]

UpsertPeer(t) ==
    /\ pc[t] = "peer" /\ req[t].op = "register"
    /\ Lock(t, "block")
    /\ SetPeer(req[t].actor, clock)
    /\ req' = [req EXCEPT ![t].arg = clock]
    /\ UNCHANGED <<ledger, files, result, verification, clock, acked, bounds>>

Heartbeat(t) ==
    /\ pc[t] = "peer" /\ req[t].op = "heartbeat"
    /\ req[t].actor \in DOMAIN peers
    /\ Lock(t, "block")
    /\ SetPeer(req[t].actor, req[t].arg)
    /\ UNCHANGED <<ledger, files, req, result, verification, clock, acked, bounds>>

\* The early return for an unknown peer, answered with 404.
HeartbeatUnknown(t) ==
    /\ pc[t] = "peer" /\ req[t].op = "heartbeat"
    /\ lock = Free
    /\ req[t].actor \notin DOMAIN peers
    /\ pc' = [pc EXCEPT ![t] = "idle"]
    /\ UNCHANGED <<memory, files, lock, saving, req, result, verification,
                   clock, acked, bounds>>

\* Mutant: a heartbeat's block is stamped with the time the heartbeat arrived.
AppendBlockObservedAt(t) ==
    /\ pc[t] = "block"
    /\ Lock(t, "reply")
    /\ LET stamp == IF req[t].op = "heartbeat" THEN req[t].arg ELSE clock
           block == NewBlock(ledger, stamp, EventOf[req[t].op],
                             req[t].actor, req[t].arg)
       IN  /\ ledger' = Append(ledger, block)
           /\ result' = [result EXCEPT ![t] = block]
    /\ UNCHANGED <<peers, files, req, verification, clock, acked, bounds>>

AppendBlock(t) ==
    /\ pc[t] = "block"
    /\ Lock(t, "reply")
    /\ LET block == NewBlock(ledger, clock, EventOf[req[t].op],
                             req[t].actor, req[t].arg)
       IN  /\ ledger' = Append(ledger, block)
           /\ result' = [result EXCEPT ![t] = block]
    /\ UNCHANGED <<peers, files, req, verification, clock, acked, bounds>>

\* Mutant: ends the region after peers.json.
SavePeersOnly(t) ==
    /\ lock = t /\ saving = "peers"
    /\ peersFile' = peers
    /\ saving' = "no" /\ lock' = Free
    /\ UNCHANGED <<memory, ledgerFile, pc, req, result, verification,
                   clock, acked, bounds>>

SavePeers(t) ==
    /\ lock = t /\ saving = "peers"
    /\ peersFile' = peers
    /\ saving' = "ledger"
    /\ UNCHANGED <<memory, ledgerFile, lock, pc, req, result, verification,
                   clock, acked, bounds>>

SaveLedger(t) ==
    /\ lock = t /\ saving = "ledger"
    /\ ledgerFile' = ledger
    /\ saving' = "no" /\ lock' = Free
    /\ UNCHANGED <<memory, peersFile, pc, req, result, verification, clock,
                   acked, bounds>>

\* Mutant: the files are written in place, a failed write leaves one empty.
SaveFailsInPlace(t) ==
    /\ lock = t
    /\ saveFailures < MaxSaveFailures
    /\ saveFailures' = saveFailures + 1
    /\ saving' = "no" /\ lock' = Free
    /\ pc' = [pc EXCEPT ![t] = "idle"]
    /\ peersFile'  = IF saving = "peers"  THEN <<>> ELSE peersFile
    /\ ledgerFile' = IF saving = "ledger" THEN <<>> ELSE ledgerFile
    /\ UNCHANGED <<memory, req, result, verification, clock, acked,
                   requests, crashes, tampers>>

\* Mutant: acquire and release are not paired by a "with" statement.
SaveFailsKeepsLock(t) ==
    /\ lock = t /\ saving # "no"
    /\ saveFailures < MaxSaveFailures
    /\ saveFailures' = saveFailures + 1
    /\ saving' = "no"
    /\ pc' = [pc EXCEPT ![t] = "idle"]
    /\ UNCHANGED <<memory, files, lock, req, result, verification, clock, acked,
                   requests, crashes, tampers>>

\* A write raises: the old file stays, memory keeps the change, the lock is
\* released and the request ends with an error.
SaveFails(t) ==
    /\ lock = t
    /\ saveFailures < MaxSaveFailures
    /\ saveFailures' = saveFailures + 1
    /\ saving' = "no" /\ lock' = Free
    /\ pc' = [pc EXCEPT ![t] = "idle"]
    /\ UNCHANGED <<memory, files, req, result, verification, clock, acked,
                   requests, crashes, tampers>>

\* Mutant: answers while the files are still being written.
ReplyEarly(t) ==
    /\ pc[t] = "reply"
    /\ pc' = [pc EXCEPT ![t] = "idle"]
    /\ acked' = IF t = Verifier THEN acked ELSE acked \cup {result[t]}
    /\ UNCHANGED <<memory, files, lock, saving, req, result, verification,
                   clock, bounds>>

\* The handler returns; the verifier answers nobody.
Reply(t) ==
    /\ pc[t] = "reply" /\ lock # t
    /\ pc' = [pc EXCEPT ![t] = "idle"]
    /\ acked' = IF t = Verifier THEN acked ELSE acked \cup {result[t]}
    /\ UNCHANGED <<memory, files, lock, saving, req, result, verification,
                   clock, bounds>>

-----------------------------------------------------------------------------
(* The verifier's round, the clock, and the faults.                        *)

VerifyIntact ==
    /\ pc[Verifier] = "idle" /\ lock = Free
    /\ Valid(ledger)
    /\ verification' = [verification EXCEPT !.valid = TRUE]
    /\ UNCHANGED <<memory, files, lock, saving, pc, req, result, clock, acked,
                   bounds>>

\* Mutant: counts the failure and records nothing.
VerifyBrokenUnreported ==
    /\ pc[Verifier] = "idle" /\ lock = Free
    /\ ~Valid(ledger)
    /\ verification.failures < MaxFailures
    /\ verification' = [failures |-> verification.failures + 1, valid |-> FALSE]
    /\ UNCHANGED <<memory, files, lock, saving, pc, req, result, clock, acked,
                   bounds>>

VerifyBroken ==
    /\ pc[Verifier] = "idle" /\ lock = Free
    /\ ~Valid(ledger)
    /\ verification.failures < MaxFailures
    /\ verification' = [failures |-> verification.failures + 1, valid |-> FALSE]
    /\ pc' = [pc EXCEPT ![Verifier] = "block"]
    /\ req' = [req EXCEPT ![Verifier] =
                  [op |-> "report", actor |-> Registry, arg |-> Len(ledger)]]
    /\ UNCHANGED <<memory, files, lock, saving, result, clock, acked, bounds>>

Tick ==
    /\ clock < MaxClock
    /\ clock' = clock + 1
    /\ UNCHANGED <<memory, files, lock, saving, pc, req, result, verification,
                   acked, bounds>>

\* Mutant: the new process starts without loading the ledger.
RestartEmpty ==
    /\ crashes < MaxCrashes
    /\ crashes' = crashes + 1
    /\ peers' = peersFile /\ ledger' = <<>>
    /\ lock' = Free /\ saving' = "no"
    /\ pc' = AllIdle /\ req' = NoRequests /\ result' = NoResults
    /\ verification' = Unverified
    /\ UNCHANGED <<files, clock, acked, requests, saveFailures, tampers>>

\* The process stops anywhere and a new one loads the two files.
Restart ==
    /\ crashes < MaxCrashes
    /\ crashes' = crashes + 1
    /\ peers' = peersFile /\ ledger' = ledgerFile
    /\ lock' = Free /\ saving' = "no"
    /\ pc' = AllIdle /\ req' = NoRequests /\ result' = NoResults
    /\ verification' = Unverified
    /\ UNCHANGED <<files, clock, acked, requests, saveFailures, tampers>>

\* One stored field of one block is altered, as test_ledger_chain does.
Altered(b) ==
    {[b EXCEPT !.body.payload_hash = @ + 1],
     [b EXCEPT !.body.timestamp = @ + 1],
     [b EXCEPT !.previous_hash = Append(@, b.body)],
     [b EXCEPT !.block_hash = b.previous_hash]}

Tamper ==
    /\ tampers < MaxTampers
    /\ tampers' = tampers + 1
    /\ \E i \in 1..Len(ledgerFile) : \E b \in Altered(ledgerFile[i]) :
           ledgerFile' = [ledgerFile EXCEPT ![i] = b]
    /\ UNCHANGED <<memory, peersFile, lock, saving, pc, req, result,
                   verification, clock, acked, requests, saveFailures, crashes>>

Receive(w) == \E n \in Node : \/ ReceiveRegister(w, n)
                              \/ ReceiveHeartbeat(w, n)
                              \/ ReceiveAppend(w, n)

Step(t) == \/ UpsertPeer(t) \/ Heartbeat(t) \/ HeartbeatUnknown(t)
           \/ AppendBlock(t) \/ SavePeers(t) \/ SaveLedger(t)
           \/ Reply(t)

Verify == VerifyIntact \/ VerifyBroken

Next == \/ \E w \in Worker : Receive(w)
        \/ \E t \in Thread : Step(t) \/ SaveFails(t)
        \/ Verify
        \/ Tick
        \/ Restart
        \/ Tamper

Spec == Init /\ [][Next]_vars

\* Every thread keeps running; the faults, the clock and the clients need not.
Fairness == /\ \A t \in Thread : WF_vars(Step(t))
            /\ WF_vars(Verify)

FairSpec == Spec /\ Fairness

-----------------------------------------------------------------------------
(* What must hold.                                                         *)

\* While nobody altered the stored ledger, every link and seal of the chain
\* holds, in memory and on disk, whatever the interleaving, the failed writes
\* and the restarts: verify_ledger then never raises a false alarm.
ChainIntact == tampers = 0 => Valid(ledger) /\ Valid(ledgerFile)

\* While nobody altered the stored ledger: memory is never behind the disk,
\* blocks are numbered by position, and each answer given or about to be given
\* is for a block of its own, which is on disk as soon as its thread has left
\* the lock.
AnswersStoredOnce ==
    tampers = 0 =>
        /\ Extends(ledger, ledgerFile)
        /\ \A i \in 1..Len(ledger) : ledger[i].body.block_id = i
        /\ acked \subseteq BlocksOf(ledgerFile)
        /\ \A t \in Thread : pc[t] = "reply" =>
               /\ result[t] \in BlocksOf(IF lock = t THEN ledger ELSE ledgerFile)
               /\ result[t] \notin acked
               /\ \A u \in Thread : pc[u] = "reply" /\ u # t
                                        => result[u] # result[t]

\* A ledger that verify_ledger accepts contains every block whose append was
\* ever answered with success, after any number of restarts and alterations;
\* the same for the stored ledger.
VerifiedLedgerKeepsAnswered ==
    /\ Valid(ledger)     => acked \subseteq BlocksOf(ledger)
    /\ Valid(ledgerFile) => acked \subseteq BlocksOf(ledgerFile)

\* Every reader takes the lock; unless a write raised or the file was altered,
\* what it sees under the lock has already been written to both files.
ReadersSeeStoredState ==
    lock = Free /\ saveFailures = 0 /\ tampers = 0
        => peersFile = peers /\ ledgerFile = ledger

\* The time stamps never decrease along the chain, and a block about a peer is
\* not stamped before the heartbeat or registration it records: two requests
\* racing for the lock cannot write history out of order.  (Said of ledgers whose
\* clients post no registration or heartbeat blocks of their own.)
StampsInOrder ==
    tampers = 0 =>
        \A j \in 1..Len(ledger) :
            /\ \A i \in 1..j : ledger[i].body.timestamp <= ledger[j].body.timestamp
            /\ ledger[j].body.event_type \in {"peer_registered", "peer_heartbeat"}
                   => ledger[j].body.payload_hash <= ledger[j].body.timestamp

\* A stored block about a peer comes with a stored peer: peers.json is written
\* first, so no crash leaves the ledger talking about a peer that is unknown.
\* (Said of ledgers whose clients post no such blocks of their own.)
LedgerPeersStored ==
    \A i \in 1..Len(ledgerFile) :
        ledgerFile[i].body.event_type \in {"peer_registered", "peer_heartbeat"}
            => ledgerFile[i].body.actor_node \in DOMAIN peersFile

\* Within the life of a process, a chain that no longer verifies never starts
\* to verify again: appending on top of a damaged chain hides nothing.
DamageNotHidden ==
    [][~Valid(ledger) /\ crashes' = crashes => ~Valid(ledger')]_vars

\* A damaged chain in memory is noticed by the verifier and, as it reports on
\* the same chain, recorded in it.
Reported ==
    /\ ~verification.valid
    /\ \E i \in 1..Len(ledger) :
           ledger[i].body.event_type = "ledger_verification_failed"
DamageReported == ~Valid(ledger) ~> Reported

\* Every request ends, whatever failed on its way: no path keeps the lock.
RequestsEnd == \A w \in Worker : pc[w] # "idle" ~> pc[w] = "idle"

\* The store implements the abstract log: its log is ledger.json.
Log == INSTANCE AuditLog WITH log <- ledgerFile, answered <- acked
ImplementsAuditLog == Log!Spec

=============================================================================
