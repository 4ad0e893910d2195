---------------------------- MODULE PeerOverlay ----------------------------
(***************************************************************************)
(* Membership of the overlay: the registration and heartbeat loop of every *)
(* service (shared/runtime/service_runtime.py) against the peer table of   *)
(* the registry (registry_service), over a network that loses and delays.  *)
(*                                                                         *)
(* The timeout of httpx limits each wait of a request by itself: the       *)
(* connection, the TLS handshake of https, each read of the answer.  Every *)
(* attempt opens a connection of its own, so an attempt may last several   *)
(* timeouts.  Sending the short request never waits.                       *)
(*                                                                         *)
(* A peer's last_heartbeat is represented by its age; a heartbeat is       *)
(* stamped when the registry parses it and applied when its thread gets    *)
(* the lock, possibly long after the sender has given up on it.            *)
(***************************************************************************)
EXTENDS Naturals

CONSTANTS
    Node,           \* the services
    Interval,       \* heartbeat_interval_seconds, in ticks
    Timeout,        \* request_timeout_seconds, the limit of one wait, in ticks
    Connects,       \* waits before the request is sent: 1, with https 2
    Reads,          \* waits for the pieces the answer comes in
    StaleAfter,     \* an older heartbeat makes a peer stale
    OfflineAfter,   \* an older one makes it offline
    MaxMissed,      \* bound: failed attempts in a row that are counted
    MaxDelay,       \* bound: ticks a request may stay under way
    MaxFaults       \* bound: losses, failures and crashes altogether

ASSUME TimingAssumption ==
    /\ {Interval, Timeout, Connects, Reads} \subseteq Nat \ {0}
    /\ {StaleAfter, OfflineAfter, MaxMissed, MaxDelay, MaxFaults} \subseteq Nat
    /\ StaleAfter < OfflineAfter

VARIABLES
    alive,          \* the services that run
    registered,     \* those whose _registered is True
    timer,          \* ticks until the loop wakes, or until its wait times out
    stage,          \* 0 between two calls, then which wait of the call it is
    answer,         \* the answer on its way to each of them
    wire,           \* requests under way
    up,             \* the registry runs
    peers,          \* nodes in the registry's table
    age,            \* ticks since their last_heartbeat
    missed,         \* history: failed attempts since the last success, capped
    forgot,         \* history: the registry lost its table at some point
    faults          \* faults so far

node     == <<alive, registered, timer, stage, missed>>
registry == <<up, peers, age, forgot>>
vars     == <<node, answer, wire, registry, faults>>

Waits  == Connects + Reads
Oldest == OfflineAfter + 1      \* ages are told apart up to here
Min(a, b) == IF a < b THEN a ELSE b

Message == [node : Node, kind : {"register", "heartbeat"},
            since : 0..MaxDelay, awaited : BOOLEAN]

TypeOK ==
    /\ alive \subseteq Node /\ registered \subseteq Node
    /\ stage \in [Node -> 0..Waits]
    /\ timer \in [Node -> 0..(Interval + Timeout)]
    /\ answer \in [Node -> {"none", "ok", "error"}]
    /\ wire \subseteq Message
    /\ up \in BOOLEAN /\ forgot \in BOOLEAN
    /\ peers \subseteq Node
    /\ age \in [Node -> 0..Oldest]
    /\ missed \in [Node -> 0..(MaxMissed + 1)]
    /\ faults \in 0..MaxFaults

\* Mutant: the thresholds are tested in the wrong order.
StatusStaleFirst(n) ==
    IF n \notin peers THEN "unknown"
    ELSE IF age[n] > StaleAfter THEN "stale"
    ELSE IF age[n] > OfflineAfter THEN "offline"
    ELSE "online"

Status(n) ==
    IF n \notin peers THEN "unknown"
    ELSE IF age[n] > OfflineAfter THEN "offline"
    ELSE IF age[n] > StaleAfter THEN "stale"
    ELSE "online"

Init ==
    /\ alive = {} /\ registered = {}
    /\ stage = [n \in Node |-> 0]
    /\ timer = [n \in Node |-> 0]
    /\ answer = [n \in Node |-> "none"]
    /\ wire = {}
    /\ up = TRUE /\ peers = {} /\ forgot = FALSE
    /\ age = [n \in Node |-> 0]
    /\ missed = [n \in Node |-> MaxMissed + 1]
    /\ faults = 0

\* The requests under way once nobody waits for those of n.
Abandoned(n) == {IF m.node = n THEN [m EXCEPT !.awaited = FALSE] ELSE m : m \in wire}

Fault == faults < MaxFaults /\ faults' = faults + 1

-----------------------------------------------------------------------------
(* The service's loop.                                                     *)

\* start(): the first call is made at once.
Start(n) ==
    /\ n \notin alive
    /\ alive' = alive \cup {n}
    /\ UNCHANGED <<registered, timer, stage, missed, answer, wire, registry, faults>>

\* stop() and a crash look alike: nothing is deregistered.
Stop(n) ==
    /\ n \in alive
    /\ Fault
    /\ alive' = alive \ {n}
    /\ registered' = registered \ {n}
    /\ stage' = [stage EXCEPT ![n] = 0]
    /\ timer' = [timer EXCEPT ![n] = 0]
    /\ missed' = [missed EXCEPT ![n] = MaxMissed + 1]
    /\ answer' = [answer EXCEPT ![n] = "none"]
    /\ wire' = Abandoned(n)
    /\ UNCHANGED registry

\* A new client, whose first wait is for the connection.
Call(n) ==
    /\ n \in alive /\ stage[n] = 0 /\ timer[n] = 0
    /\ stage' = [stage EXCEPT ![n] = 1]
    /\ timer' = [timer EXCEPT ![n] = Timeout]
    /\ UNCHANGED <<alive, registered, missed, answer, wire, registry, faults>>

\* One wait for the connection is over; after the last the request is sent.
Connected(n) ==
    /\ stage[n] \in 1..Connects /\ up
    /\ stage' = [stage EXCEPT ![n] = @ + 1]
    /\ timer' = [timer EXCEPT ![n] = Timeout]
    /\ LET kind == IF n \in registered THEN "heartbeat" ELSE "register"
           sent == [node |-> n, kind |-> kind, since |-> 0, awaited |-> TRUE]
       IN  wire' = IF stage[n] = Connects THEN wire \cup {sent} ELSE wire
    /\ UNCHANGED <<alive, registered, missed, answer, registry, faults>>

\* A piece of the answer: the wait for the next has a whole timeout again.
GetsPart(n) ==
    /\ stage[n] \in (Connects + 1)..(Waits - 1) /\ answer[n] # "none"
    /\ stage' = [stage EXCEPT ![n] = @ + 1]
    /\ timer' = [timer EXCEPT ![n] = Timeout]
    /\ UNCHANGED <<alive, registered, missed, answer, wire, registry, faults>>

\* Mutant: a failure does not reset _registered.
SleepStaysRegistered(n, ok) ==
    /\ registered' = IF ok THEN registered \cup {n} ELSE registered
    /\ missed' = [missed EXCEPT ![n] = IF ok THEN 0 ELSE Min(@ + 1, MaxMissed + 1)]
    /\ stage' = [stage EXCEPT ![n] = 0]
    /\ timer' = [timer EXCEPT ![n] = Interval]
    /\ answer' = [answer EXCEPT ![n] = "none"]
    /\ UNCHANGED alive

\* The end of one _register_or_heartbeat: back to sleep for an interval.
Sleep(n, ok) ==
    /\ registered' = IF ok THEN registered \cup {n} ELSE registered \ {n}
    /\ missed' = [missed EXCEPT ![n] = IF ok THEN 0 ELSE Min(@ + 1, MaxMissed + 1)]
    /\ stage' = [stage EXCEPT ![n] = 0]
    /\ timer' = [timer EXCEPT ![n] = Interval]
    /\ answer' = [answer EXCEPT ![n] = "none"]
    /\ UNCHANGED alive

Answered(n) ==
    /\ stage[n] > Connects /\ answer[n] # "none"
    /\ Sleep(n, answer[n] = "ok")
    /\ UNCHANGED <<wire, registry, faults>>

\* Nobody listens, or the connection carries neither request nor answer.
Broken(n) ==
    \/ stage[n] \in 1..Connects /\ ~up
    \/ /\ stage[n] > Connects /\ answer[n] = "none"
       /\ \A m \in wire : m.awaited => m.node # n

\* The exception of the HTTP client: whatever is under way is on its own now.
Fails(n) ==
    /\ stage[n] > 0
    /\ timer[n] = 0 \/ Broken(n)
    /\ Sleep(n, FALSE)
    /\ wire' = Abandoned(n)
    /\ UNCHANGED <<registry, faults>>

-----------------------------------------------------------------------------
(* The registry and the network.                                           *)

Respond(m, what) ==
    /\ wire' = wire \ {m}
    /\ answer' = IF m.awaited THEN [answer EXCEPT ![m.node] = what] ELSE answer

\* register_peer: present, and stamped when the lock is taken.
HandleRegister(m) ==
    /\ up /\ m.kind = "register"
    /\ peers' = peers \cup {m.node}
    /\ age' = [age EXCEPT ![m.node] = 0]
    /\ Respond(m, "ok")
    /\ UNCHANGED <<node, up, forgot, faults>>

\* Mutant: peer_heartbeat does not write last_heartbeat.
HandleHeartbeatUnstamped(m) ==
    /\ up /\ m.kind = "heartbeat" /\ m.node \in peers
    /\ Respond(m, "ok")
    /\ UNCHANGED <<node, registry, faults>>

\* A heartbeat is stamped with the time it was parsed, some ticks ago.
Stamped(m) == \E lag \in 0..m.since : age' = [age EXCEPT ![m.node] = Min(lag, Oldest)]

\* peer_heartbeat.
HandleHeartbeat(m) ==
    /\ up /\ m.kind = "heartbeat" /\ m.node \in peers
    /\ Stamped(m)
    /\ Respond(m, "ok")
    /\ UNCHANGED <<node, up, peers, forgot, faults>>

\* 404 for a node that is not in the table.
HandleUnknown(m) ==
    /\ up /\ m.kind = "heartbeat" /\ m.node \notin peers
    /\ Respond(m, "error")
    /\ UNCHANGED <<node, registry, faults>>

\* The table is updated, but the ledger append that follows raises: a 500.
HandleFails(m) ==
    /\ up /\ Fault
    /\ IF m.kind = "heartbeat"
       THEN m.node \in peers /\ Stamped(m) /\ UNCHANGED peers
       ELSE age' = [age EXCEPT ![m.node] = 0] /\ peers' = peers \cup {m.node}
    /\ Respond(m, "error")
    /\ UNCHANGED <<node, up, forgot>>

LoseRequest(m) ==
    /\ Fault
    /\ wire' = wire \ {m}
    /\ UNCHANGED <<node, answer, registry>>

LoseAnswer(n) ==
    /\ Fault
    /\ answer[n] # "none"
    /\ answer' = [answer EXCEPT ![n] = "none"]
    /\ UNCHANGED <<node, wire, registry>>

RegistryStops ==
    /\ up /\ Fault
    /\ up' = FALSE
    /\ wire' = {}
    /\ UNCHANGED <<node, answer, peers, age, forgot>>

\* The new process finds peers.json, or a container without it.
RegistryStarts ==
    /\ ~up /\ up' = TRUE
    /\ \/ UNCHANGED <<peers, age, forgot>>
       \/ peers' = {} /\ age' = [n \in Node |-> 0] /\ forgot' = TRUE
    /\ UNCHANGED <<node, answer, wire, faults>>

\* A tick passes when no loop has anything due.
Tick ==
    /\ \A n \in alive : timer[n] > 0
    /\ timer' = [n \in Node |-> IF n \in alive THEN timer[n] - 1 ELSE timer[n]]
    /\ age' = [n \in Node |-> IF n \in peers THEN Min(age[n] + 1, Oldest) ELSE 0]
    /\ wire' = {[m EXCEPT !.since = @ + 1] : m \in {x \in wire : x.since < MaxDelay}}
    /\ UNCHANGED <<alive, registered, stage, missed, answer, up, peers, forgot, faults>>

Loop(n)   == Call(n) \/ Connected(n) \/ GetsPart(n) \/ Answered(n) \/ Fails(n)
Handle(m) == HandleRegister(m) \/ HandleHeartbeat(m) \/ HandleUnknown(m)

Next ==
    \/ \E n \in Node : Start(n) \/ Stop(n) \/ Loop(n) \/ LoseAnswer(n)
    \/ \E m \in wire : Handle(m) \/ HandleFails(m) \/ LoseRequest(m)
    \/ RegistryStops \/ RegistryStarts \/ Tick

Spec == Init /\ [][Next]_vars

\* Loops and time go on, a request that stays awaited is handled, somebody
\* restarts the registry, and from some point on connections, requests and
\* answers get through within the tick in which they are begun.
Fairness ==
    /\ \A n \in Node : WF_vars(Loop(n))
    /\ WF_vars(\E m \in wire : m.awaited /\ Handle(m))
    /\ WF_vars(Tick)
    /\ WF_vars(RegistryStarts)

Underway(n) ==
    \/ stage[n] \in 1..Connects \/ answer[n] # "none"
    \/ \E m \in wire : m.awaited /\ m.node = n

PromptEventually == <>[][Tick => \A n \in Node : ~Underway(n)]_vars

FairSpec == Spec /\ Fairness /\ PromptEventually

-----------------------------------------------------------------------------
(* What must hold.                                                         *)

\* The oldest last_heartbeat a service can have after a success and k failed
\* attempts: the reads of the success, an interval and all waits for each
\* failure and for the attempt it is in, and what was under way before.
Longest(k) == Reads * Timeout + (k + 1) * (Interval + Waits * Timeout) + MaxDelay

\* A service that had a success, and so few failed attempts since that their
\* intervals and waits fit in the 90 seconds of store.py, is shown online by a
\* registry that kept its table: no late heartbeat turns last_heartbeat back
\* far enough to make it stale.
OnlineWhileBeating ==
    \A n \in alive : missed[n] <= MaxMissed /\ ~forgot /\ Longest(missed[n]) <= StaleAfter
                          => Status(n) = "online"

\* Once the faults are over, every service that runs ends up online and stays
\* so: registrations lost with the registry's table are made again.
EventuallyOnline == <>[](\A n \in alive : Status(n) = "online")

\* A service that never comes back is eventually shown offline.
DeadShownOffline ==
    \A n \in Node : []<>(n \in alive) \/ []<>(Status(n) \in {"offline", "unknown"})

=============================================================================
