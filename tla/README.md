# QuantIAN: specification, model checking and proofs

QuantIAN is a small peer-to-peer analytics overlay in Python. A supernode, the
registry, keeps the table of peers and a hash-chained ledger; an ingestion peer
takes market messages and routes the normalized events to an anomaly peer and a
risk peer; an IoT bridge feeds the ingestion peer from MQTT; two dashboards and a
deployment script stand around them. The TLA+ modules here model the parts of it
in which order, failure and concurrency decide whether it is correct.

Contents: 1 inventory, 2 modules and how they correspond to the code, 3 runs, 4
fairness, 5 bounds, 6 disagreements between code and documentation, 7 proofs, 8
what is not modelled, 9 plan. `PROJECT.json` has the same information for tools,
with the source lines of every definition, the hazards at their lines, and for
each property a plausible bug of the code that breaks it.

## 1. Inventory

Paths are relative to `src/`. All services are FastAPI applications whose
handlers are plain functions: each request runs in a thread of the server's pool.

| component | state | operations |
|---|---|---|
| registry store (`registry_service/store.py`) | peer table, ledger, one lock, `peers.json`, `ledger.json` | `upsert_peer`, `heartbeat`, `append_block`, `verify_ledger`, readers |
| registry handlers and verifier (`registry_service/main.py`) | `_verification_state` | register, heartbeat, append, periodic verification |
| overlay membership (`shared/runtime/service_runtime.py`) | `_registered`, the loop's task | `start`, `stop`, `_heartbeat_loop`, `_register_or_heartbeat` |
| event routing (same file, `aws_ingestion/main.py`) | local to each request; counters of the ingestion peer | `peers_by_capability`, `route_with_retries`, `append_ledger`, `route_event` |
| ingestion peer (`aws_ingestion/service.py`) | raw messages, events, last message per symbol, `state.json` | `ingest_message`, `store_normalized_event`, `_save_state`, `_load_state` |
| anomaly peer (`azure_anomaly/service.py`) | windows per symbol, alerts, one stored document | `analyze_event`, `review_alert`, `_save_state`, `_load_state` |
| risk peer (`gcp_risk/service.py`) | portfolio, events per symbol, snapshots, one stored document | `ingest_event`, `set_portfolio`, `compute_risk`, `_save_state`, `_load_state` |
| state stores (`shared/storage`) | a file, or a blob | atomic replace of a file, overwrite of a blob |
| edge bridge (`iot/bridge.py`, `iot/mqtt_client.py`, `iot/main.py`) | the connection and subscription, six counters | `start`, `stop`, `_on_connect`, `_on_message`, `_handle_message`: POST to the ingestion peer with a timeout of 5 s |
| web dashboard (`web_dashboard/src`) | the last answer of every poll | `usePolling`: fetch now and at an interval |
| deployment (`scripts/cloud_deploy.py`) | manifests under `dist/live` | a sequence of cloud commands per service, teardown |
| simulator, demos, Streamlit page, packaged copies, infrastructure | none that outlives a run | drivers and configuration |

How they interact. Every service registers at the registry and beats every 15 s
(`_heartbeat_loop`), looks peers up by capability, and records what it did by
`append_ledger`. A market message travels: bridge, `POST /ingestion/messages`,
`ingest_message` (state, save, ledger), `_forward_event`, `route_event` (the peers
of `detect_anomalies`, then of `store_market_events`, then of `compute_risk`, one
after the other, each with retries), and each target saves and records in its
turn. There is no shared state between services other than through these calls.

What is hard about it, and what makes each part correct:

* *Registry.* A handler is two locked operations with the lock free in between
  (table, then ledger); a save writes two files one after the other; a save may
  raise, the process may stop anywhere. Correct: the ledger always verifies, in
  memory and on disk; what was answered is stored exactly once; readers see only
  stored state; the ledger never knows a peer that the table has lost; damage to
  the file is never covered up by later blocks; every request ends.
* *Overlay.* A lost answer, a 404 from a registry that lost its table, a
  heartbeat applied after its sender gave up and moved on, an attempt that lasts
  several timeouts. Correct: a peer is not shown stale as long as its intervals and
  waits fit in the 90 seconds; it finds back by itself; a dead one does not stay
  online.
* *Routing.* A call that timed out may be executed later, next to its own retry.
  Correct: duplicates stay bounded, the ledger tells the truth about deliveries,
  the counters agree with what reached whom, and routing ends.
* *Ingestion and anomaly peer.* Unlocked state and unlocked saves in concurrent
  threads. Correct: nothing that was answered is lost, saves never invent or
  reorder anything, the derived state (last message, windows) is rebuilt right.
* *Risk peer.* The same, and three things of its own: portfolio, events and snapshots in
  one document, a computation that reads the symbols one after the other, and a ledger
  entry that is made before the save. Correct: nothing that was answered is lost, what was
  priced is in a snapshot as far as the portfolio reaches, and a snapshot missing from the
  store was never answered.
* *Edge bridge.* One network thread that delivers, posts and reconnects, and that an
  uncaught exception ends; a session that dies with its connection; an HTTP client that
  gives up on requests that are served all the same; counters that another thread reads
  one by one. Correct: no message overtakes another unnoticed, the bridge duplicates
  nothing, an answer of `/health` bounds what ingestion really took, and as long as the
  thread lives the bridge recovers.
* *Deployment.* A dozen cloud calls per command, any of which may be the last, and
  manifests as the only memory. Correct: whatever was left behind, a bootstrap that
  completes leaves a system that is wired to itself, recorded as it is and seeded, and
  running go-live again completes.
* *Risk arithmetic.* Alignment of unequal series by negative indices, a truncated
  quantile index, a peak that can be zero. Correct: the numbers mean in terms of
  prices what their names say.

## 2. Modules and how they correspond to the code

```
AuditLog  <-- implemented by --  RegistryStore  --EXTENDS-->  LedgerChain

the module           is checked by        and proved about in
RegistryStore        MCRegistryStore      RegistryProofs
PeerOverlay          MCPeerOverlay        OverlayProofs
EventRouting         MCEventRouting       RoutingProofs
IngestionService     MCIngestionService   IngestionProofs
AnomalyService       MCAnomalyService     AnomalyProofs
RiskService          MCRiskService        RiskProofs
RiskMath             MCRiskMath           RiskProofs
EdgeBridge           itself               EdgeBridgeProofs
CloudDeploy          itself               CloudDeployProofs
```

Each `MCxxx` module extends the module `xxx` with what TLC needs (symmetry,
constant values).

**LedgerChain** - the hash chain of `store.py` as operators: `NewBlock` is what
`append_block` builds, `LinkOK` and `SealOK` are the two tests of the loop in
`verify_ledger`, `Valid` the whole loop. SHA-256 over canonical JSON is modelled by
what the code relies on, that equal digests come from equal inputs: a digest is the
list of all that was hashed so far, so hashing a body on top of the previous digest
appends the body.

**RegistryStore** - both layers of the registry. A worker's request goes through
`peer` (the table operation), `block` (the ledger append) and `reply`. `UpsertPeer`,
`Heartbeat` and `AppendBlock` take the lock and change memory; `SavePeers` and
`SaveLedger` are the two files in the order of `_save_state`, the second releases
the lock; `SaveFails` is a raising write: the old file stays (writes go to a
temporary file that is renamed), memory keeps the change, the `with` block releases
the lock, the request ends with an error. The verifier is one more thread; it
appends its report to the chain it checked. `Restart` ends all threads and loads
both files. `Tamper` alters one field of a stored block, as
`tests/test_ledger_chain.py` does. A payload is reduced to one number that tells two
of its kind apart; the status in the table is computed by readers and is left to
`PeerOverlay`. The clock is assumed not to run backwards. `POST /ledger/blocks` lets a
client choose event type and actor; the clients in `ReceiveAppend` are the services of this
repository, none of which posts a registration or heartbeat block of its own. `StampsInOrder`
and `LedgerPeersStored` are about ledgers with such clients only: a block that a client made
up may name any peer and any time.

**AuditLog** - what the other services rely on: a log that only grows at its end,
and answers that are given once each, for entries already in the log. One step may
commit several entries: blocks that an earlier failed write left in memory.

**PeerOverlay** - `_heartbeat_loop` of each service against the registry's table.
The timeout given to `httpx.AsyncClient` limits each wait by itself, and every attempt opens
a connection of its own: `Call` begins the first of `Connects` waits (TCP, with https also
TLS), after the last of them `Connected` sends the request, and then there are up to `Reads`
waits for pieces of the answer (`GetsPart`), each with a whole timeout. An attempt may so last
`Connects + Reads` timeouts; it ends as `Answered`, or as `Fails` when a wait runs out or the
connection is `Broken`. Time passes in ticks of 2.5 s, the request timeout; the other constants
are 15 s = 6, 90 s = 36 and 180 s = 72 ticks. `last_heartbeat` is kept as an age. A message may
stay under way up to `MaxDelay` ticks and be handled after its sender gave up; `Stamped` takes
its time anywhere between sending and handling, since the handler's default timestamp is taken
at parsing and applied under the lock. Ages are told apart up to `Oldest`, one tick beyond what
is shown offline, the heartbeat's included. `HandleFails` is a handler that updated the table
and then raised in the ledger append. `RegistryStarts` finds `peers.json`, or a container
without it.

**EventRouting** - one thread per ingestion request: `Ingest`, `RecordIngested`, then
per stage `Discover`, `NextPeer`, the attempts (`Send`, `Succeeds`, `AttemptFails`)
and the verdict (`RecordRouted`, `RecordFailed`; the third stage records no success).
`Finish` counts the event as forwarded or failed. `append_ledger` and
`peers_by_capability` go through `_request_json`, which turns every failure into
None: an append may be lost unnoticed, a discovery may come back empty. A call on the
wire is executed or refused at any time; an execution may answer with an error
raised after the work. The backoff between attempts only delays and is left out.

**IngestionService** - nothing takes a lock in `aws_ingestion/service.py`, so each
statement that touches shared state is a step of its own: reading the last message,
three updates, the copy of the messages, the copy of the events, the replacement of
the file. The event stands for the pair of its message and its base. A comprehension
over a list that only grows yields everything appended before it ends, so a copy is
one step.

**AnomalyService** - the same for `azure_anomaly/service.py`, with what dicts add: the
comprehensions of `_save_state` raise RuntimeError if another thread adds a key, and
otherwise may see each value before or after a concurrent change (`Seen`; a value that was
there only in between is left out, which no property tells apart). A failed
upload may have replaced the document or not. The score (rules, isolation forest) is a
free choice between alert and no alert. A `review_alert` for an unknown alert changes
nothing and is left out.

**RiskMath** - the return series, the alignment of the positions, value at risk,
drawdown and rolling return of `compute_risk`, in exact fractions that are not reduced (`Same`
is equality of numbers); `Sorted` is the stable sort of `sorted`. `MCRiskMath` feeds it
every short price history and compares it with definitions in terms of prices. Prices are
not negative and the weight is one there, so a zero peak is the first return's; `DrawdownRaises`
itself is any peak of zero, which with short positions or negative prices (`models.py` restricts
neither) may also come later.
Rounding is left out, and with it one float fact that `TailIndex` rests on:
`(1 - 0.95) * length` is slightly above the exact product at the multiples of 20, so
`int` never falls one below it.

**RiskService** - the three POST handlers of `gcp_risk`, unlocked like the ones of
ingestion. `_save_state` iterates over `events_by_symbol` itself: `CopySymbol` takes one
symbol at a time and `CopyRaises` is the RuntimeError when a new symbol has come in
between (lists may grow while the iteration goes on). `compute_risk` takes the portfolio of
the request or the stored one (`ChoosePortfolio`), reads the events of the symbols it has
positions in, one symbol after the other (`ReadSymbol`), and of no others; it may raise (`ComputeRaises`, the division by zero that
`RiskMath` finds), appends the snapshot, records it and only then saves (`Record`, then
`save`). `AfterSave` is `auto_compute`: an event is saved, and if there is a portfolio it
is computed, recorded and saved again. An event is the number of the request that brought
it, a portfolio its number and the symbols of its positions (`Holdings` are the choices), and a
snapshot carries its portfolio and the set of events it was computed from. Portfolio and
snapshots are copied in one step (`CopyRest`) where `_save_state` reads one after the other.

**EdgeBridge** - publisher, broker, bridge and ingestion around `MqttIngestionBridge`.
`OnConnect` is `_on_connect` (only the network thread connects, between callbacks, and
the subscription is asked for every time). `DeliverValid` and `DeliverOther` are the beginning
of `_on_message`, up to the counting of `received`. What follows depends on the kind of the
message. One that does not parse is counted under `errors`; one that is not a market message
under `invalid` and then under `handled`; a valid one is posted, counted when the POST ends
(`Forwarded`, `Refused`, `AnsweredWithError` or `TimedOut`, the last of which leaves the
request on its way, where `Ingest` may take it later) and then under `handled`. Each count is a
step of its own, in the network thread. An answer of `/health` comes from another thread and
reads the six counters one by one: `ReadCounter`, in the order of `stats()`. A message of kind
"raising" makes `json.loads` raise what `_on_message` does not catch (an integer of more than
4300 digits is a plain ValueError, deep nesting a RecursionError): `Raise` ends paho's network
thread, and the process goes on without it, "dead". `EndSession` is paho's default
`clean_session`. `Start` may fail, is only logged then, and the network thread never runs.
`Stop` waits for the callback as `loop_stop` does; `Kill` does not. The broker holds at
most `MaxQueue` messages for the bridge; what it cannot keep is lost, as is everything
published without a subscription.

**CloudDeploy** - `scripts/cloud_deploy.py` and `teardown_cloud.sh`. A command is the list
of calls it still has to make (`plan`), built by `Provision`, `Deploy`, `BootstrapHosts`,
`GoLive`, `Teardown` in the order of the functions of these names. `Create`, `Update`,
`Rebase` and `SaveDeployed` are the four phases that the three deploy functions share: the
first image with the recorded or the placeholder address, the update once the address is
known, the manifest. `Stop` ends a command between two calls; `StopInSave` in the middle of
`save_manifest`, which writes in place: an empty file counts as missing
(`load_manifest` strips it), a cut one raises in every later command. `Exit` is a
command that does not find what it needs. Each cloud keeps what was created: roles,
repositories, groups, services by name. Names, regions and credentials are fixed, so that
a service is found again by its name; with changed arguments it would not be. `Delete` takes
effect at once: AWS deletes a service in the background and may fail to, which is left out.

## 3. Runs

Every property of a passing run is broken by at least one plausible bug of the code
listed in `PROJECT.json` as a mutant; each is an operator next to the definition it
replaces and is marked `Mutant`.

| run | configuration | what it shows |
|---|---|---|
| `registry_safety` | 2 workers and the verifier, 2 peers, 3 requests, 1 failed write, 1 restart | `ChainIntact`: no interleaving, failed write or restart makes the chain invalid. `AnswersStoredOnce`: every answer is for a block of its own, already on disk. `ReadersSeeStoredState`, `StampsInOrder`, `LedgerPeersStored`. `ImplementsAuditLog`: the refinement |
| `registry_damage` | 2 requests, 1 failed write, 1 restart, 1 altered block; fair | a ledger that verifies holds everything answered, in memory and on disk; damage once in memory is neither hidden by later blocks nor left unreported; every request ends |
| `overlay` | 15 s, 2.5 s per wait, 90 s, 180 s; one wait for the connection, two for the answer; 3 faults, delays up to 15 s; fair | a peer with at most two failed attempts since its last success is shown online (after a third it may be shown stale); after the last fault it stays online for good, also if the table was lost; a dead peer does not stay online |
| `routing` | 1 event, 3 stages, 3 attempts, 1 lost append or discovery; fair | bounded duplication, true verdicts, `forwarded` means that every discovered peer executed it, routing ends |
| `ingestion` | 2 threads, 2 symbols, 3 requests, 1 failed save, 2 restarts | under any interleaving the ledger hears only of saved events and every base is an earlier message; without overlap, nothing answered is lost and every base is the predecessor, across restarts (`BasesAreRight` has both statements about bases) |
| `ingest_overwritten` | 2 threads, 2 requests | violated, see 6 |
| `anomaly` | 2 threads, 2 symbols, 3 events, 1 review, 1 failed save, 1 restart | the document never has an alert without its event, no review is undone; without overlap, nothing answered is lost |
| `risk_metrics` | two symbols, up to 4 prices from 0..3; all multisets of up to 41 returns | alignment at the newest return, new positions are flat, drawdown and rolling return in terms of prices, exactly when the drawdown raises, the quantile |
| `risk_requests` | 2 threads, 2 symbols, portfolios over one or both, 3 requests, 1 failed save, 1 restart | under any interleaving, for any symbols, some snapshot covers all their events answered after a computation that had positions in them; without overlap the newest one covers those of its own symbols, nothing answered is lost, and a block on the ledger whose snapshot is not stored belongs to a request that was never answered |
| `bridge` | 2 messages of any kind, 1 sent twice, room for 2 at the broker, 1 lost connection, 1 end of the process; fair | a message is overtaken only after it was counted as failed or cut off; the bridge adds no duplicates; an answer of `/health`, read counter by counter, bounds what ingestion took (`ReportBoundsTheTruth`); a bridge whose network thread lives subscribes again and works off what the broker holds, ingestion silent or not |
| `deployment` | 2 stops anywhere, 1 other command, 1 teardown; fair | a completed bootstrap leaves all services running, wired to current addresses, recorded and seeded; go-live run again completes, unless a manifest is cut off, a service failed to start, or the role lacks its policy |
| `teardown_leaks` | 1 stop, 1 teardown; fair | violated, see 6 |

Some properties are stated under a condition because the code does not provide them
without it. `AckedStoredInTurn` and `BaseIsPredecessor` (ingestion), `AckedStored`
(anomaly), and `AckedStoredInTurn`, `LedgerGapUnanswered` and `LatestCoversPricedInTurn`
(risk) hold as long as no two requests overlapped; the history variable
`overlapped` records it. All of them are proved for any bounds (7). The overlapping case of
the first is the finding of `ingest_overwritten`. `DrawdownOfPrices` says what the code does: the equity curve
starts after the first return, so a fall from the very first price is not seen.
`GoLiveCompletes` excepts the three states (`Stuck`) that running go-live again does not
repair. `BridgeCatchesUp` speaks of a started bridge whose network thread lives: one whose
broker was away when it started stays unsubscribed until it is restarted, and so does one whose
network thread a message has ended by an exception that `_on_message` does not catch. Nothing in
the code repairs either, and `/health` goes on answering.

What `SnapshotsCoverPriced` leaves open is as the code is. An event of a symbol outside the
portfolio is computed for and answered, and no snapshot has it. The newest snapshot may be
one of another portfolio, posted to `/risk/compute`, and lack the events of the stored one.

Every module of a component states its type invariant as `TypeOK`. Outside the registry's run the
configurations leave it out for the time it takes: it held in each of them, and it is proved
for all of them (7).

Deadlock is checked in the registry's safety run and in the overlay, where something
is always possible. The other configurations end when the bounded requests, events or
prices run out, and say so next to `CHECK_DEADLOCK FALSE`; that nothing stops before
its end is what `RequestsEnd`, `DamageReported`, `RoutingEnds`, `BridgeCatchesUp` and
`GoLiveCompletes` are for.

## 4. Fairness

* *Registry*: weak fairness of each thread's step and of the verifier. Pool threads
  are scheduled by the operating system and the verifier by the event loop; a lock
  that is free again and again is taken again and again, and no thread waits for it
  while another one holds it forever. Clients, faults and the clock are not fair.
* *Overlay*: weak fairness of every loop, of the handling of a request that its sender
  still awaits, of the clock, and of `RegistryStarts` (the container's restart policy,
  the operator). `EventuallyOnline` needs one more assumption about the network,
  `PromptEventually`: from some point on connections, requests and answers get through
  within the tick in which they were begun. With a network that is slower than the timeout
  forever the peer re-registers forever, and no code could help.
* *Routing*: weak fairness of the ingesting threads only. The wait for an answer ends
  with the client's timeout, which is always possible; targets and network owe nothing.
* *Bridge*: weak fairness of reconnecting, of the broker's handling of SUBSCRIBE, of the
  steps of the callback, exceptions included, and of the end of a POST. Each wait of a POST
  has the timeout of 5 s; an ingestion that sends its answer in ever more pieces is not
  considered. paho's thread retries forever; connections are lost finitely often. Ingestion
  owes nothing, not even an answer.
* *Deployment*: weak fairness of the running command (each call ends, at the latest by its
  own timeout), of Azure's deletion of a group, and of the operator, who runs go-live again
  until it has completed. Other commands, stops and teardowns are not fair.

Ingestion, anomaly and risk runs check safety only.

## 5. Bounds

Every bound is a constant in the guard of the action it limits.

* *Registry.* Two workers, so that two handlers interleave in the gap between their
  operations; the verifier is the third thread. Three requests give a third block that
  chains onto one left over by a failed write. One failed write and one restart at any
  step are enough to separate memory, table file and ledger file in all ways, as each
  save rewrites both files whole. The theorems of 7 hold for any number.
* *Overlay.* Services do not interact except through the table, whose entries are
  independent, so one service is checked, with the constants of `service_runtime.py` and
  `store.py`. `Connects` is 1, plain http, and `Reads` 2: with more pieces of the answer an
  attempt lasts longer, as httpx sets no limit to a whole request. Attempts fail by delay
  without any fault, so that more of them in a row than 90 s tolerate (`MaxMissed`) are always
  possible; the three faults are free to lose messages, stop the registry or the service. A
  delay of 6 ticks, 15 s, outlasts the waits for an answer and reaches to the end of the sleep,
  so an abandoned heartbeat meets the next attempt.
* *Routing.* `Retries` is the code's default 3. One event, as events share nothing but
  the counters; both peers of the deployment, one of them serving two stages.
* *Ingestion, anomaly.* Two threads and two symbols, the least for overlap and for a
  change of the size of a dict; three requests, one more than threads, so that one
  comes after the other two; the window of two is filled and overflows.
* *Risk requests.* As ingestion; the third request is the event, portfolio or computation
  that meets what the other two left. Of two symbols one is in every portfolio and the other
  in some.
* *Bridge.* Two messages can swap, and the one sent twice is a third that meets the
  subscription after a lost connection and a full queue. One answer of `/health` per life of
  the process, begun at any moment. One lost connection and one end of the
  process, at any step; after either all of the bridge's volatile state is new.
* *Deployment.* One stop leaves a partial state, the second hits the command that was to
  repair it; the one other command puts any part of the deployment out of step before or
  after, and the teardown takes away what manifests still name.
* *Risk metrics.* The theorems of 7 hold for any lengths. Four prices give three returns, more than the window of two; zero is among
  the prices; 41 returns cross the index changes at 20 and 40.

## 6. Disagreements between code and documentation

Each run named here checks what a document or docstring says and is violated by what
the code does.

1. `ingest_overwritten`: of two overlapping saves in the ingestion peer the older copy
   may be written last; an event that was answered and recorded is then not in
   `state.json`, and lost by a restart.
2. `teardown_leaks`: the usage text of `teardown_cloud.sh` says it deletes the App Runner
   services for registry and ingestion. It deletes those whose ARN is in `aws.json`, and
   the ARN is written at the end of a deployment; a service created by one that stopped
   before that stays, unmentioned, and only another deployment finds it, by its name.

Others are plain from the code and have no run: `docs/P2P_OVERLAY.md` says every meaningful
action is appended to the ledger, but a stop between `upsert_peer` and `append_block` leaves
a stored peer without a block; it says discovery returns the peers that are online, but
`peers_with_capability` returns all of them and no caller filters; the docstring of
`route_with_retries` says a final failure is recorded, but a failing append is turned into
None; the technical document says the stored state of the anomaly peer includes the windows,
but they are saved only along with an alert.

## 7. Proofs

Each component's proofs are in a module of their own. Every safety invariant and every action
property of the passing runs is a theorem there. The theorems hold for
all values of the constants that satisfy the component's assumptions, and are about `Spec`,
hence about `FairSpec` too. The assumptions are these: bounds are naturals
(`BoundsAssumption`, everywhere), and

* registry: the names of event types, peers and threads do not collide (`NamesAssumption`);
* anomaly: a window has room, and a review's verdict is not "pending"
  (`ParametersAssumption`);
* risk: there are finitely many symbols, and some (`SymbolAssumption`; a loop over a dict ends);
* risk metrics: the confidence is a percentage, the window has room (`ParametersAssumption`);
  there are finitely many symbols, and some, and prices are naturals (`InputsAssumption`: prices
  counted in their smallest unit, as a return does not depend on the unit);
* routing: at least one attempt, a thread and a target (`RoutingAssumption`);
* overlay: intervals and timeouts are positive, stale comes before offline
  (`TimingAssumption`).

Hardly any of the properties is inductive. Each table names the theorem and the invariant that
carries it; the text says what that adds and why it is needed.

### The registry (`RegistryProofs`)

| theorem | property | carried by | under |
|---|---|---|---|
| `TypeCorrect` | `TypeOK` | `TypeInv` | - |
| `ChainIsIntact` | `ChainIntact` | itself | the invariant itself speaks of an unaltered file |
| `AnswersAreStored` | `AnswersStoredOnce` | itself | likewise |
| `StoreImplementsAuditLog` | `ImplementsAuditLog` | `AnswersStoredOnce` | `MaxTampers = 0` |
| `ReadersSeeStored` | `ReadersSeeStoredState` | `StoredInv` | speaks of runs without a failed write or an altered file |
| `LedgerPeersAreStored` | `LedgerPeersStored` | `PeersInv` | - |
| `StampsAreInOrder` | `StampsInOrder` | `StampsInv` | speaks of an unaltered file |
| `DamageStaysVisible` | `DamageNotHidden` | `TypeInv` | - |
| `VerifiedLedgerIsComplete` | `VerifiedLedgerKeepsAnswered` | `KeptInv` | - |
| `LockIsInUse` | (`LockInv`) | `TypeInv` | - |
| `RequestsAreShort` | (`Left`, `GetsOn`; towards `RequestsEnd`) | `LockInv` | - |

*Types.* `TypeOK` is not inductive: `SetPeer` needs the actor of a request in its `peer`
phase to be a node (the registry's own report names an actor that is none), and `Reply`
needs a result that is a block. `LocalsInv` says both; `TypeInv == TypeOK /\ LocalsInv`
is inductive (`StepTypeInv`, one step per action). The lemmas `NewBlockType` and
`AlteredType` say that what is built or altered is a block.

*Chain.* `AppendKeepsValid` is the algebra: a valid chain extended by the `NewBlock`
built on it is valid. With it `ChainIntact` is inductive relative to `TypeInv`, because
memory and file are only ever exchanged whole. Here the abstraction of the digest
matters: it is injective, so the proof is as good as SHA-256 is collision-free.

*Answers.* `AnswersStoredOnce` has the two parts that make it inductive: memory extends
the file, so a save only adds and a restart only takes away what was never answered; and
blocks are numbered by position, so a new block differs from every other.
`ExtendsKeepsBlocks`, `AppendExtends` and `ExtendsTransitive` are its lemmas.

*Refinement.* Under the mapping `log <- ledgerFile`, `answered <- acked`, `SaveLedger` is a
`Commit` or a stutter (by the first part of the invariant), `Reply` is an `Answer` (by the
rest) or, for the verifier, a stutter, and no other action touches either variable.

*Readers and peers.* `StoredInv` ties the lock to the phase of the save: while it is free
nothing waits to be written. `PeersInv` says the property in memory as well, that the table in
memory is never behind `peers.json`, and that a handler between its two operations has its peer
in the table, which is where the lock is free and others write.

*Stamps.* `StampsInv` adds that neither a block nor a heartbeat that waits for the lock is ahead
of the clock.

*Damage.* `LedgerStaysOrGrows` and `PrefixOfValid`: within a process the chain in memory only
grows, and what is a prefix of a valid chain is valid, so no block covers up damage.
`VerifiedLedgerIsComplete` is the strongest of them, as it holds under any number of
alterations between any number of restarts. A block that was answered is sealed: its hash is
that of its contents on its predecessor's hash. `KeptInv` says that at its place in memory and on
disk there is a block with the same hash, or one whose seal is broken for ever (its hash is not
longer than its predecessor's). In a chain that verifies the second is impossible, and of two
sealed blocks with the same hash the contents are the same (`HashIsInjective`); so it is the
answered block itself.

*Requests.* `LockInv`: whoever has the lock is writing the files of a request, and there is
always somebody writing while it is taken; a write that fails and a restart both free it. With it
`Left`, the steps a thread has still to take, is at most 7, goes down with each of its own steps
and stays with those of the others (`GetsOn`). So a request cannot go round in circles and can
only wait for the lock, whose holder has at most two steps to go before it is free. What
`RequestsEnd` adds is that the steps are taken, which is fairness.

### The overlay (`OverlayProofs`)

| theorem | property | carried by | under |
|---|---|---|---|
| `TypeCorrect` | `TypeOK` | itself | - |
| `BeatersAreOnline` | `OnlineWhileBeating` | `WireInv`, `AgeInv` | speaks of services with `Longest(missed[n]) <= StaleAfter` |

The property has the arithmetic behind the constants of `service_runtime.py` and `store.py` in
it. After a success and k failed attempts the age of a service's heartbeat is at most

    Longest(k) == Reads * Timeout + (k + 1) * (Interval + (Connects + Reads) * Timeout) + MaxDelay

the reads of the success, an interval and all waits of each failed attempt and of the one it is
in, and what was under way before. The service is shown online as long as that is no more than
`StaleAfter`. No number of failed attempts is tolerated as such:

* 15 s, 2.5 s, plain http, two reads, and delays of up to 15 s give 35 of the 36 ticks for
  k = 2 and 44 for k = 3: two failed attempts cannot show a live peer stale, three can.
* The cloud scripts set 20 s and 8 s (`cloud_deploy.py:482-483`) and use https. With two waits
  for the connection and two reads, k = 0 gives 16 + 52 s and the delay, within 90 s if no
  request is under way for more than 22 s; k = 1 gives 120 s. In the worst case a single failed
  attempt makes a live peer stale, and the property promises nothing beyond k = 0.

`WireInv` says that a service waits for one request or its answer, and how many waits are behind
it; `AgeInv` that the age of its heartbeat is at most the delay, what the success took, and for
every failed attempt a period, and what is gone of the present one. A failed attempt starts a
new period, and an answer of 200 makes the age at most that of the request.

### Event routing (`RoutingProofs`)

| theorem | property | carried by |
|---|---|---|
| `TypeCorrect` | `TypeOK` | `TypeInv` |
| `WorkIsBounded` | `BoundedDuplication` | `LoadInv` |
| `LedgerIsTrue` | `VerdictsAreTrue` | `VerdictInv` |
| `ForwardedIsForwarded` | `ForwardedReachedAll` | `ReachInv` |
| `RoutingIsBounded` | (`Left`, `GetsOn`; towards `RoutingEnds`) | `TypeInv` |

The safety properties rest on how a thread goes through the targets: one is still to come (`Open`), then it
is the `Current` one, then it is done with and never comes back (`Moves`, for every action).
`LoadInv` counts what a target executed together with the calls to it on the wire, which a late
execution only exchanges: never more than the attempts made. `VerdictInv` says that a target
with a verdict is neither open nor current, so it gets no second one. `ReachInv` says of a thread
without failures that every target was reached, or is open, or is current.

`RoutingIsBounded` needs finitely many targets, as the overlay is a list. With `Retries` attempts
a target takes at most `2 * Retries + 2` steps, a stage two more than all its targets, and a
request, of three stages, one more than all its stages: `RequestSteps`. `Left` is what is left of
them at each place of the code; every step of the thread takes some, and neither late executions
nor other threads give any back.

### The ingestion peer (`IngestionProofs`)

| theorem | property | carried by |
|---|---|---|
| `IngestionTypes` | `TypeOK` | `TypeInv` |
| `RecordedIsSaved` | `RecordedAfterSave` | `SavedInv` |
| `AnsweredInTurnIsStored` | `AckedStoredInTurn` | `InTurnInv` |
| `BasesAreOfTheSymbol` | `BasesAreRight` | `BasesInv`, `TakesInv` |

*Types.* `JobTyped` adds the shape of a thread's local variables. `MaxIsThere` (a nonempty
set of positions has a largest one, from the well-foundedness of the naturals) and
`LastOfType` are what a restart needs: the last message of a symbol is one that was stored.

*Saved before recorded.* `OwnEventKept` says where a thread's own event is while the
property does not speak of it yet: in the list from its append to the copy, in the copy until
the save, among the saved from then on. Other threads only add to the list, and a restart ends
all threads. This holds under every interleaving, although the file itself may go back.

*Answered in turn.* `InTurn` is what overlap destroys: one busy thread, so a copy is as new as
the list it is saved for; the file has nothing that memory has not; so a save only adds. The
run `ingest_overwritten` shows that without the condition the property is false.

*Bases.* The property has two parts. Without overlap the base of an event is its predecessor of
the symbol, across restarts: `BasesInv` says it of memory and file, that the dict of last
messages agrees with the list but for the symbol a thread is about to note (`Noting`,
`LastIsLast`), and that the thread's base and copies are not outdated. Under any interleaving,
until the first restart, a base is an earlier message of the same symbol: `TakesInv` says that
numbers are fresh and that what the dict has was taken. `LastOfAppend` and `BeforeOfAppend` say
what an append does to the last message before a place.

### The anomaly peer (`AnomalyProofs`)

| theorem | property | carried by |
|---|---|---|
| `TypeCorrect` | `TypeOK` | `TypeInv` |
| `StoredAlertsAreCovered` | `AlertsHaveTheirHistory` | `HistoryInv` |
| `ReviewsStand` | `ReviewNotUndone` | `FreshInv` |
| `AnswersAreStored` | `AckedStored` | `CopiesInv`, `AloneInv` |

`HistoryInv` follows an alert's event through the order of `_save_state`: alerts are copied
first and windows afterwards, and a window loses an event only when newer ones fill it; so a
copy of the windows covers the copy of the alerts, under any interleaving. `FreshInv` says that
an event whose alert is still to come has its number for itself, so an insertion replaces no
review. `CopiesInv` holds under any interleaving (nothing stored or copied is ahead of memory);
`AloneInv`, without overlap, adds that a copy is not behind the stored document either.

### The risk peer (`RiskProofs`)

| theorem | property | carried by |
|---|---|---|
| `TypeCorrect` | `TypeOK` | `TypeInv` |
| `PricedIsCovered` | `SnapshotsCoverPriced` | `RankInv`, `TurnInv` |
| `AnswersAreStoredInTurn` | `AckedStoredInTurn` | `TurnInv` |
| `GapIsExplained` | `LedgerGapUnanswered` | `TurnInv` |

`SnapshotsCoverPriced` speaks, for any set of symbols, of one snapshot that covers all the
answered events of these symbols whose computation had positions in them (`Due`), under any
interleaving of computations that read symbol after symbol, each those of its own portfolio.
`RankInv` ranks the events by the moment they entered memory: who computes for an event reads,
of the symbols it holds, every event of the same or a lower rank, so its snapshot has them, and
that of the highest rank among those due has all of them. The ranking exists but is no variable
of the model. `TurnInv` has the rest: alone, a thread's copy is what
is in memory, and a snapshot on the ledger is stored, or its request is still busy, or it ended
without an answer.

### The risk metrics (`RiskProofs`, second half)

| theorem | property | carried by |
|---|---|---|
| `VaRQuantile` | `VaRIsQuantile` | `VaROfSeries` |
| `Alignment` | `AlignedAtNewest` | `ReturnsAt`, `SumOver` |
| `Metrics` | `MetricsOfPrices` | `CurveOf`, `Telescope`, `Extremes` |
| `RaisesOnTotalLoss` | `RaisesOnlyOnTotalLoss` | `ReturnsAt`, `CurveOf` |

The invariant is only that the inputs have their types (`InputsOK`); the work is in the lemmas
about the operators, which hold for price histories and series of returns of any length.

*Quantile.* `RankOnto`: under an order in which any two elements compare, exactly one element
has k before it, for every k. So `Sorted` is defined everywhere and in order (`SortedAt`; ties are
broken by position, as in a stable sort), and the return at the index of the tail has at most that
many worse ones and more that are no better. The rounding of `TailIndex` goes in here.

*Alignment.* `ReturnsAt` says which two prices the k-th return is made of, once those after a
zero price are left out. `SumOver` unfolds the sum over the positions one at a time, in some
order; so if all other terms are zero the sum is the remaining one (`SumOfOne`).

*Curve.* The equity curve is a recursive function; `CurveOf` proves that one with its equations
exists and what follows step by step. `Telescope`: of positive prices, the product of 1 + return
over a stretch is the last price over the one before the stretch. `Extremes` and `SameLowest`
exchange the extrema of two sets of fractions that denote the same numbers; fractions are not
reduced, so equality of numbers is `Same`.

*Induction.* No library theorem on induction can be instantiated here. `AllNaturals` replaces
it: a set of naturals that has 0, and with n also n + 1, is all of Nat, by the smallest number
missing.

### The edge bridge (`EdgeBridgeProofs`)

| theorem | property | carried by |
|---|---|---|
| `BridgeTypes` | `TypeOK` | `TypeInv` |
| `OvertakenOnlyIfGivenUp` | `OvertakenWasGivenUp` | `OrderInv` |
| `BridgeDuplicatesNothing` | `NoDuplicateOfItsOwn` | `CopiesInv` |
| `HealthIsTrue` | `ReportBoundsTheTruth` | `SumInv`, `SetInv`, `HealthInv` |
| `BacklogIsWorkedOff` | (`Backlog`, `WorksOff`; towards `BridgeCatchesUp`) | `RoomInv` |

`TypeInv` adds that the POST the callback waits for is that of the last delivery
(`CurrentIsNewest`). The order follows from two facts about the wire: a POST on its way is the
awaited one or was given up (`AwaitedOrGivenUp`), and what was ingested is off the wire and was
delivered before (`IngestedOnce`). So whatever is taken late and is not given up is the awaited
one, and that is the newest.

`CopiesInv` counts the copies of a message at the broker, on the wire and taken: each action
moves one or loses some, only a publisher adds one.

The counters do not agree with the messages at every moment, since each is a step of its own.
`CallbackInv` says where the callback is and which POST it has. `SumInv` has the differences:
what was received is handled or in error, or is in the callback, or ended the network thread;
what has an outcome is handled, or the callback is about to return. `SetInv` ties two counters
to the POSTs of this process: as many were taken by ingestion and are neither given up nor
awaited as `forwarded` says, and as many were given up as `failures` says. `TakenBound` draws
the bounds on what ingestion took from it. An answer of `/health` sees no such moment as a
whole: each of its counters is from another one. `HealthInv` uses that counters only grow and
that `received` and `handled` are read before what they are bounded by: a counter that was read
is at most its present value, the later read ones are at least what they were then. `Latest` is,
for each counter, what was read of it, or else its present value. The mutant that reads in
another order breaks it.

`Backlog` counts the callback steps that are to come for what the broker holds, three a message
at most. It is bounded by the room of the queue (`RoomInv`), each step of a callback takes one
off, and only a publisher adds to it: neither a lost connection nor an ingestion that fails or
never answers makes the bridge do a message again.

### The deployment (`CloudDeployProofs`)

| theorem | property | carried by |
|---|---|---|
| `TypeCorrect` | `TypeOK` | `TypeInv` |
| `AwsIsConfigured` | `AwsRecordedWhenConfigured` | `AddressInv`, `HeadInv` |
| `BootstrapWires` | `Wired` | `BootInv` |
| `BootstrapRecords` | `AllRecorded` | `BootInv` |
| `SeededStays` | `SeededIsThere` | `BootInv` |
| `GoLiveEnds` | (`Completes`; towards `GoLiveCompletes`) | `RunInv` |

The lemmas `BootstrapCalls`, `GoLiveCalls` and `ProvisionCalls` spell the commands out, call by
call; `Shape` is what all commands and all their rests have in common: a rebase comes right after
the deployment it belongs to, a save right after the rebase. `AddressInv` says that addresses
are given once, so a new one is recorded nowhere; `HeadInv` what the service has been told when
its rebase or save is next. Both hold whatever was left behind by commands that stopped.

`BootInv` is the one over what is left of `plan`: it is a rest without an end (`NoFinish`), or
go-live before its bootstrap, or the calls of the bootstrap from the j-th on, and then `Facts(j)`
holds: a service deployed before j runs under its own address, is recorded and known, and has
been told what its settings refer to (`First` and `Told` are the places of these calls). Nothing
in a bootstrap undoes a fact: an address changes only where a service is created, and who was
told of it was told later (`Order`). What runs beside a command, Azure ending a deletion, cannot
once the anomaly service was built, which needs a group that is not being deleted.

`GoLiveEnds` is about one run of go-live that nobody stops (`GoLiveRun`), from any state of the
clouds and the files in which Azure is not still deleting: with every step there is a call less to
make, and when none is left the bootstrap completed, or there is what no go-live repairs (`Stuck`:
a manifest that cannot be read, a service whose creation failed, a role without its policy).
`RunInv` says what the calls before the k-th have provisioned, so `Blocked` has no other reason.

### What is only model-checked

Out of the prover's reach, and left to TLC for good: the seven properties under fairness
(`RequestsEnd`, `DamageReported`, `EventuallyOnline`, `DeadShownOffline`, `RoutingEnds`,
`BridgeCatchesUp`, `GoLiveCompletes`), since the prover has neither fairness nor ENABLED. Of
four of them the part that is safety, that there are only so many steps to take and where they
lead, is a theorem: `RequestsAreShort`, `RoutingIsBounded`, `BacklogIsWorkedOff` and `GoLiveEnds`.

## 8. What is not modelled, and why

* Volatility (a square root).
* The polling hook of the web dashboard: a slow answer may replace a newer one until the
  next poll, an interval later; nothing else depends on it.
* A second bridge: its client identifier is fixed, so two would take each other's session.
* `run_local_stack.py`: a sequence of process starts on one machine; its health check may be
  answered by a service left over from an earlier run.
* Two instances of a service with the same `node_id` during a rollout.
* Clients of `POST /ledger/blocks` that forge the registry's own blocks; negative prices and
  short positions; deletions that fail in the background of a cloud.
* The wording of payloads, field validation (pydantic), logging, HTML, the anomaly score.
* The Streamlit page, simulator, demos, smoke test, infrastructure files: they keep no
  state, or only drive the services with inputs the models already allow.
* The copies under `dist/`: generated. The Azure copy is older than the retries of
  `ServiceRuntime`; the models describe the sources, not that copy.

## 9. Plan

1. A refinement for the deployment: a command that may stop anywhere, run again, implements one
   that is atomic.
2. The liveness properties for all values of the constants, which takes a prover with ENABLED.
