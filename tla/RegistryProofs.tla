--------------------------- MODULE RegistryProofs ---------------------------
(***************************************************************************)
(* Theorems about RegistryStore, for every set of workers and nodes and    *)
(* every value of the bounds.                                              *)
(***************************************************************************)
EXTENDS RegistryStore, SequenceTheorems, TLAPS

-----------------------------------------------------------------------------
(* Lemmas about the chain.                                                 *)

\* The last hash of a typed chain is a digest.
LEMMA LastHashType ==
    ASSUME NEW chain \in Seq(Block)
    PROVE  LastHash(chain) \in Digest
<1>1. CASE chain = <<>>
    BY <1>1, EmptySeq DEF LastHash, NoHash, Digest
<1>2. CASE chain # <<>>
    <2>1. chain[Len(chain)] \in Block
        BY <1>2
    <2> QED  BY <1>2, <2>1 DEF LastHash, Block
<1> QED  BY <1>1, <1>2

\* append_block builds a well-formed block.
LEMMA NewBlockType ==
    ASSUME NEW chain \in Seq(Block), NEW now \in Nat, NEW type \in EventType,
           NEW actor \in Actor, NEW payload \in Nat
    PROVE  NewBlock(chain, now, type, actor, payload) \in Block
<1> DEFINE body == [block_id |-> Len(chain) + 1, timestamp |-> now,
                    event_type |-> type, actor_node |-> actor,
                    payload_hash |-> payload]
<1>1. body \in Body
    <2>1. Len(chain) + 1 \in Nat
        BY LenProperties
    <2> QED  BY <2>1 DEF Body
<1>2. LastHash(chain) \in Digest
    BY LastHashType
<1>3. Append(LastHash(chain), body) \in Digest
    BY <1>1, <1>2, AppendProperties DEF Digest
<1> HIDE DEF body
<1>4. [body |-> body, previous_hash |-> LastHash(chain),
       block_hash |-> Append(LastHash(chain), body)] \in Block
    BY <1>1, <1>2, <1>3 DEF Block
<1> QED  BY <1>4 DEF NewBlock, body

\* Appending what append_block builds keeps a chain valid.
LEMMA AppendKeepsValid ==
    ASSUME NEW chain \in Seq(Block), NEW now \in Nat, NEW type \in EventType,
           NEW actor \in Actor, NEW payload \in Nat, Valid(chain)
    PROVE  Valid(Append(chain, NewBlock(chain, now, type, actor, payload)))
<1> DEFINE new    == NewBlock(chain, now, type, actor, payload)
           longer == Append(chain, new)
<1>1. new \in Block
    BY NewBlockType
<1>2. /\ Len(longer) = Len(chain) + 1
      /\ \A i \in 1..Len(chain) : longer[i] = chain[i]
      /\ longer[Len(chain) + 1] = new
    BY <1>1, AppendProperties
<1>3. Len(chain) \in Nat
    BY LenProperties
<1>4. /\ new.previous_hash = LastHash(chain)
      /\ new.block_hash = Append(new.previous_hash, new.body)
    BY DEF NewBlock
<1> HIDE DEF new, longer
<1>5. ASSUME NEW i \in 1..Len(longer)
      PROVE  LinkOK(longer, i) /\ SealOK(longer, i)
    <2>1. CASE i <= Len(chain)
        <3>1. LinkOK(chain, i) /\ SealOK(chain, i)
            BY <2>1, <1>3 DEF Valid
        <3>2. longer[i] = chain[i] /\ (i # 1 => longer[i - 1] = chain[i - 1])
            BY <2>1, <1>2, <1>3
        <3> QED  BY <3>1, <3>2 DEF LinkOK, SealOK, ComputeBlockHash
    <2>2. CASE i = Len(chain) + 1
        <3>1. longer[i] = new
            BY <2>2, <1>2
        <3>2. LastHash(chain) = IF i = 1 THEN NoHash ELSE longer[i - 1].block_hash
            BY <2>2, <1>2, <1>3 DEF LastHash
        <3> QED  BY <3>1, <3>2, <1>4 DEF LinkOK, SealOK, ComputeBlockHash
    <2> QED  BY <2>1, <2>2, <1>2, <1>3
<1>6. Valid(longer)
    BY <1>5 DEF Valid
<1> QED  BY <1>6 DEF longer, new

-----------------------------------------------------------------------------
(* Type correctness.                                                       *)

\* Recording a time for a node keeps a peer map a peer map.
LEMMA SetPeerType ==
    ASSUME IsPeerMap(peers), NEW n \in Node, NEW time \in Nat, SetPeer(n, time)
    PROVE  IsPeerMap(peers')
BY DEF IsPeerMap, SetPeer

\* The verifier is a thread of its own, apart from the workers and from "free".
LEMMA ThreadFacts ==
    /\ Worker \subseteq Thread /\ Verifier \in Thread
    /\ Free \notin Thread
    /\ \A op \in Op : EventOf[op] \in EventType
    /\ Node \subseteq Actor /\ Registry \in Actor
BY NamesAssumption DEF Thread, Verifier, Free

\* An altered block is still a block.
LEMMA AlteredType ==
    ASSUME NEW old \in Block, NEW b \in Altered(old)
    PROVE  b \in Block
<1>1. CASE b = [old EXCEPT !.body.payload_hash = @ + 1]
    BY <1>1 DEF Block, Body
<1>2. CASE b = [old EXCEPT !.body.timestamp = @ + 1]
    BY <1>2 DEF Block, Body
<1>3. CASE b = [old EXCEPT !.previous_hash = Append(@, old.body)]
    <2>1. Append(old.previous_hash, old.body) \in Digest
        BY AppendProperties DEF Block, Digest
    <2> QED  BY <1>3, <2>1 DEF Block
<1>4. CASE b = [old EXCEPT !.block_hash = old.previous_hash]
    BY <1>4 DEF Block
<1> QED  BY <1>1, <1>2, <1>3, <1>4 DEF Altered

\* A request whose time is stamped again is still a request.
LEMMA StampedType ==
    ASSUME NEW r \in Request, NEW time \in Nat
    PROVE  [r EXCEPT !.arg = time] \in Request
BY DEF Request

\* The initial state is well typed.
LEMMA InitTypeOK == Init => TypeOK
<1> SUFFICES ASSUME Init PROVE TypeOK
    OBVIOUS
<1>1. IsPeerMap(peers) /\ IsPeerMap(peersFile)
    BY DEF Init, IsPeerMap
<1>2. ledger \in Seq(Block) /\ ledgerFile \in Seq(Block)
    BY EmptySeq DEF Init
<1>3. NoRequest \in Request
    BY ThreadFacts DEF NoRequest, Request, Op
<1> QED
    BY <1>1, <1>2, <1>3
    DEF TypeOK, Init, AllIdle, NoRequests, NoResults, Unverified

\* A peer region is only entered for a node, a success only answered with a
\* block: what the thread-local variables mean depends on where the thread is.
LocalsInv ==
    \A t \in Thread : /\ pc[t] = "peer"  => req[t].actor \in Node
                      /\ pc[t] = "reply" => result[t] \in Block

TypeInv == TypeOK /\ LocalsInv

\* No step breaks the types or the meaning of the locals.

\* Every step keeps the types and what each thread knows about its request.
LEMMA StepTypeInv == TypeInv /\ [Next]_vars => TypeInv'
<1> SUFFICES ASSUME TypeInv, [Next]_vars PROVE TypeInv'
    OBVIOUS
<1> USE DEF TypeInv, TypeOK, LocalsInv
<1> USE ThreadFacts
<1>1. ASSUME NEW w \in Worker, NEW request \in Request,
             NEW first \in {"peer", "block"},
             first = "peer" => request.actor \in Node,
             Accept(w, request, first)
      PROVE  TypeInv'
    <2>1. /\ req' \in [Thread -> Request]
          /\ pc' \in [Thread -> {"idle", "peer", "block", "reply"}]
          /\ requests' \in Nat
        BY <1>1 DEF Accept
    <2>2. TypeOK'
        BY <1>1, <2>1 DEF Accept, memory, files
    <2>3. LocalsInv'
        BY <1>1 DEF Accept
    <2> QED  BY <2>2, <2>3
<1>2. ASSUME NEW w \in Worker, Receive(w) PROVE TypeInv'
    <2>1. PICK n \in Node : \/ ReceiveRegister(w, n)
                            \/ ReceiveHeartbeat(w, n)
                            \/ ReceiveAppend(w, n)
        BY <1>2 DEF Receive
    <2>2. /\ [op |-> "register", actor |-> n, arg |-> 0] \in Request
          /\ [op |-> "heartbeat", actor |-> n, arg |-> clock] \in Request
          /\ [op |-> "append", actor |-> n, arg |-> requests] \in Request
        BY DEF Request, Op
    <2> QED
        BY <1>1, <2>1, <2>2 DEF ReceiveRegister, ReceiveHeartbeat, ReceiveAppend
<1>3. ASSUME NEW t \in Thread, UpsertPeer(t) PROVE TypeInv'
    <2>1. IsPeerMap(peers')
        BY <1>3, SetPeerType DEF UpsertPeer
    <2>2. req[t] \in Request /\ clock \in Nat
        OBVIOUS
    <2>3. [req[t] EXCEPT !.arg = clock] \in Request
        BY <2>2, StampedType
    <2>4. TypeOK'
        <3>1. /\ req' \in [Thread -> Request]
              /\ pc' \in [Thread -> {"idle", "peer", "block", "reply"}]
              /\ lock' \in Thread \cup {Free} /\ saving' = "peers"
            BY <1>3, <2>3 DEF UpsertPeer, Lock
        <3>2. UNCHANGED <<ledger, peersFile, ledgerFile, result, verification,
                          clock, acked, requests, saveFailures, crashes, tampers>>
            BY <1>3 DEF UpsertPeer, files, bounds
        <3> QED  BY <2>1, <3>1, <3>2
    <2>5. LocalsInv'
        BY <1>3 DEF UpsertPeer, Lock
    <2> QED  BY <2>4, <2>5
<1>4. ASSUME NEW t \in Thread, Heartbeat(t) PROVE TypeInv'
    <2>1. req[t].arg \in Nat
        BY DEF Request
    <2>2. IsPeerMap(peers')
        BY <1>4, <2>1, SetPeerType DEF Heartbeat
    <2>3. TypeOK'
        BY <1>4, <2>2 DEF Heartbeat, Lock, files, bounds
    <2>4. LocalsInv'
        BY <1>4 DEF Heartbeat, Lock
    <2> QED  BY <2>3, <2>4
<1>5. ASSUME NEW t \in Thread, HeartbeatUnknown(t) PROVE TypeInv'
    <2>1. TypeOK'
        BY <1>5 DEF HeartbeatUnknown, memory, files, bounds
    <2>2. LocalsInv'
        BY <1>5 DEF HeartbeatUnknown
    <2> QED  BY <2>1, <2>2
<1>6. ASSUME NEW t \in Thread, AppendBlock(t) PROVE TypeInv'
    <2> DEFINE block == NewBlock(ledger, clock, EventOf[req[t].op],
                                 req[t].actor, req[t].arg)
    <2>1. block \in Block
        BY NewBlockType DEF Request
    <2> HIDE DEF block
    <2>2. /\ ledger' = Append(ledger, block)
          /\ result' = [result EXCEPT ![t] = block]
        BY <1>6 DEF AppendBlock, block
    <2>3. ledger' \in Seq(Block)
        BY <2>1, <2>2, AppendProperties
    <2>4. TypeOK'
        BY <1>6, <2>1, <2>2, <2>3 DEF AppendBlock, Lock, files, bounds
    <2>5. LocalsInv'
        BY <1>6, <2>1, <2>2 DEF AppendBlock, Lock
    <2> QED  BY <2>4, <2>5
<1>7. ASSUME NEW t \in Thread, SavePeers(t) PROVE TypeInv'
    <2>1. TypeOK'
        BY <1>7 DEF SavePeers, memory, bounds
    <2>2. LocalsInv'
        BY <1>7 DEF SavePeers
    <2> QED  BY <2>1, <2>2
<1>8. ASSUME NEW t \in Thread, SaveLedger(t) PROVE TypeInv'
    <2>1. TypeOK'
        BY <1>8 DEF SaveLedger, memory, bounds
    <2>2. LocalsInv'
        BY <1>8 DEF SaveLedger
    <2> QED  BY <2>1, <2>2
<1>9. ASSUME NEW t \in Thread, SaveFails(t) PROVE TypeInv'
    <2>1. TypeOK'
        BY <1>9 DEF SaveFails, memory, files
    <2>2. LocalsInv'
        BY <1>9 DEF SaveFails
    <2> QED  BY <2>1, <2>2
<1>10. ASSUME NEW t \in Thread, Reply(t) PROVE TypeInv'
    <2>1. TypeOK'
        BY <1>10 DEF Reply, memory, files, bounds
    <2>2. LocalsInv'
        BY <1>10 DEF Reply
    <2> QED  BY <2>1, <2>2
<1>11. CASE VerifyIntact
    <2>1. TypeOK'
        BY <1>11 DEF VerifyIntact, memory, files, bounds
    <2>2. LocalsInv'
        BY <1>11 DEF VerifyIntact
    <2> QED  BY <2>1, <2>2
<1>12. CASE VerifyBroken
    <2>1. [op |-> "report", actor |-> Registry, arg |-> Len(ledger)] \in Request
        BY LenProperties DEF Request, Op
    <2>2. TypeOK'
        BY <1>12, <2>1 DEF VerifyBroken, memory, files, bounds
    <2>3. LocalsInv'
        BY <1>12 DEF VerifyBroken
    <2> QED  BY <2>2, <2>3
<1>13. CASE Tick
    <2>1. TypeOK'
        BY <1>13 DEF Tick, memory, files, bounds
    <2>2. LocalsInv'
        BY <1>13 DEF Tick
    <2> QED  BY <2>1, <2>2
<1>14. CASE Restart
    <2>1. NoRequest \in Request
        BY DEF NoRequest, Request, Op
    <2>2. TypeOK'
        BY <1>14, <2>1
        DEF Restart, files, AllIdle, NoRequests, NoResults, Unverified
    <2>3. LocalsInv'
        BY <1>14 DEF Restart, AllIdle
    <2> QED  BY <2>2, <2>3
<1>15. CASE Tamper
    <2>1. PICK i \in 1..Len(ledgerFile) : \E b \in Altered(ledgerFile[i]) :
              ledgerFile' = [ledgerFile EXCEPT ![i] = b]
        BY <1>15 DEF Tamper
    <2>2. PICK b \in Altered(ledgerFile[i]) :
              ledgerFile' = [ledgerFile EXCEPT ![i] = b]
        BY <2>1
    <2>3. ledgerFile[i] \in Block
        BY ElementOfSeq
    <2>4. b \in Block
        BY <2>3, <2>2, AlteredType
    <2>5. ledgerFile' \in Seq(Block)
        BY <2>2, <2>4, ExceptSeq
    <2> HIDE DEF TypeInv, TypeOK, LocalsInv
    <2>6. /\ tampers' = tampers + 1
          /\ UNCHANGED <<peers, ledger, peersFile, lock, saving, pc, req, result,
                         verification, clock, acked, requests, saveFailures,
                         crashes>>
        BY <1>15 DEF Tamper, memory
    <2>7. {requests, saveFailures, crashes, tampers}' \subseteq Nat
        BY <2>6 DEF TypeInv, TypeOK
    <2>8. TypeOK'
        BY <2>5, <2>6, <2>7 DEF TypeInv, TypeOK
    <2>9. LocalsInv'
        BY <2>6 DEF TypeInv, LocalsInv
    <2> QED  BY <2>8, <2>9 DEF TypeInv
<1>16. CASE UNCHANGED vars
    <2>1. TypeOK'
        BY <1>16 DEF vars, memory, files, bounds
    <2>2. LocalsInv'
        BY <1>16 DEF vars
    <2> QED  BY <2>1, <2>2
<1> QED
    BY <1>2, <1>3, <1>4, <1>5, <1>6, <1>7, <1>8, <1>9, <1>10, <1>11, <1>12,
       <1>13, <1>14, <1>15, <1>16
    DEF Next, Step, Verify

\* Every variable keeps its type, whatever the threads, faults and bounds.
THEOREM TypeCorrect == Spec => []TypeOK
<1>1. Init => TypeInv
    BY InitTypeOK, ThreadFacts DEF TypeInv, LocalsInv, Init, AllIdle
<1>2. TypeInv => TypeOK
    BY DEF TypeInv
<1> QED  BY <1>1, <1>2, StepTypeInv, PTL DEF Spec

-----------------------------------------------------------------------------
(* The chain and the answered blocks.                                      *)

\* As long as nobody altered the stored ledger, both chains are valid.  This is
\* inductive: an append extends a valid chain, a save copies memory to disk, a
\* restart copies it back.
LEMMA StepChainIntact == TypeInv /\ ChainIntact /\ [Next]_vars => ChainIntact'
<1> SUFFICES ASSUME TypeInv, ChainIntact, [Next]_vars PROVE ChainIntact'
    OBVIOUS
<1> USE DEF TypeInv, TypeOK, ChainIntact
<1>1. ASSUME NEW w \in Worker, Receive(w) PROVE ChainIntact'
    BY <1>1
    DEF Receive, ReceiveRegister, ReceiveHeartbeat, ReceiveAppend, Accept,
        memory, files
<1>2. ASSUME NEW t \in Thread, AppendBlock(t) PROVE ChainIntact'
    <2> DEFINE block == NewBlock(ledger, clock, EventOf[req[t].op],
                                 req[t].actor, req[t].arg)
    <2>1. Valid(ledger) => Valid(Append(ledger, block))
        BY AppendKeepsValid, ThreadFacts DEF Request
    <2> HIDE DEF block
    <2>2. ledger' = Append(ledger, block)
        BY <1>2 DEF AppendBlock, block
    <2> QED  BY <1>2, <2>1, <2>2 DEF AppendBlock, files, bounds
<1>3. ASSUME NEW t \in Thread, SaveLedger(t) PROVE ChainIntact'
    BY <1>3 DEF SaveLedger, memory, bounds
<1>4. ASSUME NEW t \in Thread,
             UpsertPeer(t) \/ Heartbeat(t) \/ HeartbeatUnknown(t)
                \/ SavePeers(t) \/ SaveFails(t) \/ Reply(t)
      PROVE  ChainIntact'
    BY <1>4 DEF UpsertPeer, Heartbeat, HeartbeatUnknown, SavePeers, SaveFails,
                Reply, memory, files, bounds
<1>5. CASE Verify \/ Tick
    BY <1>5 DEF Verify, VerifyIntact, VerifyBroken, Tick, memory, files, bounds
<1>6. CASE Restart
    BY <1>6 DEF Restart, files
<1>7. CASE Tamper
    BY <1>7 DEF Tamper
<1>8. CASE UNCHANGED vars
    BY <1>8 DEF vars, memory, files, bounds
<1> QED
    BY <1>1, <1>2, <1>3, <1>4, <1>5, <1>6, <1>7, <1>8 DEF Next, Step

\* verify_ledger never raises a false alarm: without outside interference the
\* chain is intact in memory and on disk in every reachable state.
THEOREM ChainIsIntact == Spec => []ChainIntact
<1>1. Init => TypeInv
    BY InitTypeOK, ThreadFacts DEF TypeInv, LocalsInv, Init, AllIdle
<1>2. Init => ChainIntact
    BY DEF Init, ChainIntact, Valid
<1> QED  BY <1>1, <1>2, StepTypeInv, StepChainIntact, PTL DEF Spec

-----------------------------------------------------------------------------
(* Answers, and the abstract log.                                          *)

\* What is stored is also in memory.
LEMMA ExtendsKeepsBlocks ==
    ASSUME NEW old \in Seq(Block), NEW new \in Seq(Block), Extends(new, old)
    PROVE  BlocksOf(old) \subseteq BlocksOf(new)
BY LenProperties DEF Extends, BlocksOf

\* Appending adds one block and keeps the others where they are.
LEMMA AppendExtends ==
    ASSUME NEW chain \in Seq(Block), NEW b \in Block
    PROVE  /\ Extends(Append(chain, b), chain)
           /\ BlocksOf(Append(chain, b)) = BlocksOf(chain) \cup {b}
<1>1. /\ Len(Append(chain, b)) = Len(chain) + 1
      /\ \A i \in 1..Len(chain) : Append(chain, b)[i] = chain[i]
      /\ Append(chain, b)[Len(chain) + 1] = b
    BY AppendProperties
<1>2. Len(chain) \in Nat
    BY LenProperties
<1> QED  BY <1>1, <1>2 DEF Extends, BlocksOf

\* Growing at the end twice is growing at the end.
LEMMA ExtendsTransitive ==
    ASSUME NEW a \in Seq(Block), NEW b \in Seq(Block), NEW c \in Seq(Block),
           Extends(a, b), Extends(b, c)
    PROVE  Extends(a, c)
BY LenProperties DEF Extends

\* The answers stay stored and distinct: inductive given the types.
LEMMA StepAnswers == TypeInv /\ AnswersStoredOnce /\ [Next]_vars => AnswersStoredOnce'
<1> SUFFICES ASSUME TypeInv, AnswersStoredOnce, [Next]_vars,
                    tampers' = 0
             PROVE  AnswersStoredOnce'
    BY DEF AnswersStoredOnce
<1> USE ThreadFacts
<1> USE DEF TypeInv, TypeOK, LocalsInv, AnswersStoredOnce
<1>1. ASSUME NEW w \in Worker, Receive(w) PROVE AnswersStoredOnce'
    BY <1>1
    DEF Receive, ReceiveRegister, ReceiveHeartbeat, ReceiveAppend, Accept,
        memory, files
<1>2. ASSUME NEW t \in Thread, UpsertPeer(t) \/ Heartbeat(t)
      PROVE  AnswersStoredOnce'
    BY <1>2 DEF UpsertPeer, Heartbeat, Lock, files, bounds
<1>3. ASSUME NEW t \in Thread, HeartbeatUnknown(t) PROVE AnswersStoredOnce'
    BY <1>3 DEF HeartbeatUnknown, memory, files, bounds
<1>4. ASSUME NEW t \in Thread, AppendBlock(t) PROVE AnswersStoredOnce'
    <2> DEFINE block == NewBlock(ledger, clock, EventOf[req[t].op],
                                 req[t].actor, req[t].arg)
    <2>0. req[t].actor \in Actor /\ req[t].arg \in Nat /\ EventOf[req[t].op] \in EventType
        BY DEF Request
    <2>1. block \in Block /\ block.body.block_id = Len(ledger) + 1
        <3>1. block \in Block
            BY <2>0, NewBlockType
        <3>2. block.body.block_id = Len(ledger) + 1
            BY DEF NewBlock
        <3> QED  BY <3>1, <3>2
    <2> HIDE DEF block
    <2>2. /\ ledger' = Append(ledger, block)
          /\ result' = [result EXCEPT ![t] = block]
          /\ lock = Free /\ lock' = t /\ pc' = [pc EXCEPT ![t] = "reply"]
          /\ UNCHANGED <<ledgerFile, acked, tampers>>
        BY <1>4 DEF AppendBlock, Lock, files, bounds, block
    <2>3. /\ Extends(ledger', ledger)
          /\ BlocksOf(ledger') = BlocksOf(ledger) \cup {block}
        BY <2>1, <2>2, AppendExtends
    <2>4. ledger' \in Seq(Block)
        BY <2>1, <2>2, AppendProperties
    <2>5. Extends(ledger', ledgerFile')
        BY <2>2, <2>3, <2>4, ExtendsTransitive
    <2>6. \A i \in 1..Len(ledger') : ledger'[i].body.block_id = i
        <3>1. /\ Len(ledger') = Len(ledger) + 1
              /\ \A i \in 1..Len(ledger) : ledger'[i] = ledger[i]
              /\ ledger'[Len(ledger) + 1] = block
            BY <2>1, <2>2, AppendProperties
        <3>2. \A i \in 1..Len(ledger) : ledger[i].body.block_id = i
            BY <2>2
        <3>3. Len(ledger) \in Nat
            BY LenProperties
        <3>4. ASSUME NEW i \in 1..Len(ledger') PROVE ledger'[i].body.block_id = i
            <4>1. CASE i \in 1..Len(ledger)
                BY <3>1, <3>2, <4>1
            <4>2. CASE i = Len(ledger) + 1
                BY <2>1, <3>1, <4>2
            <4> QED  BY <3>1, <3>3, <4>1, <4>2
        <3> QED  BY <3>4
    <2>7. block \notin BlocksOf(ledger)
        <3>1. Len(ledger) \in Nat /\ tampers = 0
            BY <2>2, LenProperties
        <3> QED  BY <2>1, <3>1 DEF BlocksOf
    <2>8. BlocksOf(ledgerFile) \subseteq BlocksOf(ledger)
        BY <2>2, ExtendsKeepsBlocks
    <2>9. block \notin acked
        BY <2>2, <2>7, <2>8
    <2>10. \A u \in Thread : pc[u] = "reply" => result[u] # block
        BY <2>2, <2>7, <2>8
    <2>11. \A u \in Thread : pc'[u] = "reply" =>
               /\ result'[u] \in BlocksOf(IF lock' = u THEN ledger' ELSE ledgerFile')
               /\ result'[u] \notin acked'
        <3>1. BlocksOf(ledgerFile') = BlocksOf(ledgerFile)
            BY <2>2
        <3> QED  BY <2>2, <2>3, <2>9, <3>1
    <2>12. \A u, v \in Thread : pc'[u] = "reply" /\ pc'[v] = "reply" /\ u # v
               => result'[u] # result'[v]
        BY <2>2, <2>10
    <2> QED  BY <2>2, <2>5, <2>6, <2>11, <2>12
<1>5. ASSUME NEW t \in Thread, SavePeers(t) PROVE AnswersStoredOnce'
    BY <1>5 DEF SavePeers, memory, bounds
<1>6. ASSUME NEW t \in Thread, SaveLedger(t) PROVE AnswersStoredOnce'
    <2>1. /\ ledgerFile' = ledger /\ ledger' = ledger
          /\ lock = t /\ lock' = Free
          /\ UNCHANGED <<pc, result, acked, tampers>>
        BY <1>6 DEF SaveLedger, memory, bounds
    <2>2. BlocksOf(ledgerFile) \subseteq BlocksOf(ledger)
        BY <2>1, ExtendsKeepsBlocks
    <2>3. BlocksOf(ledgerFile') = BlocksOf(ledger)
        BY <2>1
    <2>4. Extends(ledger', ledgerFile')
        BY <2>1, LenProperties DEF Extends
    <2> QED  BY <2>1, <2>2, <2>3, <2>4
<1>7. ASSUME NEW t \in Thread, SaveFails(t) PROVE AnswersStoredOnce'
    BY <1>7 DEF SaveFails, memory, files
<1>8. ASSUME NEW t \in Thread, Reply(t) PROVE AnswersStoredOnce'
    BY <1>8 DEF Reply, memory, files, bounds
<1>9. CASE Verify \/ Tick
    <2>1. CASE VerifyBroken
        BY <2>1 DEF VerifyBroken, memory, files, bounds
    <2>2. CASE VerifyIntact
        BY <2>2 DEF VerifyIntact, memory, files, bounds
    <2>3. CASE Tick
        BY <2>3 DEF Tick, memory, files, bounds
    <2> QED  BY <1>9, <2>1, <2>2, <2>3 DEF Verify
<1>10. CASE Restart
    <2>1. /\ ledger' = ledgerFile /\ UNCHANGED <<ledgerFile, acked, tampers>>
          /\ \A u \in Thread : pc'[u] = "idle"
        BY <1>10 DEF Restart, files, AllIdle
    <2>2. Extends(ledger', ledgerFile')
        BY <2>1, LenProperties DEF Extends
    <2>3. \A i \in 1..Len(ledger') : ledger'[i].body.block_id = i
        BY <2>1, LenProperties DEF Extends
    <2> QED  BY <2>1, <2>2, <2>3
<1>11. CASE Tamper
    BY <1>11 DEF Tamper
<1>12. CASE UNCHANGED vars
    BY <1>12 DEF vars, memory, files, bounds
<1> QED
    BY <1>1, <1>2, <1>3, <1>4, <1>5, <1>6, <1>7, <1>8, <1>9, <1>10, <1>11, <1>12
    DEF Next, Step

\* At the start there is nothing answered and nothing to answer.
LEMMA InitAnswers == Init => AnswersStoredOnce
BY ThreadFacts DEF Init, AnswersStoredOnce, Extends, BlocksOf, AllIdle

\* Without outside interference, whatever crashes, failed writes and races
\* there are, every block the registry ever acknowledged is on disk, each
\* acknowledged to one request only.
THEOREM AnswersAreStored == Spec => []AnswersStoredOnce
<1>1. Init => TypeInv
    BY InitTypeOK, ThreadFacts DEF TypeInv, LocalsInv, Init, AllIdle
<1> QED  BY <1>1, InitAnswers, StepTypeInv, StepAnswers, PTL DEF Spec

\* With nobody altering the stored ledger, the store implements the abstract
\* log: its stored ledger only grows, and each answer is given once, for a
\* block that is stored.
THEOREM StoreImplementsAuditLog ==
    ASSUME MaxTampers = 0
    PROVE  Spec => ImplementsAuditLog
<1> DEFINE Untampered == tampers = 0
           Inv == TypeInv /\ AnswersStoredOnce /\ Untampered
<1>1. Init => Log!Init
    BY DEF Init, Log!Init
<1>2. Init => Untampered
    BY DEF Init
<1>3. Untampered /\ [Next]_vars => Untampered'
    <2> SUFFICES ASSUME Untampered, [Next]_vars PROVE tampers' = tampers
        OBVIOUS
    <2>1. ASSUME NEW w \in Worker, Receive(w) PROVE tampers' = tampers
        BY <2>1 DEF Receive, ReceiveRegister, ReceiveHeartbeat, ReceiveAppend,
                    Accept
    <2>2. ASSUME NEW t \in Thread, Step(t) PROVE tampers' = tampers
        BY <2>2 DEF Step, UpsertPeer, Heartbeat, HeartbeatUnknown, AppendBlock,
                    SavePeers, SaveLedger, Reply, bounds
    <2>3. ASSUME NEW t \in Thread, SaveFails(t) PROVE tampers' = tampers
        BY <2>3 DEF SaveFails
    <2>4. CASE Verify \/ Tick \/ Restart
        BY <2>4 DEF Verify, VerifyIntact, VerifyBroken, Tick, Restart, bounds
    <2>5. CASE Tamper
        BY <2>5 DEF Tamper
    <2>6. CASE UNCHANGED vars
        BY <2>6 DEF vars, bounds
    <2> QED  BY <2>1, <2>2, <2>3, <2>4, <2>5, <2>6 DEF Next
<1>4. Inv /\ [Next]_vars => [Log!Next]_(Log!vars)
    <2> SUFFICES ASSUME Inv, [Next]_vars PROVE [Log!Next]_(Log!vars)
        OBVIOUS
    <2> USE DEF TypeInv, TypeOK, LocalsInv, AnswersStoredOnce, Log!vars
    <2>1. ASSUME NEW t \in Thread, SaveLedger(t) PROVE [Log!Next]_(Log!vars)
        <3>1. ledgerFile' = ledger /\ acked' = acked
            BY <2>1 DEF SaveLedger
        <3>2. Len(ledger) \in Nat /\ Len(ledgerFile) \in Nat
            BY LenProperties
        <3>3. CASE Len(ledger) = Len(ledgerFile)
            <4>1. ledger = ledgerFile
                BY <3>3, SeqEqual DEF Extends
            <4> QED  BY <3>1, <4>1
        <3>4. CASE Len(ledger) # Len(ledgerFile)
            BY <3>1, <3>2, <3>4 DEF Extends, Log!Next, Log!Commit, Log!Grows
        <3> QED  BY <3>3, <3>4
    <2>2. ASSUME NEW t \in Thread, Reply(t) PROVE [Log!Next]_(Log!vars)
        <3>1. CASE t = Verifier
            BY <2>2, <3>1 DEF Reply, files
        <3>2. CASE t # Verifier
            <4>1. /\ acked' = acked \cup {result[t]} /\ ledgerFile' = ledgerFile
                  /\ pc[t] = "reply" /\ lock # t
                BY <2>2, <3>2 DEF Reply, files
            <4>2. result[t] \in BlocksOf(ledgerFile) /\ result[t] \notin acked
                BY <4>1
            <4>3. PICK i \in 1..Len(ledgerFile) : result[t] = ledgerFile[i]
                BY <4>2 DEF BlocksOf
            <4> QED  BY <4>1, <4>2, <4>3 DEF Log!Next, Log!Answer
        <3> QED  BY <3>1, <3>2
    <2>3. CASE Tamper
        BY <2>3, <1>3 DEF Tamper
    <2>4. ASSUME NEW w \in Worker, Receive(w) PROVE UNCHANGED <<ledgerFile, acked>>
        BY <2>4 DEF Receive, ReceiveRegister, ReceiveHeartbeat, ReceiveAppend,
                    Accept, files
    <2>5. ASSUME NEW t \in Thread,
                 UpsertPeer(t) \/ Heartbeat(t) \/ HeartbeatUnknown(t)
                    \/ AppendBlock(t) \/ SavePeers(t) \/ SaveFails(t)
          PROVE  UNCHANGED <<ledgerFile, acked>>
        BY <2>5 DEF UpsertPeer, Heartbeat, HeartbeatUnknown, AppendBlock,
                    SavePeers, SaveFails, files
    <2>6. CASE Verify \/ Tick \/ Restart \/ UNCHANGED vars
        BY <2>6 DEF Verify, VerifyIntact, VerifyBroken, Tick, Restart, vars, files
    <2> QED
        BY <2>1, <2>2, <2>3, <2>4, <2>5, <2>6 DEF Next, Step
<1>5. Init => TypeInv
    BY InitTypeOK, ThreadFacts DEF TypeInv, LocalsInv, Init, AllIdle
<1> QED
    BY <1>1, <1>2, <1>3, <1>4, <1>5, InitAnswers, StepTypeInv, StepAnswers, PTL
    DEF Spec, ImplementsAuditLog, Log!Spec

-----------------------------------------------------------------------------
(* What the two store operations and the faults do, field by field.        *)

Sealed(b) == b.block_hash = ComputeBlockHash(b)

\* append_block adds one sealed block, numbered and stamped, that says who did
\* what, and leaves the rest of the ledger where it was.
LEMMA AppendBlockEffect ==
    ASSUME TypeInv, NEW t \in Thread, AppendBlock(t)
    PROVE  \E block \in Block :
               /\ block.body.block_id = Len(ledger) + 1
               /\ block.body.timestamp = clock
               /\ block.body.event_type = EventOf[req[t].op]
               /\ block.body.actor_node = req[t].actor
               /\ block.body.payload_hash = req[t].arg
               /\ Sealed(block)
               /\ ledger' = Append(ledger, block)
               /\ Len(ledger') = Len(ledger) + 1
               /\ \A i \in 1..Len(ledger) : ledger'[i] = ledger[i]
               /\ ledger'[Len(ledger) + 1] = block
               /\ result' = [result EXCEPT ![t] = block]
<1> DEFINE block == NewBlock(ledger, clock, EventOf[req[t].op],
                             req[t].actor, req[t].arg)
<1>1. /\ ledger \in Seq(Block) /\ clock \in Nat
      /\ req[t].actor \in Actor /\ req[t].arg \in Nat
      /\ EventOf[req[t].op] \in EventType
    BY ThreadFacts DEF TypeInv, TypeOK, Request
<1>2. block \in Block
    BY <1>1, NewBlockType
<1>3. /\ block.body.block_id = Len(ledger) + 1
      /\ block.body.timestamp = clock
      /\ block.body.event_type = EventOf[req[t].op]
      /\ block.body.actor_node = req[t].actor
      /\ block.body.payload_hash = req[t].arg
      /\ Sealed(block)
    BY DEF NewBlock, Sealed, ComputeBlockHash
<1>4. ledger' = Append(ledger, block) /\ result' = [result EXCEPT ![t] = block]
    BY DEF AppendBlock
<1> HIDE DEF block
<1>5. /\ Len(ledger') = Len(ledger) + 1
      /\ \A i \in 1..Len(ledger) : ledger'[i] = ledger[i]
      /\ ledger'[Len(ledger) + 1] = block
    BY <1>1, <1>2, <1>4, AppendProperties
<1> QED  BY <1>2, <1>3, <1>4, <1>5

\* Altering a stored block changes neither the number of blocks nor what any of
\* them says about who did what; and a block whose hash is altered, or was, has
\* a hash that is no longer than the one it claims to be built on.
LEMMA TamperEffect ==
    ASSUME TypeInv, Tamper
    PROVE  /\ Len(ledgerFile') = Len(ledgerFile)
           /\ \A i \in 1..Len(ledgerFile) :
               /\ ledgerFile'[i].body.event_type = ledgerFile[i].body.event_type
               /\ ledgerFile'[i].body.actor_node = ledgerFile[i].body.actor_node
               /\ \/ ledgerFile'[i].block_hash = ledgerFile[i].block_hash
                  \/ Len(ledgerFile'[i].block_hash) <= Len(ledgerFile'[i].previous_hash)
               /\ Len(ledgerFile[i].previous_hash) <= Len(ledgerFile'[i].previous_hash)
<1>0. PICK i \in 1..Len(ledgerFile) : \E b \in Altered(ledgerFile[i]) :
          ledgerFile' = [ledgerFile EXCEPT ![i] = b]
    BY DEF Tamper
<1>1. PICK b \in Altered(ledgerFile[i]) : ledgerFile' = [ledgerFile EXCEPT ![i] = b]
    BY <1>0
<1>2. ledgerFile \in Seq(Block)
    BY DEF TypeInv, TypeOK
<1>3. ledgerFile[i] \in Block /\ b \in Block
    BY <1>2, ElementOfSeq, AlteredType
<1>4. /\ Len(ledgerFile') = Len(ledgerFile)
      /\ \A j \in 1..Len(ledgerFile) :
             ledgerFile'[j] = IF j = i THEN b ELSE ledgerFile[j]
    BY <1>1, <1>2, <1>3, ExceptSeq
<1> DEFINE old == ledgerFile[i]
<1>5. /\ Len(old.previous_hash) \in Nat /\ old.body \in Body /\ old.previous_hash \in Seq(Body)
      /\ Len(Append(old.previous_hash, old.body)) = Len(old.previous_hash) + 1
    BY <1>3, AppendProperties, LenProperties DEF Block, Digest
<1>6. /\ b.body.event_type = old.body.event_type
      /\ b.body.actor_node = old.body.actor_node
      /\ \/ b.block_hash = old.block_hash
         \/ Len(b.block_hash) <= Len(b.previous_hash)
      /\ Len(old.previous_hash) <= Len(b.previous_hash)
    <2>1. CASE b = [old EXCEPT !.body.payload_hash = @ + 1]
        <3>1. /\ b.previous_hash = old.previous_hash /\ b.block_hash = old.block_hash
              /\ b.body = [old.body EXCEPT !.payload_hash = @ + 1]
            BY <1>3, <2>1 DEF Block
        <3>2. /\ b.body.event_type = old.body.event_type
              /\ b.body.actor_node = old.body.actor_node
            BY <1>5, <3>1 DEF Body
        <3> QED  BY <1>5, <3>1, <3>2
    <2>2. CASE b = [old EXCEPT !.body.timestamp = @ + 1]
        <3>1. /\ b.previous_hash = old.previous_hash /\ b.block_hash = old.block_hash
              /\ b.body = [old.body EXCEPT !.timestamp = @ + 1]
            BY <1>3, <2>2 DEF Block
        <3>2. /\ b.body.event_type = old.body.event_type
              /\ b.body.actor_node = old.body.actor_node
            BY <1>5, <3>1 DEF Body
        <3> QED  BY <1>5, <3>1, <3>2
    <2>3. CASE b = [old EXCEPT !.previous_hash = Append(@, old.body)]
        <3>1. /\ b.body = old.body /\ b.block_hash = old.block_hash
              /\ b.previous_hash = Append(old.previous_hash, old.body)
            BY <1>3, <2>3 DEF Block
        <3> QED  BY <1>5, <3>1
    <2>4. CASE b = [old EXCEPT !.block_hash = old.previous_hash]
        <3>1. /\ b.body = old.body /\ b.block_hash = old.previous_hash
              /\ b.previous_hash = old.previous_hash
            BY <1>3, <2>4 DEF Block
        <3> QED  BY <1>5, <3>1
    <2> QED  BY <2>1, <2>2, <2>3, <2>4 DEF Altered
<1>7. \A j \in 1..Len(ledgerFile) : Len(ledgerFile[j].previous_hash) \in Nat
    <2>1. \A j \in 1..Len(ledgerFile) : ledgerFile[j] \in Block
        BY <1>2, ElementOfSeq
    <2> QED  BY <2>1, LenProperties DEF Block, Digest
<1> HIDE DEF old
<1> QED  BY <1>4, <1>6, <1>7 DEF old

-----------------------------------------------------------------------------
(* Readers.                                                                *)

\* While the lock is free nothing waits to be written, and peers.json is ahead
\* of ledger.json only within a save.
StoredInv ==
    saveFailures = 0 /\ tampers = 0 =>
        /\ lock = Free <=> saving = "no"
        /\ saving = "no" => peersFile = peers /\ ledgerFile = ledger
        /\ saving = "ledger" => peersFile = peers

\* Every step keeps the memory of a free lock equal to the files.
LEMMA StepStoredInv == TypeInv /\ StoredInv /\ [Next]_vars => StoredInv'
<1> SUFFICES ASSUME TypeInv, StoredInv, [Next]_vars PROVE StoredInv'
    OBVIOUS
<1> USE ThreadFacts DEF StoredInv
<1>1. ASSUME NEW w \in Worker, Receive(w) PROVE StoredInv'
    BY <1>1
    DEF Receive, ReceiveRegister, ReceiveHeartbeat, ReceiveAppend, Accept,
        memory, files
<1>2. ASSUME NEW t \in Thread, UpsertPeer(t) \/ Heartbeat(t) \/ AppendBlock(t)
      PROVE  StoredInv'
    BY <1>2 DEF UpsertPeer, Heartbeat, AppendBlock, Lock, bounds
<1>3. ASSUME NEW t \in Thread, HeartbeatUnknown(t) \/ Reply(t) PROVE StoredInv'
    BY <1>3 DEF HeartbeatUnknown, Reply, memory, files, bounds
<1>4. ASSUME NEW t \in Thread, SavePeers(t) PROVE StoredInv'
    BY <1>4 DEF SavePeers, memory, bounds
<1>5. ASSUME NEW t \in Thread, SaveLedger(t) PROVE StoredInv'
    BY <1>5 DEF SaveLedger, memory, bounds
<1>6. ASSUME NEW t \in Thread, SaveFails(t) PROVE StoredInv'
    BY <1>6 DEF SaveFails, TypeInv, TypeOK
<1>7. CASE Verify \/ Tick
    BY <1>7 DEF Verify, VerifyIntact, VerifyBroken, Tick, memory, files, bounds
<1>8. CASE Restart
    BY <1>8 DEF Restart, files
<1>9. CASE Tamper
    BY <1>9 DEF Tamper, TypeInv, TypeOK
<1>10. CASE UNCHANGED vars
    BY <1>10 DEF vars, memory, files, bounds
<1> QED
    BY <1>1, <1>2, <1>3, <1>4, <1>5, <1>6, <1>7, <1>8, <1>9, <1>10 DEF Next, Step

\* Whoever gets the lock sees only what has been written already, unless a
\* write raised or a file was altered.
THEOREM ReadersSeeStored == Spec => []ReadersSeeStoredState
<1>1. Init => TypeInv
    BY InitTypeOK, ThreadFacts DEF TypeInv, LocalsInv, Init, AllIdle
<1>2. Init => StoredInv
    BY DEF Init, StoredInv
<1>3. StoredInv => ReadersSeeStoredState
    BY DEF StoredInv, ReadersSeeStoredState
<1> QED  BY <1>1, <1>2, <1>3, StepTypeInv, StepStoredInv, PTL DEF Spec

-----------------------------------------------------------------------------
(* The peer table and the ledger.                                          *)

AboutPeer(b) == b.body.event_type \in {"peer_registered", "peer_heartbeat"}

\* The same in memory, which is never behind peers.json; and a handler between
\* its two operations has its peer in the table.
PeersInv ==
    /\ \A i \in 1..Len(ledger) :
           AboutPeer(ledger[i]) => ledger[i].body.actor_node \in DOMAIN peers
    /\ \A i \in 1..Len(ledgerFile) :
           AboutPeer(ledgerFile[i]) => ledgerFile[i].body.actor_node \in DOMAIN peersFile
    /\ DOMAIN peersFile \subseteq DOMAIN peers
    /\ saving = "ledger" => peersFile = peers /\ lock # Free
    /\ \A t \in Thread : pc[t] = "block" /\ req[t].op \in {"register", "heartbeat"}
                             => req[t].actor \in DOMAIN peers

\* Every step keeps the actors of the ledger in the peer table.
LEMMA StepPeersInv == TypeInv /\ PeersInv /\ [Next]_vars => PeersInv'
<1> SUFFICES ASSUME TypeInv, PeersInv, [Next]_vars PROVE PeersInv'
    OBVIOUS
<1>types. /\ ledger \in Seq(Block) /\ Len(ledger) \in Nat
          /\ pc \in [Thread -> {"idle", "peer", "block", "reply"}]
          /\ req \in [Thread -> Request]
    BY LenProperties DEF TypeInv, TypeOK
<1> USE DEF PeersInv
<1>1. ASSUME NEW w \in Worker, Receive(w) PROVE PeersInv'
    <2>1. PICK request, first :
              /\ Accept(w, request, first)
              /\ first = "block" => request.op = "append"
        BY <1>1 DEF Receive, ReceiveRegister, ReceiveHeartbeat, ReceiveAppend
    <2>2. /\ UNCHANGED <<memory, files, lock, saving>>
          /\ pc' = [pc EXCEPT ![w] = first] /\ req' = [req EXCEPT ![w] = request]
        BY <2>1 DEF Accept
    <2> QED  BY <2>1, <2>2, <1>types, ThreadFacts DEF memory, files
<1>2. ASSUME NEW t \in Thread, UpsertPeer(t) PROVE PeersInv'
    <2>1. /\ DOMAIN peers' = DOMAIN peers \cup {req[t].actor}
          /\ pc' = [pc EXCEPT ![t] = "block"]
          /\ \A u \in Thread : req'[u].actor = req[u].actor /\ req'[u].op = req[u].op
          /\ saving' = "peers" /\ UNCHANGED <<ledger, files>>
        BY <1>2, <1>types DEF UpsertPeer, SetPeer, Lock, Request
    <2> QED  BY <2>1, <1>types DEF files
<1>3. ASSUME NEW t \in Thread, Heartbeat(t) PROVE PeersInv'
    <2>1. /\ DOMAIN peers' = DOMAIN peers /\ req[t].actor \in DOMAIN peers
          /\ pc' = [pc EXCEPT ![t] = "block"]
          /\ saving' = "peers" /\ UNCHANGED <<req, ledger, files>>
        BY <1>3 DEF Heartbeat, SetPeer, Lock
    <2> QED  BY <2>1, <1>types DEF files
<1>4. ASSUME NEW t \in Thread, HeartbeatUnknown(t) \/ Reply(t) PROVE PeersInv'
    <2>1. /\ pc' = [pc EXCEPT ![t] = "idle"]
          /\ UNCHANGED <<memory, files, lock, saving, req>>
        BY <1>4 DEF HeartbeatUnknown, Reply
    <2> QED  BY <2>1, <1>types DEF memory, files
<1>5. ASSUME NEW t \in Thread, AppendBlock(t) PROVE PeersInv'
    <2>1. PICK block \in Block :
              /\ block.body.event_type = EventOf[req[t].op]
              /\ block.body.actor_node = req[t].actor
              /\ Len(ledger') = Len(ledger) + 1
              /\ \A i \in 1..Len(ledger) : ledger'[i] = ledger[i]
              /\ ledger'[Len(ledger) + 1] = block
        BY <1>5, AppendBlockEffect
    <2>2. /\ pc[t] = "block" /\ pc' = [pc EXCEPT ![t] = "reply"]
          /\ saving' = "peers" /\ UNCHANGED <<peers, files, req>>
        BY <1>5 DEF AppendBlock, Lock
    <2>3. AboutPeer(block) => block.body.actor_node \in DOMAIN peers
        <3>1. EventOf[req[t].op] \in {"peer_registered", "peer_heartbeat"}
                  => req[t].op \in {"register", "heartbeat"}
            BY <1>types DEF EventOf, Request, Op
        <3> QED  BY <2>1, <2>2, <3>1 DEF AboutPeer
    <2>4. \A i \in 1..Len(ledger') :
              AboutPeer(ledger'[i]) => ledger'[i].body.actor_node \in DOMAIN peers
        <3>1. \A i \in 1..Len(ledger') : i \in 1..Len(ledger) \/ i = Len(ledger) + 1
            BY <2>1, <1>types
        <3> QED  BY <2>1, <2>3, <3>1
    <2> QED  BY <2>2, <2>4, <1>types DEF files
<1>6. ASSUME NEW t \in Thread, SavePeers(t) PROVE PeersInv'
    BY <1>6, ThreadFacts DEF SavePeers, memory
<1>7. ASSUME NEW t \in Thread, SaveLedger(t) PROVE PeersInv'
    BY <1>7 DEF SaveLedger, memory
<1>8. ASSUME NEW t \in Thread, SaveFails(t) PROVE PeersInv'
    <2>1. /\ pc' = [pc EXCEPT ![t] = "idle"] /\ saving' = "no"
          /\ UNCHANGED <<memory, files, req>>
        BY <1>8 DEF SaveFails
    <2> QED  BY <2>1, <1>types DEF memory, files
<1>9. CASE Verify \/ Tick
    <2>1. CASE VerifyBroken
        <3>1. /\ req' = [req EXCEPT ![Verifier] = [op |-> "report", actor |-> Registry,
                                                   arg |-> Len(ledger)]]
              /\ pc' = [pc EXCEPT ![Verifier] = "block"]
              /\ UNCHANGED <<memory, files, lock, saving>>
            BY <2>1 DEF VerifyBroken
        <3> QED  BY <3>1, <1>types, ThreadFacts DEF memory, files
    <2>2. CASE VerifyIntact \/ Tick
        BY <2>2 DEF VerifyIntact, Tick, memory, files
    <2> QED  BY <1>9, <2>1, <2>2 DEF Verify
<1>10. CASE Restart
    BY <1>10 DEF Restart, files, AllIdle
<1>11. CASE Tamper
    <2>1. /\ UNCHANGED <<memory, peersFile, lock, saving, pc, req>>
          /\ Len(ledgerFile') = Len(ledgerFile)
          /\ \A i \in 1..Len(ledgerFile) :
               /\ ledgerFile'[i].body.event_type = ledgerFile[i].body.event_type
               /\ ledgerFile'[i].body.actor_node = ledgerFile[i].body.actor_node
        <3>1. UNCHANGED <<memory, peersFile, lock, saving, pc, req>>
            BY <1>11 DEF Tamper
        <3> QED  BY <1>11, <3>1, TamperEffect
    <2> QED  BY <2>1 DEF memory, AboutPeer
<1>12. CASE UNCHANGED vars
    BY <1>12 DEF vars, memory, files
<1> QED
    BY <1>1, <1>2, <1>3, <1>4, <1>5, <1>6, <1>7, <1>8, <1>9, <1>10, <1>11, <1>12
    DEF Next, Step

\* The stored ledger never speaks of a peer that the stored table has lost: at
\* no step does a stop, a raising write or an altered block change that.
THEOREM LedgerPeersAreStored == Spec => []LedgerPeersStored
<1>1. Init => TypeInv
    BY InitTypeOK, ThreadFacts DEF TypeInv, LocalsInv, Init, AllIdle
<1>2. Init => PeersInv
    BY DEF Init, PeersInv, AllIdle
<1>3. PeersInv => LedgerPeersStored
    BY DEF PeersInv, LedgerPeersStored, AboutPeer
<1> QED  BY <1>1, <1>2, <1>3, StepTypeInv, StepPeersInv, PTL DEF Spec

-----------------------------------------------------------------------------
(* Time stamps.                                                            *)

\* Nothing is stamped ahead of the clock, not even the heartbeats and
\* registrations that still wait for the lock.
StampsInv ==
    /\ StampsInOrder
    /\ tampers = 0 =>
        \A i \in 1..Len(ledger) : ledger[i].body.timestamp <= clock
    /\ \A t \in Thread : req[t].op \in {"register", "heartbeat"} => req[t].arg <= clock

\* Every step keeps the stamps of both ledgers in order.
LEMMA StepStampsInv ==
    TypeInv /\ AnswersStoredOnce /\ StampsInv /\ [Next]_vars => StampsInv'
<1> SUFFICES ASSUME TypeInv, AnswersStoredOnce, StampsInv, [Next]_vars PROVE StampsInv'
    OBVIOUS
<1>types. /\ ledger \in Seq(Block) /\ Len(ledger) \in Nat
          /\ ledgerFile \in Seq(Block) /\ Len(ledgerFile) \in Nat
          /\ req \in [Thread -> Request] /\ clock \in Nat /\ tampers \in Nat
          /\ \A i \in 1..Len(ledger) : /\ ledger[i].body.timestamp \in Nat
                                       /\ ledger[i].body.payload_hash \in Nat
          /\ \A t \in Thread : req[t].arg \in Nat
    <2>1. /\ ledger \in Seq(Block) /\ ledgerFile \in Seq(Block)
          /\ req \in [Thread -> Request] /\ clock \in Nat /\ tampers \in Nat
        BY DEF TypeInv, TypeOK
    <2>2. \A i \in 1..Len(ledger) : ledger[i] \in Block
        BY <2>1, ElementOfSeq
    <2> QED  BY <2>1, <2>2, LenProperties DEF Block, Body, Request
<1> USE DEF StampsInv, StampsInOrder
<1>1. ASSUME NEW w \in Worker, Receive(w) PROVE StampsInv'
    <2>1. PICK request :
              /\ req' = [req EXCEPT ![w] = request]
              /\ request.op \in {"register", "heartbeat"} => request.arg <= clock
              /\ UNCHANGED <<ledger, clock, tampers>>
        <3>1. PICK request, first :
                  /\ Accept(w, request, first)
                  /\ \/ request.op = "append"
                     \/ request.arg \in {0, clock}
            BY <1>1 DEF Receive, ReceiveRegister, ReceiveHeartbeat, ReceiveAppend
        <3>2. request.op \in {"register", "heartbeat"} => request.arg <= clock
            BY <3>1, <1>types
        <3> QED  BY <3>1, <3>2 DEF Accept, memory
    <2> QED  BY <2>1, <1>types, ThreadFacts
<1>2. ASSUME NEW t \in Thread, UpsertPeer(t) PROVE StampsInv'
    <2>1. /\ req' = [req EXCEPT ![t].arg = clock]
          /\ UNCHANGED <<ledger, clock, tampers>>
        BY <1>2 DEF UpsertPeer, bounds
    <2>2. \A u \in Thread : /\ req'[u].op = req[u].op
                            /\ req'[u].arg = IF u = t THEN clock ELSE req[u].arg
        BY <2>1, <1>types DEF Request
    <2> QED  BY <2>1, <2>2, <1>types
<1>3. ASSUME NEW t \in Thread,
             Heartbeat(t) \/ HeartbeatUnknown(t) \/ SavePeers(t) \/ SaveLedger(t)
                \/ SaveFails(t) \/ Reply(t)
      PROVE  StampsInv'
    <2>1. UNCHANGED <<ledger, req, clock, tampers>>
        BY <1>3 DEF Heartbeat, HeartbeatUnknown, SavePeers, SaveLedger, SaveFails,
                    Reply, memory, bounds
    <2> QED  BY <2>1
<1>4. ASSUME NEW t \in Thread, AppendBlock(t) PROVE StampsInv'
    <2>1. PICK block \in Block :
              /\ block.body.timestamp = clock
              /\ block.body.event_type = EventOf[req[t].op]
              /\ block.body.payload_hash = req[t].arg
              /\ Len(ledger') = Len(ledger) + 1
              /\ \A i \in 1..Len(ledger) : ledger'[i] = ledger[i]
              /\ ledger'[Len(ledger) + 1] = block
        BY <1>4, AppendBlockEffect
    <2>2. UNCHANGED <<req, clock, tampers>>
        BY <1>4 DEF AppendBlock, bounds
    <2>3. EventOf[req[t].op] \in {"peer_registered", "peer_heartbeat"}
              => req[t].op \in {"register", "heartbeat"}
        BY <1>types DEF EventOf, Request, Op
    <2>4. ASSUME tampers = 0, NEW j \in 1..Len(ledger')
          PROVE  /\ ledger'[j].body.timestamp <= clock
                 /\ \A i \in 1..j : ledger'[i].body.timestamp <= ledger'[j].body.timestamp
                 /\ ledger'[j].body.event_type \in {"peer_registered", "peer_heartbeat"}
                        => ledger'[j].body.payload_hash <= ledger'[j].body.timestamp
        <3>1. CASE j \in 1..Len(ledger)
            <4>1. \A i \in 1..j : i \in 1..Len(ledger)
                BY <3>1, <1>types
            <4> QED  BY <2>1, <2>4, <3>1, <4>1
        <3>2. CASE j = Len(ledger) + 1
            <4>1. \A i \in 1..j : i \in 1..Len(ledger) \/ i = j
                BY <3>2, <1>types
            <4>2. ledger'[j].body.timestamp = clock
                BY <2>1, <3>2
            <4>3. \A i \in 1..Len(ledger) : ledger'[i].body.timestamp <= clock
                BY <2>1, <2>4
            <4>4. req[t].op \in {"register", "heartbeat"} => req[t].arg <= clock
                OBVIOUS
            <4>5. ledger'[j].body.event_type \in {"peer_registered", "peer_heartbeat"}
                      => ledger'[j].body.payload_hash <= clock
                BY <2>1, <2>3, <3>2, <4>4
            <4> QED  BY <4>1, <4>2, <4>3, <4>5, <1>types
        <3> QED  BY <2>1, <3>1, <3>2, <1>types
    <2> QED  BY <2>2, <2>4
<1>5. CASE VerifyBroken
    <2>1. /\ req' = [req EXCEPT ![Verifier] = [op |-> "report", actor |-> Registry,
                                               arg |-> Len(ledger)]]
          /\ UNCHANGED <<ledger, clock, tampers>>
        BY <1>5 DEF VerifyBroken, memory, bounds
    <2> QED  BY <2>1, <1>types, ThreadFacts
<1>6. CASE VerifyIntact
    BY <1>6 DEF VerifyIntact, memory, bounds
<1>7. CASE Tick
    <2>1. clock' = clock + 1 /\ UNCHANGED <<ledger, req, tampers>>
        BY <1>7 DEF Tick, memory, bounds
    <2> QED  BY <2>1, <1>types
<1>8. CASE Restart
    <2>1. ledger' = ledgerFile /\ req' = NoRequests /\ UNCHANGED <<clock, tampers>>
        BY <1>8 DEF Restart
    <2>2. tampers = 0 => /\ Len(ledgerFile) <= Len(ledger)
                         /\ \A i \in 1..Len(ledgerFile) : ledgerFile[i] = ledger[i]
        BY DEF AnswersStoredOnce, Extends
    <2>3. \A t \in Thread : req'[t].op = "report"
        BY <2>1 DEF NoRequests, NoRequest
    <2>4. ASSUME tampers = 0, NEW j \in 1..Len(ledgerFile)
          PROVE  j \in 1..Len(ledger) /\ \A i \in 1..j : i \in 1..Len(ledgerFile)
        BY <2>2, <2>4, <1>types
    <2> QED  BY <2>1, <2>2, <2>3, <2>4
<1>9. CASE Tamper
    BY <1>9, <1>types DEF Tamper, memory
<1>10. CASE UNCHANGED vars
    BY <1>10 DEF vars, memory, bounds
<1> QED
    BY <1>1, <1>2, <1>3, <1>4, <1>5, <1>6, <1>7, <1>8, <1>9, <1>10
    DEF Next, Step, Verify

\* However requests race for the lock, history is written in the order of its
\* time stamps, and no block is stamped before what it records.
THEOREM StampsAreInOrder == Spec => []StampsInOrder
<1>1. Init => TypeInv
    BY InitTypeOK, ThreadFacts DEF TypeInv, LocalsInv, Init, AllIdle
<1>2. Init => StampsInv
    BY DEF Init, StampsInv, StampsInOrder, NoRequests, NoRequest
<1>3. StampsInv => StampsInOrder
    BY DEF StampsInv
<1> QED
    BY <1>1, <1>2, <1>3, InitAnswers, StepTypeInv, StepAnswers, StepStampsInv, PTL
    DEF Spec

-----------------------------------------------------------------------------
(* Damage.                                                                 *)

\* A chain that verifies was valid at every earlier length.
LEMMA PrefixOfValid ==
    ASSUME NEW chain \in Seq(Block), NEW b \in Block, Valid(Append(chain, b))
    PROVE  Valid(chain)
<1> DEFINE longer == Append(chain, b)
<1>1. /\ Len(longer) = Len(chain) + 1 /\ Len(chain) \in Nat
      /\ \A i \in 1..Len(chain) : longer[i] = chain[i]
    BY AppendProperties, LenProperties
<1>2. Valid(longer)
    OBVIOUS
<1> HIDE DEF longer
<1>3. ASSUME NEW i \in 1..Len(chain) PROVE LinkOK(chain, i) /\ SealOK(chain, i)
    <2>1. LinkOK(longer, i) /\ SealOK(longer, i)
        BY <1>1, <1>2 DEF Valid
    <2>2. longer[i] = chain[i] /\ (i # 1 => longer[i - 1] = chain[i - 1])
        BY <1>1
    <2> QED  BY <2>1, <2>2 DEF LinkOK, SealOK
<1> QED  BY <1>3 DEF Valid

\* Within the life of a process the ledger in memory stays or grows by a block.
LEMMA LedgerStaysOrGrows ==
    ASSUME TypeInv, [Next]_vars, crashes' = crashes
    PROVE  ledger' = ledger \/ \E b \in Block : ledger' = Append(ledger, b)
<1>1. ASSUME NEW w \in Worker, Receive(w) PROVE ledger' = ledger
    BY <1>1
    DEF Receive, ReceiveRegister, ReceiveHeartbeat, ReceiveAppend, Accept, memory
<1>2. ASSUME NEW t \in Thread, AppendBlock(t)
      PROVE  \E b \in Block : ledger' = Append(ledger, b)
    BY <1>2, AppendBlockEffect
<1>3. ASSUME NEW t \in Thread,
             UpsertPeer(t) \/ Heartbeat(t) \/ HeartbeatUnknown(t) \/ SavePeers(t)
                \/ SaveLedger(t) \/ SaveFails(t) \/ Reply(t)
      PROVE  ledger' = ledger
    BY <1>3 DEF UpsertPeer, Heartbeat, HeartbeatUnknown, SavePeers, SaveLedger,
                SaveFails, Reply, memory
<1>4. CASE Verify \/ Tick \/ Tamper \/ UNCHANGED vars
    BY <1>4 DEF Verify, VerifyIntact, VerifyBroken, Tick, Tamper, vars, memory
<1>5. ~ Restart
    BY DEF Restart, TypeInv, TypeOK
<1> QED  BY <1>1, <1>2, <1>3, <1>4, <1>5 DEF Next, Step

\* No block that a process appends makes a damaged chain verify again.
THEOREM DamageStaysVisible == Spec => DamageNotHidden
<1>1. Init => TypeInv
    BY InitTypeOK, ThreadFacts DEF TypeInv, LocalsInv, Init, AllIdle
<1>2. TypeInv /\ [Next]_vars
          => [~Valid(ledger) /\ crashes' = crashes => ~Valid(ledger')]_vars
    <2> SUFFICES ASSUME TypeInv, [Next]_vars, crashes' = crashes, Valid(ledger')
                 PROVE  Valid(ledger)
        OBVIOUS
    <2>1. CASE ledger' = ledger
        BY <2>1
    <2>2. ASSUME NEW b \in Block, ledger' = Append(ledger, b) PROVE Valid(ledger)
        <3>1. ledger \in Seq(Block)
            BY DEF TypeInv, TypeOK
        <3> QED  BY <2>2, <3>1, PrefixOfValid
    <2> QED  BY <2>1, <2>2, LedgerStaysOrGrows
<1> QED  BY <1>1, <1>2, StepTypeInv, PTL DEF Spec, DamageNotHidden

\* Block a is still at its place in the chain, or what stands there has been
\* damaged in a way that its seal shows for ever.
Kept(chain, a) ==
    /\ a.body.block_id \in 1..Len(chain)
    /\ LET b == chain[a.body.block_id]
       IN  b.block_hash = a.block_hash \/ Len(b.block_hash) <= Len(b.previous_hash)

\* Every block that was answered, or is about to be, is kept in memory and on
\* disk, by every thread and whatever was altered.
KeptInv ==
    /\ \A a \in acked : Sealed(a) /\ Kept(ledger, a) /\ Kept(ledgerFile, a)
    /\ \A t \in Thread : pc[t] = "reply" =>
           /\ Sealed(result[t])
           /\ Kept(ledger, result[t])
           /\ lock # t => Kept(ledgerFile, result[t])

\* Two sealed blocks with the same hash have the same contents.
LEMMA HashIsInjective ==
    ASSUME NEW p \in Digest, NEW q \in Digest, NEW x \in Body, NEW y \in Body,
           Append(p, x) = Append(q, y)
    PROVE  p = q /\ x = y
BY AppendInjective DEF Digest

\* A seal that holds proves that the block is the one that was answered.
LEMMA ValidKeeps ==
    ASSUME NEW chain \in Seq(Block), NEW a \in Block, Sealed(a), Kept(chain, a),
           Valid(chain)
    PROVE  a \in BlocksOf(chain)
<1> DEFINE b == chain[a.body.block_id]
<1>1. a.body.block_id \in 1..Len(chain)
    BY DEF Kept
<1>2. b \in Block
    BY <1>1, ElementOfSeq
<1>3. b.block_hash = Append(b.previous_hash, b.body)
    BY <1>1 DEF Valid, SealOK, ComputeBlockHash
<1>4. a.block_hash = Append(a.previous_hash, a.body)
    BY DEF Sealed, ComputeBlockHash
<1>5. /\ a.previous_hash \in Seq(Body) /\ b.previous_hash \in Seq(Body)
      /\ a.body \in Body /\ b.body \in Body
    BY <1>2 DEF Block, Digest
<1>6. Len(b.block_hash) = Len(b.previous_hash) + 1 /\ Len(b.previous_hash) \in Nat
    BY <1>3, <1>5, AppendProperties, LenProperties
<1>7. b.block_hash = a.block_hash
    <2>1. b.block_hash = a.block_hash \/ Len(b.block_hash) <= Len(b.previous_hash)
        BY DEF Kept
    <2> HIDE DEF b
    <2> QED  BY <1>6, <2>1
<1>8. a.previous_hash = b.previous_hash /\ a.body = b.body
    <2> HIDE DEF b
    <2>1. Append(a.previous_hash, a.body) = Append(b.previous_hash, b.body)
        BY <1>3, <1>4, <1>7
    <2> QED  BY <1>5, <2>1, HashIsInjective DEF Digest
<1>9. a = b
    BY <1>2, <1>7, <1>8 DEF Block
<1> QED  BY <1>1, <1>9 DEF BlocksOf

\* Every step keeps the blocks that were answered, alterations included.
LEMMA StepKeptInv == TypeInv /\ KeptInv /\ [Next]_vars => KeptInv'
<1> SUFFICES ASSUME TypeInv, KeptInv, [Next]_vars PROVE KeptInv'
    OBVIOUS
<1>types. /\ ledger \in Seq(Block) /\ Len(ledger) \in Nat
          /\ ledgerFile \in Seq(Block) /\ Len(ledgerFile) \in Nat
          /\ pc \in [Thread -> {"idle", "peer", "block", "reply"}]
          /\ result \in [Thread -> Block \cup {NoBlock}]
    BY LenProperties DEF TypeInv, TypeOK
<1> USE DEF KeptInv
<1>1. ASSUME NEW w \in Worker, Receive(w) PROVE KeptInv'
    <2>1. PICK first \in {"peer", "block"} : pc' = [pc EXCEPT ![w] = first]
        BY <1>1 DEF Receive, ReceiveRegister, ReceiveHeartbeat, ReceiveAppend, Accept
    <2>2. UNCHANGED <<ledger, ledgerFile, lock, result, acked>>
        BY <1>1 DEF Receive, ReceiveRegister, ReceiveHeartbeat, ReceiveAppend, Accept,
                    memory, files
    <2> QED  BY <2>1, <2>2, <1>types, ThreadFacts
<1>2. ASSUME NEW t \in Thread, UpsertPeer(t) \/ Heartbeat(t) PROVE KeptInv'
    <2>1. /\ pc' = [pc EXCEPT ![t] = "block"] /\ lock = Free
          /\ UNCHANGED <<ledger, ledgerFile, result, acked>>
        BY <1>2 DEF UpsertPeer, Heartbeat, Lock, files
    <2> QED  BY <2>1, <1>types, ThreadFacts
<1>3. ASSUME NEW t \in Thread, HeartbeatUnknown(t) PROVE KeptInv'
    <2>1. /\ pc' = [pc EXCEPT ![t] = "idle"]
          /\ UNCHANGED <<ledger, ledgerFile, lock, result, acked>>
        BY <1>3 DEF HeartbeatUnknown, memory, files
    <2> QED  BY <2>1, <1>types
<1>4. ASSUME NEW t \in Thread, AppendBlock(t) PROVE KeptInv'
    <2>1. PICK block \in Block :
              /\ block.body.block_id = Len(ledger) + 1
              /\ Sealed(block)
              /\ Len(ledger') = Len(ledger) + 1
              /\ \A i \in 1..Len(ledger) : ledger'[i] = ledger[i]
              /\ ledger'[Len(ledger) + 1] = block
              /\ result' = [result EXCEPT ![t] = block]
        BY <1>4, AppendBlockEffect
    <2>2. /\ pc' = [pc EXCEPT ![t] = "reply"] /\ lock = Free /\ lock' = t
          /\ UNCHANGED <<ledgerFile, acked>>
        BY <1>4 DEF AppendBlock, Lock, files
    <2>3. Kept(ledger', block)
        BY <2>1, <1>types DEF Kept
    <2>4. \A a : Kept(ledger, a) => Kept(ledger', a)
        BY <2>1, <1>types DEF Kept
    <2> QED  BY <2>1, <2>2, <2>3, <2>4, <1>types, ThreadFacts
<1>5. ASSUME NEW t \in Thread, SavePeers(t) PROVE KeptInv'
    BY <1>5 DEF SavePeers, memory
<1>6. ASSUME NEW t \in Thread, SaveLedger(t) PROVE KeptInv'
    <2>1. /\ ledgerFile' = ledger
          /\ UNCHANGED <<ledger, pc, result, acked>>
        BY <1>6 DEF SaveLedger, memory
    <2> QED  BY <2>1
<1>7. ASSUME NEW t \in Thread, SaveFails(t) PROVE KeptInv'
    <2>1. /\ pc' = [pc EXCEPT ![t] = "idle"] /\ lock = t
          /\ UNCHANGED <<ledger, ledgerFile, result, acked>>
        BY <1>7 DEF SaveFails, memory, files
    <2> QED  BY <2>1, <1>types
<1>8. ASSUME NEW t \in Thread, Reply(t) PROVE KeptInv'
    <2>1. /\ pc[t] = "reply" /\ pc' = [pc EXCEPT ![t] = "idle"] /\ lock # t
          /\ acked' \subseteq acked \cup {result[t]}
          /\ UNCHANGED <<ledger, ledgerFile, lock, result>>
        BY <1>8 DEF Reply, memory, files
    <2> QED  BY <2>1, <1>types
<1>9. CASE Verify \/ Tick
    <2>1. CASE VerifyBroken
        <3>1. /\ pc' = [pc EXCEPT ![Verifier] = "block"]
              /\ UNCHANGED <<ledger, ledgerFile, lock, result, acked>>
            BY <2>1 DEF VerifyBroken, memory, files
        <3> QED  BY <3>1, <1>types, ThreadFacts
    <2>2. CASE VerifyIntact \/ Tick
        BY <2>2 DEF VerifyIntact, Tick, memory, files
    <2> QED  BY <1>9, <2>1, <2>2 DEF Verify
<1>10. CASE Restart
    <2>1. /\ ledger' = ledgerFile /\ UNCHANGED <<ledgerFile, acked>>
          /\ \A t \in Thread : pc'[t] = "idle"
        BY <1>10 DEF Restart, files, AllIdle
    <2> QED  BY <2>1
<1>11. CASE Tamper
    <2>1. UNCHANGED <<ledger, pc, lock, result, acked>>
        BY <1>11 DEF Tamper, memory
    <2>2. ASSUME NEW a, Kept(ledgerFile, a) PROVE Kept(ledgerFile', a)
        <3> DEFINE i == a.body.block_id
        <3>1. i \in 1..Len(ledgerFile)
            BY <2>2 DEF Kept
        <3>2. /\ Len(ledgerFile[i].previous_hash) \in Nat
              /\ Len(ledgerFile[i].block_hash) \in Nat
            <4>1. ledgerFile[i] \in Block
                BY <3>1, <1>types, ElementOfSeq
            <4> QED  BY <4>1, LenProperties DEF Block, Digest
        <3>3. /\ Len(ledgerFile') = Len(ledgerFile)
              /\ \/ ledgerFile'[i].block_hash = ledgerFile[i].block_hash
                 \/ Len(ledgerFile'[i].block_hash) <= Len(ledgerFile'[i].previous_hash)
              /\ Len(ledgerFile[i].previous_hash) <= Len(ledgerFile'[i].previous_hash)
            BY <1>11, <3>1, TamperEffect
        <3>4. Len(ledgerFile'[i].previous_hash) \in Nat
            <4>1. ledgerFile' \in Seq(Block)
                BY StepTypeInv DEF TypeInv, TypeOK
            <4>2. ledgerFile'[i] \in Block
                BY <3>1, <3>3, <4>1, ElementOfSeq
            <4> QED  BY <4>2, LenProperties DEF Block, Digest
        <3> QED  BY <2>2, <3>1, <3>2, <3>3, <3>4 DEF Kept
    <2> QED  BY <2>1, <2>2
<1>12. CASE UNCHANGED vars
    BY <1>12 DEF vars, memory, files
<1> QED
    BY <1>1, <1>2, <1>3, <1>4, <1>5, <1>6, <1>7, <1>8, <1>9, <1>10, <1>11, <1>12
    DEF Next, Step

\* For any number of alterations and restarts: a ledger that verifies has every
\* block that was ever answered with success, in memory and on disk.
THEOREM VerifiedLedgerIsComplete == Spec => []VerifiedLedgerKeepsAnswered
<1>1. Init => TypeInv
    BY InitTypeOK, ThreadFacts DEF TypeInv, LocalsInv, Init, AllIdle
<1>2. Init => KeptInv
    BY DEF Init, KeptInv, AllIdle
<1>3. TypeInv /\ KeptInv => VerifiedLedgerKeepsAnswered
    BY ValidKeeps DEF KeptInv, TypeInv, TypeOK, VerifiedLedgerKeepsAnswered
<1> QED  BY <1>1, <1>2, <1>3, StepTypeInv, StepKeptInv, PTL DEF Spec

-----------------------------------------------------------------------------
(* Nobody keeps the lock, and requests are short.                          *)

\* Whoever has the lock is writing the files, in the middle of a request.
LockInv ==
    /\ lock = Free <=> saving = "no"
    /\ \A t \in Thread : lock = t => pc[t] \in {"block", "reply"}

\* The steps that a thread has still to take for its request.
Left(t) ==
    CASE pc[t] = "peer"  -> 7
      [] pc[t] = "block" /\ lock = t -> IF saving = "peers" THEN 6 ELSE 5
      [] pc[t] = "block" /\ lock # t -> 4
      [] pc[t] = "reply" /\ lock = t -> IF saving = "peers" THEN 3 ELSE 2
      [] pc[t] = "reply" /\ lock # t -> 1
      [] OTHER -> 0

\* Each step of a thread leaves fewer, a failed write or a restart ends the
\* request, and no step of another thread adds any.
GetsOn == \A t \in Thread :
    /\ Step(t) => Left(t)' < Left(t)
    /\ SaveFails(t) \/ Restart => Left(t)' = 0
    /\ \A u \in Thread \ {t} : Step(u) \/ SaveFails(u) => Left(t)' = Left(t)

\* Every step keeps the lock in use.
LEMMA StepLockInv == TypeInv /\ LockInv /\ [Next]_vars => LockInv'
<1> SUFFICES ASSUME TypeInv, LockInv, [Next]_vars PROVE LockInv'
    OBVIOUS
<1> USE ThreadFacts
<1>0. pc \in [Thread -> {"idle", "peer", "block", "reply"}] /\ saving \in {"no", "peers", "ledger"}
    BY DEF TypeInv, TypeOK
<1>1. ASSUME NEW w \in Worker, Receive(w) PROVE LockInv'
    <2>1. /\ lock' = lock /\ saving' = saving /\ lock # w
          /\ \A u \in Thread \ {w} : pc'[u] = pc[u]
        BY <1>0, <1>1
        DEF Receive, ReceiveRegister, ReceiveHeartbeat, ReceiveAppend, Accept
    <2> QED  BY <2>1 DEF LockInv
<1>2. ASSUME NEW t \in Thread, UpsertPeer(t) \/ Heartbeat(t) \/ AppendBlock(t)
      PROVE  LockInv'
    <2>1. lock' = t /\ saving' = "peers" /\ pc'[t] \in {"block", "reply"}
        BY <1>0, <1>2 DEF UpsertPeer, Heartbeat, AppendBlock, Lock
    <2> QED  BY <2>1 DEF LockInv
<1>3. ASSUME NEW t \in Thread, HeartbeatUnknown(t) \/ Reply(t) PROVE LockInv'
    <2>1. /\ lock' = lock /\ saving' = saving /\ lock # t
          /\ \A u \in Thread \ {t} : pc'[u] = pc[u]
        BY <1>0, <1>3 DEF HeartbeatUnknown, Reply
    <2> QED  BY <2>1 DEF LockInv
<1>4. ASSUME NEW t \in Thread, SavePeers(t) \/ SaveLedger(t) PROVE LockInv'
    BY <1>0, <1>4 DEF SavePeers, SaveLedger, LockInv
<1>5. ASSUME NEW t \in Thread, SaveFails(t) PROVE LockInv'
    BY <1>5 DEF SaveFails, LockInv
<1>6. CASE Verify
    <2>1. /\ lock' = lock /\ saving' = saving /\ lock = Free
        BY <1>6 DEF Verify, VerifyIntact, VerifyBroken
    <2> QED  BY <2>1 DEF LockInv
<1>7. CASE Restart
    BY <1>7 DEF Restart, LockInv
<1>8. CASE Tick \/ Tamper \/ UNCHANGED vars
    BY <1>8 DEF Tick, Tamper, vars, LockInv
<1> QED  BY <1>1, <1>2, <1>3, <1>4, <1>5, <1>6, <1>7, <1>8 DEF Next, Step

\* A thread that has the lock is at work on its request.
THEOREM LockIsInUse == Spec => []LockInv
<1>1. Init => LockInv
    BY ThreadFacts DEF Init, LockInv
<1>2. TypeInv /\ LockInv /\ [Next]_vars => LockInv'
    BY StepLockInv
<1>3. Init => TypeInv
    BY InitTypeOK, ThreadFacts DEF TypeInv, LocalsInv, Init, AllIdle
<1> QED  BY <1>1, <1>2, <1>3, StepTypeInv, PTL DEF Spec

\* The count goes down with the steps of its thread only.
LEMMA StepGetsOn == TypeInv /\ LockInv /\ [Next]_vars => GetsOn
<1> SUFFICES ASSUME TypeInv, LockInv, NEW t \in Thread
             PROVE  /\ Step(t) => Left(t)' < Left(t)
                    /\ SaveFails(t) \/ Restart => Left(t)' = 0
                    /\ \A u \in Thread \ {t} : Step(u) \/ SaveFails(u) => Left(t)' = Left(t)
    BY DEF GetsOn
<1> USE ThreadFacts
<1>0. /\ pc \in [Thread -> {"idle", "peer", "block", "reply"}]
      /\ saving \in {"no", "peers", "ledger"}
    BY DEF TypeInv, TypeOK
<1>1. ASSUME Step(t) PROVE Left(t)' < Left(t)
    <2>1. ASSUME UpsertPeer(t) \/ Heartbeat(t) \/ AppendBlock(t) PROVE Left(t)' < Left(t)
        <3>1. /\ lock # t /\ lock' = t /\ saving' = "peers"
              /\ \/ pc[t] = "peer" /\ pc'[t] = "block"
                 \/ pc[t] = "block" /\ pc'[t] = "reply"
            BY <1>0, <2>1 DEF UpsertPeer, Heartbeat, AppendBlock, Lock
        <3> QED  BY <3>1 DEF Left
    <2>2. ASSUME HeartbeatUnknown(t) \/ Reply(t) PROVE Left(t)' < Left(t)
        <3>1. /\ lock # t /\ pc[t] \in {"peer", "reply"} /\ pc'[t] = "idle"
            BY <1>0, <2>2 DEF HeartbeatUnknown, Reply
        <3> QED  BY <3>1 DEF Left
    <2>3. ASSUME SavePeers(t) \/ SaveLedger(t) PROVE Left(t)' < Left(t)
        <3>1. /\ lock = t /\ pc' = pc /\ pc[t] \in {"block", "reply"}
              /\ \/ saving = "peers" /\ saving' = "ledger" /\ lock' = t
                 \/ saving = "ledger" /\ lock' # t
            BY <2>3 DEF SavePeers, SaveLedger, LockInv
        <3> QED  BY <3>1 DEF Left
    <2> QED  BY <1>1, <2>1, <2>2, <2>3 DEF Step
<1>2. ASSUME SaveFails(t) \/ Restart PROVE Left(t)' = 0
    <2>1. pc'[t] = "idle"
        BY <1>0, <1>2 DEF SaveFails, Restart, AllIdle
    <2> QED  BY <2>1 DEF Left
<1>3. ASSUME NEW u \in Thread \ {t}, Step(u) \/ SaveFails(u) PROVE Left(t)' = Left(t)
    <2>1. pc'[t] = pc[t]
        BY <1>0, <1>3
        DEF Step, UpsertPeer, Heartbeat, HeartbeatUnknown, AppendBlock, Lock, SavePeers,
            SaveLedger, SaveFails, Reply
    <2>2. \/ lock # t /\ lock' # t
          \/ lock' = lock /\ saving' = saving
        BY <1>3
        DEF Step, UpsertPeer, Heartbeat, HeartbeatUnknown, AppendBlock, Lock, SavePeers,
            SaveLedger, SaveFails, Reply
    <2> QED  BY <2>1, <2>2 DEF Left
<1> QED  BY <1>1, <1>2, <1>3

\* A request is over after at most seven steps of its thread, whatever the
\* others do; so the only thing that it can wait for is the lock, and that is
\* held by a thread with at most two steps to go before it releases it.
THEOREM RequestsAreShort ==
    Spec => [](\A t \in Thread : Left(t) \in 0..7) /\ [][GetsOn]_vars
<1>1. Init => LockInv
    BY ThreadFacts DEF Init, LockInv
<1>2. TypeInv /\ LockInv /\ [Next]_vars => LockInv'
    BY StepLockInv
<1>3. TypeInv /\ LockInv /\ [Next]_vars => GetsOn
    BY StepGetsOn
<1>4. \A t \in Thread : Left(t) \in 0..7
    BY DEF Left
<1>5. Init => TypeInv
    BY InitTypeOK, ThreadFacts DEF TypeInv, LocalsInv, Init, AllIdle
<1> QED  BY <1>1, <1>2, <1>3, <1>4, <1>5, StepTypeInv, PTL DEF Spec

=============================================================================
