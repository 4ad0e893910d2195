---------------------------- MODULE LedgerChain ----------------------------
(***************************************************************************)
(* The hash chain of registry_service/store.py, as pure operators.         *)
(*                                                                         *)
(* SHA-256 over the canonical JSON of a block is modelled by what the code *)
(* relies on: equal digests come from equal inputs.  The input of a block  *)
(* hash contains the previous digest, so a digest unfolds into the list of *)
(* everything hashed so far, and that list is its value here: hashing a    *)
(* body on top of a digest appends the body.  The None that stands before  *)
(* the first block is the empty digest.                                    *)
(***************************************************************************)
EXTENDS Naturals, Sequences

CONSTANTS
    EventType,      \* what a block may record
    Actor           \* who may be named as having done it

\* The hashed fields of a block besides the previous digest.  A payload is
\* reduced to the one number that tells two payloads of its kind apart.
Body == [block_id : Nat, timestamp : Nat, event_type : EventType,
         actor_node : Actor, payload_hash : Nat]

Digest == Seq(Body)

NoHash == <<>>

Block == [body : Body, previous_hash : Digest, block_hash : Digest]

ComputeBlockHash(b) == Append(b.previous_hash, b.body)

LastHash(chain) ==
    IF chain = <<>> THEN NoHash ELSE chain[Len(chain)].block_hash

\* Mutant: the block is sealed before it is linked.
NewBlockSealedUnlinked(chain, now, eventType, actor, payload) ==
    LET body == [block_id |-> Len(chain) + 1, timestamp |-> now,
                 event_type |-> eventType, actor_node |-> actor,
                 payload_hash |-> payload]
    IN  [body |-> body, previous_hash |-> LastHash(chain),
         block_hash |-> Append(NoHash, body)]

\* The block append_block builds on a chain: numbered, stamped, linked, sealed.
NewBlock(chain, now, eventType, actor, payload) ==
    LET body == [block_id |-> Len(chain) + 1, timestamp |-> now,
                 event_type |-> eventType, actor_node |-> actor,
                 payload_hash |-> payload]
    IN  [body |-> body, previous_hash |-> LastHash(chain),
         block_hash |-> Append(LastHash(chain), body)]

\* One round of the loop in verify_ledger: the link, then the seal.
LinkOK(chain, i) ==
    chain[i].previous_hash = IF i = 1 THEN NoHash ELSE chain[i - 1].block_hash

\* Mutant: trusts the stored hash.
SealTrusted(chain, i) == TRUE

SealOK(chain, i) == chain[i].block_hash = ComputeBlockHash(chain[i])

\* Mutant: only looks at the newest block.
ValidAtTheEnd(chain) ==
    chain # <<>> => LinkOK(chain, Len(chain)) /\ SealOK(chain, Len(chain))

Valid(chain) == \A i \in 1..Len(chain) : LinkOK(chain, i) /\ SealOK(chain, i)

BlocksOf(chain) == {chain[i] : i \in 1..Len(chain)}

Extends(new, old) ==
    /\ Len(old) <= Len(new)
    /\ \A i \in 1..Len(old) : new[i] = old[i]

=============================================================================
