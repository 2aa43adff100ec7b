------------------------------ MODULE AuditChain ------------------------------
(***************************************************************************)
(* The hash chain of crates/firstpass-core/src/hashchain.rs as operators   *)
(* on sequences of records.  A stored record carries its payload and the   *)
(* hash of the record before it; its own hash is derived.  SHA-256 over    *)
(* the canonical JSON is idealised as an injective function: the hash of a *)
(* record is the history it commits to, the payloads up to and including   *)
(* its own.                                                                *)
(***************************************************************************)
EXTENDS Naturals, Sequences

CONSTANT Payload     \* what a record says, apart from its link

Genesis == <<>>                        \* GENESIS_HASH
Digest == Seq(Payload)
Record == [payload : Payload, prev : Digest]

\* record_hash: over the whole content, prev included, own hash excluded.
RecordHash(rec) == Append(rec.prev, rec.payload)

\* The hash the record at position i must carry as prev (expected_prev).
ExpectedPrev(chain, i) == IF i = 1 THEN Genesis ELSE RecordHash(chain[i - 1])

\* verify_chain returns Ok.
Verifies(chain) == \A i \in 1..Len(chain) : chain[i].prev = ExpectedPrev(chain, i)

\* verify_chain's ChainBroken index (the first bad one), counted from 1.
BrokenAt(chain) ==
  CHOOSE i \in 1..Len(chain) :
    /\ chain[i].prev # ExpectedPrev(chain, i)
    /\ \A j \in 1..(i - 1) : chain[j].prev = ExpectedPrev(chain, j)

\* The hash the next record is linked to: that of the last row, or genesis.
HeadOf(chain) == IF chain = <<>> THEN Genesis ELSE RecordHash(chain[Len(chain)])

\* A record sealed on the head of the chain.
Seal(payload, head) == [payload |-> payload, prev |-> head]
===============================================================================
