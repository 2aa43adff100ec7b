---------------------------- MODULE VerifiedCache ----------------------------
(***************************************************************************)
(* A store of proven answers (verified_cache.rs), as operators.  It is a   *)
(* set of entries, at most one per key: an entry is the key it answers,    *)
(* the decision that proved the answer, and its place in the order of      *)
(* storing.                                                                *)
(***************************************************************************)
EXTENDS Naturals, FiniteSetsExt

CONSTANTS
  MaxEntries   \* max_entries of an in-process store

ASSUME MaxEntriesAssumption == MaxEntries \in Nat \ {0}

Hits(store, key) == {e \in store : e.key = key}

\* HashMap::insert: a new answer for a key takes the old one's place.
Inserted(store, key, source) ==
  (store \ Hits(store, key)) \cup
    {[key |-> key, source |-> source, stored |-> Max({0} \cup {e.stored : e \in store}) + 1]}

\* A store at its limit first drops its oldest half (what has expired goes by the
\* Expire action).
Older(store, e) == {f \in store : f.stored < e.stored}
Half == (IF MaxEntries > 2 THEN MaxEntries ELSE 2) \div 2
Trimmed(store) ==
  IF Cardinality(store) < MaxEntries THEN store
  ELSE {e \in store : Cardinality(Older(store, e)) >= Half}

\* Mutant: the store is trimmed only once it is over its limit.
PutLate(store, key, source) ==
  Inserted(IF Cardinality(store) <= MaxEntries THEN store ELSE Trimmed(store), key, source)
PutInProcess(store, key, source) == Inserted(Trimmed(store), key, source)

\* Every entry a decision proved goes.
Without(store, source) == {e \in store : e.source # source}
===============================================================================
