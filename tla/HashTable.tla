------------------------------ MODULE HashTable ------------------------------
(***************************************************************************)
(* A hash table with integer keys and chains (src/src/map/hashtable_int.c).*)
(* A table is a function from bins to chains.  ht_hash(size, key) is the   *)
(* bin of a key; see IntHash.                                              *)
(***************************************************************************)
EXTENDS Integers, Sequences

CONSTANT ht_hash(_, _)

Bins(size)   == 0 .. size - 1
Tables(size) == [Bins(size) -> Seq([key : Int, value : Nat])]

ht_create(size) == [bin \in Bins(size) |-> << >>]

BinOf(size, key)       == ht_hash(size, key)
Chain(t, size, key)    == t[BinOf(size, key)]
IsIn(chain, key)       == \E i \in DOMAIN chain : chain[i].key = key
LinkOf(chain, key)     == CHOOSE i \in DOMAIN chain : chain[i].key = key

Link(key, value) == [key |-> key, value |-> value]

(* Slips ht_set could have: never looking for the key, putting a new link  *)
(* in place of the chain it should end.                                    *)
WithDouble(chain, key, value) == Append(chain, Link(key, value))
WithCut(chain, key, value) ==
  IF IsIn(chain, key)
  THEN [chain EXCEPT ![LinkOf(chain, key)] = Link(key, value)]
  ELSE << Link(key, value) >>

(* The chain after ht_set: the key's link has the new value, or a new link *)
(* ends the chain.                                                         *)
With(chain, key, value) ==
  IF IsIn(chain, key)
  THEN [chain EXCEPT ![LinkOf(chain, key)] = Link(key, value)]
  ELSE Append(chain, Link(key, value))

ht_set(t, size, key, value) ==
  [t EXCEPT ![BinOf(size, key)] = With(@, key, value)]

(* ht_get finds nothing unless the key is in the chain of its bin.         *)
ht_found(t, size, key) == IsIn(Chain(t, size, key), key)
ht_get(t, size, key) ==
  Chain(t, size, key)[LinkOf(Chain(t, size, key), key)].value

(* ht_get_keys goes through all links of all bins.                         *)
ht_get_keys(t) == UNION {{t[bin][i].key : i \in DOMAIN t[bin]} : bin \in DOMAIN t}

(* Every link is where ht_get looks for its key, and is the only one that  *)
(* has it.                                                                 *)
Chained(t, size) ==
  \A bin \in DOMAIN t : \A i \in DOMAIN t[bin] :
    /\ BinOf(size, t[bin][i].key) = bin
    /\ \A j \in DOMAIN t[bin] : t[bin][j].key = t[bin][i].key => j = i
================================================================================
