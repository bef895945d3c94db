------------------------------ MODULE Dictionary ------------------------------
(***************************************************************************)
(* The dictionary of parameters (src/src/util/keyvalue_store.c), as pure   *)
(* operators on a record: the elements in use, in the order in which their *)
(* keys came, and how many elements memory has been allocated for.         *)
(***************************************************************************)
EXTENDS Integers, Sequences

CONSTANT LEN_KEYVALUE_LIST_BATCH

ASSUME BatchAssumption == LEN_KEYVALUE_LIST_BATCH \in Nat \ {0}

(* pgmpitune_init_dictionary and pgmpitune_cleanup_dictionary.             *)
Fresh   == [data |-> << >>, size |-> LEN_KEYVALUE_LIST_BATCH]
Cleaned == [data |-> << >>, size |-> 0]

HasKey(d, key) == \E i \in DOMAIN d.data : d.data[i].key = key

(* Where the loops over the elements stop: at the first one with the key,  *)
(* and none has it twice (see Sound).                                      *)
Place(d, key) == CHOOSE i \in DOMAIN d.data : d.data[i].key = key

(* pgmpitune_get_value_from_dict returns NULL for a key that is not there. *)
NULL == << >>
Value(d, key) == IF HasKey(d, key) THEN d.data[Place(d, key)].value ELSE NULL

(* A slip Grown could have: no room is kept for the next key.              *)
GrownLate(d) ==
  IF Len(d.data) > d.size THEN [d EXCEPT !.size = @ + LEN_KEYVALUE_LIST_BATCH] ELSE d

(* The allocation is enlarged after an element has been written, so that   *)
(* there is always room for the next one.                                  *)
Grown(d) ==
  IF Len(d.data) = d.size THEN [d EXCEPT !.size = @ + LEN_KEYVALUE_LIST_BATCH] ELSE d

(* A slip Put could have: a key that is there keeps its first value.       *)
PutOnce(d, key, value) ==
  IF HasKey(d, key) THEN d
  ELSE [d EXCEPT !.data = Append(@, [key |-> key, value |-> value])]

(* A key that is there gets a new value, another one the next element.     *)
Put(d, key, value) ==
  IF HasKey(d, key)
  THEN [d EXCEPT !.data = [@ EXCEPT ![Place(d, key)] = [key |-> key, value |-> value]]]
  ELSE [d EXCEPT !.data = Append(@, [key |-> key, value |-> value])]

(* pgmpitune_add_element_to_dict. *)
Added(d, key, value) == Grown(Put(d, key, value))

(* A dictionary has room for the element that is added next, and no key in *)
(* two elements: the one that look-ups find is the one that was replaced.  *)
Sound(d) ==
  /\ Len(d.data) < d.size
  /\ \A i, j \in DOMAIN d.data : d.data[i].key = d.data[j].key => i = j
================================================================================
