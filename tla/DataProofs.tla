------------------------------- MODULE DataProofs -------------------------------
(***************************************************************************)
(* The library's data: the dictionary and the hash table, and strings that *)
(* are taken apart by strtok.                                              *)
(*                                                                         *)
(* Of the maps: for any keys and values, any growth of the dictionary's    *)
(* allocation, any size of the hash table and any hash function that finds *)
(* a bin for the key, an addition keeps them in order, changes what they   *)
(* say of one key and nothing else.  Of strings: that strtok, called until *)
(* nothing is left, finds the words between the delimiters, and how many   *)
(* of them compute_argc counts.                                            *)
(***************************************************************************)
EXTENDS CommandLine, HashTable, FiniteSetTheorems, SequenceTheorems, TLAPS

-------------------------------------------------------------------------------
(* The dictionary. *)

(* A dictionary whose elements come from some set.                         *)
IsDictionary(d) ==
  /\ \E S : d.data \in Seq(S)
  /\ d.size \in Nat
  /\ d = [data |-> d.data, size |-> d.size]

Element(key, value) == [key |-> key, value |-> value]

(* A new dictionary is empty and has room.                                 *)
LEMMA FreshSound == IsDictionary(Fresh) /\ Sound(Fresh)
<1>1. Fresh.data = << >> /\ Fresh.size = LEN_KEYVALUE_LIST_BATCH BY DEF Fresh
<1>2. Fresh.data \in Seq({}) BY <1>1
<1>3. Fresh.size \in Nat /\ Fresh.size > 0 BY <1>1, BatchAssumption
<1>4. Fresh = [data |-> Fresh.data, size |-> Fresh.size] BY DEF Fresh
<1>5. Len(Fresh.data) = 0 /\ DOMAIN Fresh.data = {} BY <1>1
<1> QED BY <1>2, <1>3, <1>4, <1>5 DEF IsDictionary, Sound

(* One that has been cleaned up is empty.                                  *)
LEMMA CleanedIsDictionary == IsDictionary(Cleaned)
<1>1. Cleaned.data \in Seq({}) BY DEF Cleaned
<1> QED BY <1>1 DEF IsDictionary, Cleaned

(* An element in a dictionary that has each key once is what look-ups find.*)
LEMMA Found ==
  ASSUME NEW d, Sound(d), NEW i \in DOMAIN d.data
  PROVE  HasKey(d, d.data[i].key) /\ Value(d, d.data[i].key) = d.data[i].value
<1>1. HasKey(d, d.data[i].key) BY DEF HasKey
<1>2. Place(d, d.data[i].key) \in DOMAIN d.data
      /\ d.data[Place(d, d.data[i].key)].key = d.data[i].key
  BY DEF Place
<1>3. Place(d, d.data[i].key) = i BY <1>2 DEF Sound
<1> QED BY <1>1, <1>3 DEF Value

(* The elements after an addition: those of other keys, where they were,   *)
(* and one of this key.                                                    *)
LEMMA PutElements ==
  ASSUME NEW d, IsDictionary(d), Sound(d), NEW key, NEW value
  PROVE  LET e == Put(d, key, value)
         IN  /\ IsDictionary(e)
             /\ e.size = d.size
             /\ Len(e.data) <= d.size
             /\ \A i \in DOMAIN d.data :
                  i \in DOMAIN e.data /\ (d.data[i].key # key => e.data[i] = d.data[i])
             /\ \A i \in DOMAIN e.data :
                  e.data[i] = Element(key, value)
                    \/ (i \in DOMAIN d.data /\ e.data[i] = d.data[i] /\ d.data[i].key # key)
             /\ \E i \in DOMAIN e.data : e.data[i] = Element(key, value)
             /\ \A i, j \in DOMAIN e.data : e.data[i].key = e.data[j].key => i = j
<1> DEFINE e == Put(d, key, value)
           E == Element(key, value)
<1>1. PICK S : d.data \in Seq(S) BY DEF IsDictionary
<1>2. d.data \in Seq(S \cup {E}) BY <1>1
<1>3. Len(d.data) \in Nat /\ Len(d.data) < d.size /\ d.size \in Nat
  BY <1>1 DEF Sound, IsDictionary
<1>4. E.key = key BY DEF Element
<1>5. CASE HasKey(d, key)
  <2> DEFINE p == Place(d, key)
  <2>1. p \in DOMAIN d.data /\ d.data[p].key = key BY <1>5 DEF HasKey, Place
  <2>2. e = [data |-> [d.data EXCEPT ![p] = E], size |-> d.size]
    BY <1>5 DEF Put, Element, IsDictionary
  <2> HIDE DEF p, e, E
  <2>3. e.data = [d.data EXCEPT ![p] = E] /\ e.size = d.size BY <2>2
  <2>4. e.data \in Seq(S \cup {E}) /\ Len(e.data) = Len(d.data)
        /\ DOMAIN e.data = DOMAIN d.data
    BY <1>1, <1>2, <2>1, <2>3
  <2>5. e.data[p] = E /\ \A i \in DOMAIN d.data : i # p => e.data[i] = d.data[i]
    BY <1>1, <2>1, <2>3
  <2>6. \A i \in DOMAIN d.data : d.data[i].key = key => i = p BY <2>1 DEF Sound
  <2>7. IsDictionary(e) BY <2>2, <2>3, <2>4, <1>3 DEF IsDictionary
  <2>8. \A i, j \in DOMAIN e.data : e.data[i].key = e.data[j].key => i = j
    BY <2>1, <2>4, <2>5, <1>4 DEF Sound
  <2> QED BY <1>3, <2>1, <2>3, <2>4, <2>5, <2>6, <2>7, <2>8 DEF e, E
<1>6. CASE ~HasKey(d, key)
  <2> DEFINE n == Len(d.data) + 1
  <2>1. e = [data |-> Append(d.data, E), size |-> d.size]
    BY <1>6 DEF Put, Element, IsDictionary
  <2> HIDE DEF e, E
  <2>2. e.data = Append(d.data, E) /\ e.size = d.size BY <2>1
  <2>3. e.data \in Seq(S \cup {E}) /\ Len(e.data) = n /\ DOMAIN e.data = 1..n
    BY <1>2, <2>2
  <2>4. DOMAIN d.data = 1 .. Len(d.data) BY <1>1
  <2>5. e.data[n] = E /\ \A i \in DOMAIN d.data : e.data[i] = d.data[i]
    BY <1>1, <2>2
  <2>6. \A i \in DOMAIN d.data : d.data[i].key # key BY <1>6 DEF HasKey
  <2>7. IsDictionary(e) BY <2>1, <2>2, <2>3, <1>3 DEF IsDictionary
  <2>8. \A i \in DOMAIN e.data : i = n \/ i \in DOMAIN d.data BY <1>3, <2>3, <2>4
  <2>9. n \in DOMAIN e.data /\ n \notin DOMAIN d.data BY <1>3, <2>3, <2>4
  <2>10. \A i, j \in DOMAIN e.data : e.data[i].key = e.data[j].key => i = j
    BY <2>5, <2>6, <2>8, <1>4 DEF Sound
  <2>11. \A i \in DOMAIN d.data : i \in DOMAIN e.data BY <1>3, <2>3, <2>4
  <2>12. Len(e.data) <= d.size BY <1>3, <2>3
  <2> HIDE DEF n
  <2> QED BY <2>2, <2>5, <2>6, <2>7, <2>8, <2>9, <2>10, <2>11, <2>12 DEF e, E
<1> QED BY <1>5, <1>6

(* The enlargement after an element has been written.                      *)
LEMMA GrownElements ==
  ASSUME NEW d, IsDictionary(d), Len(d.data) <= d.size
  PROVE  /\ IsDictionary(Grown(d))
         /\ Grown(d).data = d.data
         /\ Len(d.data) < Grown(d).size
<1>1. Len(d.data) \in Nat /\ d.size \in Nat BY DEF IsDictionary
<1>2. CASE Len(d.data) = d.size
  <2>1. Grown(d) = [data |-> d.data, size |-> d.size + LEN_KEYVALUE_LIST_BATCH]
    BY <1>2 DEF Grown, IsDictionary
  <2> QED BY <1>1, <1>2, <2>1, BatchAssumption DEF IsDictionary
<1>3. CASE Len(d.data) # d.size BY <1>1, <1>3 DEF Grown
<1> QED BY <1>2, <1>3

(* What pgmpitune_add_element_to_dict does.                                *)
LEMMA AddedSays ==
  ASSUME NEW d, IsDictionary(d), Sound(d), NEW key, NEW value
  PROVE  LET e == Added(d, key, value)
         IN  /\ IsDictionary(e) /\ Sound(e)
             /\ HasKey(e, key) /\ Value(e, key) = value
             /\ \A k : k # key => (HasKey(e, k) <=> HasKey(d, k))
             /\ \A k : k # key /\ HasKey(d, k) => Value(e, k) = Value(d, k)
<1> DEFINE f == Put(d, key, value)
           e == Added(d, key, value)
<1> HIDE DEF f
<1>1. /\ IsDictionary(f) /\ Len(f.data) <= f.size
      /\ \A i \in DOMAIN d.data :
           i \in DOMAIN f.data /\ (d.data[i].key # key => f.data[i] = d.data[i])
      /\ \A i \in DOMAIN f.data :
           f.data[i] = Element(key, value)
             \/ (i \in DOMAIN d.data /\ f.data[i] = d.data[i] /\ d.data[i].key # key)
      /\ \E i \in DOMAIN f.data : f.data[i] = Element(key, value)
      /\ \A i, j \in DOMAIN f.data : f.data[i].key = f.data[j].key => i = j
  BY PutElements DEF f
<1>2. e = Grown(f) BY DEF Added, f
<1> HIDE DEF e
<1>3. IsDictionary(e) /\ e.data = f.data /\ Len(e.data) < e.size
  BY <1>1, <1>2, GrownElements
<1>4. Sound(e) BY <1>1, <1>3 DEF Sound
<1>5. HasKey(e, key) /\ Value(e, key) = value
  <2>1. PICK i \in DOMAIN e.data : e.data[i] = Element(key, value) BY <1>1, <1>3
  <2>2. e.data[i].key = key /\ e.data[i].value = value BY <2>1 DEF Element
  <2> QED BY <1>4, <2>2, Found
<1>6. ASSUME NEW k, k # key, HasKey(d, k)
      PROVE  HasKey(e, k) /\ Value(e, k) = Value(d, k)
  <2>1. PICK i \in DOMAIN d.data : d.data[i].key = k BY <1>6 DEF HasKey
  <2>2. i \in DOMAIN e.data /\ e.data[i] = d.data[i] BY <1>1, <1>3, <1>6, <2>1
  <2>3. HasKey(e, e.data[i].key) /\ Value(e, e.data[i].key) = e.data[i].value
    BY <1>4, <2>2, Found
  <2>4. Value(d, d.data[i].key) = d.data[i].value BY Found
  <2> QED BY <2>1, <2>2, <2>3, <2>4
<1>7. ASSUME NEW k, k # key, HasKey(e, k) PROVE HasKey(d, k)
  <2>1. PICK i \in DOMAIN f.data : f.data[i].key = k BY <1>3, <1>7 DEF HasKey
  <2>2. f.data[i] # Element(key, value) BY <1>7, <2>1 DEF Element
  <2> QED BY <1>1, <2>1, <2>2 DEF HasKey
<1> QED BY <1>3, <1>4, <1>5, <1>6, <1>7 DEF e

(* Dictionaries with keys from K and values from V.                        *)
Holds(d, K, V) ==
  d.data \in Seq([key : K, value : V]) /\ d.size \in Nat /\ IsDictionary(d)

LEMMA EmptyHolds ==
  ASSUME NEW K, NEW V PROVE Holds(Fresh, K, V) /\ Holds(Cleaned, K, V)
<1>1. Fresh.data = << >> /\ Fresh.size \in Nat BY BatchAssumption DEF Fresh
<1>2. Cleaned.data = << >> /\ Cleaned.size \in Nat BY DEF Cleaned
<1> QED BY <1>1, <1>2, FreshSound, CleanedIsDictionary DEF Holds

LEMMA AddedHolds ==
  ASSUME NEW K, NEW V, NEW d, Holds(d, K, V), NEW key \in K, NEW value \in V
  PROVE  Holds(Added(d, key, value), K, V)
<1> DEFINE E == [key |-> key, value |-> value]
           p == Put(d, key, value)
           S == [key : K, value : V]
<1>1. E \in S OBVIOUS
<1>2. d = [data |-> d.data, size |-> d.size] /\ d.data \in Seq(S) /\ d.size \in Nat
  BY DEF Holds, IsDictionary
<1>3. p.data \in Seq(S) /\ p.size \in Nat /\ p = [data |-> p.data, size |-> p.size]
  <2>1. CASE HasKey(d, key)
    <3> DEFINE i == Place(d, key)
    <3>1. i \in DOMAIN d.data BY <2>1 DEF HasKey, Place
    <3>2. p = [data |-> [d.data EXCEPT ![i] = E], size |-> d.size] BY <1>2, <2>1 DEF Put
    <3> HIDE DEF i, E, S, p
    <3>3. p.data = [d.data EXCEPT ![i] = E] /\ p.size = d.size BY <3>2
    <3>4. [d.data EXCEPT ![i] = E] \in Seq(S) BY <1>1, <1>2, <3>1
    <3> QED BY <1>2, <3>2, <3>3, <3>4
  <2>2. CASE ~HasKey(d, key)
    <3>1. p = [data |-> Append(d.data, E), size |-> d.size] BY <1>2, <2>2 DEF Put
    <3> HIDE DEF E, S, p
    <3>2. p.data = Append(d.data, E) /\ p.size = d.size BY <3>1
    <3>3. Append(d.data, E) \in Seq(S) BY <1>1, <1>2
    <3> QED BY <1>2, <3>1, <3>2, <3>3
  <2> QED BY <2>1, <2>2
<1>4. Added(d, key, value) = Grown(p) BY DEF Added
<1> HIDE DEF p, S
<1>5. Grown(p).data = p.data /\ Grown(p).size \in Nat
      /\ Grown(p) = [data |-> Grown(p).data, size |-> Grown(p).size]
  <2>1. CASE Len(p.data) = p.size
    <3>1. Grown(p) = [data |-> p.data, size |-> p.size + LEN_KEYVALUE_LIST_BATCH]
      BY <1>3, <2>1 DEF Grown
    <3> QED BY <1>3, <3>1, BatchAssumption
  <2>2. CASE Len(p.data) # p.size
    <3>1. Grown(p) = p BY <2>2 DEF Grown
    <3> QED BY <1>3, <3>1
  <2> QED BY <2>1, <2>2
<1> QED BY <1>3, <1>4, <1>5 DEF Holds, IsDictionary, S

LEMMA ValueHolds ==
  ASSUME NEW K, NEW V, NEW d, Holds(d, K, V), NEW key, HasKey(d, key)
  PROVE  Value(d, key) \in V
<1> DEFINE S == [key : K, value : V]
           i == Place(d, key)
<1>1. i \in DOMAIN d.data BY DEF HasKey, Place
<1>2. d.data \in Seq(S) BY DEF Holds
<1> HIDE DEF S, i
<1>3. d.data[i] \in S BY <1>1, <1>2
<1>4. Value(d, key) = d.data[i].value BY DEF Value, i
<1> HIDE DEF Value
<1> QED BY <1>3, <1>4 DEF S

-------------------------------------------------------------------------------
(* The hash table. *)

(* Chains and tables of links from some set.                               *)
IsChain(c) == \E S : c \in Seq(S)
IsTable(t, size) ==
  /\ t = [bin \in Bins(size) |-> t[bin]]
  /\ \A bin \in Bins(size) : IsChain(t[bin])

NoDoubles(c) == \A i, j \in DOMAIN c : c[j].key = c[i].key => j = i

(* Somewhere in the table there is a link of key k with value v.           *)
Says(t, k, v) ==
  \E bin \in DOMAIN t : \E i \in DOMAIN t[bin] : t[bin][i].key = k /\ t[bin][i].value = v

(* The links after a key has been set in a chain: those of other keys,     *)
(* where they were, and one of this key.                                   *)
LEMMA WithLinks ==
  ASSUME NEW c, IsChain(c), NoDoubles(c), NEW key, NEW value
  PROVE  LET w == With(c, key, value)
         IN  /\ IsChain(w)
             /\ NoDoubles(w)
             /\ \A i \in DOMAIN c :
                  i \in DOMAIN w /\ (c[i].key # key => w[i] = c[i])
             /\ \A i \in DOMAIN w :
                  w[i] = Link(key, value)
                    \/ (i \in DOMAIN c /\ w[i] = c[i] /\ c[i].key # key)
             /\ \E i \in DOMAIN w : w[i] = Link(key, value)
<1> DEFINE w == With(c, key, value)
           L == Link(key, value)
<1>1. PICK S : c \in Seq(S) BY DEF IsChain
<1> HIDE DEF L
<1>0. c \in Seq(S \cup {L}) BY <1>1
<1>2. L.key = key BY DEF Link, L
<1>3. CASE IsIn(c, key)
  <2> DEFINE p == LinkOf(c, key)
  <2>1. p \in DOMAIN c /\ c[p].key = key BY <1>3 DEF IsIn, LinkOf
  <2>2. w = [c EXCEPT ![p] = L] BY <1>3 DEF With, L
  <2> HIDE DEF p, w
  <2>3. w \in Seq(S \cup {L}) /\ DOMAIN w = DOMAIN c BY <1>0, <2>1, <2>2
  <2>4. w[p] = L /\ \A i \in DOMAIN c : i # p => w[i] = c[i] BY <1>0, <2>1, <2>2
  <2>5. \A i \in DOMAIN c : c[i].key = key => i = p BY <2>1 DEF NoDoubles
  <2>6. NoDoubles(w) BY <1>2, <2>1, <2>3, <2>4 DEF NoDoubles
  <2> QED BY <2>1, <2>3, <2>4, <2>5, <2>6 DEF w, L, IsChain
<1>4. CASE ~IsIn(c, key)
  <2> DEFINE n == Len(c) + 1
  <2>1. w = Append(c, L) BY <1>4 DEF With, L
  <2> HIDE DEF w
  <2>2. w \in Seq(S \cup {L}) /\ Len(w) = n /\ DOMAIN w = 1..n BY <1>0, <2>1
  <2>3. DOMAIN c = 1 .. Len(c) /\ Len(c) \in Nat BY <1>1
  <2>4. w[n] = L /\ \A i \in DOMAIN c : w[i] = c[i] BY <1>1, <2>1
  <2>5. \A i \in DOMAIN c : c[i].key # key BY <1>4 DEF IsIn
  <2>6. n \in DOMAIN w /\ n \notin DOMAIN c BY <2>2, <2>3
  <2>7. \A i \in DOMAIN w : i = n \/ i \in DOMAIN c BY <2>2, <2>3
  <2>8. \A i \in DOMAIN c : i \in DOMAIN w BY <2>2, <2>3
  <2> HIDE DEF n
  <2>9. NoDoubles(w) BY <1>2, <2>4, <2>5, <2>7 DEF NoDoubles
  <2> QED BY <2>2, <2>4, <2>5, <2>6, <2>7, <2>8, <2>9 DEF w, L, IsChain
<1> QED BY <1>3, <1>4

(* A new table is in order and says nothing.                               *)
LEMMA CreatedSays ==
  ASSUME NEW size \in Nat
  PROVE  /\ IsTable(ht_create(size), size)
         /\ Chained(ht_create(size), size)
         /\ \A k, v : ~Says(ht_create(size), k, v)
<1> DEFINE t == ht_create(size)
<1>1. /\ t = [bin \in Bins(size) |-> t[bin]] /\ DOMAIN t = Bins(size)
      /\ \A bin \in DOMAIN t : t[bin] = << >>
  BY DEF ht_create
<1> HIDE DEF t
<1>2. \A bin \in DOMAIN t : DOMAIN t[bin] = {} BY <1>1
<1>3. \A bin \in DOMAIN t : IsChain(t[bin])
  <2>1. << >> \in Seq({}) OBVIOUS
  <2>2. IsChain(<< >>) BY <2>1 DEF IsChain
  <2> QED BY <1>1, <2>2
<1> QED BY <1>1, <1>2, <1>3 DEF IsTable, Chained, Says, t

(* What ht_set does to a table in order.                                   *)
LEMMA SetSays ==
  ASSUME NEW size \in Nat, NEW t, IsTable(t, size), Chained(t, size),
         NEW key, BinOf(size, key) \in Bins(size), NEW value
  PROVE  LET u == ht_set(t, size, key, value)
         IN  /\ IsTable(u, size)
             /\ Chained(u, size)
             /\ \A k, v : Says(u, k, v) <=> IF k = key THEN v = value ELSE Says(t, k, v)
<1> DEFINE u == ht_set(t, size, key, value)
           b == BinOf(size, key)
           w == With(t[b], key, value)
           L == Link(key, value)
<1>2. b \in DOMAIN t /\ DOMAIN t = Bins(size) /\ IsChain(t[b]) BY DEF IsTable
<1>3. u = [t EXCEPT ![b] = w] BY <1>2 DEF ht_set
<1>4. NoDoubles(t[b]) BY <1>2 DEF NoDoubles, Chained
<1>5. /\ IsChain(w) /\ NoDoubles(w)
      /\ \A i \in DOMAIN t[b] : i \in DOMAIN w /\ (t[b][i].key # key => w[i] = t[b][i])
      /\ \A i \in DOMAIN w :
           w[i] = L \/ (i \in DOMAIN t[b] /\ w[i] = t[b][i] /\ t[b][i].key # key)
      /\ \E i \in DOMAIN w : w[i] = L
  <2> DEFINE c == t[b]
  <2>1. IsChain(c) /\ NoDoubles(c) BY <1>2, <1>4
  <2> HIDE DEF b, c
  <2> QED BY <2>1, WithLinks DEF c, w, L
<1>6. L.key = key /\ L.value = value BY DEF Link
<1> HIDE DEF w, u, L
<1>7. DOMAIN u = Bins(size) /\ u[b] = w /\ \A bin \in DOMAIN t : bin # b => u[bin] = t[bin]
  BY <1>2, <1>3
<1>8. IsTable(u, size)
  <2>1. \A bin \in Bins(size) : IsChain(u[bin]) BY <1>2, <1>5, <1>7 DEF IsTable
  <2>2. u = [bin \in Bins(size) |-> u[bin]] BY <1>2, <1>3
  <2> QED BY <2>1, <2>2 DEF IsTable
<1>9. Chained(u, size)
  <2> SUFFICES ASSUME NEW bin \in DOMAIN u, NEW i \in DOMAIN u[bin]
               PROVE  /\ BinOf(size, u[bin][i].key) = bin
                      /\ \A j \in DOMAIN u[bin] : u[bin][j].key = u[bin][i].key => j = i
    BY DEF Chained
  <2>1. CASE bin = b
    <3>1. BinOf(size, u[bin][i].key) = bin BY <1>2, <1>5, <1>6, <1>7, <2>1 DEF Chained
    <3> QED BY <1>5, <1>7, <2>1, <3>1 DEF NoDoubles
  <2>2. CASE bin # b BY <1>2, <1>7, <2>2 DEF Chained
  <2> QED BY <2>1, <2>2
<1>10. ASSUME NEW k, NEW v, k # key PROVE Says(u, k, v) <=> Says(t, k, v)
  <2>1. ASSUME Says(u, k, v) PROVE Says(t, k, v)
    <3>1. PICK bin \in DOMAIN u : \E i \in DOMAIN u[bin] :
            u[bin][i].key = k /\ u[bin][i].value = v
      BY <2>1 DEF Says
    <3>2. CASE bin = b BY <1>2, <1>5, <1>6, <1>7, <1>10, <3>1, <3>2 DEF Says
    <3>3. CASE bin # b BY <1>2, <1>7, <3>1, <3>3 DEF Says
    <3> QED BY <3>2, <3>3
  <2>2. ASSUME Says(t, k, v) PROVE Says(u, k, v)
    <3>1. PICK bin \in DOMAIN t : \E i \in DOMAIN t[bin] :
            t[bin][i].key = k /\ t[bin][i].value = v
      BY <2>2 DEF Says
    <3>2. CASE bin = b BY <1>2, <1>5, <1>7, <1>10, <3>1, <3>2 DEF Says
    <3>3. CASE bin # b BY <1>2, <1>7, <3>1, <3>3 DEF Says
    <3> QED BY <3>2, <3>3
  <2> QED BY <2>1, <2>2
<1>11. ASSUME NEW v PROVE Says(u, key, v) <=> v = value
  <2>1. ASSUME Says(u, key, v) PROVE v = value
    <3>1. PICK bin \in DOMAIN u : \E i \in DOMAIN u[bin] :
            u[bin][i].key = key /\ u[bin][i].value = v
      BY <2>1 DEF Says
    <3>2. bin = b BY <1>9, <3>1 DEF Chained
    <3> QED BY <1>5, <1>6, <1>7, <3>1, <3>2
  <2>2. ASSUME v = value PROVE Says(u, key, v)
    BY <1>2, <1>5, <1>6, <1>7, <2>2 DEF Says
  <2> QED BY <2>1, <2>2
<1> QED BY <1>8, <1>9, <1>10, <1>11 DEF u

(* In a table in order ht_get finds exactly what the table says.           *)
LEMMA GetSays ==
  ASSUME NEW size, NEW t, Chained(t, size), NEW k
  PROVE  /\ \A v : Says(t, k, v) =>
              k \in ht_get_keys(t) /\ ht_found(t, size, k) /\ ht_get(t, size, k) = v
         /\ k \in ht_get_keys(t) => Says(t, k, ht_get(t, size, k))
<1>1. ASSUME NEW bin \in DOMAIN t, NEW i \in DOMAIN t[bin], t[bin][i].key = k
      PROVE  ht_found(t, size, k) /\ ht_get(t, size, k) = t[bin][i].value
  <2>1. Chain(t, size, k) = t[bin] BY <1>1 DEF Chain, Chained
  <2>2. IsIn(t[bin], k) BY <1>1 DEF IsIn
  <2>3. LinkOf(t[bin], k) \in DOMAIN t[bin] /\ t[bin][LinkOf(t[bin], k)].key = k
    BY <1>1 DEF LinkOf
  <2>4. LinkOf(t[bin], k) = i BY <1>1, <2>3 DEF Chained
  <2> QED BY <2>1, <2>2, <2>4 DEF ht_found, ht_get
<1>2. k \in ht_get_keys(t) <=>
        \E bin \in DOMAIN t : \E i \in DOMAIN t[bin] : t[bin][i].key = k
  BY DEF ht_get_keys
<1> QED BY <1>1, <1>2 DEF Says

-------------------------------------------------------------------------------
(* Least numbers, ranks and strings.                                       *)

(* The least of some natural numbers, which is how induction is done here: *)
(* what fails for some string fails for one of the shortest.               *)
LEMMA LeastNat ==
  ASSUME NEW T, T \subseteq Nat, T # {}
  PROVE  \E x \in T : \A y \in T : x <= y
<1> DEFINE R == {ss \in Nat \X Nat : ss[1] < ss[2]}
<1>1. R = OpToRel(<, Nat) BY DEF OpToRel
<1>2. IsWellFoundedOn(R, Nat) BY <1>1, NatLessThanWellFounded, Zenon
<1>3. PICK x \in T : \A y \in T : << y, x >> \notin R BY <1>2, WFMin
<1>4. ASSUME NEW y \in T, ~(x <= y) PROVE FALSE
  <2>1. x \in Nat /\ y \in Nat /\ y < x BY <1>4
  <2>2. << y, x >> \in R BY <2>1
  <2> QED BY <1>3, <2>2
<1> QED BY <1>4

LEMMA LeastChosen ==
  ASSUME NEW T, T \subseteq Nat, NEW x \in T, \A y \in T : x <= y
  PROVE  x = Least(T)
<1>1. ASSUME NEW z \in T, \A j \in T : z <= j PROVE z = x
  <2>1. z \in Nat /\ x \in Nat BY <1>1
  <2>2. z <= x /\ x <= z BY <1>1
  <2> QED BY <2>1, <2>2
<1> QED BY <1>1 DEF Least

LEMMA GreatestChosen ==
  ASSUME NEW n \in Nat, NEW T, T \subseteq 1 .. n, T # {}
  PROVE  LET x == CHOOSE i \in T : \A j \in T : j <= i
         IN  x \in T /\ \A y \in T : y <= x
<1> DEFINE U == {n - y : y \in T}
<1>1. U \subseteq Nat /\ U # {} OBVIOUS
<1>2. PICK u \in U : \A v \in U : u <= v BY <1>1, LeastNat
<1>3. PICK x \in T : u = n - x OBVIOUS
<1>4. ASSUME NEW y \in T PROVE y <= x
  <2>1. n - x <= n - y BY <1>2, <1>3
  <2>2. x \in Int /\ y \in Int OBVIOUS
  <2> QED BY <2>1, <2>2
<1>5. \E i \in T : \A j \in T : j <= i BY <1>4
<1> QED BY <1>5

(* A piece of a string.                                                    *)
LEMMA Piece ==
  ASSUME NEW s \in Strings, NEW m \in Nat \ {0}, NEW n \in Nat, n <= Len(s)
  PROVE  /\ SubSeq(s, m, n) \in Strings
         /\ Len(SubSeq(s, m, n)) = IF m <= n THEN n - m + 1 ELSE 0
         /\ \A i \in 1 .. n - m + 1 : SubSeq(s, m, n)[i] = s[m + i - 1]
BY DEF Strings

LEMMA SameString ==
  ASSUME NEW s \in Strings, NEW t \in Strings, Len(s) = Len(t),
         \A i \in 1 .. Len(s) : s[i] = t[i]
  PROVE  s = t
BY DEF Strings

(* From i on, s has no delimiter before e.                                 *)
UpTo(s, delim, i, e) ==
  /\ e \in i + 1 .. Len(s) + 1
  /\ \A j \in i .. e - 1 : s[j] # delim
  /\ e <= Len(s) => s[e] = delim

LEMMA SomeEnd ==
  ASSUME NEW s \in Strings, NEW delim, NEW i \in DOMAIN s, s[i] # delim
  PROVE  \E e : UpTo(s, delim, i, e)
<1>1. Len(s) \in Nat /\ DOMAIN s = 1 .. Len(s) BY DEF Strings
<1> DEFINE ends == {k \in i .. Len(s) : s[k] = delim} \cup {Len(s) + 1}
<1>2. ends \subseteq Nat /\ ends # {} BY <1>1
<1>3. PICK e \in ends : \A j \in ends : e <= j BY <1>2, LeastNat
<1>4. e \in i .. Len(s) + 1 /\ (e <= Len(s) => s[e] = delim) BY <1>1, <1>3
<1>5. e # i BY <1>1, <1>4
<1>6. ASSUME NEW j \in i .. e - 1 PROVE s[j] # delim
  <2>1. j \in i .. Len(s) /\ ~(e <= j) BY <1>1, <1>4
  <2> QED BY <1>3, <2>1
<1>7. e \in i + 1 .. Len(s) + 1 BY <1>1, <1>4, <1>5
<1> QED BY <1>4, <1>6, <1>7 DEF UpTo

LEMMA OneEnd ==
  ASSUME NEW s \in Strings, NEW delim, NEW i \in DOMAIN s,
         NEW e, UpTo(s, delim, i, e), NEW f, UpTo(s, delim, i, f)
  PROVE  e = f
<1>1. Len(s) \in Nat /\ DOMAIN s = 1 .. Len(s) BY DEF Strings
<1>2. ~(e < f) BY <1>1 DEF UpTo
<1>3. ~(f < e) BY <1>1 DEF UpTo
<1>4. e \in Nat /\ f \in Nat BY <1>1 DEF UpTo
<1> QED BY <1>2, <1>3, <1>4

(* The first token of s is from b to before e.                             *)
Delimits(s, delim, b, e) ==
  /\ b \in 1 .. Len(s)
  /\ \A j \in 1 .. b - 1 : s[j] = delim
  /\ UpTo(s, delim, b, e)

LEMMA NoToken ==
  ASSUME NEW s, NEW delim, \A i \in DOMAIN s : s[i] = delim
  PROVE  strtok(s, delim) = [token |-> << >>, rest |-> << >>]
<1>1. {i \in DOMAIN s : s[i] # delim} = {} OBVIOUS
<1> QED BY <1>1, Zenon DEF strtok

LEMMA FirstToken ==
  ASSUME NEW s \in Strings, NEW delim, NEW b, NEW e, Delimits(s, delim, b, e)
  PROVE  strtok(s, delim)
           = [token |-> SubSeq(s, b, e - 1), rest |-> SubSeq(s, e + 1, Len(s))]
<1> DEFINE begins == {i \in DOMAIN s : s[i] # delim}
           ends   == {i \in b .. Len(s) : s[i] = delim} \cup {Len(s) + 1}
<1>1. Len(s) \in Nat /\ DOMAIN s = 1 .. Len(s) BY DEF Strings
<1>2. /\ b \in 1 .. Len(s) /\ e \in b + 1 .. Len(s) + 1
      /\ \A j \in 1 .. b - 1 : s[j] = delim
      /\ \A j \in b .. e - 1 : s[j] # delim
      /\ e <= Len(s) => s[e] = delim
  BY DEF Delimits, UpTo
<1>3. b = Least(begins)
  <2>1. begins \subseteq Nat BY <1>1
  <2>2. s[b] # delim BY <1>1, <1>2
  <2>3. b \in begins BY <1>1, <1>2, <2>2
  <2>4. ASSUME NEW y \in begins PROVE b <= y BY <1>1, <1>2, <2>4
  <2> HIDE DEF begins
  <2> QED BY <2>1, <2>3, <2>4, LeastChosen
<1>4. e = Least(ends)
  <2>1. ends \subseteq Nat BY <1>1, <1>2
  <2>2. e = Len(s) + 1 \/ e <= Len(s) BY <1>1, <1>2
  <2>3. e \in ends BY <1>1, <1>2, <2>2
  <2>4. ASSUME NEW y \in ends PROVE e <= y BY <1>1, <1>2, <2>4
  <2> HIDE DEF ends
  <2> QED BY <2>1, <2>3, <2>4, LeastChosen
<1>5. begins # {} BY <1>1, <1>2
<1> DEFINE begin == Least(begins)
           last  == {i \in begin .. Len(s) : s[i] = delim} \cup {Len(s) + 1}
           end   == Least(last)
<1>6. strtok(s, delim)
        = IF begins = {} THEN [token |-> << >>, rest |-> << >>]
          ELSE [token |-> SubSeq(s, begin, end - 1), rest |-> SubSeq(s, end + 1, Len(s))]
  BY DEF strtok
<1>7. begin = b BY <1>3
<1>8. last = ends BY <1>7
<1>9. end = e BY <1>4, <1>8
<1> HIDE DEF begins, begin, last, end, ends
<1> QED BY <1>5, <1>6, <1>7, <1>9

LEMMA SomeToken ==
  ASSUME NEW s \in Strings, NEW delim, NEW k \in DOMAIN s, s[k] # delim
  PROVE  \E b, e : Delimits(s, delim, b, e)
<1> DEFINE begins == {i \in DOMAIN s : s[i] # delim}
<1>1. Len(s) \in Nat /\ DOMAIN s = 1 .. Len(s) BY DEF Strings
<1>2. begins \subseteq Nat /\ begins # {} BY <1>1
<1>3. PICK b \in begins : \A j \in begins : b <= j BY <1>2, LeastNat
<1>4. b \in 1 .. Len(s) /\ b \in DOMAIN s /\ s[b] # delim BY <1>1, <1>3
<1>5. PICK e : UpTo(s, delim, b, e) BY <1>4, SomeEnd
<1>6. ASSUME NEW j \in 1 .. b - 1 PROVE s[j] = delim
  <2>1. j \in DOMAIN s /\ ~(b <= j) BY <1>1, <1>4
  <2> QED BY <1>3, <2>1
<1> QED BY <1>4, <1>5, <1>6 DEF Delimits

(* What strtok returns are strings, and it goes on in what comes after.    *)
LEMMA TokenType ==
  ASSUME NEW s \in Strings, NEW delim
  PROVE  /\ strtok(s, delim).token \in Strings
         /\ strtok(s, delim).rest \in Strings
         /\ strtok(s, delim).token # << >> =>
              Len(strtok(s, delim).rest) < Len(s)
<1>0. << >> \in Strings BY DEF Strings
<1>1. CASE \A i \in DOMAIN s : s[i] = delim BY <1>0, <1>1, NoToken
<1>2. CASE \E i \in DOMAIN s : s[i] # delim
  <2>1. PICK b, e : Delimits(s, delim, b, e) BY <1>2, SomeToken
  <2>2. Len(s) \in Nat BY DEF Strings
  <2>3. b \in Nat \ {0} /\ e - 1 \in Nat /\ e - 1 <= Len(s) /\ e + 1 \in Nat \ {0}
    BY <2>1, <2>2 DEF Delimits, UpTo
  <2>4. SubSeq(s, b, e - 1) \in Strings BY <2>3, Piece
  <2>5. /\ SubSeq(s, e + 1, Len(s)) \in Strings
        /\ Len(SubSeq(s, e + 1, Len(s)))
             = IF e + 1 <= Len(s) THEN Len(s) - (e + 1) + 1 ELSE 0
    BY <2>2, <2>3, Piece
  <2>6. Len(SubSeq(s, e + 1, Len(s))) < Len(s)
    BY <2>1, <2>2, <2>5 DEF Delimits, UpTo
  <2>7. strtok(s, delim)
          = [token |-> SubSeq(s, b, e - 1), rest |-> SubSeq(s, e + 1, Len(s))]
    BY <2>1, FirstToken
  <2> DEFINE t == SubSeq(s, b, e - 1)
             r == SubSeq(s, e + 1, Len(s))
  <2>8. t \in Strings /\ r \in Strings /\ Len(r) < Len(s) BY <2>4, <2>5, <2>6
  <2> HIDE DEF t, r
  <2>9. strtok(s, delim) = [token |-> t, rest |-> r] BY <2>7 DEF t, r
  <2>10. strtok(s, delim).token = t /\ strtok(s, delim).rest = r BY <2>9
  <2> QED BY <2>8, <2>10
<1> QED BY <1>1, <1>2

-------------------------------------------------------------------------------
(* Ranks in a set of numbers.                                              *)

Rank(S, i) == Cardinality({k \in S : k <= i})

LEMMA RankCounts ==
  ASSUME NEW S, S \subseteq Nat, IsFiniteSet(S)
  PROVE  /\ Cardinality(S) \in Nat
         /\ \A i \in S : Rank(S, i) \in 1 .. Cardinality(S)
         /\ \A i, j \in S : i < j => Rank(S, i) < Rank(S, j)
<1> DEFINE below(i) == {k \in S : k <= i}
<1>1. Cardinality(S) \in Nat BY FS_CardinalityType
<1>2. ASSUME NEW i
      PROVE  /\ IsFiniteSet(below(i)) /\ Cardinality(below(i)) \in Nat
             /\ Cardinality(below(i)) <= Cardinality(S)
  <2>1. below(i) \subseteq S OBVIOUS
  <2> HIDE DEF below
  <2> QED BY <2>1, FS_Subset, FS_CardinalityType
<1>3. ASSUME NEW i \in S PROVE Rank(S, i) \in 1 .. Cardinality(S)
  <2>1. i \in below(i) BY <1>3
  <2>2. Rank(S, i) = Cardinality(below(i)) BY DEF Rank
  <2> HIDE DEF below
  <2>3. Cardinality(below(i)) # 0 BY <1>2, <2>1, FS_EmptySet
  <2> QED BY <1>1, <1>2, <2>2, <2>3
<1>4. ASSUME NEW i \in S, NEW j \in S, i < j PROVE Rank(S, i) < Rank(S, j)
  <2>1. i \in Nat /\ j \in Nat BY <1>4
  <2>2. below(i) \subseteq below(j)
    <3>1. ASSUME NEW k \in below(i) PROVE k \in below(j)
      <4>1. k \in S /\ k \in Nat /\ k <= i BY <3>1
      <4>2. k <= j BY <1>4, <2>1, <4>1
      <4> QED BY <4>1, <4>2
    <3> QED BY <3>1
  <2>3. j \in below(j) /\ j \notin below(i) BY <1>4, <2>1
  <2>4. Rank(S, i) = Cardinality(below(i)) /\ Rank(S, j) = Cardinality(below(j))
    BY DEF Rank
  <2> HIDE DEF below
  <2>5. Cardinality(below(i)) <= Cardinality(below(j)) BY <1>2, <2>2, FS_Subset
  <2>6. Cardinality(below(i)) # Cardinality(below(j)) BY <1>2, <2>2, <2>3, FS_Subset
  <2> QED BY <1>2, <2>4, <2>5, <2>6
<1> QED BY <1>1, <1>3, <1>4

LEMMA RankOnce ==
  ASSUME NEW S, S \subseteq Nat, IsFiniteSet(S),
         NEW i \in S, NEW j \in S, Rank(S, i) = Rank(S, j)
  PROVE  i = j
<1>1. i \in Nat /\ j \in Nat OBVIOUS
<1>2. /\ Cardinality(S) \in Nat
      /\ \A k \in S : Rank(S, k) \in 1 .. Cardinality(S)
      /\ \A k, l \in S : k < l => Rank(S, k) < Rank(S, l)
  BY RankCounts
<1>3. ~(i < j) BY <1>2
<1>4. ~(j < i) BY <1>2
<1> QED BY <1>1, <1>3, <1>4

LEMMA EveryRank ==
  ASSUME NEW S, S \subseteq Nat, IsFiniteSet(S), NEW k \in 1 .. Cardinality(S)
  PROVE  \E i \in S : Rank(S, i) = k
<1> DEFINE n == Cardinality(S)
           f == [i \in S |-> Rank(S, i)]
<1>1. n \in Nat BY RankCounts
<1>2. IsFiniteSet(1 .. n) /\ Cardinality(1 .. n) = n BY <1>1, FS_Interval
<1>3. f \in [S -> 1 .. n] BY RankCounts
<1>4. \A i, j \in S : f[i] = f[j] => i = j BY RankOnce
<1> HIDE DEF f
<1>5. f \in Injection(S, 1 .. n) BY <1>3, <1>4 DEF Injection, IsInjective
<1>6. f \in Surjection(S, 1 .. n) BY <1>2, <1>5, FS_Injection
<1>7. \E i \in S : f[i] = k BY <1>6 DEF Surjection
<1> QED BY <1>7 DEF f

LEMMA ShiftedCounts ==
  ASSUME NEW S, S \subseteq Nat, IsFiniteSet(S), NEW e \in Nat
  PROVE  LET T == {i + e : i \in S}
         IN  IsFiniteSet(T) /\ Cardinality(T) = Cardinality(S)
<1> DEFINE T == {i + e : i \in S}
           f == [i \in S |-> i + e]
<1>1. f \in [S -> T] OBVIOUS
<1>2. \A i, j \in S : f[i] = f[j] => i = j OBVIOUS
<1>3. \A t \in T : \E i \in S : f[i] = t OBVIOUS
<1> HIDE DEF f, T
<1>4. f \in Injection(S, T) /\ f \in Surjection(S, T)
  BY <1>1, <1>2, <1>3 DEF Injection, IsInjective, Surjection
<1>5. ExistsBijection(S, T) BY <1>4 DEF ExistsBijection, Bijection
<1> QED BY <1>5, FS_Bijection DEF T

-------------------------------------------------------------------------------
(* The words of a string, between delimiters.                              *)

(* Where words begin, and the word there.                                  *)
Heads(s, delim) == {i \in DOMAIN s : s[i] # delim /\ (i = 1 \/ s[i - 1] = delim)}
WordAt(s, delim, i) == SubSeq(s, i, (CHOOSE e : UpTo(s, delim, i, e)) - 1)

LEMMA WordIs ==
  ASSUME NEW s \in Strings, NEW delim, NEW i \in DOMAIN s, NEW e, UpTo(s, delim, i, e)
  PROVE  WordAt(s, delim, i) = SubSeq(s, i, e - 1)
<1>1. e = CHOOSE f : UpTo(s, delim, i, f) BY OneEnd
<1> QED BY <1>1 DEF WordAt

LEMMA HeadsFinite ==
  ASSUME NEW s \in Strings, NEW delim
  PROVE  /\ Heads(s, delim) \subseteq Nat /\ IsFiniteSet(Heads(s, delim))
         /\ Heads(s, delim) \subseteq DOMAIN s
<1>1. DOMAIN s = 1 .. Len(s) /\ Len(s) \in Nat BY DEF Strings
<1>2. IsFiniteSet(1 .. Len(s)) BY <1>1, FS_Interval
<1>3. Heads(s, delim) \subseteq 1 .. Len(s) BY <1>1 DEF Heads
<1>4. IsFiniteSet(Heads(s, delim)) BY <1>2, <1>3, FS_Subset
<1> QED BY <1>1, <1>3, <1>4

(* What is left of s behind place e.                                       *)
RestOf(s, e, r) ==
  /\ r \in Strings
  /\ Len(r) \in Nat /\ DOMAIN r = 1 .. Len(r)
  /\ Len(r) # 0 => Len(r) + e = Len(s)
  /\ e < Len(s) => Len(r) + e = Len(s)
  /\ \A i \in 1 .. Len(r) : r[i] = s[i + e] /\ i + e \in 1 .. Len(s)

LEMMA RestIs ==
  ASSUME NEW s \in Strings, NEW e \in Nat
  PROVE  RestOf(s, e, SubSeq(s, e + 1, Len(s)))
<1> DEFINE n == Len(s)
           r == SubSeq(s, e + 1, n)
           m == Len(r)
<1>1. n \in Nat BY DEF Strings
<1>2. /\ r \in Strings
      /\ m = IF e + 1 <= n THEN n - (e + 1) + 1 ELSE 0
      /\ \A i \in 1 .. n - (e + 1) + 1 : r[i] = s[e + 1 + i - 1]
  <2>1. e + 1 \in Nat \ {0} /\ n <= n BY <1>1
  <2> DEFINE k == e + 1
  <2> HIDE DEF k
  <2>2. k \in Nat \ {0} BY <2>1 DEF k
  <2>3. /\ SubSeq(s, k, n) \in Strings
        /\ Len(SubSeq(s, k, n)) = IF k <= n THEN n - k + 1 ELSE 0
        /\ \A i \in 1 .. n - k + 1 : SubSeq(s, k, n)[i] = s[k + i - 1]
    BY <1>1, <2>1, <2>2, Piece
  <2> QED BY <2>3 DEF k
<1>3. m \in Nat /\ DOMAIN r = 1 .. m BY <1>2 DEF Strings
<1> HIDE DEF m, n, r
<1>4. CASE e < n
  <2>1. m = n - e BY <1>1, <1>2, <1>4
  <2>2. ASSUME NEW i \in 1 .. m PROVE r[i] = s[i + e] /\ i + e \in 1 .. n
    <3>1. i \in 1 .. n - (e + 1) + 1 /\ e + 1 + i - 1 = i + e BY <1>1, <2>1
    <3>2. i + e \in 1 .. n BY <1>1, <2>1
    <3> QED BY <1>2, <3>1, <3>2
  <2>3. m + e = n BY <1>1, <2>1
  <2> QED BY <1>2, <1>3, <2>2, <2>3 DEF m, n, r, RestOf
<1>5. CASE ~(e < n)
  <2>1. m = 0 BY <1>1, <1>2, <1>5
  <2>2. \A i \in 1 .. m : FALSE BY <2>1
  <2> QED BY <1>2, <1>3, <1>5, <2>1, <2>2 DEF m, n, r, RestOf
<1> QED BY <1>4, <1>5

(* Behind the first word there are the same words as in what is left.      *)
LEMMA HeadsOfRest ==
  ASSUME NEW s \in Strings, NEW delim, NEW b, NEW e, Delimits(s, delim, b, e),
         NEW r, RestOf(s, e, r)
  PROVE  /\ r \in Strings
         /\ e \in Nat /\ b \in Nat /\ b < e
         /\ Heads(s, delim) = {b} \cup {i + e : i \in Heads(r, delim)}
         /\ WordAt(s, delim, b) = SubSeq(s, b, e - 1)
         /\ \A i \in Heads(r, delim) : WordAt(s, delim, i + e) = WordAt(r, delim, i)
<1>1. Len(s) \in Nat /\ DOMAIN s = 1 .. Len(s) BY DEF Strings
<1>2. /\ b \in 1 .. Len(s) /\ e \in b + 1 .. Len(s) + 1
      /\ \A j \in 1 .. b - 1 : s[j] = delim
      /\ \A j \in b .. e - 1 : s[j] # delim
      /\ e <= Len(s) => s[e] = delim
  BY DEF Delimits, UpTo
<1>3. e \in Nat /\ b \in Nat /\ b < e BY <1>1, <1>2
<1>4. r \in Strings BY DEF RestOf
<1>5. \A i \in 1 .. Len(r) : r[i] = s[i + e] /\ i + e \in 1 .. Len(s) BY DEF RestOf
<1>12. Len(r) \in Nat /\ Len(s) \in Nat BY <1>1 DEF RestOf
<1>13. Len(r) # 0 => Len(r) + e = Len(s) BY DEF RestOf
<1>14. e < Len(s) => Len(r) + e = Len(s) BY DEF RestOf
<1>15. DOMAIN r = 1 .. Len(r) BY DEF RestOf
<1>6. ASSUME NEW h \in Heads(s, delim), h # b PROVE \E i \in Heads(r, delim) : h = i + e
  <2>1. h \in 1 .. Len(s) /\ s[h] # delim /\ (h = 1 \/ s[h - 1] = delim)
    BY <1>1 DEF Heads
  <2>2. ~(h < b) BY <1>2, <2>1
  <2>3. h > b /\ h # 1 /\ s[h - 1] = delim BY <1>2, <1>6, <2>1, <2>2
  <2>4. ~(h <= e)
    <3>1. CASE h = e BY <1>2, <2>1, <3>1
    <3>2. CASE h < e
      <4>1. h - 1 \in b .. e - 1 BY <1>3, <2>1, <2>3, <3>2
      <4> QED BY <1>2, <2>3, <4>1
    <3> QED BY <1>3, <2>1, <3>1, <3>2
  <2>5. PICK i \in 1 .. Len(r) : h = i + e
    <3>1. h \in Nat /\ h <= Len(s) /\ e < h BY <1>3, <1>12, <2>1, <2>4
    <3>2. Len(r) + e = Len(s) BY <1>3, <1>12, <1>14, <3>1
    <3>3. h - e \in 1 .. Len(r) BY <1>3, <1>12, <3>1, <3>2
    <3> QED BY <1>3, <3>1, <3>3
  <2>6. r[i] # delim BY <1>5, <2>1, <2>5
  <2>7. i = 1 \/ r[i - 1] = delim
    <3>1. ASSUME i # 1 PROVE r[i - 1] = delim
      <4>1. i - 1 \in 1 .. Len(r) /\ (i - 1) + e = h - 1 BY <1>3, <1>12, <2>5, <3>1
      <4> QED BY <1>5, <2>3, <4>1
    <3> QED BY <3>1
  <2>8. i \in Heads(r, delim) BY <1>15, <2>6, <2>7 DEF Heads
  <2> QED BY <2>5, <2>8
<1>7. b \in Heads(s, delim)
  <2>1. s[b] # delim BY <1>2
  <2>2. b # 1 => b - 1 \in 1 .. b - 1 BY <1>2
  <2> QED BY <1>1, <1>2, <2>1, <2>2 DEF Heads
<1>8. ASSUME NEW i \in Heads(r, delim) PROVE i + e \in Heads(s, delim)
  <2>1. i \in 1 .. Len(r) /\ r[i] # delim /\ (i = 1 \/ r[i - 1] = delim)
    BY <1>15 DEF Heads
  <2>2. i + e \in 1 .. Len(s) /\ s[i + e] # delim BY <1>5, <2>1
  <2>3. s[(i + e) - 1] = delim
    <3>1. CASE i = 1
      <4>1. e <= Len(s) /\ (i + e) - 1 = e BY <1>1, <1>3, <2>2, <3>1
      <4> QED BY <1>2, <4>1
    <3>2. CASE i # 1
      <4>1. i - 1 \in 1 .. Len(r) /\ (i - 1) + e = (i + e) - 1 BY <1>3, <1>12, <2>1, <3>2
      <4> QED BY <1>5, <2>1, <3>2, <4>1
    <3> QED BY <3>1, <3>2
  <2> DEFINE h == i + e
  <2>4. h \in DOMAIN s /\ s[h] # delim /\ s[h - 1] = delim BY <1>1, <2>2, <2>3
  <2> HIDE DEF h
  <2>5. h \in Heads(s, delim) BY <2>4 DEF Heads
  <2> QED BY <2>5 DEF h
<1>9. Heads(s, delim) = {b} \cup {i + e : i \in Heads(r, delim)}
  <2>1. ASSUME NEW h \in Heads(s, delim)
        PROVE  h \in {b} \cup {i + e : i \in Heads(r, delim)}
    BY <1>6
  <2>2. ASSUME NEW h \in {b} \cup {i + e : i \in Heads(r, delim)}
        PROVE  h \in Heads(s, delim)
    BY <1>7, <1>8
  <2> QED BY <2>1, <2>2
<1>10. WordAt(s, delim, b) = SubSeq(s, b, e - 1)
  BY <1>1, WordIs DEF Delimits
<1>11. ASSUME NEW i \in Heads(r, delim)
       PROVE  WordAt(s, delim, i + e) = WordAt(r, delim, i)
  <2>1. i \in DOMAIN r /\ r[i] # delim BY DEF Heads
  <2>2. PICK f : UpTo(r, delim, i, f) BY <1>4, <2>1, SomeEnd
  <2>8. i \in 1 .. Len(r) /\ f \in i + 1 .. Len(r) + 1
    BY <1>15, <2>1, <2>2 DEF UpTo
  <2>3. i \in 1 .. Len(r) /\ f \in i + 1 .. Len(r) + 1 /\ Len(r) + e = Len(s)
    BY <1>12, <1>13, <2>8
  <2>9. i \in Nat /\ f \in Nat /\ 1 <= i /\ i < f /\ f + e <= Len(s) + 1
    BY <1>3, <1>12, <2>3
  <2>4. UpTo(s, delim, i + e, f + e)
    <3>1. f + e \in (i + e) + 1 .. Len(s) + 1 BY <1>3, <1>12, <2>9
    <3>2. ASSUME NEW j \in (i + e) .. (f + e) - 1 PROVE s[j] # delim
      <4>1. j - e \in i .. f - 1 /\ j - e \in 1 .. Len(r) /\ (j - e) + e = j
        BY <1>3, <1>12, <2>3
      <4>2. s[j] = r[j - e] BY <1>5, <4>1
      <4> QED BY <2>2, <4>1, <4>2 DEF UpTo
    <3>3. ASSUME f + e <= Len(s) PROVE s[f + e] = delim
      <4>1. f \in 1 .. Len(r) /\ f <= Len(r) BY <1>3, <1>12, <2>3, <3>3
      <4>2. s[f + e] = r[f] BY <1>5, <4>1
      <4> QED BY <2>2, <4>1, <4>2 DEF UpTo
    <3> QED BY <3>1, <3>2, <3>3 DEF UpTo
  <2>5. WordAt(s, delim, i + e) = SubSeq(s, i + e, (f + e) - 1)
    BY <1>1, <1>5, <2>4, <2>8, WordIs
  <2>6. WordAt(r, delim, i) = SubSeq(r, i, f - 1) BY <1>4, <2>1, <2>2, WordIs
  <2>7. SubSeq(s, i + e, (f + e) - 1) = SubSeq(r, i, f - 1)
    <3> DEFINE v == SubSeq(s, i + e, (f + e) - 1)
               w == SubSeq(r, i, f - 1)
    <3>1. i + e \in Nat \ {0} /\ (f + e) - 1 \in Nat /\ (f + e) - 1 <= Len(s)
      BY <1>3, <1>12, <2>9
    <3>2. i \in Nat \ {0} /\ f - 1 \in Nat /\ f - 1 <= Len(r) BY <1>12, <2>3
    <3>3. /\ v \in Strings
          /\ Len(v) = IF i + e <= (f + e) - 1 THEN ((f + e) - 1) - (i + e) + 1 ELSE 0
          /\ \A k \in 1 .. ((f + e) - 1) - (i + e) + 1 : v[k] = s[(i + e) + k - 1]
      BY <3>1, Piece
    <3>4. /\ w \in Strings
          /\ Len(w) = IF i <= f - 1 THEN f - 1 - i + 1 ELSE 0
          /\ \A k \in 1 .. f - 1 - i + 1 : w[k] = r[i + k - 1]
      BY <1>4, <3>2, Piece
    <3> HIDE DEF v, w
    <3>5. Len(v) = f - i /\ Len(w) = f - i BY <1>3, <2>9, <3>3, <3>4
    <3>6. ASSUME NEW k \in 1 .. Len(v) PROVE v[k] = w[k]
      <4>1. k \in Nat /\ 1 <= k /\ k <= f - i BY <2>9, <3>5
      <4>2. k \in 1 .. ((f + e) - 1) - (i + e) + 1 /\ k \in 1 .. f - 1 - i + 1
        BY <1>3, <2>9, <4>1
      <4>3. i + k - 1 \in 1 .. Len(r) /\ (i + k - 1) + e = (i + e) + k - 1
        <5>1. i + (k - 1) <= f - 1 /\ f - 1 <= Len(r) BY <1>12, <2>3, <2>9, <4>1
        <5>2. i + (k - 1) \in 1 .. Len(r) BY <1>12, <2>9, <4>1, <5>1
        <5>3. (i + (k - 1)) + e = (i + e) + (k - 1) BY <1>3, <2>9, <4>1
        <5> QED BY <5>2, <5>3
      <4>4. r[i + k - 1] = s[(i + e) + k - 1] BY <1>5, <4>3
      <4> QED BY <3>3, <3>4, <4>2, <4>4
    <3>7. v = w BY <3>3, <3>4, <3>5, <3>6, SameString
    <3> QED BY <3>7 DEF v, w
  <2> QED BY <2>5, <2>6, <2>7
<1> QED BY <1>3, <1>4, <1>9, <1>10, <1>11

(* The words of a string, in their order.                                  *)
WordList(s, delim) ==
  [k \in 1 .. Cardinality(Heads(s, delim)) |->
     WordAt(s, delim, CHOOSE i \in Heads(s, delim) : Rank(Heads(s, delim), i) = k)]

LEMMA WordOfRank ==
  ASSUME NEW s \in Strings, NEW delim, NEW i \in Heads(s, delim)
  PROVE  LET k == Rank(Heads(s, delim), i)
         IN  /\ k \in 1 .. Cardinality(Heads(s, delim))
             /\ WordList(s, delim)[k] = WordAt(s, delim, i)
<1> DEFINE H == Heads(s, delim)
           k == Rank(H, i)
           w(j) == WordAt(s, delim, j)
           c == CHOOSE j \in H : Rank(H, j) = k
<1>1. H \subseteq Nat /\ IsFiniteSet(H) BY HeadsFinite
<1>2. k \in 1 .. Cardinality(H) BY <1>1, RankCounts
<1>3. c \in H /\ Rank(H, c) = k OBVIOUS
<1>4. WordList(s, delim)[k] = w(c) BY <1>2 DEF WordList
<1> HIDE DEF H, k, c
<1>5. i \in H BY DEF H
<1>6. c = i BY <1>1, <1>3, <1>5, RankOnce DEF k
<1> QED BY <1>2, <1>4, <1>6 DEF H, k

LEMMA RankedWord ==
  ASSUME NEW s \in Strings, NEW delim, NEW k \in 1 .. Cardinality(Heads(s, delim))
  PROVE  \E i \in Heads(s, delim) : Rank(Heads(s, delim), i) = k
BY HeadsFinite, EveryRank

(* A string without words, and the list of words by the first one.         *)
LEMMA NoWords ==
  ASSUME NEW s \in Strings, NEW delim, \A i \in DOMAIN s : s[i] = delim
  PROVE  WordList(s, delim) = << >>
<1>1. Heads(s, delim) = {} BY DEF Heads
<1>2. Cardinality(Heads(s, delim)) = 0 BY <1>1, FS_EmptySet
<1> QED BY <1>2 DEF WordList

LEMMA Cons ==
  ASSUME NEW S, NEW q \in Seq(S), NEW R, NEW p \in Seq(R), Len(p) = Len(q) + 1,
         \A k \in 1 .. Len(q) : p[k + 1] = q[k]
  PROVE  p = << p[1] >> \o q
<1> DEFINE n == Len(q)
           x == p[1]
           U == S \cup R \cup {x}
           u == << x >> \o q
<1>1. n \in Nat OBVIOUS
<1>2. q \in Seq(U) /\ p \in Seq(U) /\ << x >> \in Seq(U)
      /\ Len(<< x >>) = 1 /\ << x >>[1] = x
  OBVIOUS
<1> DEFINE v == << x >>
<1> HIDE DEF v, U
<1>3. v \in Seq(U) /\ Len(v) = 1 /\ v[1] = x BY <1>2 DEF v
<1>4. /\ v \o q \in Seq(U) /\ Len(v \o q) = 1 + n
      /\ \A k \in 1 .. 1 + n : (v \o q)[k] = IF k <= 1 THEN v[k] ELSE q[k - 1]
  <2>1. v \o q \in Seq(U) BY <1>2, <1>3, ConcatProperties
  <2>4. Len(v \o q) = Len(v) + Len(q) BY <1>2, <1>3, ConcatProperties, Zenon
  <2>5. \A k \in 1 .. Len(v) + Len(q) :
          (v \o q)[k] = IF k <= Len(v) THEN v[k] ELSE q[k - Len(v)]
    BY <1>2, <1>3, ConcatProperties, Zenon
  <2>2. Len(v \o q) = 1 + n BY <1>3, <2>4
  <2>3. \A k \in 1 .. 1 + n : (v \o q)[k] = IF k <= 1 THEN v[k] ELSE q[k - 1]
    BY <1>3, <2>5, Zenon
  <2> QED BY <2>1, <2>2, <2>3
<1>5. ASSUME NEW k \in 1 .. n + 1 PROVE p[k] = (v \o q)[k]
  <2>1. CASE k = 1 BY <1>1, <1>3, <1>4, <2>1
  <2>2. CASE k # 1
    <3>1. k - 1 \in 1 .. n /\ (k - 1) + 1 = k /\ ~(k <= 1) BY <1>1, <2>2
    <3>2. p[(k - 1) + 1] = q[k - 1] BY <3>1
    <3> QED BY <1>1, <1>4, <3>1, <3>2
  <2> QED BY <2>1, <2>2
<1> DEFINE w == v \o q
<1>6. w \in Seq(U) /\ Len(w) = n + 1 /\ \A k \in 1 .. n + 1 : p[k] = w[k]
  BY <1>1, <1>4, <1>5
<1> HIDE DEF w
<1>7. p = w BY <1>1, <1>2, <1>6
<1> QED BY <1>7 DEF w, v

LEMMA FirstWord ==
  ASSUME NEW s \in Strings, NEW delim, NEW b, NEW e, Delimits(s, delim, b, e),
         NEW r, RestOf(s, e, r)
  PROVE  WordList(s, delim) = << SubSeq(s, b, e - 1) >> \o WordList(r, delim)
<1> DEFINE H == Heads(s, delim)
           G == Heads(r, delim)
           T == {i + e : i \in G}
           n == Cardinality(G)
<1>1. /\ r \in Strings
      /\ e \in Nat /\ b \in Nat /\ b < e
      /\ H = {b} \cup T
      /\ WordAt(s, delim, b) = SubSeq(s, b, e - 1)
      /\ \A i \in G : WordAt(s, delim, i + e) = WordAt(r, delim, i)
  BY HeadsOfRest
<1>2. H \subseteq Nat /\ IsFiniteSet(H) BY HeadsFinite
<1>3. G \subseteq Nat /\ IsFiniteSet(G) /\ n \in Nat BY <1>1, HeadsFinite, FS_CardinalityType
<1>4. \A t \in T : b < t BY <1>1, <1>3
<1>5. b \notin T
  <2>1. ASSUME NEW i \in G PROVE b # i + e
    <3>1. i \in Nat BY <1>3
    <3> QED BY <1>1, <3>1
  <2> QED BY <2>1
<1>6. IsFiniteSet(T) /\ Cardinality(T) = n BY <1>1, <1>3, ShiftedCounts
<1>7. Cardinality(H) = n + 1
  <2> HIDE DEF T, H, n
  <2>1. Cardinality(T \cup {b}) = Cardinality(T) + 1 BY <1>5, <1>6, FS_AddElement
  <2>2. T \cup {b} = H BY <1>1
  <2> QED BY <1>6, <2>1, <2>2
<1>8. Rank(H, b) = 1
  <2>1. {k \in H : k <= b} = {b} BY <1>1, <1>3
  <2> HIDE DEF H
  <2> QED BY <2>1, FS_Singleton DEF Rank
<1>9. ASSUME NEW i \in G PROVE Rank(H, i + e) = Rank(G, i) + 1
  <2> DEFINE L == {k \in G : k <= i}
             M == {k + e : k \in L}
  <2>1. L \subseteq Nat /\ IsFiniteSet(L) /\ L \subseteq G BY <1>3, FS_Subset
  <2>2. i \in Nat BY <1>3, <1>9
  <2>3. {k \in H : k <= i + e} = M \cup {b}
    <3>1. ASSUME NEW k \in H, k <= i + e PROVE k \in M \cup {b}
      <4>1. CASE k = b BY <4>1
      <4>2. CASE k \in T
        <5>1. PICK j \in G : k = j + e BY <4>2
        <5>2. j \in Nat /\ j <= i BY <1>1, <1>3, <2>2, <3>1, <5>1
        <5> QED BY <5>1, <5>2
      <4> QED BY <1>1, <3>1, <4>1, <4>2
    <3>2. ASSUME NEW k \in M PROVE k \in H /\ k <= i + e
      <4>1. PICK j \in L : k = j + e BY <3>2
      <4>2. j \in Nat /\ j <= i /\ j \in G BY <2>1, <4>1
      <4>3. k \in T /\ k <= i + e BY <1>1, <2>2, <4>1, <4>2
      <4> QED BY <1>1, <4>3
    <3>3. b \in H /\ b <= i + e BY <1>1, <2>2
    <3> HIDE DEF H, M
    <3> QED BY <3>1, <3>2, <3>3
  <2>4. IsFiniteSet(M) /\ Cardinality(M) = Cardinality(L) BY <1>1, <2>1, ShiftedCounts
  <2>5. b \notin M
    <3>1. ASSUME b \in M PROVE FALSE
      <4>1. PICK j \in L : b = j + e BY <3>1
      <4>2. j \in Nat BY <2>1
      <4> QED BY <1>1, <4>1, <4>2
    <3> QED BY <3>1
  <2> HIDE DEF L, M, H
  <2>6. Cardinality(M \cup {b}) = Cardinality(M) + 1 BY <2>4, <2>5, FS_AddElement
  <2>7. Rank(H, i + e) = Cardinality(M \cup {b}) BY <2>3 DEF Rank
  <2>8. Rank(G, i) = Cardinality(L) BY DEF Rank, L
  <2> QED BY <2>4, <2>6, <2>7, <2>8
<1> DEFINE p == WordList(s, delim)
           q == WordList(r, delim)
           u == << SubSeq(s, b, e - 1) >>
<1>10. p = [k \in 1 .. n + 1 |-> p[k]] BY <1>7 DEF WordList
<1>11. q = [k \in 1 .. n |-> q[k]] BY DEF WordList
<1>12. b \in H /\ p[1] = SubSeq(s, b, e - 1)
  <2>1. b \in H BY <1>1
  <2>2. p[Rank(H, b)] = WordAt(s, delim, b) BY <2>1, WordOfRank
  <2> QED BY <1>1, <1>8, <2>1, <2>2
<1>13. ASSUME NEW k \in 1 .. n PROVE p[k + 1] = q[k]
  <2>1. PICK i \in G : Rank(G, i) = k BY <1>1, RankedWord
  <2>2. q[k] = WordAt(r, delim, i) BY <1>1, <2>1, WordOfRank
  <2>3. i + e \in H BY <1>1
  <2>4. p[Rank(H, i + e)] = WordAt(s, delim, i + e) BY <2>3, WordOfRank
  <2> QED BY <1>1, <1>9, <2>1, <2>2, <2>4
<1> HIDE DEF p, q, n
<1>14. q \in Seq({q[k] : k \in 1 .. n}) /\ Len(q) = n BY <1>3, <1>11
<1>15. p \in Seq({p[k] : k \in 1 .. n + 1}) /\ Len(p) = n + 1 BY <1>3, <1>10
<1> DEFINE x == SubSeq(s, b, e - 1)
<1>16. p[1] = x /\ \A k \in 1 .. n : p[k + 1] = q[k] BY <1>12, <1>13
<1> HIDE DEF x
<1> DEFINE Q == {q[k] : k \in 1 .. n}
           P == {p[k] : k \in 1 .. n + 1}
<1> HIDE DEF Q, P
<1>17. /\ q \in Seq(Q) /\ p \in Seq(P) /\ Len(p) = Len(q) + 1 /\ p[1] = x
       /\ \A k \in 1 .. Len(q) : p[k + 1] = q[k]
  BY <1>14, <1>15, <1>16 DEF Q, P
<1>18. p = << p[1] >> \o q BY <1>17, Cons
<1> QED BY <1>17, <1>18 DEF p, q, x

(* The words by the first token, as strtok finds it.                       *)
LEMMA WordsByToken ==
  ASSUME NEW s \in Strings, NEW delim
  PROVE  WordList(s, delim)
           = IF strtok(s, delim).token = << >> THEN << >>
             ELSE << strtok(s, delim).token >> \o WordList(strtok(s, delim).rest, delim)
<1>1. CASE \A i \in DOMAIN s : s[i] = delim BY <1>1, NoToken, NoWords
<1>2. CASE \E i \in DOMAIN s : s[i] # delim
  <2>1. PICK b, e : Delimits(s, delim, b, e) BY <1>2, SomeToken
  <2>2. Len(s) \in Nat BY DEF Strings
  <2>3. /\ b \in Nat \ {0} /\ e \in Nat /\ e - 1 \in Nat /\ e - 1 <= Len(s)
        /\ b <= e - 1
    BY <2>1, <2>2 DEF Delimits, UpTo
  <2> DEFINE t == SubSeq(s, b, e - 1)
             r == SubSeq(s, e + 1, Len(s))
  <2>4. t \in Strings /\ Len(t) = e - 1 - b + 1
    <3>1. Len(t) = IF b <= e - 1 THEN e - 1 - b + 1 ELSE 0 BY <2>3, Piece
    <3> QED BY <2>3, <3>1, Piece
  <2>5. RestOf(s, e, r) BY <2>3, RestIs
  <2>6. strtok(s, delim) = [token |-> t, rest |-> r] BY <2>1, FirstToken
  <2>7. WordList(s, delim) = << t >> \o WordList(r, delim) BY <2>1, <2>5, FirstWord
  <2> HIDE DEF t, r
  <2>8. t # << >>
    <3>1. Len(t) # 0 BY <2>3, <2>4
    <3> QED BY <3>1
  <2>9. strtok(s, delim).token = t /\ strtok(s, delim).rest = r BY <2>6
  <2> QED BY <2>7, <2>8, <2>9
<1> QED BY <1>1, <1>2

(* What a function must satisfy to take a string apart, token by token, as *)
(* words does in EnvArgs.                                                  *)
TakenApart(f, delim) ==
  [s \in Strings |-> IF strtok(s, delim).token = << >> THEN << >>
                     ELSE << strtok(s, delim).token >> \o f[strtok(s, delim).rest]]

LEMMA SomeWords ==
  ASSUME NEW delim
  PROVE  [s \in Strings |-> WordList(s, delim)]
           = TakenApart([s \in Strings |-> WordList(s, delim)], delim)
<1> DEFINE F == [s \in Strings |-> WordList(s, delim)]
<1>1. \A s \in Strings : F[s] = WordList(s, delim) OBVIOUS
<1>2. ASSUME NEW s \in Strings PROVE F[s] = TakenApart(F, delim)[s]
  <2>1. F[strtok(s, delim).rest] = WordList(strtok(s, delim).rest, delim)
    BY <1>1, TokenType
  <2> HIDE DEF F
  <2> QED BY <1>1, <2>1, WordsByToken DEF TakenApart
<1>3. F = [s \in Strings |-> F[s]] OBVIOUS
<1>4. TakenApart(F, delim) = [s \in Strings |-> TakenApart(F, delim)[s]] BY DEF TakenApart
<1> HIDE DEF F
<1>5. F = TakenApart(F, delim) BY <1>2, <1>3, <1>4
<1> QED BY <1>5 DEF F

(* No other function does: of the strings it took apart in another way one *)
(* would be shortest, and what is left of it behind its first token is     *)
(* shorter.                                                                *)
LEMMA OnlyWords ==
  ASSUME NEW delim, NEW f, f = TakenApart(f, delim)
  PROVE  \A s \in Strings : f[s] = WordList(s, delim)
<1> DEFINE other == {s \in Strings : f[s] # WordList(s, delim)}
           lens  == {Len(s) : s \in other}
<1>1. ASSUME other # {} PROVE FALSE
  <2>1. \A s \in Strings : Len(s) \in Nat BY DEF Strings
  <2>2. lens \subseteq Nat /\ lens # {} BY <1>1, <2>1
  <2> HIDE DEF lens
  <2>3. PICK l \in lens : \A k \in lens : l <= k BY <2>2, LeastNat
  <2>4. PICK s \in other : Len(s) = l BY DEF lens
  <2> DEFINE r == strtok(s, delim).rest
  <2>5. s \in Strings /\ f[s] # WordList(s, delim) BY <2>4
  <2>6. /\ r \in Strings
        /\ strtok(s, delim).token # << >> => Len(r) < Len(s)
    BY <2>5, TokenType
  <2>7. ASSUME strtok(s, delim).token # << >> PROVE f[r] = WordList(r, delim)
    <3>1. Len(r) < Len(s) /\ Len(r) \in Nat /\ Len(s) \in Nat BY <2>1, <2>5, <2>6, <2>7
    <3>2. Len(r) \notin lens BY <2>3, <2>4, <3>1
    <3>3. r \notin other BY <3>2 DEF lens
    <3> QED BY <2>6, <3>3
  <2>8. f[s] = IF strtok(s, delim).token = << >> THEN << >>
               ELSE << strtok(s, delim).token >> \o f[r]
    BY <2>5 DEF TakenApart
  <2> HIDE DEF r, other
  <2>9. WordList(s, delim) = IF strtok(s, delim).token = << >> THEN << >>
                             ELSE << strtok(s, delim).token >> \o WordList(r, delim)
    BY <2>5, WordsByToken DEF r
  <2> QED BY <2>5, <2>7, <2>8, <2>9
<1> QED BY <1>1

LEMMA WordsTaken ==
  ASSUME NEW delim, NEW s \in Strings
  PROVE  (CHOOSE f : f = TakenApart(f, delim))[s] = WordList(s, delim)
<1> DEFINE g == CHOOSE f : f = TakenApart(f, delim)
<1>1. \E f : f = TakenApart(f, delim) BY SomeWords
<1>2. g = TakenApart(g, delim) BY <1>1
<1> HIDE DEF g
<1>3. g[s] = WordList(s, delim) BY <1>2, OnlyWords
<1> QED BY <1>3 DEF g

-------------------------------------------------------------------------------
(* PGMPI_PARAMS.                                                           *)

(* Where compute_argc counts a word: behind a delimiter that another word  *)
(* precedes.                                                               *)
Counted(s, delim) ==
  {i \in DOMAIN s :
    s[i] # delim /\ i > 1 /\ s[i - 1] = delim /\ \E j \in 1 .. i - 1 : s[j] # delim}

LEMMA AllButOneCounted ==
  ASSUME NEW s \in Strings, NEW delim
  PROVE  Cardinality(Counted(s, delim))
           = IF Heads(s, delim) = {} THEN 0 ELSE Cardinality(Heads(s, delim)) - 1
<1> DEFINE H == Heads(s, delim)
           C == Counted(s, delim)
<1>1. Len(s) \in Nat /\ DOMAIN s = 1 .. Len(s) BY DEF Strings
<1>2. IsFiniteSet(H) /\ H \subseteq Nat BY HeadsFinite
<1>3. C \subseteq H BY DEF Counted, Heads
<1>4. CASE H = {}
  <2>1. C = {} BY <1>3, <1>4
  <2> QED BY <1>4, <2>1, FS_EmptySet
<1>5. CASE H # {}
  <2>1. PICK k \in DOMAIN s : s[k] # delim BY <1>5 DEF Heads
  <2>2. PICK b, e : Delimits(s, delim, b, e) BY <2>1, SomeToken
  <2>3. /\ b \in 1 .. Len(s) /\ s[b] # delim
        /\ \A j \in 1 .. b - 1 : s[j] = delim
    BY <1>1, <2>2 DEF Delimits, UpTo
  <2>4. b \in H
    <3>1. b # 1 => b - 1 \in 1 .. b - 1 BY <1>1, <2>3
    <3> QED BY <1>1, <2>3, <3>1 DEF Heads
  <2>5. b \notin C BY <2>3 DEF Counted
  <2>6. ASSUME NEW i \in H, i # b PROVE i \in C
    <3>1. i \in 1 .. Len(s) /\ s[i] # delim /\ (i = 1 \/ s[i - 1] = delim)
      BY <1>1, <2>6 DEF Heads
    <3>2. ~(i < b) BY <1>1, <2>3, <3>1
    <3>3. i > b /\ i > 1 /\ b \in 1 .. i - 1 BY <1>1, <2>3, <2>6, <3>1, <3>2
    <3>4. s[i - 1] = delim BY <3>1, <3>3
    <3> QED BY <1>1, <2>3, <3>1, <3>3, <3>4 DEF Counted
  <2> HIDE DEF H, C
  <2>7. H = C \cup {b} BY <1>3, <2>4, <2>6
  <2>8. IsFiniteSet(C) BY <1>2, <1>3, FS_Subset
  <2>9. Cardinality(C \cup {b}) = Cardinality(C) + 1 BY <2>5, <2>8, FS_AddElement
  <2>10. Cardinality(C) \in Nat BY <2>8, FS_CardinalityType
  <2>11. Cardinality(C) = Cardinality(H) - 1 BY <2>7, <2>9, <2>10
  <2> QED BY <1>5, <2>11 DEF H, C
<1> QED BY <1>4, <1>5

LEMMA LastPieceIsWord ==
  ASSUME NEW s \in Strings, NEW delim, s # << >>, s[Len(s)] # delim
  PROVE  Heads(s, delim) # {}
<1>1. Len(s) \in Nat \ {0} /\ DOMAIN s = 1 .. Len(s) BY DEF Strings
<1>2. PICK b, e : Delimits(s, delim, b, e)
  <2>1. Len(s) \in DOMAIN s BY <1>1
  <2> QED BY <2>1, SomeToken
<1>3. /\ b \in 1 .. Len(s) /\ s[b] # delim
      /\ \A j \in 1 .. b - 1 : s[j] = delim
  BY <1>1, <1>2 DEF Delimits, UpTo
<1>4. b # 1 => b - 1 \in 1 .. b - 1 BY <1>1, <1>3
<1>5. b \in Heads(s, delim) BY <1>1, <1>3, <1>4 DEF Heads
<1> QED BY <1>5

(* The places where words of PGMPI_PARAMS begin.                           *)
Blank == " "
Words(s) == Heads(s, Blank)

(* compute_argc counts the words, but not the last one when the end of the *)
(* string does not count.                                                  *)
LEMMA ArgcCounts ==
  ASSUME NEW s \in Strings
  PROVE  /\ Cardinality(Words(s)) \in Nat
         /\ EndCounts(s) => compute_argc(s) = Cardinality(Words(s))
         /\ ~EndCounts(s) =>
              compute_argc(s) = IF Words(s) = {} THEN 0 ELSE Cardinality(Words(s)) - 1
<1> DEFINE n == Cardinality(Words(s))
           c == Cardinality(Counted(s, Blank))
<1>1. compute_argc_blanks(s) = c BY Zenon DEF compute_argc_blanks, Counted, Blank
<1>2. EndCounts(s) => Words(s) # {}
  <2>1. ASSUME s # << >>, s[Len(s)] # Blank PROVE Words(s) # {}
    BY <2>1, LastPieceIsWord DEF Words
  <2> QED BY <2>1, Zenon DEF EndCounts, Blank
<1>3. n \in Nat BY HeadsFinite, FS_CardinalityType DEF Words
<1>4. c = IF Words(s) = {} THEN 0 ELSE n - 1 BY AllButOneCounted DEF Words
<1>5. compute_argc(s) = c + (IF EndCounts(s) THEN 1 ELSE 0) BY <1>1 DEF compute_argc
<1> HIDE DEF n, c
<1> QED BY <1>2, <1>3, <1>4, <1>5 DEF n

(* Argument 0 is a dummy; the others are words, in their order.            *)
LEMMA EnvArgsAre ==
  ASSUME NEW s \in Strings
  PROVE  EnvArgs(s) = [i \in 1 .. 1 + compute_argc(s) |->
                        IF i = 1 THEN << "dummy" >> ELSE WordList(s, Blank)[i - 1]]
<1> DEFINE g == CHOOSE f : f = TakenApart(f, Blank)
<1>1. EnvArgs(s) = [i \in 1 .. 1 + compute_argc(s) |->
                     IF i = 1 THEN << "dummy" >> ELSE g[s][i - 1]]
  BY Zenon DEF EnvArgs, TakenApart, Blank
<1>2. g[s] = WordList(s, Blank) BY WordsTaken
<1> HIDE DEF g
<1> QED BY <1>1, <1>2, Zenon

(* A word is a piece of the string, and goes on for as long as it can.     *)
LEMMA WordHere ==
  ASSUME NEW s \in Strings, NEW delim, NEW i \in Heads(s, delim), NEW w,
         w = WordAt(s, delim, i)
  PROVE  /\ w \in Strings
         /\ w = SubSeq(s, i, i + Len(w) - 1)
         /\ \A k \in DOMAIN w : w[k] # delim
         /\ i + Len(w) \in DOMAIN s => s[i + Len(w)] = delim
<1>1. Len(s) \in Nat /\ DOMAIN s = 1 .. Len(s) BY DEF Strings
<1>2. i \in 1 .. Len(s) /\ i \in DOMAIN s /\ s[i] # delim BY <1>1 DEF Heads
<1>3. PICK e : UpTo(s, delim, i, e) BY <1>2, SomeEnd
<1>4. /\ e \in i + 1 .. Len(s) + 1
      /\ \A j \in i .. e - 1 : s[j] # delim
      /\ e <= Len(s) => s[e] = delim
  BY <1>3 DEF UpTo
<1>5. w = SubSeq(s, i, e - 1) BY <1>2, <1>3, WordIs
<1>6. i \in Nat \ {0} /\ e - 1 \in Nat /\ e - 1 <= Len(s) /\ i <= e - 1
  BY <1>1, <1>2, <1>4
<1>7. /\ SubSeq(s, i, e - 1) \in Strings
      /\ Len(SubSeq(s, i, e - 1)) = IF i <= e - 1 THEN e - 1 - i + 1 ELSE 0
      /\ \A k \in 1 .. e - 1 - i + 1 : SubSeq(s, i, e - 1)[k] = s[i + k - 1]
  BY <1>1, <1>6, Piece
<1>8. w \in Strings /\ Len(w) = e - i /\ \A k \in 1 .. e - i : w[k] = s[i + k - 1]
  <2>1. e - 1 - i + 1 = e - i BY <1>4, <1>6
  <2> QED BY <1>5, <1>6, <1>7, <2>1
<1>9. i + Len(w) = e /\ i + Len(w) - 1 = e - 1 BY <1>4, <1>6, <1>8
<1>10. DOMAIN w = 1 .. e - i BY <1>8 DEF Strings
<1>11. ASSUME NEW k \in DOMAIN w PROVE w[k] # delim
  <2>1. k \in 1 .. e - i BY <1>10
  <2>2. i + k - 1 \in i .. e - 1 BY <1>4, <1>6, <2>1
  <2> QED BY <1>4, <1>8, <2>1, <2>2
<1>12. ASSUME e \in DOMAIN s PROVE s[e] = delim BY <1>1, <1>4, <1>12
<1> QED BY <1>5, <1>8, <1>9, <1>11, <1>12

(* What parse_cli_arguments adds are strings.                              *)
LEMMA AdditionTypes ==
  ASSUME NEW arg \in Strings, NEW a \in Additions(arg),
         << "config_file" >> \in Strings, << "profile_path" >> \in Strings
  PROVE  a[1] \in Strings /\ a[2] \in Strings
<1> DEFINE v == ValOf(arg)
           first == strtok(v, "=")
           second == strtok(first.rest, "=")
<1>1. v \in Strings
  <2>1. PICK i \in Equals(arg) : TRUE BY DEF Additions, IsPair
  <2>2. Equals(arg) \subseteq Nat /\ Equals(arg) \subseteq DOMAIN arg
    BY DEF Equals, Strings
  <2>3. PICK l \in Equals(arg) : \A j \in Equals(arg) : l <= j BY <2>1, <2>2, LeastNat
  <2>4. SplitAt(arg) = l BY <2>2, <2>3, LeastChosen DEF SplitAt
  <2>5. l + 1 \in Nat \ {0} /\ Len(arg) \in Nat BY <2>2 DEF Strings
  <2>6. v = SubSeq(arg, l + 1, Len(arg)) BY <2>4 DEF ValOf
  <2> DEFINE m == l + 1
             n == Len(arg)
  <2>7. m \in Nat \ {0} /\ n \in Nat /\ n <= n BY <2>5
  <2> HIDE DEF m
  <2>8. SubSeq(arg, m, Len(arg)) \in Strings BY <2>7, Piece
  <2> QED BY <2>6, <2>8 DEF m
<1> HIDE DEF v
<1>2. first.token \in Strings /\ first.rest \in Strings BY <1>1, TokenType
<1> HIDE DEF first
<1>3. second.token \in Strings BY <1>2, TokenType
<1> HIDE DEF second
<1>4. \/ a = << first.token, second.token >>
      \/ a = << << "config_file" >>, v >>
      \/ a = << << "profile_path" >>, v >>
  BY Zenon DEF Additions, v, first, second
<1> DEFINE c == << "config_file" >>
           f == << "profile_path" >>
<1>5. c \in Strings /\ f \in Strings OBVIOUS
<1> HIDE DEF c, f
<1>6. \/ a = << first.token, second.token >> \/ a = << c, v >> \/ a = << f, v >>
  BY <1>4, Zenon DEF c, f
<1> QED BY <1>1, <1>2, <1>3, <1>5, <1>6

-------------------------------------------------------------------------------
(* Recursion that stops.                                                   *)

(* One that goes from x to step[x] until a size is 0 has a result: up to   *)
(* any size, and, since the results agree, for all sizes.                  *)
Results(f, X, step, size, value, n) ==
  f = [x \in {y \in X : size[y] <= n} |->
         IF size[x] = 0 THEN value[x] ELSE f[step[x]]]

LEMMA ResultsAgree ==
  ASSUME NEW X, NEW step \in [X -> X], NEW size \in [X -> Nat], NEW value,
         \A x \in X : size[x] # 0 => size[step[x]] < size[x],
         NEW m \in Nat, NEW f, Results(f, X, step, size, value, m),
         NEW n \in Nat, NEW g, Results(g, X, step, size, value, n),
         NEW x \in X, size[x] <= m, size[x] <= n
  PROVE  f[x] = g[x]
<1> DEFINE bad == {y \in X : size[y] <= m /\ size[y] <= n /\ f[y] # g[y]}
           sizes == {size[y] : y \in bad}
<1>1. ASSUME bad # {} PROVE FALSE
  <2>1. sizes \subseteq Nat /\ sizes # {} BY <1>1
  <2> HIDE DEF sizes
  <2>2. PICK k \in sizes : \A l \in sizes : k <= l BY <2>1, LeastNat
  <2>3. PICK y \in bad : size[y] = k BY DEF sizes
  <2>4. y \in X /\ size[y] \in Nat /\ size[y] <= m /\ size[y] <= n /\ f[y] # g[y]
    BY <2>3
  <2>5. f[y] = IF size[y] = 0 THEN value[y] ELSE f[step[y]] BY <2>4 DEF Results
  <2>6. g[y] = IF size[y] = 0 THEN value[y] ELSE g[step[y]] BY <2>4 DEF Results
  <2>7. size[y] # 0 /\ f[step[y]] # g[step[y]] BY <2>4, <2>5, <2>6
  <2>8. step[y] \in X /\ size[step[y]] \in Nat /\ size[step[y]] < size[y] BY <2>4, <2>7
  <2>9. step[y] \in bad BY <2>4, <2>7, <2>8
  <2>10. size[step[y]] \in sizes BY <2>9 DEF sizes
  <2> QED BY <2>2, <2>3, <2>4, <2>8, <2>10
<1> QED BY <1>1

LEMMA SomeResults ==
  ASSUME NEW X, NEW step \in [X -> X], NEW size \in [X -> Nat], NEW value,
         \A x \in X : size[x] # 0 => size[step[x]] < size[x], NEW n \in Nat
  PROVE  \E f : Results(f, X, step, size, value, n)
<1> DEFINE bad == {m \in Nat : ~ \E f : Results(f, X, step, size, value, m)}
<1>1. ASSUME bad # {} PROVE FALSE
  <2>1. bad \subseteq Nat OBVIOUS
  <2> HIDE DEF bad
  <2>2. PICK m \in bad : \A l \in bad : m <= l BY <1>1, <2>1, LeastNat
  <2>3. m \in Nat /\ \A f : ~Results(f, X, step, size, value, m) BY DEF bad
  <2>4. CASE m = 0
    <3> DEFINE f == [x \in {y \in X : size[y] <= m} |-> value[x]]
    <3>1. ASSUME NEW x \in X, size[x] <= m PROVE size[x] = 0 BY <2>4, <3>1
    <3>2. f = [x \in {y \in X : size[y] <= m} |->
                 IF size[x] = 0 THEN value[x] ELSE f[step[x]]]
      BY <3>1
    <3> HIDE DEF f
    <3>3. Results(f, X, step, size, value, m) BY <3>2 DEF Results
    <3> QED BY <2>3, <3>3
  <2>5. CASE m # 0
    <3>1. m - 1 \in Nat /\ ~(m <= m - 1) BY <2>3, <2>5
    <3>2. m - 1 \notin bad BY <2>2, <3>1
    <3>3. PICK f : Results(f, X, step, size, value, m - 1) BY <3>1, <3>2 DEF bad
    <3> DEFINE D == {y \in X : size[y] <= m}
               g == [x \in D |-> IF size[x] = 0 THEN value[x] ELSE f[step[x]]]
    <3>4. ASSUME NEW x \in D, size[x] # 0 PROVE f[step[x]] = g[step[x]]
      <4> DEFINE y == step[x]
      <4>1. y \in X /\ size[y] \in Nat /\ size[y] < size[x] /\ size[x] \in Nat
            /\ size[x] <= m
        BY <3>4
      <4> HIDE DEF y
      <4>2. size[y] <= m - 1 /\ size[y] <= m BY <2>3, <4>1
      <4>3. f[y] = IF size[y] = 0 THEN value[y] ELSE f[step[y]]
        BY <3>3, <4>1, <4>2 DEF Results
      <4>4. g[y] = IF size[y] = 0 THEN value[y] ELSE f[step[y]] BY <4>1, <4>2
      <4> QED BY <4>3, <4>4 DEF y
    <3>5. ASSUME NEW x \in D
          PROVE  g[x] = IF size[x] = 0 THEN value[x] ELSE g[step[x]]
      BY <3>4
    <3>6. g = [x \in D |-> g[x]] OBVIOUS
    <3> HIDE DEF g
    <3>7. g = [x \in D |-> IF size[x] = 0 THEN value[x] ELSE g[step[x]]] BY <3>5, <3>6
    <3>8. Results(g, X, step, size, value, m) BY <3>7 DEF Results
    <3> QED BY <2>3, <3>8
  <2> QED BY <2>4, <2>5
<1> QED BY <1>1

LEMMA AllResults ==
  ASSUME NEW X, NEW step \in [X -> X], NEW size \in [X -> Nat], NEW value,
         \A x \in X : size[x] # 0 => size[step[x]] < size[x]
  PROVE  \E f : f = [x \in X |-> IF size[x] = 0 THEN value[x] ELSE f[step[x]]]
<1> DEFINE upto(n) == CHOOSE f : Results(f, X, step, size, value, n)
           f == [x \in X |-> upto(size[x])[x]]
<1>1. \A n \in Nat : Results(upto(n), X, step, size, value, n) BY SomeResults
<1> HIDE DEF upto
<1>2. ASSUME NEW x \in X PROVE f[x] = IF size[x] = 0 THEN value[x] ELSE f[step[x]]
  <2>1. size[x] \in Nat /\ size[x] <= size[x] OBVIOUS
  <2> DEFINE h == upto(size[x])
  <2>2. Results(h, X, step, size, value, size[x]) BY <1>1, <2>1
  <2> HIDE DEF h
  <2>3. h[x] = IF size[x] = 0 THEN value[x] ELSE h[step[x]] BY <2>1, <2>2 DEF Results
  <2>4. ASSUME size[x] # 0 PROVE h[step[x]] = f[step[x]]
    <3> DEFINE y == step[x]
               g == upto(size[y])
    <3>1. y \in X /\ size[y] \in Nat /\ size[y] <= size[y] /\ size[y] <= size[x]
      BY <2>1, <2>4
    <3>2. Results(g, X, step, size, value, size[y]) BY <1>1, <3>1
    <3>3. f[y] = g[y] BY <3>1
    <3> HIDE DEF y, g, f
    <3>4. h[y] = g[y] BY <2>1, <2>2, <3>1, <3>2, ResultsAgree
    <3> QED BY <3>3, <3>4 DEF y
  <2>5. f[x] = h[x] BY DEF h
  <2> HIDE DEF f
  <2> QED BY <2>3, <2>4, <2>5
<1>3. f = [x \in X |-> f[x]] OBVIOUS
<1> HIDE DEF f
<1>4. f = [x \in X |-> IF size[x] = 0 THEN value[x] ELSE f[step[x]]] BY <1>2, <1>3
<1> QED BY <1>4

-------------------------------------------------------------------------------
(* Tokens of short strings, and the loop of parse_module_parameters.       *)

(* A string without delimiters is one token.                               *)
LEMMA WholeToken ==
  ASSUME NEW s \in Strings, NEW delim, \A i \in DOMAIN s : s[i] # delim
  PROVE  strtok(s, delim) = [token |-> s, rest |-> << >>]
<1>1. Len(s) \in Nat /\ DOMAIN s = 1 .. Len(s) BY DEF Strings
<1>2. CASE Len(s) = 0
  <2>1. s = << >> BY <1>2 DEF Strings
  <2>2. \A i \in DOMAIN s : s[i] = delim BY <1>1, <1>2
  <2> QED BY <2>1, <2>2, NoToken
<1>3. CASE Len(s) # 0
  <2> DEFINE e == Len(s) + 1
             r == SubSeq(s, e + 1, Len(s))
             u == SubSeq(s, 1, e - 1)
  <2>1. e \in 1 + 1 .. Len(s) + 1 /\ e - 1 = Len(s) /\ ~(e <= Len(s)) BY <1>1, <1>3
  <2>2. UpTo(s, delim, 1, e) BY <1>1, <2>1 DEF UpTo
  <2>3. Delimits(s, delim, 1, e) BY <1>1, <1>3, <2>2 DEF Delimits
  <2>4. strtok(s, delim) = [token |-> u, rest |-> r] BY <2>3, FirstToken
  <2>5. u = s BY <2>1 DEF Strings
  <2>6. r = << >>
    <3>1. RestOf(s, e, r) BY <1>1, RestIs
    <3>2. r \in Strings /\ Len(r) \in Nat /\ (Len(r) # 0 => Len(r) + e = Len(s))
      BY <3>1 DEF RestOf
    <3>4. Len(s) \in Nat BY <1>1
    <3>5. e = Len(s) + 1 OBVIOUS
    <3> HIDE DEF r, e
    <3>3. Len(r) = 0 BY <3>2, <3>4, <3>5
    <3> QED BY <3>2, <3>3 DEF Strings
  <2> QED BY <2>4, <2>5, <2>6
<1> QED BY <1>2, <1>3

(* One that does not begin with a delimiter is a token up to the first.    *)
LEMMA TokenBefore ==
  ASSUME NEW s \in Strings, NEW delim, NEW e \in 2 .. Len(s), s[e] = delim,
         \A i \in 1 .. e - 1 : s[i] # delim
  PROVE  strtok(s, delim) = [token |-> SubSeq(s, 1, e - 1), rest |-> SubSeq(s, e + 1, Len(s))]
<1>1. Len(s) \in Nat BY DEF Strings
<1>2. e \in 1 + 1 .. Len(s) + 1 BY <1>1
<1>3. UpTo(s, delim, 1, e) BY <1>2 DEF UpTo
<1>4. Delimits(s, delim, 1, e) BY <1>1, <1>3 DEF Delimits
<1> QED BY <1>4, FirstToken

(* A piece of a piece.                                                     *)
LEMMA PieceOfPiece ==
  ASSUME NEW s \in Strings, NEW k \in Nat, NEW v, v = SubSeq(s, k + 1, Len(s)),
         NEW i \in Nat \ {0}, NEW j \in Nat, j <= Len(v)
  PROVE  SubSeq(v, i, j) = SubSeq(s, k + i, k + j)
<1>1. Len(s) \in Nat BY DEF Strings
<1>2. RestOf(s, k, v) BY RestIs
<1>3. v \in Strings /\ Len(v) \in Nat BY <1>2 DEF RestOf
<1>4. CASE Len(v) = 0
  <2>1. j = 0 BY <1>3, <1>4
  <2>2. SubSeq(v, i, j) = << >> BY <1>3, <2>1 DEF Strings
  <2>3. k + i > k + j /\ k + i \in Int /\ k + j \in Int BY <2>1
  <2>4. SubSeq(s, k + i, k + j) = << >> BY <2>3
  <2> QED BY <2>2, <2>4
<1>5. CASE Len(v) # 0
  <2>1. Len(v) + k = Len(s) /\ \A n \in 1 .. Len(v) : v[n] = s[n + k]
    BY <1>2, <1>5 DEF RestOf
  <2> DEFINE a == SubSeq(v, i, j)
             m == k + i
             n == k + j
             b == SubSeq(s, m, n)
  <2>2. m \in Nat \ {0} /\ n \in Nat /\ n <= Len(s) /\ n - m + 1 = j - i + 1
        /\ (m <= n <=> i <= j)
    BY <1>1, <1>3, <2>1
  <2>3. /\ a \in Strings /\ Len(a) = IF i <= j THEN j - i + 1 ELSE 0
        /\ \A l \in 1 .. j - i + 1 : a[l] = v[i + l - 1]
    <3>1. v \in Strings /\ i \in Nat \ {0} /\ j \in Nat /\ j <= Len(v) BY <1>3
    <3> QED BY <3>1, Piece, ZenonT(30)
  <2> HIDE DEF m, n
  <2>4. /\ b \in Strings /\ Len(b) = IF m <= n THEN n - m + 1 ELSE 0
        /\ \A l \in 1 .. n - m + 1 : b[l] = s[m + l - 1]
    BY <2>2, Piece
  <2> HIDE DEF a, b
  <2>5. Len(a) = Len(b) BY <2>2, <2>3, <2>4
  <2>6. ASSUME NEW l \in 1 .. Len(a) PROVE a[l] = b[l]
    <3>1. i <= j /\ l \in 1 .. j - i + 1 /\ l \in 1 .. n - m + 1
      BY <2>2, <2>3, <2>6
    <3>2. i + l - 1 \in 1 .. Len(v) /\ (i + l - 1) + k = m + l - 1
      <4>1. i + (l - 1) <= j /\ 1 <= i + (l - 1) /\ i + (l - 1) \in Nat BY <3>1
      <4>2. i + (l - 1) \in 1 .. Len(v) BY <1>3, <4>1
      <4>3. (i + (l - 1)) + k = m + (l - 1) BY <3>1, <4>1 DEF m
      <4> QED BY <2>2, <3>1, <4>2, <4>3
    <3>3. v[i + l - 1] = s[m + l - 1] BY <2>1, <3>2
    <3> QED BY <2>3, <2>4, <3>1, <3>3
  <2>7. a = b BY <2>3, <2>4, <2>5, <2>6, SameString
  <2> QED BY <2>7 DEF a, b, m, n
<1> QED BY <1>4, <1>5

(* Tokens and what is left behind them are no longer than the string, and  *)
(* what is left is shorter.                                                *)
LEMMA TokenShort ==
  ASSUME NEW s \in Strings, NEW delim
  PROVE  /\ Len(strtok(s, delim).token) <= Len(s)
         /\ Len(strtok(s, delim).rest) <= Len(s)
         /\ Len(s) # 0 => Len(strtok(s, delim).rest) < Len(s)
<1> DEFINE u == strtok(s, delim).token
           r == strtok(s, delim).rest
<1>1. Len(s) \in Nat BY DEF Strings
<1>2. CASE \A i \in DOMAIN s : s[i] = delim
  <2>1. u = << >> /\ r = << >> BY <1>2, NoToken
  <2>2. Len(u) = 0 /\ Len(r) = 0 BY <2>1
  <2> QED BY <1>1, <2>2
<1>3. CASE \E i \in DOMAIN s : s[i] # delim
  <2>1. PICK b, e : Delimits(s, delim, b, e) BY <1>3, SomeToken
  <2>2. /\ b \in Nat \ {0} /\ e \in Nat /\ e - 1 \in Nat /\ e - 1 <= Len(s) /\ b <= e - 1
    BY <1>1, <2>1 DEF Delimits, UpTo
  <2> DEFINE t == SubSeq(s, b, e - 1)
             q == SubSeq(s, e + 1, Len(s))
  <2>3. Len(t) <= Len(s)
    <3>1. Len(t) = IF b <= e - 1 THEN e - 1 - b + 1 ELSE 0 BY <2>2, Piece
    <3> QED BY <1>1, <2>2, <3>1
  <2>4. RestOf(s, e, q) BY <2>2, RestIs
  <2>5. Len(q) <= Len(s) /\ (Len(s) # 0 => Len(q) < Len(s))
    <3>1. Len(q) \in Nat /\ (Len(q) # 0 => Len(q) + e = Len(s)) BY <2>4 DEF RestOf
    <3>2. e > 0 BY <2>2
    <3> HIDE DEF q
    <3> QED BY <1>1, <2>2, <3>1, <3>2
  <2>6. strtok(s, delim) = [token |-> t, rest |-> q] BY <2>1, FirstToken
  <2> HIDE DEF t, q
  <2>7. u = t /\ r = q BY <2>6
  <2> QED BY <2>3, <2>5, <2>7
<1> QED BY <1>2, <1>3

(* A pass goes on in less than it started with.                            *)
LEMMA PassType ==
  ASSUME NEW was \in Parses
  PROVE  /\ Pass(was) \in Parses
         /\ Len(was.rest) \in Nat
         /\ Len(was.rest) # 0 => Len(Pass(was).rest) < Len(was.rest)
<1> DEFINE d == was.dict
           r == was.rest
           comma == ","
           colon == ":"
           pair == strtok(r, comma)
           key == strtok(pair.token, colon)
           val == strtok(key.rest, colon)
           added == IF key.token # << >> /\ val.token # << >>
                    THEN Added(d, key.token, val.token) ELSE d
<1>1. /\ r \in Strings
      /\ d \in [data : Seq([key : Strings, value : Strings]), size : Nat]
  BY DEF Parses
<1> HIDE DEF d, r, comma, colon
<1>2. pair.token \in Strings /\ Len(pair.token) <= Len(r) BY <1>1, TokenType, TokenShort
<1> HIDE DEF pair
<1>3. /\ key.token \in Strings /\ key.rest \in Strings
      /\ Len(key.rest) <= Len(pair.token)
      /\ Len(pair.token) # 0 => Len(key.rest) < Len(pair.token)
  BY <1>2, TokenType, TokenShort
<1> HIDE DEF key
<1>4. val.token \in Strings /\ val.rest \in Strings /\ Len(val.rest) <= Len(key.rest)
  BY <1>3, TokenType, TokenShort
<1> HIDE DEF val
<1>5. Holds(d, Strings, Strings)
  <2>1. d.data \in Seq([key : Strings, value : Strings]) /\ d.size \in Nat
        /\ d = [data |-> d.data, size |-> d.size]
    BY <1>1
  <2> QED BY <2>1 DEF Holds, IsDictionary
<1>6. Holds(added, Strings, Strings) BY <1>3, <1>4, <1>5, AddedHolds
<1> HIDE DEF added
<1>7. added \in [data : Seq([key : Strings, value : Strings]), size : Nat]
  <2> DEFINE E == Seq([key : Strings, value : Strings])
  <2>1. added.data \in E /\ added.size \in Nat
        /\ added = [data |-> added.data, size |-> added.size]
    BY <1>6 DEF Holds, IsDictionary
  <2> HIDE DEF E
  <2>2. added \in [data : E, size : Nat] BY <2>1
  <2> QED BY <2>2 DEF E
<1>8. Pass(was) = [rest |-> val.rest, dict |-> added]
  BY Zenon DEF Pass, d, r, comma, colon, pair, key, val, added
<1>9. Pass(was) \in Parses BY <1>4, <1>7, <1>8 DEF Parses
<1>10. Pass(was).rest = val.rest BY <1>8
<1>11. /\ Len(r) \in Nat /\ Len(pair.token) \in Nat /\ Len(key.rest) \in Nat
       /\ Len(val.rest) \in Nat
  BY <1>1, <1>2, <1>3, <1>4 DEF Strings
<1>12. Len(r) # 0 => Len(val.rest) < Len(r) BY <1>2, <1>3, <1>4, <1>11
<1> QED BY <1>9, <1>10, <1>11, <1>12 DEF r

(* The loop makes passes until nothing is left.                            *)
LEMMA OptionsByPasses ==
  \E end :
    /\ \A dict, options : WithOptions(dict, options) = end[[rest |-> options, dict |-> dict]]
    /\ \A was \in Parses :
         end[was] = IF Len(was.rest) = 0 THEN was.dict ELSE end[Pass(was)]
<1> DEFINE step == [was \in Parses |-> Pass(was)]
           size == [was \in Parses |-> Len(was.rest)]
           value == [was \in Parses |-> was.dict]
           end == CHOOSE f : f = [was \in Parses |-> IF was.rest = << >> THEN was.dict
                                                    ELSE f[Pass(was)]]
<1>1. step \in [Parses -> Parses] /\ size \in [Parses -> Nat] BY PassType
<1>2. \A was \in Parses : size[was] # 0 => size[step[was]] < size[was] BY PassType
<1>3. ASSUME NEW was \in Parses PROVE was.rest = << >> <=> size[was] = 0
  BY DEF Parses, Strings
<1>4. \A was \in Parses : step[was] = Pass(was) /\ value[was] = was.dict OBVIOUS
<1> HIDE DEF step, size, value
<1>5. PICK f : f = [was \in Parses |-> IF size[was] = 0 THEN value[was] ELSE f[step[was]]]
  BY <1>1, <1>2, AllResults
<1>6. f = [was \in Parses |-> IF was.rest = << >> THEN was.dict ELSE f[Pass(was)]]
  BY <1>3, <1>4, <1>5
<1>7. end = [was \in Parses |-> IF was.rest = << >> THEN was.dict ELSE end[Pass(was)]]
  BY <1>6
<1>8. \A dict, options : WithOptions(dict, options) = end[[rest |-> options, dict |-> dict]]
  BY DEF WithOptions
<1> HIDE DEF end
<1>9. \A was \in Parses :
        end[was] = IF Len(was.rest) = 0 THEN was.dict ELSE end[Pass(was)]
  BY <1>3, <1>7 DEF size
<1> QED BY <1>8, <1>9

(* A string of one piece.                                                  *)
LEMMA OnePiece ==
  ASSUME NEW s \in Strings, NEW i \in DOMAIN s
  PROVE  /\ SubSeq(s, i, i) = << s[i] >>
         /\ << s[i] >> \in Strings
<1>1. i \in Nat \ {0} /\ i <= Len(s) BY DEF Strings
<1>2. /\ SubSeq(s, i, i) \in Strings
      /\ Len(SubSeq(s, i, i)) = IF i <= i THEN i - i + 1 ELSE 0
      /\ \A j \in 1 .. i - i + 1 : SubSeq(s, i, i)[j] = s[i + j - 1]
  BY <1>1, Piece
<1> DEFINE u == SubSeq(s, i, i)
<1> HIDE DEF u
<1>3. u \in Strings /\ Len(u) = 1 /\ u[1] = s[i] BY <1>1, <1>2 DEF u
<1>4. u = << s[i] >> BY <1>3 DEF Strings
<1> QED BY <1>3, <1>4 DEF u

(* strtok takes <name> : <value> apart.                                    *)
LEMMA ThreePieces ==
  ASSUME NEW s \in Strings, Len(s) = 3, NEW delim,
         s[1] # delim, s[2] = delim, s[3] # delim
  PROVE  /\ strtok(s, delim) = [token |-> << s[1] >>, rest |-> << s[3] >>]
         /\ strtok(<< s[3] >>, delim) = [token |-> << s[3] >>, rest |-> << >>]
<1>1. 1 \in DOMAIN s /\ 3 \in DOMAIN s BY DEF Strings
<1> DEFINE e == 2
<1>2. /\ e \in 2 .. Len(s) /\ s[e] = delim /\ e - 1 = 1 /\ e + 1 = 3
      /\ \A i \in 1 .. e - 1 : s[i] # delim
  <2>1. \A i \in 1 .. e - 1 : i = 1 OBVIOUS
  <2> QED BY <2>1
<1> HIDE DEF e
<1>4. strtok(s, delim) = [token |-> SubSeq(s, 1, e - 1), rest |-> SubSeq(s, e + 1, Len(s))]
  BY <1>2, TokenBefore
<1>5. e - 1 = 1 /\ e + 1 = 3 BY <1>2
<1>6. strtok(s, delim) = [token |-> SubSeq(s, 1, 1), rest |-> SubSeq(s, 3, 3)]
  BY <1>4, <1>5
<1>7. SubSeq(s, 1, 1) = << s[1] >> /\ SubSeq(s, 3, 3) = << s[3] >> /\ << s[3] >> \in Strings
  BY <1>1, OnePiece
<1>8. strtok(<< s[3] >>, delim) = [token |-> << s[3] >>, rest |-> << >>]
  <2> DEFINE u == << s[3] >>
  <2>1. \A i \in DOMAIN u : u[i] # delim OBVIOUS
  <2>2. u \in Strings BY <1>7
  <2> HIDE DEF u
  <2>3. strtok(u, delim) = [token |-> u, rest |-> << >>] BY <2>1, <2>2, WholeToken
  <2> QED BY <2>3 DEF u
<1> QED BY <1>6, <1>7, <1>8

(* Options in front of which stands one of the form <name> : <value>.      *)
Leading(s, comma, colon) ==
  /\ Len(s) >= 3 /\ s[2] = colon
  /\ s[1] # comma /\ s[1] # colon /\ s[3] # comma /\ s[3] # colon
  /\ Len(s) > 3 => s[4] = comma

LEMMA LeadingPair ==
  ASSUME NEW s \in Strings, NEW comma, NEW colon, comma # colon, Leading(s, comma, colon)
  PROVE  LET pair == strtok(s, comma)
             key  == strtok(pair.token, colon)
             val  == strtok(key.rest, colon)
         IN  /\ key.token = << s[1] >>
             /\ val.token = << s[3] >> /\ val.rest = << >>
<1> DEFINE p == SubSeq(s, 1, 3)
<1>1. Len(s) \in Nat /\ Len(s) >= 3 /\ DOMAIN s = 1 .. Len(s) BY DEF Strings, Leading
<1>2. /\ p \in Strings /\ Len(p) = 3
      /\ p[1] = s[1] /\ p[2] = s[2] /\ p[3] = s[3]
  <2>1. /\ p \in Strings
        /\ Len(p) = IF 1 <= 3 THEN 3 - 1 + 1 ELSE 0
        /\ \A i \in 1 .. 3 - 1 + 1 : p[i] = s[1 + i - 1]
    BY <1>1, Piece
  <2> HIDE DEF p
  <2> QED BY <2>1
<1>3. \A i \in 1 .. 3 : s[i] # comma
  <2>1. \A i \in 1 .. 3 : i = 1 \/ i = 2 \/ i = 3 OBVIOUS
  <2> QED BY <2>1 DEF Leading
<1>4. strtok(s, comma).token = p
  <2>1. CASE Len(s) = 3
    <3>1. \A i \in DOMAIN s : s[i] # comma BY <1>1, <1>3, <2>1
    <3>2. strtok(s, comma) = [token |-> s, rest |-> << >>] BY <3>1, WholeToken
    <3>3. p = s BY <2>1 DEF Strings
    <3> QED BY <3>2, <3>3
  <2>2. CASE Len(s) # 3
    <3> DEFINE e == 4
    <3>1. e \in 2 .. Len(s) /\ s[e] = comma /\ e - 1 = 3 BY <1>1, <2>2 DEF Leading
    <3> HIDE DEF e
    <3>2. \A i \in 1 .. e - 1 : s[i] # comma BY <1>3, <3>1
    <3>3. strtok(s, comma) = [token |-> SubSeq(s, 1, e - 1), rest |-> SubSeq(s, e + 1, Len(s))]
      BY <3>1, <3>2, TokenBefore
    <3> DEFINE u == SubSeq(s, e + 1, Len(s))
    <3>4. strtok(s, comma) = [token |-> p, rest |-> u] BY <3>1, <3>3
    <3> HIDE DEF p, u
    <3> QED BY <3>4
  <2> QED BY <2>1, <2>2
<1> HIDE DEF p
<1>5. p[1] # colon /\ p[2] = colon /\ p[3] # colon BY <1>2 DEF Leading
<1>6. /\ strtok(p, colon) = [token |-> << p[1] >>, rest |-> << p[3] >>]
      /\ strtok(<< p[3] >>, colon) = [token |-> << p[3] >>, rest |-> << >>]
  BY <1>2, <1>5, ThreePieces
<1> DEFINE a == << p[1] >>
           b == << p[3] >>
<1>7. /\ strtok(p, colon) = [token |-> a, rest |-> b]
      /\ strtok(b, colon) = [token |-> b, rest |-> << >>]
  BY <1>6
<1>8. a = << s[1] >> /\ b = << s[3] >> BY <1>2
<1> HIDE DEF a, b
<1>9. strtok(p, colon).token = a /\ strtok(p, colon).rest = b
      /\ strtok(b, colon).token = b /\ strtok(b, colon).rest = << >>
  BY <1>7
<1> QED BY <1>4, <1>8, <1>9

(* The leading pair is added to the dictionary, and the loop is over.      *)
Comma == ","
Colon == ":"

LEMMA LeadingOption ==
  ASSUME NEW s \in Strings, Leading(s, Comma, Colon)
  PROVE  WithOptions(Fresh, s) = Added(Fresh, << s[1] >>, << s[3] >>)
<1> DEFINE was  == [rest |-> s, dict |-> Fresh]
           pair == strtok(s, Comma)
           key  == strtok(pair.token, Colon)
           val  == strtok(key.rest, Colon)
           a    == << s[1] >>
           b    == << s[3] >>
           e    == Added(Fresh, a, b)
<1>1. Comma # Colon BY Zenon DEF Comma, Colon
<1>2. key.token = a /\ val.token = b /\ val.rest = << >> BY <1>1, LeadingPair
<1>3. a # << >> /\ b # << >> OBVIOUS
<1>4. was \in Parses
  <2>1. Holds(Fresh, Strings, Strings) BY EmptyHolds
  <2>2. Fresh \in [data : Seq([key : Strings, value : Strings]), size : Nat]
    <3> DEFINE E == Seq([key : Strings, value : Strings])
    <3>1. Fresh.data \in E /\ Fresh.size \in Nat
          /\ Fresh = [data |-> Fresh.data, size |-> Fresh.size]
      BY <2>1 DEF Holds, IsDictionary
    <3> HIDE DEF E
    <3>2. Fresh \in [data : E, size : Nat] BY <3>1
    <3> QED BY <3>2 DEF E
  <2> QED BY <2>2 DEF Parses
<1>5. was.rest = s /\ was.dict = Fresh OBVIOUS
<1> HIDE DEF was, pair, key, val, a, b, e
<1>6. Pass(was) = [rest |-> val.rest,
                   dict |-> IF key.token # << >> /\ val.token # << >>
                            THEN Added(Fresh, key.token, val.token) ELSE Fresh]
  BY <1>5, Zenon DEF Pass, pair, key, val, Comma, Colon
<1>7. Pass(was) = [rest |-> << >>, dict |-> e] BY <1>2, <1>3, <1>6 DEF e
<1>8. Pass(was).rest = << >> /\ Pass(was).dict = e BY <1>7
<1>9. PICK end :
        /\ \A dict, options : WithOptions(dict, options) = end[[rest |-> options, dict |-> dict]]
        /\ \A w \in Parses : end[w] = IF Len(w.rest) = 0 THEN w.dict ELSE end[Pass(w)]
  BY OptionsByPasses
<1>10. WithOptions(Fresh, s) = end[was] BY <1>9 DEF was
<1>11. Len(s) # 0 BY DEF Leading, Strings
<1>12. end[was] = end[Pass(was)] BY <1>4, <1>5, <1>9, <1>11
<1>13. Pass(was) \in Parses BY <1>4, PassType
<1>14. Len(Pass(was).rest) = 0 BY <1>8
<1>15. end[Pass(was)] = e BY <1>8, <1>9, <1>13, <1>14
<1> QED BY <1>10, <1>12, <1>15 DEF e, a, b

-------------------------------------------------------------------------------
(* Arguments.                                                              *)

Sign == "="

(* get_key_val_from_env splits an argument at its first "=".               *)
LEMMA SplitIs ==
  ASSUME NEW arg \in Strings
  PROVE  /\ \A i : i \in Equals(arg) <=> i \in 1 .. Len(arg) /\ arg[i] = Sign
         /\ Equals(arg) # {} => /\ SplitAt(arg) \in 1 .. Len(arg)
                               /\ arg[SplitAt(arg)] = Sign
                               /\ \A j \in 1 .. SplitAt(arg) - 1 : arg[j] # Sign
<1>1. Len(arg) \in Nat /\ DOMAIN arg = 1 .. Len(arg) BY DEF Strings
<1>2. Equals(arg) = {i \in DOMAIN arg : arg[i] = Sign} BY Zenon DEF Equals, Sign
<1>3. \A i : i \in Equals(arg) <=> i \in 1 .. Len(arg) /\ arg[i] = Sign BY <1>1, <1>2
<1>4. ASSUME Equals(arg) # {}
      PROVE  /\ SplitAt(arg) \in 1 .. Len(arg)
             /\ arg[SplitAt(arg)] = Sign
             /\ \A j \in 1 .. SplitAt(arg) - 1 : arg[j] # Sign
  <2>1. Equals(arg) \subseteq Nat BY <1>1, <1>3
  <2>2. PICK l \in Equals(arg) : \A j \in Equals(arg) : l <= j BY <1>4, <2>1, LeastNat
  <2>3. SplitAt(arg) = l BY <2>1, <2>2, LeastChosen DEF SplitAt
  <2>4. l \in 1 .. Len(arg) /\ arg[l] = Sign BY <1>3
  <2>5. ASSUME NEW j \in 1 .. l - 1 PROVE arg[j] # Sign
    <3>1. j \in 1 .. Len(arg) /\ ~(l <= j) BY <1>1, <2>4
    <3> QED BY <1>3, <2>2, <3>1
  <2> QED BY <2>3, <2>4, <2>5
<1> QED BY <1>3, <1>4

(* The arguments of the form x=..., for an x that is one piece.            *)
Begins(arg, x) == Len(arg) >= 2 /\ arg[1] = x /\ arg[2] = Sign

LEMMA KeyIs ==
  ASSUME NEW arg \in Strings, NEW x, x # Sign
  PROVE  /\ IsPair(arg) /\ KeyOf(arg) = << x >> <=> Begins(arg, x)
         /\ Begins(arg, x) => ValOf(arg) = SubSeq(arg, 3, Len(arg))
<1> DEFINE l == SplitAt(arg)
<1>1. Len(arg) \in Nat /\ DOMAIN arg = 1 .. Len(arg) BY DEF Strings
<1>2. ASSUME IsPair(arg), KeyOf(arg) = << x >> PROVE Begins(arg, x)
  <2>1. l \in 1 .. Len(arg) /\ arg[l] = Sign /\ l > 1 BY <1>2, SplitIs DEF IsPair
  <2> HIDE DEF l
  <2>2. l - 1 \in Nat \ {0} /\ l - 1 <= Len(arg) BY <1>1, <2>1
  <2> DEFINE m == l - 1
             u == SubSeq(arg, 1, m)
  <2>3. m \in Nat \ {0} /\ m <= Len(arg) BY <2>2
  <2>4. KeyOf(arg) = u BY DEF KeyOf, l
  <2> HIDE DEF m
  <2>5. /\ Len(u) = IF 1 <= m THEN m - 1 + 1 ELSE 0
        /\ \A i \in 1 .. m - 1 + 1 : u[i] = arg[1 + i - 1]
    BY <2>3, Piece
  <2> HIDE DEF u
  <2>6. Len(u) = m /\ u[1] = arg[1] BY <2>3, <2>5
  <2>7. Len(u) = 1 /\ u[1] = x BY <1>2, <2>4
  <2>8. l = 2
    <3>1. m = 1 BY <2>6, <2>7
    <3>2. l \in Nat BY <1>1, <2>1
    <3> QED BY <3>1, <3>2 DEF m
  <2> QED BY <1>1, <2>1, <2>6, <2>7, <2>8 DEF Begins
<1>3. ASSUME Begins(arg, x)
      PROVE  /\ IsPair(arg) /\ KeyOf(arg) = << x >>
             /\ ValOf(arg) = SubSeq(arg, 3, Len(arg))
  <2>1. 2 \in 1 .. Len(arg) /\ 1 \in DOMAIN arg /\ arg[1] = x /\ arg[2] = Sign
    BY <1>1, <1>3 DEF Begins
  <2>2. 2 \in Equals(arg) BY <2>1, SplitIs
  <2>3. /\ l \in 1 .. Len(arg) /\ arg[l] = Sign
        /\ \A j \in 1 .. l - 1 : arg[j] # Sign
    BY <2>2, SplitIs
  <2> HIDE DEF l
  <2>4. l # 1 BY <2>1, <2>3
  <2>5. ~(l > 2)
    <3>1. l > 2 => 2 \in 1 .. l - 1 BY <1>1, <2>3
    <3> QED BY <2>1, <2>3, <3>1
  <2>6. l = 2 BY <1>1, <2>3, <2>4, <2>5
  <2>7. l - 1 = 1 /\ l + 1 = 3 /\ l > 1 BY <2>6
  <2>8. KeyOf(arg) = SubSeq(arg, 1, 1) BY <2>7 DEF KeyOf, l
  <2>9. ValOf(arg) = SubSeq(arg, 3, Len(arg)) BY <2>7 DEF ValOf, l
  <2>10. SubSeq(arg, 1, 1) = << arg[1] >> BY <2>1, OnePiece
  <2> QED BY <2>1, <2>2, <2>7, <2>8, <2>9, <2>10 DEF IsPair, l
<1> QED BY <1>2, <1>3

(* An argument with at most one "=" more, and that behind the first piece. *)
OneMore(arg, sign) ==
  /\ Len(arg) >= 3 => arg[3] # sign
  /\ \A i, j \in 4 .. Len(arg) : arg[i] = sign /\ arg[j] = sign => i = j

(* What strtok takes from x=<key>=<value> behind the first "=".            *)
LEMMA KeyAndValue ==
  ASSUME NEW arg \in Strings, NEW sign, Len(arg) >= 2, OneMore(arg, sign), NEW k, k # sign
  PROVE  LET first  == strtok(SubSeq(arg, 3, Len(arg)), sign)
             second == strtok(first.rest, sign)
         IN  /\ first.token = << k >> /\ second.token # << >>
                  <=> Len(arg) >= 5 /\ arg[3] = k /\ arg[4] = sign
             /\ first.token = << k >> /\ second.token # << >> =>
                  second.token = SubSeq(arg, 5, Len(arg))
<1> DEFINE n == Len(arg)
           v == SubSeq(arg, 2 + 1, n)
           first == strtok(v, sign)
           second == strtok(first.rest, sign)
           value == SubSeq(arg, 5, n)
<1>1. n \in Nat /\ n >= 2 BY DEF Strings
<1>2. RestOf(arg, 2, v) BY RestIs
<1>3. /\ v \in Strings /\ Len(v) \in Nat /\ DOMAIN v = 1 .. Len(v)
      /\ Len(v) = n - 2
      /\ \A i \in 1 .. Len(v) : v[i] = arg[i + 2]
  <2>1. /\ v \in Strings /\ Len(v) \in Nat /\ DOMAIN v = 1 .. Len(v)
        /\ \A i \in 1 .. Len(v) : v[i] = arg[i + 2]
        /\ Len(v) # 0 => Len(v) + 2 = n
        /\ 2 < n => Len(v) + 2 = n
    BY <1>2 DEF RestOf
  <2> HIDE DEF v
  <2>2. Len(v) = n - 2 BY <1>1, <2>1
  <2> QED BY <2>1, <2>2
<1>4. /\ n >= 3 => arg[3] # sign
      /\ \A i, j \in 4 .. n : arg[i] = sign /\ arg[j] = sign => i = j
  BY DEF OneMore
<1> HIDE DEF v, n
<1>5. CASE \A i \in 4 .. n : arg[i] # sign
  <2>1. ASSUME NEW i \in DOMAIN v PROVE v[i] # sign
    <3>1. i \in 1 .. Len(v) /\ i + 2 \in 3 .. n BY <1>1, <1>3
    <3>2. v[i] = arg[i + 2] BY <1>3, <3>1
    <3>3. CASE i = 1 BY <1>1, <1>4, <3>1, <3>2, <3>3
    <3>4. CASE i # 1
      <4>1. i + 2 \in 4 .. n BY <1>1, <3>1, <3>4
      <4> QED BY <1>5, <3>2, <4>1
    <3> QED BY <3>3, <3>4
  <2>2. first = [token |-> v, rest |-> << >>] BY <1>3, <2>1, WholeToken
  <2>3. << >> \in Strings /\ \A i \in DOMAIN << >> : << >>[i] # sign BY DEF Strings
  <2>4. strtok(<< >>, sign) = [token |-> << >>, rest |-> << >>] BY <2>3, WholeToken
  <2>5. first.rest = << >> BY <2>2
  <2>6. second.token = << >> BY <2>4, <2>5
  <2>7. ~(n >= 5 /\ arg[4] = sign)
    <3>1. n >= 5 => 4 \in 4 .. n BY <1>1
    <3> QED BY <1>5, <3>1
  <2> HIDE DEF first, second
  <2> QED BY <2>6, <2>7 DEF n, v, first, second
<1>6. CASE \E i \in 4 .. n : arg[i] = sign
  <2>1. PICK f \in 4 .. n : arg[f] = sign BY <1>6
  <2> DEFINE e == f - 2
             a == SubSeq(v, 1, e - 1)
             b == SubSeq(v, e + 1, Len(v))
  <2>2. e \in 2 .. Len(v) /\ e + 2 = f /\ e \in Nat BY <1>1, <1>3, <2>1
  <2>3. v[e] = sign
    <3>1. e \in 1 .. Len(v) BY <1>3, <2>2
    <3> QED BY <1>3, <2>1, <2>2, <3>1
  <2>4. ASSUME NEW i \in 1 .. Len(v), i # e PROVE v[i] # sign
    <3>1. v[i] = arg[i + 2] BY <1>3
    <3>2. CASE i = 1 BY <1>1, <1>3, <1>4, <3>1, <3>2
    <3>3. CASE i # 1
      <4>1. i + 2 \in 4 .. n /\ i + 2 # f BY <1>1, <1>3, <2>2, <2>4, <3>3
      <4> QED BY <1>4, <2>1, <3>1, <4>1
    <3> QED BY <3>2, <3>3
  <2>5. first = [token |-> a, rest |-> b]
    <3>1. ASSUME NEW i \in 1 .. e - 1 PROVE v[i] # sign
      <4>1. i \in 1 .. Len(v) /\ i # e BY <1>3, <2>2
      <4> QED BY <2>4, <4>1
    <3> HIDE DEF e
    <3> QED BY <1>3, <2>2, <2>3, <3>1, TokenBefore
  <2>6. /\ a \in Strings /\ Len(a) = e - 1 /\ a[1] = v[1]
    <3> DEFINE m == e - 1
               u == SubSeq(v, 1, m)
    <3>1. m \in Nat \ {0} /\ m <= Len(v) BY <1>3, <2>2
    <3> HIDE DEF m
    <3>2. /\ u \in Strings /\ Len(u) = IF 1 <= m THEN m - 1 + 1 ELSE 0
          /\ \A i \in 1 .. m - 1 + 1 : u[i] = v[1 + i - 1]
      BY <1>3, <3>1, Piece
    <3> HIDE DEF u
    <3>3. u \in Strings /\ Len(u) = m /\ u[1] = v[1] BY <3>1, <3>2
    <3> QED BY <3>3 DEF u, m
  <2>7. RestOf(v, e, b)
    <3> HIDE DEF e
    <3> QED BY <1>3, <2>2, RestIs
  <2>8. /\ b \in Strings /\ Len(b) \in Nat /\ DOMAIN b = 1 .. Len(b)
        /\ Len(b) # 0 => Len(b) + e = Len(v)
        /\ e < Len(v) => Len(b) + e = Len(v)
        /\ \A i \in 1 .. Len(b) : b[i] = v[i + e] /\ i + e \in 1 .. Len(v)
    BY <2>7 DEF RestOf
  <2> HIDE DEF a, b
  <2>9. ASSUME NEW i \in DOMAIN b PROVE b[i] # sign
    <3>1. i \in 1 .. Len(b) BY <2>8
    <3> HIDE DEF e
    <3>4. i + e \in 1 .. Len(v) BY <2>8, <3>1
    <3>5. i \in Nat /\ i # 0 /\ e \in Nat BY <2>2, <3>1
    <3>6. i + e # e BY <3>5
    <3>2. i + e \in 1 .. Len(v) /\ i + e # e BY <3>4, <3>6
    <3>3. b[i] = v[i + e] BY <2>8, <3>1
    <3> QED BY <2>4, <3>2, <3>3
  <2>10. strtok(b, sign) = [token |-> b, rest |-> << >>] BY <2>8, <2>9, WholeToken
  <2>11. first.token = a /\ first.rest = b BY <2>5
  <2>12. second.token = b BY <2>10, <2>11
  <2>13. v[1] = arg[3]
    <3>1. 1 \in 1 .. Len(v) /\ 1 + 2 = 3 BY <1>3, <2>2
    <3> QED BY <1>3, <3>1
  <2>14. a = << k >> <=> e = 2 /\ arg[3] = k
    <3>1. ASSUME a = << k >> PROVE e = 2 /\ arg[3] = k
      <4>1. Len(a) = 1 /\ a[1] = k BY <3>1
      <4> HIDE DEF e
      <4>2. e - 1 = 1 BY <2>6, <4>1
      <4>3. e = 2 BY <2>2, <4>2
      <4> QED BY <2>6, <2>13, <4>1, <4>3
    <3>2. ASSUME e = 2, arg[3] = k PROVE a = << k >>
      <4>1. a \in Strings /\ Len(a) = 1 /\ a[1] = k BY <2>6, <2>13, <3>2
      <4> QED BY <4>1 DEF Strings
    <3> QED BY <3>1, <3>2
  <2>15. e = 2 <=> n >= 4 /\ arg[4] = sign
    <3>1. e = 2 <=> f = 4 BY <2>1, <2>2
    <3>2. n >= 4 => 4 \in 4 .. n BY <1>1
    <3>3. n >= 4 BY <1>1, <2>1
    <3>4. f = 4 <=> arg[4] = sign BY <1>4, <2>1, <3>2, <3>3
    <3> QED BY <3>1, <3>3, <3>4
  <2>16. ASSUME e = 2 PROVE b # << >> <=> n >= 5
    <3>1. Len(b) # 0 <=> n >= 5
      <4> HIDE DEF e
      <4> QED BY <1>1, <1>3, <2>8, <2>16
    <3>2. b = << >> <=> Len(b) = 0 BY <2>8 DEF Strings
    <3> QED BY <2>8, <3>1, <3>2
  <2>17. ASSUME e = 2 PROVE b = value
    <3>1. b = SubSeq(v, 3, Len(v)) BY <2>17 DEF b
    <3> DEFINE m == 2
    <3>2. m + 3 = 5 /\ m + Len(v) = n /\ m \in Nat /\ m = 2 BY <1>1, <1>3
    <3>3. v = SubSeq(arg, m + 1, Len(arg)) BY DEF v, n
    <3> HIDE DEF m, e
    <3>4. SubSeq(v, 3, Len(v)) = SubSeq(arg, m + 3, m + Len(v))
      <4> DEFINE i == 3
                 j == Len(v)
      <4>1. i \in Nat \ {0} /\ j \in Nat /\ j <= Len(v) BY <1>3
      <4> HIDE DEF i, j
      <4>2. SubSeq(v, i, j) = SubSeq(arg, m + i, m + j)
        BY <3>2, <3>3, <4>1, PieceOfPiece
      <4> QED BY <4>2 DEF i, j
    <3> QED BY <3>1, <3>2, <3>4 DEF n
  <2> HIDE DEF first, second, e, value
  <2>18. first.token = << k >> /\ second.token # << >>
           <=> n >= 5 /\ arg[3] = k /\ arg[4] = sign
    <3>1. n >= 5 => n >= 4 BY <1>1
    <3> QED BY <2>11, <2>12, <2>14, <2>15, <2>16, <3>1
  <2>19. first.token = << k >> => second.token = value
    BY <2>11, <2>12, <2>14, <2>17
  <2> QED BY <2>18, <2>19 DEF n, v, first, second, value
<1> QED BY <1>5, <1>6

================================================================================
