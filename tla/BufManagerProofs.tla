--------------------------- MODULE BufManagerProofs ---------------------------
(***************************************************************************)
(* The buffer manager hands out disjoint regions inside its memory, for    *)
(* every limit and every sequence of requests its users can make.          *)
(***************************************************************************)
EXTENDS BufManager, TLAPS

(* The invariant behind Disjoint and InsideMemory.  While the library      *)
(* runs, the in-use flags are exactly the buffers somebody holds; the      *)
(* second buffer of an area is held only together with the first and then  *)
(* starts where the first one ends, because the offset is not moved until  *)
(* the first buffer is taken again; and every region ends within the       *)
(* limit, in whole units of its area.                                      *)
Held == /\ phase = "running" => DOMAIN regions = pool.used
        /\ phase # "running" => DOMAIN regions = {}

Placed ==
  \A k \in Kinds :
    /\ First(k) \in DOMAIN regions =>
         regions[First(k)].to = pool.offset[k] * Unit(k)
    /\ Second(k) \in DOMAIN regions =>
         /\ First(k) \in DOMAIN regions
         /\ regions[Second(k)].from = pool.offset[k] * Unit(k)

Bounded ==
  \A b \in DOMAIN regions :
    /\ regions[b].to <= limit[Kind(b)]
    /\ regions[b].to % Unit(Kind(b)) = 0

IInv == TypeOK /\ Held /\ Placed /\ Bounded

(* A request an area can be asked for is a whole number of its units, and  *)
(* dividing by the unit and multiplying again gives it back.               *)
LEMMA WholeUnits ==
  ASSUME NEW k \in Kinds, NEW size \in Requests(k)
  PROVE  /\ size \in Nat
         /\ size \div Unit(k) \in Nat
         /\ (size \div Unit(k)) * Unit(k) = size
         /\ size % Unit(k) = 0
BY MaxBytesAssumption DEF Requests, Unit, Kinds, SizeofInt

(* A multiple of the unit that is within the limit is within the room an   *)
(* area has once the limit is rounded down to whole units.                 *)
LEMMA RoomEnough ==
  ASSUME NEW l \in Limits, NEW k \in Kinds, NEW x \in Nat,
         x <= l[k], x % Unit(k) = 0
  PROVE  x <= Room(l, k)
<1>1. l[k] \in Nat BY DEF Limits
<1>2. CASE k = "int"
  <2>1. Unit(k) = 4 BY <1>2 DEF Unit, SizeofInt
  <2>2. x <= 4 * (l[k] \div 4) BY <1>1, <2>1
  <2> QED BY <2>1, <2>2 DEF Room
<1>3. CASE k = "msg" BY <1>1, <1>3 DEF Room, Unit
<1> QED BY <1>2, <1>3 DEF Kinds

LEMMA BufFacts ==
  /\ Bufs = {First("msg"), Second("msg"), First("int"), Second("int")}
  /\ \A k \in Kinds : /\ First(k) \in Bufs /\ Second(k) \in Bufs
                      /\ First(k) # Second(k)
                      /\ Kind(First(k)) = k /\ Kind(Second(k)) = k
                      /\ Slot(First(k)) = 1 /\ Slot(Second(k)) = 2
  /\ \A b \in Bufs : Kind(b) \in Kinds /\ (b = First(Kind(b)) \/ b = Second(Kind(b)))
  /\ \A k \in Kinds : Unit(k) \in {1, 4}
BY DEF Bufs, Kinds, Slots, First, Second, Kind, Slot, Unit, SizeofInt

LEMMA InitIInv == Init => IInv
<1> SUFFICES ASSUME Init PROVE IInv OBVIOUS
<1>1. DOMAIN regions = {} BY DEF Init, NoRegions
<1>2. TypeOK BY <1>1 DEF Init, TypeOK, Limits, Pools, EmptyPool
<1> QED BY <1>1, <1>2 DEF Init, IInv, Held, Placed, Bounded

(* Handing out one more buffer keeps the invariant, given where it starts. *)
LEMMA HandIInv ==
  ASSUME IInv, NEW k \in Kinds, NEW size \in Requests(k), NEW b \in Bufs,
         b = First(k) \/ (b = Second(k) /\ First(k) \in DOMAIN regions),
         Hand(b, size)
  PROVE  IInv'
<1>1. /\ size \in Nat /\ size \div Unit(k) \in Nat
      /\ (size \div Unit(k)) * Unit(k) = size /\ size % Unit(k) = 0
  BY WholeUnits
<1>2. Kind(b) = k /\ (Slot(b) = 1 <=> b = First(k)) BY BufFacts
<1>3. /\ phase = "running" /\ UNCHANGED <<phase, limit, memory>>
      /\ b \notin pool.used
      /\ StartOf(pool, b) + size <= limit[k]
      /\ pool' = Grabbed(pool, b, size)
      /\ DOMAIN regions' = DOMAIN regions \cup {b}
      /\ regions'[b] = [from |-> StartOf(pool, b), to |-> StartOf(pool, b) + size]
      /\ \A c \in DOMAIN regions : c # b => regions'[c] = regions[c]
  BY <1>2 DEF Hand, Fits
<1>4. pool'.used = pool.used \cup {b} BY <1>3 DEF Grabbed
<1>5. /\ pool.offset \in [Kinds -> Nat] /\ limit[k] \in Nat
      /\ pool.used \subseteq Bufs /\ DOMAIN regions \subseteq Bufs
      /\ DOMAIN regions = pool.used
  BY <1>3 DEF IInv, TypeOK, Pools, Limits, Held
<1>6. pool'.offset = IF b = First(k)
                     THEN [pool.offset EXCEPT ![k] = size \div Unit(k)]
                     ELSE pool.offset
  BY <1>2, <1>3 DEF Grabbed
<1>7. pool'.offset \in [Kinds -> Nat]
  BY <1>1, <1>5, <1>6
<1>8. /\ StartOf(pool, b) = IF b = First(k) THEN 0 ELSE pool.offset[k] * Unit(k)
      /\ StartOf(pool, b) \in Nat
  BY <1>2, <1>5, BufFacts DEF StartOf
<1>9. (StartOf(pool, b) + size) % Unit(k) = 0
  <2>1. CASE b = First(k) BY <2>1, <1>1, <1>8
  <2>2. CASE b # First(k)
    <3>1. First(k) \in DOMAIN regions BY <2>2
    <3>2. StartOf(pool, b) = regions[First(k)].to
      BY <3>1, <2>2, <1>8 DEF IInv, Placed
    <3>3. regions[First(k)].to % Unit(k) = 0
      BY <3>1, BufFacts DEF IInv, Bounded
    <3>4. Unit(k) = 1 \/ Unit(k) = 4 BY BufFacts
    <3> QED BY <3>2, <3>3, <3>4, <1>1, <1>8
  <2> QED BY <2>1, <2>2
<1>10. TypeOK'
  <2>1. pool' \in Pools
    <3>1. pool' = [used |-> pool'.used, offset |-> pool'.offset]
      BY <1>3 DEF Grabbed
    <3> QED BY <3>1, <1>4, <1>5, <1>7 DEF Pools
  <2>2. \A c \in DOMAIN regions' : regions'[c] \in Region
    BY <1>1, <1>3, <1>8 DEF IInv, TypeOK, Region
  <2> QED BY <2>1, <2>2, <1>3, <1>5 DEF IInv, TypeOK
<1>11. Held' BY <1>3, <1>4, <1>5 DEF Held
<1>12. Placed'
  <2> SUFFICES ASSUME NEW j \in Kinds
               PROVE  /\ First(j) \in DOMAIN regions' =>
                           regions'[First(j)].to = pool'.offset[j] * Unit(j)
                      /\ Second(j) \in DOMAIN regions' =>
                           /\ First(j) \in DOMAIN regions'
                           /\ regions'[Second(j)].from = pool'.offset[j] * Unit(j)
    BY DEF Placed
  <2>1. CASE j # k
    <3>1. b # First(j) /\ b # Second(j) BY <2>1, <1>2, BufFacts
    <3>2. pool'.offset[j] = pool.offset[j] BY <2>1, <1>5, <1>6
    <3> QED BY <3>1, <3>2, <1>3 DEF IInv, Placed
  <2>2. CASE j = k /\ b = First(k)
    <3>1. First(k) \notin DOMAIN regions BY <2>2, <1>3, <1>5
    <3>2. Second(k) \notin DOMAIN regions BY <3>1 DEF IInv, Placed
    <3>3. Second(k) \notin DOMAIN regions' BY <3>2, <2>2, <1>3, BufFacts
    <3>4. regions'[First(k)].to = size BY <2>2, <1>1, <1>3, <1>8
    <3>5. pool'.offset[k] = size \div Unit(k) BY <2>2, <1>5, <1>6
    <3> QED BY <3>3, <3>4, <3>5, <2>2, <1>1
  <2>3. CASE j = k /\ b # First(k)
    <3>1. b = Second(k) /\ First(k) \in DOMAIN regions BY <2>3
    <3>2. pool'.offset[k] = pool.offset[k] BY <2>3, <1>6
    <3>3. regions'[Second(k)].from = pool.offset[k] * Unit(k)
      BY <3>1, <2>3, <1>3, <1>8
    <3>4. regions'[First(k)] = regions[First(k)] BY <3>1, <2>3, <1>3
    <3> QED BY <3>1, <3>2, <3>3, <3>4, <2>3, <1>3 DEF IInv, Placed
  <2> QED BY <2>1, <2>2, <2>3
<1>13. Bounded'
  <2> SUFFICES ASSUME NEW c \in DOMAIN regions'
               PROVE  /\ regions'[c].to <= limit'[Kind(c)]
                      /\ regions'[c].to % Unit(Kind(c)) = 0
    BY DEF Bounded
  <2>1. CASE c = b BY <2>1, <1>2, <1>3, <1>9
  <2>2. CASE c # b BY <2>2, <1>3 DEF IInv, Bounded
  <2> QED BY <2>1, <2>2
<1> QED BY <1>10, <1>11, <1>12, <1>13 DEF IInv

LEMMA NextIInv == IInv /\ [Next]_vars => IInv'
<1> SUFFICES ASSUME IInv, [Next]_vars PROVE IInv' OBVIOUS
<1>1. CASE Allocate
  <2>1. DOMAIN regions' = {} BY <1>1 DEF Allocate, NoRegions
  <2>2. limit' \in Limits BY <1>1, MaxBytesAssumption DEF Allocate, Limits
  <2>3. memory' \in Limits
    <3>1. \A k \in Kinds : Room(limit', k) \in Nat
      BY <2>2, BufFacts DEF Room, Limits
    <3> QED BY <3>1, <1>1 DEF Allocate, Limits
  <2>4. pool' \in Pools /\ pool'.used = {}
    BY <1>1 DEF Allocate, EmptyPool, Pools
  <2>5. phase' = "running" BY <1>1 DEF Allocate
  <2>6. TypeOK' BY <2>1, <2>2, <2>3, <2>4, <2>5 DEF TypeOK
  <2> QED BY <2>1, <2>4, <2>5, <2>6 DEF IInv, Held, Placed, Bounded
<1>2. CASE Free
  <2>1. DOMAIN regions' = {} BY <1>2 DEF Free, NoRegions
  <2>2. phase' = "after" /\ UNCHANGED <<limit, pool>> BY <1>2 DEF Free
  <2>3. memory' \in Limits BY <1>2 DEF Free, Limits
  <2>4. TypeOK' BY <2>1, <2>2, <2>3 DEF IInv, TypeOK
  <2> QED BY <2>1, <2>2, <2>4 DEF IInv, Held, Placed, Bounded
<1>3. ASSUME NEW k \in Kinds, GrabFirst(k) PROVE IInv'
  <2>1. PICK size \in Requests(k) : Hand(First(k), size) BY <1>3 DEF GrabFirst
  <2> QED BY <2>1, HandIInv, BufFacts
<1>4. ASSUME NEW k \in Kinds, GrabSecond(k) PROVE IInv'
  <2>1. PICK size \in Requests(k) : Hand(Second(k), size) BY <1>4 DEF GrabSecond
  <2>2. First(k) \in DOMAIN regions BY <1>4 DEF GrabSecond
  <2> QED BY <2>1, <2>2, HandIInv, BufFacts
<1>5. ASSUME NEW k \in Kinds, Release(k) PROVE IInv'
  <2>1. /\ phase = "running" /\ UNCHANGED <<phase, limit, memory>>
        /\ DOMAIN regions' = {c \in DOMAIN regions : Kind(c) # k}
        /\ \A c \in DOMAIN regions' : regions'[c] = regions[c]
        /\ pool'.used = {c \in pool.used : Kind(c) # k}
        /\ pool'.offset = pool.offset
        /\ pool' = [used |-> pool'.used, offset |-> pool'.offset]
    BY <1>5 DEF Release, Released, IInv, TypeOK, Pools
  <2>2. TypeOK' BY <2>1 DEF IInv, TypeOK, Pools
  <2>3. Held' BY <2>1 DEF IInv, Held
  <2>4. Placed'
    <3> SUFFICES ASSUME NEW j \in Kinds
                 PROVE  /\ First(j) \in DOMAIN regions' =>
                             regions'[First(j)].to = pool'.offset[j] * Unit(j)
                        /\ Second(j) \in DOMAIN regions' =>
                             /\ First(j) \in DOMAIN regions'
                             /\ regions'[Second(j)].from = pool'.offset[j] * Unit(j)
      BY DEF Placed
    <3>1. CASE j = k BY <3>1, <2>1, BufFacts
    <3>2. CASE j # k BY <3>2, <2>1, BufFacts DEF IInv, Placed
    <3> QED BY <3>1, <3>2
  <2>5. Bounded' BY <2>1 DEF IInv, Bounded
  <2> QED BY <2>2, <2>3, <2>4, <2>5 DEF IInv
<1>6. CASE UNCHANGED vars
  BY <1>6 DEF vars, IInv, TypeOK, Held, Placed, Bounded
<1> QED BY <1>1, <1>2, <1>3, <1>4, <1>5, <1>6 DEF Next

LEMMA Invariance == Spec => []IInv
BY InitIInv, NextIInv, PTL DEF Spec

(* The type invariant holds for every bound on limits and requests. *)
THEOREM TypeCorrect == Spec => []TypeOK
<1>1. IInv => TypeOK BY DEF IInv
<1> QED BY <1>1, Invariance, PTL

(* Buffers of one area that are in use together never overlap. *)
THEOREM BuffersDisjoint == Spec => []Disjoint
<1>1. IInv => Disjoint BY DEF IInv, Placed, Disjoint, TypeOK, Region
<1> QED BY <1>1, Invariance, PTL

(* No user is ever handed a byte outside the memory that was allocated.    *)
THEOREM BuffersInsideMemory == Spec => []InsideMemory
<1>1. ASSUME IInv PROVE InsideMemory
  <2> SUFFICES ASSUME NEW b \in DOMAIN regions, memory[Kind(b)] = Room(limit, Kind(b))
               PROVE  regions[b].to <= memory[Kind(b)]
    BY DEF InsideMemory
  <2>1. Kind(b) \in Kinds BY <1>1, BufFacts DEF IInv, TypeOK
  <2>2. regions[b].to \in Nat BY <1>1 DEF IInv, TypeOK, Region
  <2>3. regions[b].to <= limit[Kind(b)] /\ regions[b].to % Unit(Kind(b)) = 0
    BY <1>1 DEF IInv, Bounded
  <2>4. limit \in Limits BY <1>1 DEF IInv, TypeOK
  <2> QED BY <2>1, <2>2, <2>3, <2>4, RoomEnough
<1> QED BY <1>1, Invariance, PTL
================================================================================
