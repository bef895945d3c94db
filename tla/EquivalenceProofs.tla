-------------------------- MODULE EquivalenceProofs --------------------------
(***************************************************************************)
(* What the mock-ups compute (src/src/collectives), for any number of      *)
(* processes, any count and any root: the results MPI defines.             *)
(*                                                                         *)
(* Flattenings of words and sums come first, then what one step of a       *)
(* script leaves at a place of a memory, one lemma per step a script can   *)
(* take, then one lemma per mock-up that puts the steps of its script      *)
(* together. The theorems at the end follow a call through its script:     *)
(* the memory is always the last of a list of memories that starts with    *)
(* the user's buffers and of which every one is what the next step makes   *)
(* of the one before (Replayed).                                           *)
(*                                                                         *)
(* The last parts show that a mock-up applies the user's operation to      *)
(* nothing but values that some process has passed, and that it makes the  *)
(* calls that its script in Mockups makes, in the same order.              *)
(***************************************************************************)
EXTENDS SemanticsProofs, SequenceTheorems

-------------------------------------------------------------------------------
(* Concatenations.                                                         *)

(* Longer and longer concatenations of the words of s, up to all n.        *)
Builds(s, g, n) ==
  /\ s = [i \in 1..n |-> s[i]] /\ g = [i \in 1..n |-> g[i]]
  /\ g[1] = s[1]
  /\ \A i \in 2..n : g[i] = g[i - 1] \o s[i]

LEMMA FlattenIs ==
  ASSUME NEW n \in Nat \ {0}, NEW s, NEW g, Builds(s, g, n) PROVE FlattenSeq(s) = g[n]
<1> DEFINE cat(a, b) == a \o b
           eq(f) == f = [i \in 1..n |-> IF i = 1 THEN s[i] ELSE cat(f[i - 1], s[i])]
           flatten == CHOOSE f : eq(f)
           bad == {i \in 1..n : flatten[i] # g[i]}
<1>1. /\ s = [i \in 1..n |-> s[i]] /\ g = [i \in 1..n |-> g[i]] /\ g[1] = s[1]
      /\ \A i \in 2..n : g[i] = cat(g[i - 1], s[i])
  BY DEF Builds
<1>2. Len(s) = n BY <1>1, Length
<1>3. FlattenSeq(s) = flatten[n]
  <2>1. FlattenSeq(s) = IF Len(s) = 0 THEN s
                        ELSE (CHOOSE f : f = [i \in 1 .. Len(s) |->
                                IF i = 1 THEN s[i] ELSE f[i - 1] \o s[i]])[Len(s)]
    BY Zenon DEF FlattenSeq
  <2>2. n # 0 OBVIOUS
  <2> QED BY <1>2, <2>1, <2>2, Zenon
<1> HIDE DEF cat
<1>4. eq(g)
  <2>1. \A i \in 1..n : i = 1 \/ i \in 2..n OBVIOUS
  <2>2. \A i \in 1..n : g[i] = IF i = 1 THEN s[i] ELSE cat(g[i - 1], s[i]) BY <1>1, <2>1
  <2> QED BY <1>1, <2>2
<1> HIDE DEF eq
<1>5. eq(flatten) BY <1>4, Zenon
<1> HIDE DEF flatten
<1>6. \A i \in 1..n : flatten[i] = IF i = 1 THEN s[i] ELSE cat(flatten[i - 1], s[i])
  BY <1>5 DEF eq
<1>7. bad = {}
  <2>1. SUFFICES ASSUME bad # {} PROVE FALSE
    OBVIOUS
  <2>2. bad \subseteq Nat OBVIOUS
  <2>3. PICK j \in bad : \A k \in bad : j <= k BY <2>1, <2>2, LeastNumber
  <2>4. j \in 1..n /\ flatten[j] # g[j] OBVIOUS
  <2>5. j # 1 BY <1>1, <1>6, <2>4
  <2>6. j \in 2..n /\ j - 1 \in 1..n /\ ~(j <= j - 1) BY <2>4, <2>5
  <2>7. flatten[j - 1] = g[j - 1] BY <2>3, <2>6
  <2>8. flatten[j] = cat(flatten[j - 1], s[j]) BY <1>6, <2>4, <2>5, Zenon
  <2>9. g[j] = cat(g[j - 1], s[j]) BY <1>1, <2>6, Zenon
  <2> QED BY <2>4, <2>7, <2>8, <2>9, Zenon
<1>8. n \in 1..n OBVIOUS
<1> QED BY <1>3, <1>7, <1>8

(* One word.                                                               *)
LEMMA FlattenWord ==
  ASSUME NEW s, DOMAIN s = {1}, s = [i \in DOMAIN s |-> s[i]] PROVE FlattenSeq(s) = s[1]
<1>1. 1..1 = {1} OBVIOUS
<1>2. s = [i \in 1..1 |-> s[i]] BY <1>1
<1>3. \A i \in 2..1 : FALSE OBVIOUS
<1>4. Builds(s, s, 1) BY <1>2, <1>3 DEF Builds
<1> QED BY <1>4, FlattenIs

(* Two words.                                                              *)
LEMMA FlattenTwo ==
  ASSUME NEW s, s = [i \in 1..2 |-> s[i]] PROVE FlattenSeq(s) = s[1] \o s[2]
<1> DEFINE g == [i \in 1..2 |-> IF i = 1 THEN s[1] ELSE s[1] \o s[2]]
<1>1. g[1] = s[1] /\ g[2] = s[1] \o s[2] OBVIOUS
<1>2. g = [i \in 1..2 |-> g[i]] OBVIOUS
<1> HIDE DEF g
<1>3. \A i \in 2..2 : g[i] = g[i - 1] \o s[i]
  <2>1. \A i \in 2..2 : i = 2 /\ i - 1 = 1 OBVIOUS
  <2> QED BY <1>1, <2>1
<1>4. Builds(s, g, 2) BY <1>1, <1>2, <1>3, Zenon DEF Builds
<1>5. 2 \in Nat \ {0} OBVIOUS
<1>6. FlattenSeq(s) = g[2] BY <1>4, <1>5, FlattenIs, Zenon
<1> QED BY <1>1, <1>6, Zenon

(* Words of one letter.                                                    *)
LEMMA FlattenLetters ==
  ASSUME NEW n \in Nat, NEW s, NEW x, s = [i \in 1..n |-> << x[i] >>]
  PROVE  FlattenSeq(s) = [i \in 1..n |-> x[i]]
<1>1. CASE n = 0
  <2>1. s = << >> /\ [i \in 1..n |-> x[i]] = << >> BY <1>1
  <2>2. FlattenSeq(<< >>) = << >> BY DEF FlattenSeq
  <2> QED BY <2>1, <2>2
<1>2. CASE n # 0
  <2> DEFINE g == [j \in 1..n |-> [i \in 1..j |-> x[i]]]
  <2>1. \A j \in 1..n : g[j] = [i \in 1..j |-> x[i]] OBVIOUS
  <2>2. g = [j \in 1..n |-> g[j]] OBVIOUS
  <2> HIDE DEF g
  <2>3. \A i \in 1..n : s[i] = << x[i] >> OBVIOUS
  <2>4. g[1] = s[1]
    <3>1. 1 \in 1..n BY <1>2
    <3>2. [i \in 1..1 |-> x[i]] = << x[1] >> OBVIOUS
    <3> QED BY <2>1, <2>3, <3>1, <3>2
  <2>5. ASSUME NEW j \in 2..n PROVE g[j] = g[j - 1] \o s[j]
    <3> DEFINE u == [i \in 1 .. j - 1 |-> x[i]]
               T == {x[i] : i \in 1..n}
    <3>1. u \in [1 .. j - 1 -> T] /\ x[j] \in T
      <4>1. j \in 1..n /\ \A i \in 1 .. j - 1 : i \in 1..n OBVIOUS
      <4>2. \A i \in 1..n : x[i] \in T OBVIOUS
      <4> HIDE DEF T
      <4> QED BY <4>1, <4>2
    <3>2. j - 1 \in Nat /\ j \in Nat OBVIOUS
    <3>3. \A i \in 1 .. j - 1 : u[i] = x[i] OBVIOUS
    <3> HIDE DEF u, T
    <3>4. u \in Seq(T) /\ Len(u) = j - 1 BY <3>1, <3>2
    <3>5. u \o << x[j] >> = [i \in 1..j |-> x[i]]
      <4> DEFINE w == u \o << x[j] >>
      <4>1. << x[j] >> \in Seq(T) /\ Len(<< x[j] >>) = 1 BY <3>1
      <4>2. /\ w \in Seq(T) /\ Len(w) = (j - 1) + 1
            /\ \A i \in 1 .. (j - 1) + 1 :
                 w[i] = IF i <= j - 1 THEN u[i] ELSE << x[j] >>[i - (j - 1)]
        BY <3>4, <4>1, ConcatProperties
      <4>3. (j - 1) + 1 = j OBVIOUS
      <4> HIDE DEF w
      <4>4. w = [i \in 1..j |-> w[i]] BY <4>2, <4>3
      <4>5. ASSUME NEW i \in 1..j PROVE w[i] = x[i]
        <5>1. CASE i <= j - 1 BY <3>3, <4>2, <4>3, <5>1
        <5>2. CASE i = j BY <4>2, <4>3, <5>2
        <5> QED BY <5>1, <5>2
      <4> QED BY <4>4, <4>5 DEF w
    <3>6. g[j] = [i \in 1..j |-> x[i]] /\ g[j - 1] = u
      <4>1. j \in 1..n /\ j - 1 \in 1..n OBVIOUS
      <4> QED BY <2>1, <4>1 DEF u
    <3>7. s[j] = << x[j] >> BY <2>3
    <3> QED BY <3>5, <3>6, <3>7
  <2>6. s = [i \in 1..n |-> s[i]] BY <2>3
  <2>7. Builds(s, g, n) BY <2>2, <2>4, <2>5, <2>6, Zenon DEF Builds
  <2>8. FlattenSeq(s) = g[n] BY <1>2, <2>7, FlattenIs
  <2> QED BY <1>2, <2>1, <2>8
<1> QED BY <1>1, <1>2

(* One word among empty ones.                                              *)
Lone(s, n, q, w) == s = [i \in 1..n |-> IF i = q THEN << w >> ELSE << >>]

LEMMA FlattenOne ==
  ASSUME NEW n \in Nat, NEW s, NEW q \in 1..n, NEW w, Lone(s, n, q, w)
  PROVE  FlattenSeq(s) = << w >>
<1> DEFINE g == [i \in 1..n |-> IF i < q THEN << >> ELSE << w >>]
<1>1. g = [i \in 1..n |-> g[i]] /\ s = [i \in 1..n |-> s[i]] BY DEF Lone
<1>2. \A i \in 1..n : /\ g[i] = IF i < q THEN << >> ELSE << w >>
                      /\ s[i] = IF i = q THEN << w >> ELSE << >>
  BY DEF Lone
<1> HIDE DEF g
<1>3. 1 \in 1..n /\ (1 < q <=> 1 # q) OBVIOUS
<1>4. g[1] = s[1] BY <1>2, <1>3
<1>5. << >> \o << >> = << >> /\ << >> \o << w >> = << w >> /\ << w >> \o << >> = << w >>
  OBVIOUS
<1>6. ASSUME NEW i \in 2..n PROVE g[i] = g[i - 1] \o s[i]
  <2>1. i \in 1..n /\ i - 1 \in 1..n OBVIOUS
  <2>2. CASE i < q
    <3>1. i - 1 < q /\ i # q BY <2>2
    <3> QED BY <1>2, <1>5, <2>1, <2>2, <3>1
  <2>3. CASE i = q
    <3>1. i - 1 < q /\ ~(i < q) BY <2>3
    <3> QED BY <1>2, <1>5, <2>1, <2>3, <3>1
  <2>4. CASE i > q
    <3>1. ~(i - 1 < q) /\ ~(i < q) /\ i # q BY <2>4
    <3> QED BY <1>2, <1>5, <2>1, <3>1
  <2>5. i < q \/ i = q \/ i > q OBVIOUS
  <2> QED BY <2>2, <2>3, <2>4, <2>5
<1>7. Builds(s, g, n) BY <1>1, <1>4, <1>6, Zenon DEF Builds
<1>8. FlattenSeq(s) = g[n] BY <1>7, FlattenIs
<1>9. n \in 1..n /\ ~(n < q) OBVIOUS
<1>10. g[n] = << w >> BY <1>2, <1>9, Zenon
<1> QED BY <1>8, <1>10, Zenon

-------------------------------------------------------------------------------
(* Memories and the elements that a step writes.                           *)

Whole(m) == \A r \in Procs, b \in Buffers : Sized(m[r][b], Room(r, b))

After(m, s) == Done(m, s.moves)

(* The element i places after a place is there.                            *)
Inside(place, i) ==
  place \in Places /\ i \in Int /\ place.at + i \in 1 .. Room(place.rank, place.buf)

(* A move writes that element.                                             *)
Hits(v, place, i) ==
  /\ v.to.rank = place.rank /\ v.to.buf = place.buf
  /\ (place.at + i) - v.to.at \in 1 .. v.n

LEMMA ReadIs ==
  ASSUME NEW m, Whole(m), NEW place, NEW i, Inside(place, i)
  PROVE  Read(m, place, i) = m[place.rank][place.buf][place.at + i]
<1>1. place.rank \in Procs /\ place.buf \in Buffers BY DEF Inside, Places
<1>2. Sized(m[place.rank][place.buf], Room(place.rank, place.buf)) BY <1>1, Zenon DEF Whole
<1>3. DOMAIN m[place.rank][place.buf] = 1 .. Room(place.rank, place.buf)
  BY <1>2 DEF Sized
<1> QED BY <1>3 DEF Read, Inside

(* The moves that write an element, and the one whose value it gets.       *)
Writers(moves, r, b, k) ==
  {v \in {w \in moves : w.to.rank = r /\ w.to.buf = b} : k - v.to.at \in 1 .. v.n}
Writer(moves, r, b, k) == CHOOSE v \in Writers(moves, r, b, k) : TRUE
NewValue(m, moves, r, b, k) ==
  IF Writers(moves, r, b, k) = {} THEN m[r][b][k]
  ELSE Reduction(m, Writer(moves, r, b, k).of, k - Writer(moves, r, b, k).to.at)
NewBuffer(m, moves, r, b) == [k \in 1 .. Room(r, b) |-> NewValue(m, moves, r, b, k)]

(* The moves that a step keeps.                                            *)
Proper(moves) == {v \in moves : v.n > 0}

LEMMA DoneIs ==
  ASSUME NEW m, Whole(m), NEW moves, NEW r \in Procs, NEW b \in Buffers
  PROVE  Done(m, moves)[r][b] = NewBuffer(m, moves, r, b)
<1> DEFINE here == {w \in moves : w.to.rank = r /\ w.to.buf = b}
<1>1. Sized(m[r][b], Room(r, b)) BY Zenon DEF Whole
<1>2. DOMAIN m[r][b] = 1 .. Room(r, b) /\ m[r][b] = [k \in 1 .. Room(r, b) |-> m[r][b][k]]
  BY <1>1 DEF Sized
<1>3. Done(m, moves)[r][b] =
        IF here = {} THEN m[r][b]
        ELSE [k \in DOMAIN m[r][b] |-> NewValue(m, moves, r, b, k)]
  BY DEF Done, NewValue, Writer, Writers
<1>4. here = {} => \A k : Writers(moves, r, b, k) = {} BY DEF Writers
<1>5. here = {} => \A k : NewValue(m, moves, r, b, k) = m[r][b][k] BY <1>4 DEF NewValue
<1> HIDE DEF here
<1>6. here = {} => NewBuffer(m, moves, r, b) = m[r][b] BY <1>2, <1>5 DEF NewBuffer
<1> QED BY <1>2, <1>3, <1>6 DEF NewBuffer

LEMMA WholeAfter == ASSUME NEW m, Whole(m), NEW s PROVE Whole(After(m, s))
<1>1. ASSUME NEW r \in Procs, NEW b \in Buffers
      PROVE  Sized(After(m, s)[r][b], Room(r, b))
  <2>1. Done(m, s.moves)[r][b] = NewBuffer(m, s.moves, r, b) BY DoneIs, Zenon
  <2> QED BY <2>1 DEF After, Sized, NewBuffer
<1> QED BY <1>1, Zenon DEF Whole

LEMMA ReadAfter ==
  ASSUME NEW m, Whole(m), NEW name, NEW moves, NEW place, NEW i, Inside(place, i)
  PROVE  Read(After(m, Step(name, moves)), place, i)
           = NewValue(m, Proper(moves), place.rank, place.buf, place.at + i)
<1>1. place.rank \in Procs /\ place.buf \in Buffers BY DEF Inside, Places
<1>2. After(m, Step(name, moves)) = Done(m, Proper(moves)) BY DEF After, Step, Proper
<1>3. Read(After(m, Step(name, moves)), place, i)
        = After(m, Step(name, moves))[place.rank][place.buf][place.at + i]
  BY WholeAfter, ReadIs, Zenon
<1>4. place.at + i \in 1 .. Room(place.rank, place.buf) BY DEF Inside
<1>5. Done(m, Proper(moves))[place.rank][place.buf]
        = NewBuffer(m, Proper(moves), place.rank, place.buf)
  BY <1>1, DoneIs, Zenon
<1> QED BY <1>2, <1>3, <1>4, <1>5 DEF NewBuffer

LEMMA WritersHit ==
  ASSUME NEW moves, NEW place, NEW i, NEW w
  PROVE  w \in Writers(Proper(moves), place.rank, place.buf, place.at + i)
           <=> w \in moves /\ w.n > 0 /\ Hits(w, place, i)
BY Zenon DEF Writers, Hits, Proper

(* What only one move writes.                                              *)
LEMMA Written ==
  ASSUME NEW m, Whole(m), NEW name, NEW moves, NEW place, NEW i, Inside(place, i),
         NEW v \in moves, Hits(v, place, i), v.n > 0,
         \A w \in moves : Hits(w, place, i) => w = v
  PROVE  Read(After(m, Step(name, moves)), place, i)
           = Reduction(m, v.of, (place.at + i) - v.to.at)
<1> DEFINE some == Proper(moves)
           r == place.rank
           b == place.buf
           k == place.at + i
<1>1. Writers(some, r, b, k) = {v}
  <2>1. \A w : w \in Writers(some, r, b, k) <=> w \in moves /\ w.n > 0 /\ Hits(w, place, i)
    BY WritersHit, Zenon
  <2> HIDE DEF some, r, b, k
  <2> QED BY <2>1
<1> HIDE DEF some, r, b, k
<1>2. Writer(some, r, b, k) = v BY <1>1 DEF Writer
<1>3. NewValue(m, some, r, b, k) = Reduction(m, v.of, k - v.to.at)
  BY <1>1, <1>2 DEF NewValue
<1>4. Read(After(m, Step(name, moves)), place, i) = NewValue(m, some, r, b, k)
  BY ReadAfter DEF some, r, b, k
<1>5. Reduction(m, v.of, k - v.to.at) = Reduction(m, v.of, (place.at + i) - v.to.at)
  BY DEF k
<1> QED BY <1>3, <1>4, <1>5, Zenon

(* What no move writes.                                                    *)
LEMMA Untouched ==
  ASSUME NEW m, Whole(m), NEW name, NEW moves, NEW place, NEW i, Inside(place, i),
         \A w \in moves : ~Hits(w, place, i)
  PROVE  Read(After(m, Step(name, moves)), place, i) = Read(m, place, i)
<1> DEFINE some == Proper(moves)
           r == place.rank
           b == place.buf
           k == place.at + i
<1>1. Writers(some, r, b, k) = {}
  <2>1. \A w : w \in Writers(some, r, b, k) => Hits(w, place, i) /\ w \in moves
    BY WritersHit, Zenon
  <2> HIDE DEF some, r, b, k
  <2> QED BY <2>1
<1> HIDE DEF some, r, b, k
<1>2. NewValue(m, some, r, b, k) = m[r][b][k] BY <1>1 DEF NewValue
<1>3. Read(m, place, i) = m[r][b][k] BY ReadIs DEF r, b, k
<1>4. Read(After(m, Step(name, moves)), place, i) = NewValue(m, some, r, b, k)
  BY ReadAfter DEF some, r, b, k
<1> QED BY <1>2, <1>3, <1>4, Zenon

(* Which buffer a step writes on which process.                            *)
Into(s, who, out) == \A v \in s.moves : v.to.rank \in who /\ v.to.buf = out[v.to.rank].buf

LEMMA Spared ==
  ASSUME NEW m, Whole(m), NEW s, NEW who, NEW out, Into(s, who, out),
         NEW r \in Procs, NEW b \in Buffers, r \notin who \/ b # out[r].buf
  PROVE  After(m, s)[r][b] = m[r][b]
<1> DEFINE here == {v \in s.moves : v.to.rank = r /\ v.to.buf = b}
<1>1. here = {} BY DEF Into
<1> QED BY <1>1 DEF Done, After

-------------------------------------------------------------------------------
(* Reductions.                                                             *)

LEMMA ReduceNone == ASSUME NEW m, NEW k PROVE Reduction(m, << >>, k) = << >>
<1> DEFINE s == [i \in DOMAIN << >> |-> Read(m, << >>[i], k)]
<1>1. s = [i \in 1..0 |-> Read(m, << >>[i], k)] /\ 1..0 = {} OBVIOUS
<1> HIDE DEF s
<1>2. s = << >> BY <1>1
<1>3. FlattenSeq(<< >>) = << >> BY DEF FlattenSeq
<1>4. Reduction(m, << >>, k) = FlattenSeq(s) BY DEF Reduction, s
<1> QED BY <1>2, <1>3, <1>4

LEMMA ReduceOne ==
  ASSUME NEW m, NEW a, NEW k PROVE Reduction(m, << a >>, k) = Read(m, a, k)
<1> DEFINE s == [i \in DOMAIN << a >> |-> Read(m, << a >>[i], k)]
<1>1. DOMAIN << a >> = {1} /\ << a >>[1] = a OBVIOUS
<1>2. DOMAIN s = {1} /\ s = [i \in DOMAIN s |-> s[i]] /\ s[1] = Read(m, a, k) BY <1>1
<1>3. Reduction(m, << a >>, k) = FlattenSeq(s) BY DEF Reduction
<1> HIDE DEF s
<1> QED BY <1>2, <1>3, FlattenWord

LEMMA ReduceTwo ==
  ASSUME NEW m, NEW a, NEW b, NEW k
  PROVE  Reduction(m, << a, b >>, k) = Read(m, a, k) \o Read(m, b, k)
<1> DEFINE s == [i \in DOMAIN << a, b >> |-> Read(m, << a, b >>[i], k)]
<1>1. DOMAIN << a, b >> = 1..2 /\ << a, b >>[1] = a /\ << a, b >>[2] = b OBVIOUS
<1>2. s = [i \in 1..2 |-> s[i]] /\ s[1] = Read(m, a, k) /\ s[2] = Read(m, b, k) BY <1>1
<1>3. Reduction(m, << a, b >>, k) = FlattenSeq(s) BY DEF Reduction
<1> HIDE DEF s
<1>4. FlattenSeq(s) = s[1] \o s[2] BY <1>2, FlattenTwo
<1> QED BY <1>2, <1>3, <1>4, Zenon

(* Of what the first n processes contribute.                               *)
LEMMA ReduceEveryone ==
  ASSUME NEW m, NEW in, NEW n \in Nat, NEW k, NEW c,
         \A q \in 0 .. n - 1 : Read(m, in[q], k) = << Value(q, c) >>
  PROVE  Reduction(m, InOrder(in, n), k) = Everyone(n, c)
<1> DEFINE of == InOrder(in, n)
           s == [i \in DOMAIN of |-> Read(m, of[i], k)]
           x == [i \in 1..n |-> Value(i - 1, c)]
<1>1. DOMAIN of = 1..n /\ \A i \in 1..n : of[i] = in[i - 1] BY DEF InOrder
<1>2. \A i \in 1..n : i - 1 \in 0 .. n - 1 OBVIOUS
<1>3. Reduction(m, of, k) = FlattenSeq(s) BY DEF Reduction
<1> HIDE DEF of
<1>4. s = [i \in 1..n |-> << x[i] >>] BY <1>1, <1>2
<1>5. [i \in 1..n |-> x[i]] = Everyone(n, c) BY DEF Everyone
<1> HIDE DEF s, x
<1>6. FlattenSeq(s) = [i \in 1..n |-> x[i]] BY <1>4, FlattenLetters
<1> QED BY <1>3, <1>5, <1>6, Zenon DEF of

(* Of zeros and what one process contributes.                              *)
LEMMA ReduceSingle ==
  ASSUME NEW m, NEW in, NEW n \in Nat, NEW k, NEW a \in 0 .. n - 1, NEW w,
         Read(m, in[a], k) = << w >>,
         \A q \in 0 .. n - 1 : q # a => Read(m, in[q], k) = << >>
  PROVE  Reduction(m, InOrder(in, n), k) = << w >>
<1> DEFINE of == InOrder(in, n)
           s == [i \in DOMAIN of |-> Read(m, of[i], k)]
<1>1. DOMAIN of = 1..n /\ \A i \in 1..n : of[i] = in[i - 1] BY DEF InOrder
<1>2. \A i \in 1..n : i - 1 \in 0 .. n - 1 /\ (i - 1 = a <=> i = a + 1) OBVIOUS
<1>3. Reduction(m, of, k) = FlattenSeq(s) BY DEF Reduction
<1> HIDE DEF of
<1>4. Lone(s, n, a + 1, w) BY <1>1, <1>2 DEF Lone
<1>5. a + 1 \in 1..n OBVIOUS
<1> HIDE DEF s
<1>6. FlattenSeq(s) = << w >> BY <1>4, <1>5, FlattenOne
<1> QED BY <1>3, <1>6, Zenon DEF of

-------------------------------------------------------------------------------
(* What the steps write.                                                   *)

Wide(place, n) == Fit(place, n) /\ place.at \in Nat

(* A place on every process.                                               *)
Each(ptr) == \A r \in Procs : ptr[r] \in Places /\ ptr[r].rank = r

LEMMA WideInside ==
  ASSUME call \in Calls, NEW place, NEW n \in Int, Wide(place, n), NEW i \in 1..n
  PROVE Inside(place, i)
<1>1. place \in Places /\ place.rank \in Procs /\ place.buf \in Buffers /\ place.at \in Nat
      /\ place.at + n <= Room(place.rank, place.buf)
  BY DEF Wide, Fit, Places
<1>2. Room(place.rank, place.buf) \in Nat BY <1>1, RoomNat
<1> QED BY <1>1, <1>2 DEF Inside

LEMMA MoveIs ==
  ASSUME NEW of, NEW to, NEW n
  PROVE  Move(of, to, n).of = of /\ Move(of, to, n).to = to /\ Move(of, to, n).n = n
BY DEF Move

LEMMA Sole ==
  ASSUME call \in Calls, NEW m, Whole(m), NEW name, NEW moves, NEW of, NEW place,
         NEW n \in Int,
         NEW i \in 1..n, Wide(place, n), Move(of, place, n) \in moves,
         \A w \in moves : Hits(w, place, i) => w = Move(of, place, n)
  PROVE  Read(After(m, Step(name, moves)), place, i) = Reduction(m, of, i)
<1> DEFINE v == Move(of, place, n)
<1>1. Inside(place, i) BY WideInside
<1>2. v.of = of /\ v.to = place /\ v.n = n BY MoveIs
<1> HIDE DEF v
<1>3. place.at \in Nat /\ (place.at + i) - place.at = i BY DEF Wide
<1>4. Hits(v, place, i) /\ v.n > 0 BY <1>2, <1>3 DEF Hits
<1>5. v \in moves /\ \A w \in moves : Hits(w, place, i) => w = v BY DEF v
<1>6. Read(After(m, Step(name, moves)), place, i)
        = Reduction(m, v.of, (place.at + i) - v.to.at)
  BY <1>1, <1>4, <1>5, Written
<1> QED BY <1>2, <1>3, <1>6

(* Local work.                                                             *)
LEMMA Copied ==
  ASSUME call \in Calls, NEW m, Whole(m), NEW who, who \subseteq Procs, NEW to, Each(to),
         NEW from,
         NEW n \in Int, NEW r \in who, NEW i \in 1..n, Wide(to[r], n)
  PROVE  Read(After(m, memcpy(who, to, from, n)), to[r], i) = Read(m, from[r], i)
<1> DEFINE moves == {Move(<< from[q] >>, to[q], n) : q \in who}
<1>1. Move(<< from[r] >>, to[r], n) \in moves OBVIOUS
<1>2. ASSUME NEW w \in moves, Hits(w, to[r], i) PROVE w = Move(<< from[r] >>, to[r], n)
  <2>1. PICK q \in who : w = Move(<< from[q] >>, to[q], n) OBVIOUS
  <2>2. w.to = to[q] BY <2>1, MoveIs
  <2>3. q = r BY <1>2, <2>2 DEF Hits, Each
  <2> QED BY <2>1, <2>3
<1>3. memcpy(who, to, from, n) = Step("local", moves) BY DEF memcpy
<1> HIDE DEF moves
<1>4. Read(After(m, Step("local", moves)), to[r], i) = Reduction(m, << from[r] >>, i)
  BY <1>1, <1>2, Sole
<1> QED BY <1>3, <1>4, ReduceOne

LEMMA NotCopied ==
  ASSUME NEW m, Whole(m), NEW who, who \subseteq Procs, NEW to, Each(to), NEW from,
         NEW n, NEW place, NEW i, Inside(place, i),
         \/ place.rank \notin who
         \/ (place.at + i) - to[place.rank].at \notin 1..n
  PROVE  Read(After(m, memcpy(who, to, from, n)), place, i) = Read(m, place, i)
<1> DEFINE moves == {Move(<< from[q] >>, to[q], n) : q \in who}
<1>1. ASSUME NEW w \in moves, Hits(w, place, i) PROVE FALSE
  <2>1. PICK q \in who : w = Move(<< from[q] >>, to[q], n) OBVIOUS
  <2>2. w.to = to[q] /\ w.n = n BY <2>1, MoveIs
  <2>3. q = place.rank BY <1>1, <2>2 DEF Hits, Each
  <2> QED BY <1>1, <2>2, <2>3 DEF Hits
<1>2. memcpy(who, to, from, n) = Step("local", moves) BY DEF memcpy
<1> HIDE DEF moves
<1> QED BY <1>1, <1>2, Untouched

LEMMA CopyInto ==
  ASSUME NEW who, who \subseteq Procs, NEW to, Each(to), NEW from, NEW n
  PROVE  Into(memcpy(who, to, from, n), who, to)
BY DEF Into, memcpy, Step, Move, Each

LEMMA Zeroed ==
  ASSUME call \in Calls, NEW m, Whole(m), NEW to, Each(to), NEW n \in Int, NEW r \in Procs,
         NEW i \in 1..n,
         Wide(to[r], n)
  PROVE  Read(After(m, memset0(to, n)), to[r], i) = << >>
<1> DEFINE moves == {Move(<< >>, to[q], n) : q \in Procs}
<1>1. Move(<< >>, to[r], n) \in moves OBVIOUS
<1>2. ASSUME NEW w \in moves, Hits(w, to[r], i) PROVE w = Move(<< >>, to[r], n)
  <2>1. PICK q \in Procs : w = Move(<< >>, to[q], n) OBVIOUS
  <2>2. w.to = to[q] BY <2>1, MoveIs
  <2>3. q = r BY <1>2, <2>2 DEF Hits, Each
  <2> QED BY <2>1, <2>3
<1>3. memset0(to, n) = Step("local", moves) BY DEF memset0
<1> HIDE DEF moves
<1>4. Read(After(m, Step("local", moves)), to[r], i) = Reduction(m, << >>, i)
  BY <1>1, <1>2, Sole
<1> QED BY <1>3, <1>4, ReduceNone

LEMMA ZeroInto ==
  ASSUME NEW to, Each(to), NEW n PROVE Into(memset0(to, n), Procs, to)
BY DEF Into, memset0, Step, Move, Each

LEMMA LocallyReduced ==
  ASSUME call \in Calls, NEW m, Whole(m), NEW who, who \subseteq Procs, NEW in, NEW inout,
         Each(inout),
         NEW n \in Int, NEW r \in who, NEW i \in 1..n, Wide(inout[r], n)
  PROVE  Read(After(m, Reduce_local(who, in, inout, n)), inout[r], i)
           = Read(m, in[r], i) \o Read(m, inout[r], i)
<1> DEFINE moves == {Move(<< in[q], inout[q] >>, inout[q], n) : q \in who}
<1>1. Move(<< in[r], inout[r] >>, inout[r], n) \in moves OBVIOUS
<1>2. ASSUME NEW w \in moves, Hits(w, inout[r], i)
      PROVE  w = Move(<< in[r], inout[r] >>, inout[r], n)
  <2>1. PICK q \in who : w = Move(<< in[q], inout[q] >>, inout[q], n) OBVIOUS
  <2>2. w.to = inout[q] BY <2>1, MoveIs
  <2>3. q = r BY <1>2, <2>2 DEF Hits, Each
  <2> QED BY <2>1, <2>3
<1>3. Reduce_local(who, in, inout, n) = Step("local", moves) BY DEF Reduce_local
<1> HIDE DEF moves
<1>4. Read(After(m, Step("local", moves)), inout[r], i)
        = Reduction(m, << in[r], inout[r] >>, i)
  BY <1>1, <1>2, Sole
<1> QED BY <1>3, <1>4, ReduceTwo, Zenon

LEMMA LocalInto ==
  ASSUME NEW who, who \subseteq Procs, NEW in, NEW inout, Each(inout), NEW n
  PROVE  Into(Reduce_local(who, in, inout, n), who, inout)
BY DEF Into, Reduce_local, Step, Move, Each

(* The collective operations.                                              *)

(* Parts that do not overlap.                                              *)
Laid(counts, offs) ==
  /\ \A q \in Procs : counts[q] \in Nat /\ offs[q] \in Nat
  /\ \A q, s \in Procs : \A i \in 1 .. counts[q], j \in 1 .. counts[s] :
       offs[q] + i = offs[s] + j => q = s

LEMMA GatherSole ==
  ASSUME NEW in, NEW out, Each(out), NEW counts, NEW offs, Laid(counts, offs),
         NEW r \in Procs, NEW s \in Procs, NEW q \in Procs, NEW i \in 1 .. counts[q],
         NEW w \in GathervMoves(in, out, counts, offs, s),
         Hits(w, Plus(out[r], offs[q]), i)
  PROVE  w = Move(<< in[q] >>, Plus(out[r], offs[q]), counts[q])
<1>1. PICK x \in Procs : w = Move(<< in[x] >>, Plus(out[s], offs[x]), counts[x])
  BY DEF GathervMoves
<1>2. /\ offs[q] \in Nat /\ offs[x] \in Nat /\ counts[q] \in Nat /\ counts[x] \in Nat
      /\ \A j \in 1 .. counts[x] : offs[q] + i = offs[x] + j => q = x
  BY DEF Laid
<1>3. out[r] \in Places /\ out[s] \in Places /\ out[r].rank = r /\ out[s].rank = s BY DEF Each
<1>4. /\ Plus(out[r], offs[q]).rank = r /\ Plus(out[r], offs[q]).at = out[r].at + offs[q]
      /\ w.to.rank = s /\ w.to.at = out[s].at + offs[x] /\ w.n = counts[x]
      /\ out[r].at \in Int /\ out[s].at \in Int
  <2>1. w.to = Plus(out[s], offs[x]) /\ w.n = counts[x] BY <1>1, MoveIs
  <2>2. offs[q] \in Int /\ offs[x] \in Int BY <1>2
  <2>3. out[r].at \in Int /\ out[s].at \in Int BY <1>3 DEF Places
  <2>4. /\ Plus(out[r], offs[q]).rank = out[r].rank
        /\ Plus(out[r], offs[q]).at = out[r].at + offs[q]
    BY <1>3, <2>2, PlusType
  <2>5. /\ Plus(out[s], offs[x]).rank = out[s].rank
        /\ Plus(out[s], offs[x]).at = out[s].at + offs[x]
    BY <1>3, <2>2, PlusType
  <2> QED BY <1>3, <2>1, <2>3, <2>4, <2>5
<1>5. s = r BY <1>4 DEF Hits
<1>6. ((out[r].at + offs[q]) + i) - (out[r].at + offs[x]) \in 1 .. counts[x]
  BY <1>4, <1>5 DEF Hits
<1> DEFINE j == (offs[q] + i) - offs[x]
<1>7. j \in 1 .. counts[x] /\ offs[q] + i = offs[x] + j BY <1>2, <1>4, <1>6
<1>8. x = q BY <1>2, <1>7
<1> QED BY <1>1, <1>5, <1>8

LEMMA Gathered ==
  ASSUME call \in Calls, NEW m, Whole(m), NEW name,
         NEW in, NEW out, Each(out), NEW counts, NEW offs, Laid(counts, offs),
         NEW root \in Procs, NEW q \in Procs, NEW i \in 1 .. counts[q],
         Wide(Plus(out[root], offs[q]), counts[q])
  PROVE  Read(After(m, Step(name, GathervMoves(in, out, counts, offs, root))),
              Plus(out[root], offs[q]), i) = Read(m, in[q], i)
<1> DEFINE moves == GathervMoves(in, out, counts, offs, root)
           place == Plus(out[root], offs[q])
<1>1. Move(<< in[q] >>, place, counts[q]) \in moves BY DEF GathervMoves
<1>2. \A w \in moves : Hits(w, place, i) => w = Move(<< in[q] >>, place, counts[q])
  BY GatherSole
<1>3. counts[q] \in Int BY DEF Laid
<1> HIDE DEF moves, place
<1>4. Read(After(m, Step(name, moves)), place, i) = Reduction(m, << in[q] >>, i)
  BY <1>1, <1>2, <1>3, Sole DEF place
<1> QED BY <1>4, ReduceOne DEF moves, place

LEMMA GatherInto ==
  ASSUME NEW name, NEW in, NEW out, Each(out), NEW counts, NEW offs, Laid(counts, offs),
         NEW root \in Procs
  PROVE  Into(Step(name, GathervMoves(in, out, counts, offs, root)), {root}, out)
<1>1. ASSUME NEW w \in GathervMoves(in, out, counts, offs, root)
      PROVE  w.to.rank = root /\ w.to.buf = out[root].buf
  <2>1. PICK q \in Procs : w = Move(<< in[q] >>, Plus(out[root], offs[q]), counts[q])
    BY DEF GathervMoves
  <2>2. offs[q] \in Int /\ out[root] \in Places /\ out[root].rank = root BY DEF Laid, Each
  <2> QED BY <2>1, <2>2, PlusType, MoveIs
<1> QED BY <1>1 DEF Into, Step

(* The moves of all the gathers that an allgather is.                      *)
GatherAll(in, out, counts, offs) ==
  UNION {GathervMoves(in, out, counts, offs, s) : s \in Procs}

LEMMA Allgathered ==
  ASSUME call \in Calls, NEW m, Whole(m), NEW name,
         NEW in, NEW out, Each(out), NEW counts, NEW offs, Laid(counts, offs),
         NEW r \in Procs, NEW q \in Procs, NEW i \in 1 .. counts[q],
         Wide(Plus(out[r], offs[q]), counts[q])
  PROVE  Read(After(m, Step(name, GatherAll(in, out, counts, offs))),
              Plus(out[r], offs[q]), i) = Read(m, in[q], i)
<1> DEFINE moves == GatherAll(in, out, counts, offs)
           place == Plus(out[r], offs[q])
<1>1. Move(<< in[q] >>, place, counts[q]) \in GathervMoves(in, out, counts, offs, r)
  BY DEF GathervMoves
<1>2. Move(<< in[q] >>, place, counts[q]) \in moves BY <1>1 DEF GatherAll
<1>3. ASSUME NEW w \in moves, Hits(w, place, i)
      PROVE  w = Move(<< in[q] >>, place, counts[q])
  <2>1. PICK s \in Procs : w \in GathervMoves(in, out, counts, offs, s) BY DEF GatherAll
  <2> QED BY <1>3, <2>1, GatherSole
<1>4. counts[q] \in Int BY DEF Laid
<1> HIDE DEF moves, place
<1>5. Read(After(m, Step(name, moves)), place, i) = Reduction(m, << in[q] >>, i)
  BY <1>2, <1>3, <1>4, Sole DEF place
<1> QED BY <1>5, ReduceOne DEF moves, place

LEMMA AllgatherInto ==
  ASSUME NEW name, NEW in, NEW out, Each(out), NEW counts, NEW offs, Laid(counts, offs)
  PROVE  Into(Step(name, GatherAll(in, out, counts, offs)), Procs, out)
<1>1. ASSUME NEW s \in Procs, NEW w \in GathervMoves(in, out, counts, offs, s)
      PROVE  w.to.rank = s /\ w.to.buf = out[s].buf
  <2>1. PICK q \in Procs : w = Move(<< in[q] >>, Plus(out[s], offs[q]), counts[q])
    BY DEF GathervMoves
  <2>2. offs[q] \in Int /\ out[s] \in Places /\ out[s].rank = s BY DEF Laid, Each
  <2> QED BY <2>1, <2>2, PlusType, MoveIs
<1> QED BY <1>1 DEF Into, Step, GatherAll

LEMMA Scattered ==
  ASSUME call \in Calls, NEW m, Whole(m), NEW name,
         NEW in, NEW out, Each(out), NEW counts, NEW offs,
         NEW root \in Procs, NEW r \in Procs, NEW n \in Nat, counts[r] = n, NEW i \in 1..n,
         Wide(out[r], n)
  PROVE  Read(After(m, Step(name, ScattervMoves(in, out, counts, offs, root))), out[r], i)
           = Read(m, Plus(in[root], offs[r]), i)
<1> DEFINE moves == ScattervMoves(in, out, counts, offs, root)
           from == Plus(in[root], offs[r])
<1>1. Move(<< from >>, out[r], counts[r]) \in moves BY DEF ScattervMoves
<1>2. ASSUME NEW w \in moves, Hits(w, out[r], i)
      PROVE  w = Move(<< from >>, out[r], counts[r])
  <2>1. PICK q \in Procs : w = Move(<< Plus(in[root], offs[q]) >>, out[q], counts[q])
    BY DEF ScattervMoves
  <2>2. w.to = out[q] BY <2>1, MoveIs
  <2>3. q = r BY <1>2, <2>2 DEF Hits, Each
  <2> QED BY <2>1, <2>3
<1> HIDE DEF moves, from
<1>3. Read(After(m, Step(name, moves)), out[r], i) = Reduction(m, << from >>, i)
  BY <1>1, <1>2, Sole
<1> QED BY <1>3, ReduceOne DEF moves, from

LEMMA ScatterInto ==
  ASSUME NEW name, NEW in, NEW out, Each(out), NEW counts, NEW offs, NEW root
  PROVE  Into(Step(name, ScattervMoves(in, out, counts, offs, root)), Procs, out)
BY DEF Into, ScattervMoves, Step, Move, Each

LEMMA Broadcast ==
  ASSUME call \in Calls, NEW m, Whole(m), NEW buf, Each(buf), NEW n \in Int,
         NEW root \in Procs, NEW r \in Procs, NEW i \in 1..n, Wide(buf[r], n)
  PROVE  Read(After(m, Bcast(buf, n, root)), buf[r], i) = Read(m, buf[root], i)
<1> DEFINE moves == {Move(<< buf[root] >>, buf[q], n) : q \in Procs \ {root}}
<1>1. ASSUME NEW w \in moves, Hits(w, buf[r], i)
      PROVE  r # root /\ w = Move(<< buf[root] >>, buf[r], n)
  <2>1. PICK q \in Procs \ {root} : w = Move(<< buf[root] >>, buf[q], n) OBVIOUS
  <2>2. w.to = buf[q] BY <2>1, MoveIs
  <2>3. q = r BY <1>1, <2>2 DEF Hits, Each
  <2> QED BY <2>1, <2>3
<1>2. r # root => Move(<< buf[root] >>, buf[r], n) \in moves OBVIOUS
<1>3. Bcast(buf, n, root) = Step("Bcast", moves) BY DEF Bcast
<1>4. Inside(buf[r], i) BY WideInside
<1> HIDE DEF moves
<1>5. CASE r = root BY <1>1, <1>3, <1>4, <1>5, Untouched
<1>6. CASE r # root
  <2>1. Read(After(m, Step("Bcast", moves)), buf[r], i) = Reduction(m, << buf[root] >>, i)
    BY <1>1, <1>2, <1>6, Sole
  <2> QED BY <1>3, <2>1, ReduceOne
<1> QED BY <1>5, <1>6

LEMMA BcastInto ==
  ASSUME NEW buf, Each(buf), NEW n, NEW root
  PROVE  Into(Bcast(buf, n, root), Procs \ {root}, buf)
BY DEF Into, Bcast, Step, Move, Each

(* Every process has n elements for every other one.                       *)
LEMMA BlocksBefore ==
  ASSUME NEW n \in Nat, NEW q \in Nat, NEW s \in Nat, q < s PROVE q * n + n <= s * n
<1>1. s \in Nat \ {0} /\ q \in 0 .. s - 1 OBVIOUS
<1> QED BY <1>1, BlockFits

LEMMA SameBlock ==
  ASSUME NEW n \in Nat, NEW q \in Nat, NEW s \in Nat, NEW i \in 1..n, NEW j \in 1..n,
         q * n + i = s * n + j
  PROVE  q = s
<1> DEFINE a == q * n
           b == s * n
<1>1. a \in Nat /\ b \in Nat OBVIOUS
<1>2. (q < s => a + n <= b) /\ (s < q => b + n <= a) BY BlocksBefore
<1>3. a + i = b + j OBVIOUS
<1> HIDE DEF a, b
<1> QED BY <1>1, <1>2, <1>3

LEMMA BlocksLaid ==
  ASSUME call \in Calls, NEW n \in Nat PROVE Laid(Blocks(n), Strided(n))
<1>1. Procs \subseteq Nat BY CallTypes
<1>2. \A q \in Procs : Blocks(n)[q] = n /\ Strided(n)[q] = q * n /\ q * n \in Nat
  BY <1>1, BlocksAre
<1> QED BY <1>1, <1>2, SameBlock DEF Laid

LEMMA Exchanged ==
  ASSUME call \in Calls, NEW m, Whole(m), NEW name,
         NEW in, NEW out, Each(out), NEW n \in Nat,
         NEW r \in Procs, NEW q \in Procs, NEW i \in 1..n, Wide(Plus(out[r], q * n), n)
  PROVE  Read(After(m, Step(name, AlltoallvMoves(in, out, Blocks(n), Strided(n), Strided(n)))),
              Plus(out[r], q * n), i) = Read(m, Plus(in[q], r * n), i)
<1> DEFINE moves == AlltoallvMoves(in, out, Blocks(n), Strided(n), Strided(n))
           from == Plus(in[q], r * n)
           place == Plus(out[r], q * n)
<1>1. \A x \in Procs : Blocks(n)[x] = n /\ Strided(n)[x] = x * n BY BlocksAre
<1>2. ASSUME NEW w
      PROVE  w \in moves <=> \E x, y \in Procs :
                w = Move(<< Plus(in[x], y * n) >>, Plus(out[y], x * n), n)
  <2>1. w \in moves <=> \E x, y \in Procs :
          w = Move(<< Plus(in[x], Strided(n)[y]) >>, Plus(out[y], Strided(n)[x]),
                   Blocks(n)[y])
    BY DEF AlltoallvMoves
  <2>2. ASSUME NEW x \in Procs, NEW y \in Procs
        PROVE  Move(<< Plus(in[x], Strided(n)[y]) >>, Plus(out[y], Strided(n)[x]),
                    Blocks(n)[y])
                 = Move(<< Plus(in[x], y * n) >>, Plus(out[y], x * n), n)
    BY <1>1
  <2> HIDE DEF moves
  <2> QED BY <2>1, <2>2, ZenonT(60)
<1> HIDE DEF moves
<1>3. Move(<< from >>, place, n) \in moves BY <1>2
<1>4. ASSUME NEW w \in moves, Hits(w, place, i) PROVE w = Move(<< from >>, place, n)
  <2>1. PICK x \in Procs, y \in Procs :
          w = Move(<< Plus(in[x], y * n) >>, Plus(out[y], x * n), n)
    BY <1>2
  <2>2. w.to = Plus(out[y], x * n) /\ w.n = n BY <2>1, MoveIs
  <2>3. x \in Nat /\ q \in Nat /\ x * n \in Int /\ q * n \in Int
    <3>1. x \in Nat /\ q \in Nat BY CallTypes
    <3> QED BY <3>1
  <2>4. /\ out[r] \in Places /\ out[y] \in Places /\ out[r].rank = r /\ out[y].rank = y
        /\ out[r].at \in Int /\ out[y].at \in Int
    BY DEF Each, Places
  <2>5. place.rank = r /\ place.at = out[r].at + q * n BY <2>3, <2>4, PlusType
  <2>6. Plus(out[y], x * n).rank = y /\ Plus(out[y], x * n).at = out[y].at + x * n
    BY <2>3, <2>4, PlusType
  <2>7. y = r BY <1>4, <2>2, <2>5, <2>6 DEF Hits
  <2> DEFINE a == q * n
             b == x * n
             j == (a + i) - b
  <2>8. ((out[r].at + a) + i) - (out[r].at + b) \in 1..n
    BY <1>4, <2>2, <2>5, <2>6, <2>7 DEF Hits
  <2>9. a \in Int /\ b \in Int BY <2>3
  <2>10. j \in 1..n /\ a + i = b + j
    <3> HIDE DEF a, b
    <3> QED BY <2>4, <2>8, <2>9
  <2>11. q = x BY <2>3, <2>10, SameBlock
  <2> QED BY <2>1, <2>7, <2>11
<1> HIDE DEF from, place
<1>5. Read(After(m, Step(name, moves)), place, i) = Reduction(m, << from >>, i)
  BY <1>3, <1>4, Sole DEF place
<1> QED BY <1>5, ReduceOne DEF moves, from, place

LEMMA ExchangeInto ==
  ASSUME call \in Calls, NEW name, NEW in, NEW out, Each(out), NEW n \in Nat
  PROVE  Into(Step(name, AlltoallvMoves(in, out, Blocks(n), Strided(n), Strided(n))),
              Procs, out)
<1>1. ASSUME NEW w \in AlltoallvMoves(in, out, Blocks(n), Strided(n), Strided(n))
      PROVE  w.to.rank \in Procs /\ w.to.buf = out[w.to.rank].buf
  <2>1. PICK x \in Procs, y \in Procs :
          w = Move(<< Plus(in[x], Strided(n)[y]) >>, Plus(out[y], Strided(n)[x]), Blocks(n)[y])
    BY DEF AlltoallvMoves
  <2>2. w.to = Plus(out[y], Strided(n)[x]) BY <2>1, MoveIs
  <2>3. Strided(n)[x] \in Int BY BlocksLaid DEF Laid
  <2>4. out[y] \in Places /\ out[y].rank = y BY DEF Each
  <2> QED BY <2>2, <2>3, <2>4, PlusType
<1> QED BY <1>1 DEF Into, Step

(* Reductions.                                                             *)
LEMMA Reduced ==
  ASSUME call \in Calls, NEW m, Whole(m), NEW in, NEW out, NEW n \in Int,
         NEW root, NEW i \in 1..n, Wide(out[root], n)
  PROVE  Read(After(m, Reduce(in, out, n, root)), out[root], i)
           = Reduction(m, InOrder(in, call.p), i)
<1> DEFINE moves == {Move(InOrder(in, call.p), out[root], n)}
<1>1. Reduce(in, out, n, root) = Step("Reduce", moves) BY DEF Reduce, ReduceMoves
<1>2. Move(InOrder(in, call.p), out[root], n) \in moves OBVIOUS
<1>3. \A w \in moves : w = Move(InOrder(in, call.p), out[root], n) OBVIOUS
<1> HIDE DEF moves
<1> QED BY <1>1, <1>2, <1>3, Sole

LEMMA ReduceInto ==
  ASSUME NEW in, NEW out, Each(out), NEW n, NEW root \in Procs
  PROVE  Into(Reduce(in, out, n, root), {root}, out)
BY DEF Into, Reduce, ReduceMoves, Step, Move, Each

LEMMA Allreduced ==
  ASSUME call \in Calls, NEW m, Whole(m), NEW in, NEW out, Each(out), NEW n \in Int,
         NEW r \in Procs, NEW i \in 1..n, Wide(out[r], n)
  PROVE  Read(After(m, Allreduce(in, out, n)), out[r], i)
           = Reduction(m, InOrder(in, call.p), i)
<1> DEFINE of == InOrder(in, call.p)
           moves == UNION {ReduceMoves(in, out, n, s) : s \in Procs}
<1>1. Allreduce(in, out, n) = Step("Allreduce", moves) BY DEF Allreduce
<1>2. ASSUME NEW w PROVE w \in moves <=> \E s \in Procs : w = Move(of, out[s], n)
  BY DEF ReduceMoves
<1> HIDE DEF moves, of
<1>3. Move(of, out[r], n) \in moves BY <1>2
<1>4. ASSUME NEW w \in moves, Hits(w, out[r], i) PROVE w = Move(of, out[r], n)
  <2>1. PICK s \in Procs : w = Move(of, out[s], n) BY <1>2
  <2>2. w.to = out[s] BY <2>1, MoveIs
  <2>3. s = r BY <1>4, <2>2 DEF Hits, Each
  <2> QED BY <2>1, <2>3
<1>5. Read(After(m, Step("Allreduce", moves)), out[r], i) = Reduction(m, of, i)
  BY <1>3, <1>4, Sole
<1> QED BY <1>1, <1>5 DEF of

LEMMA AllreduceInto ==
  ASSUME NEW in, NEW out, Each(out), NEW n
  PROVE  Into(Allreduce(in, out, n), Procs, out)
BY DEF Into, Allreduce, ReduceMoves, Step, Move, Each

(* Where a process's part of a reduction begins in the vectors of all.     *)
Parts(in, counts, r) == [q \in Procs |-> Plus(in[q], Before(counts, r))]

LEMMA ReduceScattered ==
  ASSUME call \in Calls, NEW m, Whole(m), NEW name, NEW in, NEW out, Each(out), NEW counts,
         NEW r \in Procs, counts[r] \in Int, NEW i \in 1 .. counts[r], Wide(out[r], counts[r])
  PROVE  Read(After(m, Step(name, ReduceScatterMoves(in, out, counts))), out[r], i)
           = Reduction(m, InOrder(Parts(in, counts, r), call.p), i)
<1> DEFINE of(s) == InOrder(Parts(in, counts, s), call.p)
           moves == ReduceScatterMoves(in, out, counts)
<1>1. ASSUME NEW w PROVE w \in moves <=> \E s \in Procs : w = Move(of(s), out[s], counts[s])
  BY DEF ReduceScatterMoves, ReduceMoves, Shifted, Parts
<1> HIDE DEF moves, of
<1>2. Move(of(r), out[r], counts[r]) \in moves BY <1>1
<1>3. ASSUME NEW w \in moves, Hits(w, out[r], i) PROVE w = Move(of(r), out[r], counts[r])
  <2>1. PICK s \in Procs : w = Move(of(s), out[s], counts[s]) BY <1>1
  <2>2. w.to = out[s] BY <2>1, MoveIs
  <2>3. s = r BY <1>3, <2>2 DEF Hits, Each
  <2> QED BY <2>1, <2>3
<1>4. Read(After(m, Step(name, moves)), out[r], i) = Reduction(m, of(r), i)
  BY <1>2, <1>3, Sole
<1> QED BY <1>4 DEF of, moves

LEMMA ReduceScatterInto ==
  ASSUME NEW name, NEW in, NEW out, Each(out), NEW counts
  PROVE  Into(Step(name, ReduceScatterMoves(in, out, counts)), Procs, out)
BY DEF Into, ReduceScatterMoves, ReduceMoves, Step, Move, Each

LEMMA Exscanned ==
  ASSUME call \in Calls, NEW m, Whole(m), NEW in, NEW out, Each(out), NEW n \in Int,
         NEW r \in Procs, r # 0, NEW i \in 1..n, Wide(out[r], n)
  PROVE  Read(After(m, Exscan(in, out, n)), out[r], i) = Reduction(m, InOrder(in, r), i)
<1> DEFINE moves == {Move(InOrder(in, s), out[s], n) : s \in Procs \ {0}}
<1>1. Exscan(in, out, n) = Step("Exscan", moves) BY DEF Exscan
<1>2. Move(InOrder(in, r), out[r], n) \in moves OBVIOUS
<1>3. ASSUME NEW w \in moves, Hits(w, out[r], i) PROVE w = Move(InOrder(in, r), out[r], n)
  <2>1. PICK s \in Procs \ {0} : w = Move(InOrder(in, s), out[s], n) OBVIOUS
  <2>2. w.to = out[s] BY <2>1, MoveIs
  <2>3. s = r BY <1>3, <2>2 DEF Hits, Each
  <2> QED BY <2>1, <2>3
<1> HIDE DEF moves
<1> QED BY <1>1, <1>2, <1>3, Sole

LEMMA ExscanInto ==
  ASSUME NEW in, NEW out, Each(out), NEW n
  PROVE  Into(Exscan(in, out, n), Procs \ {0}, out)
BY DEF Into, Exscan, Step, Move, Each

-------------------------------------------------------------------------------
(* The elements of a buffer, by their number in it.                        *)

LEMMA EachPointer ==
  ASSUME NEW b \in Buffers
  PROVE  Each(Pointer(b)) /\ \A r \in Procs : Pointer(b)[r].buf = b /\ Pointer(b)[r].at = 0
BY PointerTypes DEF Each, Pointers

LEMMA WidePointer ==
  ASSUME NEW b \in Buffers, NEW r \in Procs, NEW n \in Int, n <= Room(r, b)
  PROVE  Wide(Pointer(b)[r], n)
BY AtStart, PointerTypes DEF Wide

LEMMA WidePlus ==
  ASSUME NEW b \in Buffers, NEW r \in Procs, NEW off \in Nat, NEW n \in Int,
         off + n <= Room(r, b)
  PROVE  Wide(Plus(Pointer(b)[r], off), n)
<1>1. Pointer(b)[r] \in Places /\ Pointer(b)[r].at = 0 BY PointerTypes DEF Pointers
<1>2. Plus(Pointer(b)[r], off).at = Pointer(b)[r].at + off BY <1>1, PlusType
<1>3. off \in Int /\ 0 + off = off OBVIOUS
<1>4. Fit(Plus(Pointer(b)[r], off), n) BY <1>3, Further
<1> QED BY <1>1, <1>2, <1>3, <1>4 DEF Wide

LEMMA CellIs ==
  ASSUME NEW m, Whole(m), NEW b \in Buffers, NEW r \in Procs, NEW k \in 1 .. Room(r, b)
  PROVE  Read(m, Pointer(b)[r], k) = m[r][b][k]
<1>1. Pointer(b)[r] \in Places /\ Pointer(b)[r].rank = r /\ Pointer(b)[r].buf = b
      /\ Pointer(b)[r].at = 0
  BY PointerTypes DEF Pointers
<1>2. k \in Int /\ 0 + k = k OBVIOUS
<1>3. Inside(Pointer(b)[r], k) BY <1>1, <1>2 DEF Inside
<1>4. Read(m, Pointer(b)[r], k)
        = m[Pointer(b)[r].rank][Pointer(b)[r].buf][Pointer(b)[r].at + k]
  BY <1>3, ReadIs
<1> QED BY <1>1, <1>2, <1>4

LEMMA CellPlus ==
  ASSUME NEW m, Whole(m), NEW b \in Buffers, NEW r \in Procs, NEW off \in Int,
         NEW k \in Int, off + k \in 1 .. Room(r, b)
  PROVE  Read(m, Plus(Pointer(b)[r], off), k) = m[r][b][off + k]
<1> DEFINE place == Plus(Pointer(b)[r], off)
<1>1. Pointer(b)[r] \in Places /\ Pointer(b)[r].rank = r /\ Pointer(b)[r].buf = b
      /\ Pointer(b)[r].at = 0
  BY PointerTypes DEF Pointers
<1>2. place \in Places /\ place.rank = r /\ place.buf = b /\ place.at = off
  <2>1. /\ place \in Places /\ place.rank = Pointer(b)[r].rank
        /\ place.buf = Pointer(b)[r].buf /\ place.at = Pointer(b)[r].at + off
    BY <1>1, PlusType
  <2>2. 0 + off = off OBVIOUS
  <2> HIDE DEF place
  <2> QED BY <1>1, <2>1, <2>2
<1> HIDE DEF place
<1>3. Inside(place, k) BY <1>2 DEF Inside
<1>4. Read(m, place, k) = m[place.rank][place.buf][place.at + k] BY <1>3, ReadIs
<1> QED BY <1>2, <1>4 DEF place

LEMMA CellAt ==
  ASSUME NEW m, Whole(m), NEW b \in Buffers, NEW r \in Procs, NEW off \in Int,
         NEW k \in Int, NEW j, j = off + k, j \in 1 .. Room(r, b)
  PROVE  Read(m, Plus(Pointer(b)[r], off), k) = m[r][b][j]
<1>1. off + k \in 1 .. Room(r, b) OBVIOUS
<1>2. Read(m, Plus(Pointer(b)[r], off), k) = m[r][b][off + k] BY <1>1, CellPlus
<1> QED BY <1>2

(* A step that writes into one buffer of the processes.                    *)
LEMMA KeepsOthers ==
  ASSUME NEW m, Whole(m), NEW s, NEW who, NEW b \in Buffers, Into(s, who, Pointer(b)),
         NEW r \in Procs, NEW c \in Buffers, c # b
  PROVE  After(m, s)[r][c] = m[r][c]
BY EachPointer, Spared

LEMMA ByBlocks ==
  ASSUME call \in Calls, NEW n \in Nat, NEW k \in 1 .. call.p * n
  PROVE  \E q \in Procs, i \in 1..n :
           k = q * n + i /\ q = (k - 1) \div n /\ i = ((k - 1) % n) + 1
<1> DEFINE p == call.p
           all == p * n
           q == (k - 1) \div n
           e == (k - 1) % n
           a == q * n
<1>1. p \in Nat \ {0} /\ Procs = 0 .. p - 1 BY CallTypes
<1>2. all \in Nat /\ k \in 1 .. all /\ k - 1 \in Nat BY <1>1
<1>3. n \in Nat \ {0}
  <2>1. n = 0 => all = 0 BY <1>1
  <2> QED BY <1>2, <2>1
<1>4. q \in Nat /\ e \in 0 .. n - 1 /\ k - 1 = n * q + e BY <1>2, <1>3, Division
<1> HIDE DEF q, e, all
<1>5. a \in Nat /\ n * q = a BY <1>3, <1>4
<1>6. q < p
  <2>1. SUFFICES ASSUME p <= q PROVE FALSE
    BY <1>1, <1>4
  <2>2. all <= a
    <3>1. CASE p = q
      <4>1. p * n = q * n BY <3>1
      <4>2. a \in Int BY <1>5
      <4> QED BY <1>2, <4>1, <4>2 DEF all
    <3>2. CASE p < q
      <4>1. p * n + n <= q * n BY <1>1, <1>4, <3>2, BlocksBefore
      <4> QED BY <1>2, <1>5, <4>1 DEF all
    <3> QED BY <1>1, <1>4, <2>1, <3>1, <3>2
  <2> HIDE DEF a
  <2> QED BY <1>2, <1>4, <1>5, <2>2
<1>7. k = a + (e + 1) /\ e + 1 \in 1..n
  <2> HIDE DEF a
  <2> QED BY <1>2, <1>4, <1>5
<1>8. q \in Procs BY <1>1, <1>4, <1>6
<1> QED BY <1>7, <1>8 DEF q, e

LEMMA InBlock ==
  ASSUME call \in Calls, NEW n \in Nat, NEW q \in Procs
  PROVE  /\ q * n \in Nat /\ q * n + n <= call.p * n
         /\ \A i \in 1..n : q * n + i \in 1 .. call.p * n
<1>1. q * n \in Nat /\ call.p * n \in Nat /\ q * n + n <= call.p * n
  BY CallTypes, BlockFits
<1> DEFINE a == q * n
           all == call.p * n
<1> HIDE DEF a, all
<1>2. a \in Nat /\ all \in Nat /\ a + n <= all BY <1>1 DEF a, all
<1>3. \A i \in 1..n : a + i \in 1 .. all BY <1>2
<1> QED BY <1>2, <1>3 DEF a, all

(* Room for n elements of every process.                                   *)
LEMMA BlockWide ==
  ASSUME call \in Calls, NEW b \in Buffers, NEW n \in Nat, NEW r \in Procs,
         call.p * n <= Room(r, b), NEW q \in Procs
  PROVE  /\ Wide(Plus(Pointer(b)[r], q * n), n)
         /\ \A i \in 1..n : q * n + i \in 1 .. Room(r, b)
<1> DEFINE a == q * n
           all == call.p * n
<1>1. a \in Nat /\ a + n <= all /\ all \in Nat
  <2>1. a \in Nat /\ a + n <= all BY InBlock
  <2>2. call.p \in Nat BY CallTypes
  <2> QED BY <2>1, <2>2
<1>2. all <= Room(r, b) /\ Room(r, b) \in Nat BY RoomNat
<1> HIDE DEF a, all
<1>3. a + n <= Room(r, b) BY <1>1, <1>2
<1>4. Wide(Plus(Pointer(b)[r], a), n) BY <1>1, <1>3, WidePlus
<1>5. \A i \in 1..n : a + i \in 1 .. Room(r, b) BY <1>1, <1>2, <1>3
<1> QED BY <1>4, <1>5 DEF a

(* What the steps that move blocks of n elements do.                       *)
Collects(m, a, m1, b, n, who) ==
  \A r \in who, q \in Procs : \A i \in 1..n : m1[r][b][q * n + i] = m[q][a][i]
Deals(m, a, m1, b, n, root) ==
  \A r \in Procs : \A i \in 1..n : m1[r][b][i] = m[root][a][r * n + i]
Trades(m, a, m1, b, n) ==
  \A r, q \in Procs : \A i \in 1..n : m1[r][b][q * n + i] = m[q][a][r * n + i]
Copies(m, a, m1, b, n, who) == \A r \in who : \A k \in 1..n : m1[r][b][k] = m[r][a][k]
(* A buffer b of the processes of who holds n elements.                    *)
Holds(b, n, who) == \A r \in who : n <= Room(r, b)

(* The steps on whole buffers, a and b being two of them.                  *)
LEMMA CopyStep ==
  ASSUME call \in Calls, NEW m, Whole(m), NEW a \in Buffers, NEW b \in Buffers,
         NEW who, who \subseteq Procs, NEW n \in Nat,
         Holds(a, n, who), Holds(b, n, who),
         NEW s, s = memcpy(who, Pointer(b), Pointer(a), n)
  PROVE  Into(s, who, Pointer(b)) /\ Copies(m, a, After(m, s), b, n, who)
<1>1. Into(s, who, Pointer(b)) BY CopyInto, EachPointer
<1>2. ASSUME NEW r \in who, NEW k \in 1..n PROVE After(m, s)[r][b][k] = m[r][a][k]
  <2>1. r \in Procs /\ Room(r, a) \in Nat /\ Room(r, b) \in Nat BY RoomNat
  <2>2. n <= Room(r, a) /\ n <= Room(r, b) BY DEF Holds
  <2>3. k \in 1 .. Room(r, a) /\ k \in 1 .. Room(r, b) BY <2>1, <2>2
  <2>4. Wide(Pointer(b)[r], n) BY <2>1, <2>2, WidePointer
  <2>5. Read(After(m, s), Pointer(b)[r], k) = Read(m, Pointer(a)[r], k)
    BY <2>4, Copied, EachPointer
  <2> QED BY <2>1, <2>3, <2>5, WholeAfter, CellIs
<1> QED BY <1>1, <1>2 DEF Copies

LEMMA AllgatherStep ==
  ASSUME call \in Calls, NEW m, Whole(m), NEW a \in Buffers, NEW b \in Buffers,
         NEW n \in Nat, \A r \in Procs : n <= Room(r, a) /\ call.p * n <= Room(r, b),
         NEW s, \/ s = Allgather(Pointer(a), Pointer(b), n)
                \/ s = Allgatherv(Pointer(a), Pointer(b), Blocks(n), Strided(n))
  PROVE  Into(s, Procs, Pointer(b)) /\ Collects(m, a, After(m, s), b, n, Procs)
<1> DEFINE given == GatherAll(Pointer(a), Pointer(b), Blocks(n), Strided(n))
<1>1. PICK name : s = Step(name, given) BY Zenon DEF Allgather, Allgatherv, GatherAll
<1>2. Into(s, Procs, Pointer(b)) BY <1>1, AllgatherInto, EachPointer, BlocksLaid
<1>3. ASSUME NEW r \in Procs, NEW q \in Procs, NEW i \in 1..n
      PROVE  After(m, s)[r][b][q * n + i] = m[q][a][i]
  <2>1. Blocks(n)[q] = n /\ Strided(n)[q] = q * n BY BlocksAre
  <2>2. Wide(Plus(Pointer(b)[r], q * n), n) /\ q * n + i \in 1 .. Room(r, b) BY BlockWide
  <2>3. Read(After(m, s), Plus(Pointer(b)[r], q * n), i) = Read(m, Pointer(a)[q], i)
    <3> DEFINE counts == Blocks(n)
               offs == Strided(n)
               out == Pointer(b)
    <3>1. Laid(counts, offs) /\ Each(out) BY EachPointer, BlocksLaid
    <3>2. i \in 1 .. counts[q] /\ Wide(Plus(out[r], offs[q]), counts[q]) BY <2>1, <2>2
    <3> DEFINE moves == GatherAll(Pointer(a), out, counts, offs)
    <3>3. s = Step(name, moves) BY <1>1
    <3> HIDE DEF counts, offs, out, given
    <3>4. Read(After(m, Step(name, moves)), Plus(out[r], offs[q]), i)
          = Read(m, Pointer(a)[q], i)
      BY <3>1, <3>2, Allgathered
    <3> QED BY <2>1, <3>3, <3>4 DEF out, offs
  <2>4. q * n \in Int /\ i \in Int BY InBlock
  <2>5. Read(After(m, s), Plus(Pointer(b)[r], q * n), i) = After(m, s)[r][b][q * n + i]
    BY <2>2, <2>4, WholeAfter, CellPlus
  <2>6. i \in 1 .. Room(q, a) BY RoomNat
  <2> QED BY <2>3, <2>5, <2>6, CellIs
<1> QED BY <1>2, <1>3 DEF Collects

LEMMA GatherStep ==
  ASSUME call \in Calls, NEW m, Whole(m), NEW a \in Buffers, NEW b \in Buffers,
         NEW n \in Nat, NEW root \in Procs,
         \A r \in Procs : n <= Room(r, a), call.p * n <= Room(root, b),
         NEW s, \/ s = Gather(Pointer(a), Pointer(b), n, root)
                \/ s = Gatherv(Pointer(a), Pointer(b), Blocks(n), Strided(n), root)
  PROVE  Into(s, {root}, Pointer(b)) /\ Collects(m, a, After(m, s), b, n, {root})
<1> DEFINE given == GathervMoves(Pointer(a), Pointer(b), Blocks(n), Strided(n), root)
<1>1. PICK name : s = Step(name, given) BY Zenon DEF Gather, Gatherv
<1>2. Into(s, {root}, Pointer(b)) BY <1>1, GatherInto, EachPointer, BlocksLaid
<1>3. ASSUME NEW q \in Procs, NEW i \in 1..n
      PROVE  After(m, s)[root][b][q * n + i] = m[q][a][i]
  <2>1. Blocks(n)[q] = n /\ Strided(n)[q] = q * n BY BlocksAre
  <2>2. Wide(Plus(Pointer(b)[root], q * n), n) /\ q * n + i \in 1 .. Room(root, b)
    BY BlockWide
  <2>3. Read(After(m, s), Plus(Pointer(b)[root], q * n), i) = Read(m, Pointer(a)[q], i)
    <3> DEFINE counts == Blocks(n)
               offs == Strided(n)
               out == Pointer(b)
    <3>1. Laid(counts, offs) /\ Each(out) BY EachPointer, BlocksLaid
    <3>2. i \in 1 .. counts[q] /\ Wide(Plus(out[root], offs[q]), counts[q]) BY <2>1, <2>2
    <3> DEFINE moves == GathervMoves(Pointer(a), out, counts, offs, root)
    <3>3. s = Step(name, moves) BY <1>1
    <3> HIDE DEF counts, offs, out, given
    <3>4. Read(After(m, Step(name, moves)), Plus(out[root], offs[q]), i)
          = Read(m, Pointer(a)[q], i)
      BY <3>1, <3>2, Gathered
    <3> QED BY <2>1, <3>3, <3>4 DEF out, offs
  <2>4. q * n \in Int /\ i \in Int BY InBlock
  <2>5. Read(After(m, s), Plus(Pointer(b)[root], q * n), i) = After(m, s)[root][b][q * n + i]
    BY <2>2, <2>4, WholeAfter, CellPlus
  <2>6. i \in 1 .. Room(q, a) BY RoomNat
  <2> QED BY <2>3, <2>5, <2>6, CellIs
<1> QED BY <1>2, <1>3 DEF Collects

LEMMA ScatterStep ==
  ASSUME call \in Calls, NEW m, Whole(m), NEW a \in Buffers, NEW b \in Buffers,
         NEW n \in Nat, NEW root \in Procs,
         \A r \in Procs : n <= Room(r, b), call.p * n <= Room(root, a),
         NEW s, \/ s = Scatter(Pointer(a), Pointer(b), n, root)
                \/ s = Scatterv(Pointer(a), Pointer(b), Blocks(n), Strided(n), root)
  PROVE  Into(s, Procs, Pointer(b)) /\ Deals(m, a, After(m, s), b, n, root)
<1> DEFINE given == ScattervMoves(Pointer(a), Pointer(b), Blocks(n), Strided(n), root)
<1>1. PICK name : s = Step(name, given) BY Zenon DEF Scatter, Scatterv
<1>2. Into(s, Procs, Pointer(b)) BY <1>1, ScatterInto, EachPointer
<1>3. ASSUME NEW r \in Procs, NEW i \in 1..n
      PROVE  After(m, s)[r][b][i] = m[root][a][r * n + i]
  <2>1. Blocks(n)[r] = n /\ Strided(n)[r] = r * n BY BlocksAre
  <2>2. r * n + i \in 1 .. Room(root, a) BY BlockWide
  <2>3. Wide(Pointer(b)[r], n) BY WidePointer
  <2>4. Read(After(m, s), Pointer(b)[r], i) = Read(m, Plus(Pointer(a)[root], r * n), i)
    <3> DEFINE counts == Blocks(n)
               offs == Strided(n)
               in == Pointer(a)
               out == Pointer(b)
    <3>1. Each(out) BY EachPointer
    <3>2. counts[r] = n /\ Wide(out[r], n) BY <2>1, <2>3
    <3> DEFINE moves == ScattervMoves(in, out, counts, offs, root)
    <3>3. s = Step(name, moves) BY <1>1
    <3> HIDE DEF counts, offs, in, out, given
    <3>4. Read(After(m, Step(name, moves)), out[r], i) = Read(m, Plus(in[root], offs[r]), i)
      BY <3>1, <3>2, Scattered
    <3> QED BY <2>1, <3>3, <3>4 DEF in, out, offs
  <2>5. r * n \in Int /\ i \in Int BY InBlock
  <2>6. Read(m, Plus(Pointer(a)[root], r * n), i) = m[root][a][r * n + i]
    BY <2>2, <2>5, CellPlus
  <2>7. i \in 1 .. Room(r, b) BY RoomNat
  <2> QED BY <2>4, <2>6, <2>7, WholeAfter, CellIs
<1> QED BY <1>2, <1>3 DEF Deals

LEMMA BcastCells ==
  ASSUME call \in Calls, NEW m, Whole(m), NEW b \in Buffers, NEW n \in Nat,
         NEW root \in Procs, \A r \in Procs : n <= Room(r, b)
  PROVE  LET s == Bcast(Pointer(b), n, root)
         IN  /\ Into(s, Procs \ {root}, Pointer(b))
             /\ \A r \in Procs, k \in 1..n : After(m, s)[r][b][k] = m[root][b][k]
<1> DEFINE s == Bcast(Pointer(b), n, root)
<1>1. Into(s, Procs \ {root}, Pointer(b)) BY BcastInto, EachPointer
<1>2. ASSUME NEW r \in Procs, NEW k \in 1..n PROVE After(m, s)[r][b][k] = m[root][b][k]
  <2>1. Wide(Pointer(b)[r], n) BY WidePointer
  <2>2. Read(After(m, s), Pointer(b)[r], k) = Read(m, Pointer(b)[root], k)
    BY <2>1, Broadcast, EachPointer
  <2> HIDE DEF s
  <2>3. k \in 1 .. Room(r, b) /\ k \in 1 .. Room(root, b) BY RoomNat
  <2> QED BY <2>2, <2>3, WholeAfter, CellIs
<1> QED BY <1>1, <1>2

LEMMA AlltoallStep ==
  ASSUME call \in Calls, NEW m, Whole(m), NEW a \in Buffers, NEW b \in Buffers,
         NEW n \in Nat,
         \A r \in Procs : call.p * n <= Room(r, a) /\ call.p * n <= Room(r, b),
         NEW s, \/ s = Alltoall(Pointer(a), Pointer(b), n)
                \/ s = Alltoallv(Pointer(a), Pointer(b), Blocks(n), Strided(n), Strided(n))
  PROVE  Into(s, Procs, Pointer(b)) /\ Trades(m, a, After(m, s), b, n)
<1> DEFINE given == AlltoallvMoves(Pointer(a), Pointer(b), Blocks(n), Strided(n), Strided(n))
<1>1. PICK name : s = Step(name, given) BY Zenon DEF Alltoall, Alltoallv
<1>2. Into(s, Procs, Pointer(b)) BY <1>1, ExchangeInto, EachPointer
<1>3. ASSUME NEW r \in Procs, NEW q \in Procs, NEW i \in 1..n
      PROVE  After(m, s)[r][b][q * n + i] = m[q][a][r * n + i]
  <2>1. Wide(Plus(Pointer(b)[r], q * n), n) /\ q * n + i \in 1 .. Room(r, b) BY BlockWide
  <2>2. r * n + i \in 1 .. Room(q, a) BY BlockWide
  <2>3. Read(After(m, s), Plus(Pointer(b)[r], q * n), i)
          = Read(m, Plus(Pointer(a)[q], r * n), i)
    BY <1>1, <2>1, Exchanged, EachPointer
  <2>4. q * n \in Int /\ r * n \in Int /\ i \in Int BY InBlock
  <2>5. Read(After(m, s), Plus(Pointer(b)[r], q * n), i) = After(m, s)[r][b][q * n + i]
    BY <2>1, <2>4, WholeAfter, CellPlus
  <2>6. Read(m, Plus(Pointer(a)[q], r * n), i) = m[q][a][r * n + i]
    BY <2>2, <2>4, CellPlus
  <2> QED BY <2>3, <2>5, <2>6
<1> QED BY <1>2, <1>3 DEF Trades

LEMMA ReduceCells ==
  ASSUME call \in Calls, NEW m, Whole(m), NEW a, NEW b \in Buffers,
         NEW n \in Nat, NEW root \in Procs, n <= Room(root, b)
  PROVE  LET s == Reduce(Pointer(a), Pointer(b), n, root)
         IN  /\ Into(s, {root}, Pointer(b))
             /\ \A k \in 1..n :
                  After(m, s)[root][b][k] = Reduction(m, InOrder(Pointer(a), call.p), k)
<1> DEFINE s == Reduce(Pointer(a), Pointer(b), n, root)
<1>1. Into(s, {root}, Pointer(b)) BY ReduceInto, EachPointer
<1>2. ASSUME NEW k \in 1..n
      PROVE  After(m, s)[root][b][k] = Reduction(m, InOrder(Pointer(a), call.p), k)
  <2>1. Wide(Pointer(b)[root], n) BY WidePointer
  <2>2. Read(After(m, s), Pointer(b)[root], k) = Reduction(m, InOrder(Pointer(a), call.p), k)
    BY <2>1, Reduced
  <2> HIDE DEF s
  <2>3. k \in 1 .. Room(root, b) BY RoomNat
  <2> QED BY <2>2, <2>3, WholeAfter, CellIs
<1> QED BY <1>1, <1>2

LEMMA AllreduceCells ==
  ASSUME call \in Calls, NEW m, Whole(m), NEW a, NEW b \in Buffers,
         NEW n \in Nat, \A r \in Procs : n <= Room(r, b)
  PROVE  LET s == Allreduce(Pointer(a), Pointer(b), n)
         IN  /\ Into(s, Procs, Pointer(b))
             /\ \A r \in Procs, k \in 1..n :
                  After(m, s)[r][b][k] = Reduction(m, InOrder(Pointer(a), call.p), k)
<1> DEFINE s == Allreduce(Pointer(a), Pointer(b), n)
<1>1. Into(s, Procs, Pointer(b)) BY AllreduceInto, EachPointer
<1>2. ASSUME NEW r \in Procs, NEW k \in 1..n
      PROVE  After(m, s)[r][b][k] = Reduction(m, InOrder(Pointer(a), call.p), k)
  <2>1. Wide(Pointer(b)[r], n) /\ Each(Pointer(b)) BY WidePointer, EachPointer
  <2>2. Read(After(m, s), Pointer(b)[r], k) = Reduction(m, InOrder(Pointer(a), call.p), k)
    BY <2>1, Allreduced
  <2> HIDE DEF s
  <2>3. k \in 1 .. Room(r, b) BY RoomNat
  <2> QED BY <2>2, <2>3, WholeAfter, CellIs
<1> QED BY <1>1, <1>2

LEMMA ReduceScatterCells ==
  ASSUME call \in Calls, NEW m, Whole(m), NEW a, NEW b \in Buffers, NEW name, NEW counts,
         \A r \in Procs : counts[r] \in Nat /\ counts[r] <= Room(r, b)
  PROVE  LET s == Step(name, ReduceScatterMoves(Pointer(a), Pointer(b), counts))
         IN  /\ Into(s, Procs, Pointer(b))
             /\ \A r \in Procs : \A k \in 1 .. counts[r] :
                  After(m, s)[r][b][k]
                    = Reduction(m, InOrder(Parts(Pointer(a), counts, r), call.p), k)
<1> DEFINE s == Step(name, ReduceScatterMoves(Pointer(a), Pointer(b), counts))
<1>1. Into(s, Procs, Pointer(b)) BY ReduceScatterInto, EachPointer
<1>2. ASSUME NEW r \in Procs, NEW k \in 1 .. counts[r]
      PROVE  After(m, s)[r][b][k]
               = Reduction(m, InOrder(Parts(Pointer(a), counts, r), call.p), k)
  <2>1. Wide(Pointer(b)[r], counts[r]) /\ Each(Pointer(b)) BY WidePointer, EachPointer
  <2>2. counts[r] \in Int OBVIOUS
  <2>3. Read(After(m, s), Pointer(b)[r], k)
          = Reduction(m, InOrder(Parts(Pointer(a), counts, r), call.p), k)
    BY <2>1, <2>2, ReduceScattered
  <2> HIDE DEF s
  <2>4. k \in 1 .. Room(r, b) BY RoomNat
  <2> QED BY <2>3, <2>4, WholeAfter, CellIs
<1> QED BY <1>1, <1>2

(* The reduction of what every process has in a buffer.                    *)
Contribute(m, a, j, c) ==
  \A q \in Procs : j \in 1 .. Room(q, a) /\ m[q][a][j] = << Value(q, c) >>

LEMMA EveryoneCells ==
  ASSUME call \in Calls, NEW m, Whole(m), NEW a \in Buffers, NEW k, NEW c,
         Contribute(m, a, k, c)
  PROVE  Reduction(m, InOrder(Pointer(a), call.p), k) = Everyone(call.p, c)
<1>1. call.p \in Nat /\ Procs = 0 .. call.p - 1 BY CallTypes
<1>2. ASSUME NEW q \in Procs PROVE Read(m, Pointer(a)[q], k) = << Value(q, c) >>
  BY CellIs DEF Contribute
<1> QED BY <1>1, <1>2, ReduceEveryone

LEMMA SingleCells ==
  ASSUME call \in Calls, NEW m, Whole(m), NEW a \in Buffers, NEW k, NEW x \in Procs, NEW w,
         m[x][a][k] = << w >>,
         \A q \in Procs : k \in 1 .. Room(q, a) /\ (q # x => m[q][a][k] = << >>)
  PROVE  Reduction(m, InOrder(Pointer(a), call.p), k) = << w >>
<1>1. call.p \in Nat /\ Procs = 0 .. call.p - 1 BY CallTypes
<1>2. Read(m, Pointer(a)[x], k) = << w >> BY CellIs
<1>3. ASSUME NEW q \in Procs, q # x PROVE Read(m, Pointer(a)[q], k) = << >>
  BY <1>3, CellIs
<1> QED BY <1>1, <1>2, <1>3, ReduceSingle

LEMMA PartRead ==
  ASSUME NEW m, Whole(m), NEW a \in Buffers, NEW off \in Int, NEW k \in Int, NEW c,
         Contribute(m, a, off + k, c), NEW q \in Procs
  PROVE  Read(m, Plus(Pointer(a)[q], off), k) = << Value(q, c) >>
<1>1. off + k \in 1 .. Room(q, a) /\ m[q][a][off + k] = << Value(q, c) >>
  BY DEF Contribute
<1>2. off + k \in 1 .. Room(q, a) BY <1>1
<1>3. Read(m, Plus(Pointer(a)[q], off), k) = m[q][a][off + k] BY ONLY Whole(m), <1>2, CellPlus
<1> QED BY <1>1, <1>3, Zenon

LEMMA PartsCells ==
  ASSUME call \in Calls, NEW m, Whole(m), NEW a \in Buffers, NEW counts, NEW r \in Procs,
         NEW off \in Int, Before(counts, r) = off, NEW k \in Int, NEW c,
         Contribute(m, a, off + k, c)
  PROVE  Reduction(m, InOrder(Parts(Pointer(a), counts, r), call.p), k) = Everyone(call.p, c)
<1>1. call.p \in Nat /\ Procs = 0 .. call.p - 1 BY CallTypes
<1> DEFINE in == Parts(Pointer(a), counts, r)
<1>2. \A q \in Procs : in[q] = Plus(Pointer(a)[q], off) BY DEF Parts
<1> HIDE DEF in
<1>3. ASSUME NEW q \in Procs PROVE Read(m, in[q], k) = << Value(q, c) >>
  BY <1>2, PartRead
<1>4. Reduction(m, InOrder(in, call.p), k) = Everyone(call.p, c)
  BY <1>1, <1>3, ReduceEveryone
<1> QED BY <1>4 DEF in

-------------------------------------------------------------------------------
(* What a mock-up starts from and what it has to leave.                    *)

(* The send buffers hold what their processes passed.                      *)
Given(m) ==
  /\ Whole(m)
  /\ \A r \in Procs : \A k \in 1 .. SendLen(r) : m[r]["send"][k] = << Value(r, k) >>

(* So does the buffer of a broadcast, on the root.                         *)
Started(m) ==
  /\ Given(m)
  /\ call.coll = "Bcast" => \A k \in 1..N : m[Root]["recv"][k] = << Value(Root, k) >>

Right(m) ==
  /\ Given(m)
  /\ \A r \in Procs : \A k \in 1 .. RecvLen(r) : SameValue(m[r]["recv"][k], Expected(r)[k])

LEMMA GivenAfter ==
  ASSUME NEW m, Given(m), NEW s, NEW who, NEW out, Into(s, who, out),
         \A r \in Procs : r \in who => out[r].buf # "send"
  PROVE  Given(After(m, s))
<1>1. Whole(m) BY DEF Given
<1>2. Whole(After(m, s)) BY <1>1, WholeAfter
<1>3. "send" \in Buffers BY Names
<1>4. ASSUME NEW r \in Procs PROVE After(m, s)[r]["send"] = m[r]["send"]
  <2>1. r \notin who \/ "send" # out[r].buf OBVIOUS
  <2> QED BY <1>1, <1>3, <2>1, Spared
<1> QED BY <1>2, <1>4 DEF Given

LEMMA GivenStill ==
  ASSUME NEW m, Given(m), NEW s, NEW who, NEW b \in Buffers \ {"send"},
         Into(s, who, Pointer(b))
  PROVE  Given(After(m, s)) /\ Whole(After(m, s))
<1>1. \A r \in Procs : Pointer(b)[r].buf # "send" BY EachPointer
<1>2. Given(After(m, s)) BY <1>1, GivenAfter
<1> QED BY <1>2 DEF Given

(* The send buffer of a process.                                           *)
LEMMA Passed ==
  ASSUME call \in Calls, NEW m, Given(m), NEW q \in Procs, NEW k \in 1 .. Room(q, "send")
  PROVE  m[q]["send"][k] = << Value(q, k) >>
<1>1. Room(q, "send") = SendLen(q) BY DEF Room
<1> QED BY <1>1 DEF Given

LEMMA SameIs == ASSUME NEW v, NEW w, v = w PROVE SameValue(v, w)
BY DEF SameValue

LEMMA AllreduceRight ==
  ASSUME call \in Calls, call.coll = "Allreduce", NEW m, Given(m),
         \A r \in Procs : \A k \in 1..N : m[r]["recv"][k] = Everyone(call.p, k)
  PROVE  Right(m)
<1>1. ASSUME NEW r \in Procs, NEW k \in 1 .. RecvLen(r)
      PROVE  SameValue(m[r]["recv"][k], Expected(r)[k])
  <2>1. RecvLen(r) = N BY DEF RecvLen
  <2>2. Expected(r)[k] = Everyone(call.p, k) BY DEF Expected
  <2> QED BY <2>1, <2>2, SameIs
<1> QED BY <1>1 DEF Right

LEMMA ReduceRight ==
  ASSUME call \in Calls, call.coll = "Reduce", NEW m, Given(m),
         \A k \in 1..N : m[Root]["recv"][k] = Everyone(call.p, k)
  PROVE  Right(m)
<1>1. ASSUME NEW r \in Procs, NEW k \in 1 .. RecvLen(r)
      PROVE  SameValue(m[r]["recv"][k], Expected(r)[k])
  <2>1. RecvLen(r) = IF r = Root THEN N ELSE 0 BY DEF RecvLen, Rooted
  <2>2. r = Root /\ k \in 1..N BY <2>1
  <2>3. Expected(r)[k] = Everyone(call.p, k) BY DEF Expected
  <2> QED BY <2>2, <2>3, SameIs
<1> QED BY <1>1 DEF Right

LEMMA BcastRight ==
  ASSUME call \in Calls, call.coll = "Bcast", NEW m, Given(m),
         \A r \in Procs : \A k \in 1..N : m[r]["recv"][k] = << Value(Root, k) >>
  PROVE  Right(m)
<1>1. ASSUME NEW r \in Procs, NEW k \in 1 .. RecvLen(r)
      PROVE  SameValue(m[r]["recv"][k], Expected(r)[k])
  <2>1. RecvLen(r) = N BY DEF RecvLen
  <2>2. Expected(r)[k] = << Value(Root, k) >> BY DEF Expected
  <2> QED BY <2>1, <2>2, SameIs
<1> QED BY <1>1 DEF Right

LEMMA ReduceScatterRight ==
  ASSUME call \in Calls, call.coll = "Reduce_scatter_block", NEW m, Given(m),
         \A r \in Procs : \A k \in 1..N : m[r]["recv"][k] = Everyone(call.p, r * N + k)
  PROVE  Right(m)
<1>1. ASSUME NEW r \in Procs, NEW k \in 1 .. RecvLen(r)
      PROVE  SameValue(m[r]["recv"][k], Expected(r)[k])
  <2>1. RecvLen(r) = N BY DEF RecvLen
  <2>2. Expected(r)[k] = Everyone(call.p, r * N + k) BY DEF Expected
  <2> QED BY <2>1, <2>2, SameIs
<1> QED BY <1>1 DEF Right

LEMMA ScatterRight ==
  ASSUME call \in Calls, call.coll = "Scatter", NEW m, Given(m),
         \A r \in Procs : \A k \in 1..N : m[r]["recv"][k] = << Value(Root, r * N + k) >>
  PROVE  Right(m)
<1>1. ASSUME NEW r \in Procs, NEW k \in 1 .. RecvLen(r)
      PROVE  SameValue(m[r]["recv"][k], Expected(r)[k])
  <2>1. RecvLen(r) = N BY DEF RecvLen
  <2>2. Expected(r)[k] = << Value(Root, r * N + k) >> BY DEF Expected
  <2> QED BY <2>1, <2>2, SameIs
<1> QED BY <1>1 DEF Right

LEMMA ScanRight ==
  ASSUME call \in Calls, call.coll = "Scan", NEW m, Given(m),
         \A r \in Procs : \A k \in 1..N : SameValue(m[r]["recv"][k], Everyone(r + 1, k))
  PROVE  Right(m)
<1>1. ASSUME NEW r \in Procs, NEW k \in 1 .. RecvLen(r)
      PROVE  SameValue(m[r]["recv"][k], Expected(r)[k])
  <2>1. RecvLen(r) = N BY DEF RecvLen
  <2>2. Expected(r)[k] = Everyone(r + 1, k) BY DEF Expected
  <2> QED BY <2>1, <2>2
<1> QED BY <1>1 DEF Right

(* Results that come in blocks.                                            *)
LEMMA InBlocksRight ==
  ASSUME call \in Calls, call.coll \in {"Allgather", "Gather"}, NEW m, Given(m), NEW who,
         \A r \in Procs : call.coll = "Gather" => (r \in who <=> r = Root),
         call.coll = "Allgather" => who = Procs,
         \A r \in who, q \in Procs : \A i \in 1..N :
           m[r]["recv"][q * N + i] = << Value(q, i) >>
  PROVE  Right(m)
<1>1. ASSUME NEW r \in Procs, NEW k \in 1 .. RecvLen(r)
      PROVE  SameValue(m[r]["recv"][k], Expected(r)[k])
  <2>1. RecvLen(r) = IF r \in who THEN call.p * N ELSE 0 BY DEF RecvLen, Rooted
  <2>2. r \in who /\ k \in 1 .. call.p * N BY <2>1
  <2>3. N \in Nat BY CallTypes
  <2>4. PICK q \in Procs, i \in 1..N :
          k = q * N + i /\ q = (k - 1) \div N /\ i = ((k - 1) % N) + 1
    BY <2>2, <2>3, ByBlocks
  <2>5. Expected(r)[k] = << Value((k - 1) \div N, ((k - 1) % N) + 1) >> BY DEF Expected
  <2>6. m[r]["recv"][q * N + i] = << Value(q, i) >> BY <2>2
  <2>7. m[r]["recv"][k] = Expected(r)[k] BY <2>4, <2>5, <2>6, Zenon
  <2> QED BY <2>7, SameIs
<1> QED BY <1>1 DEF Right

LEMMA AllgatherRight ==
  ASSUME call \in Calls, call.coll = "Allgather", NEW m, Given(m),
         \A r, q \in Procs : \A i \in 1..N : m[r]["recv"][q * N + i] = << Value(q, i) >>
  PROVE  Right(m)
<1> DEFINE who == Procs
<1>1. \A r \in who, q \in Procs : \A i \in 1..N :
        m[r]["recv"][q * N + i] = << Value(q, i) >>
  OBVIOUS
<1>2. /\ call.coll \in {"Allgather", "Gather"}
      /\ \A r \in Procs : call.coll = "Gather" => (r \in who <=> r = Root)
      /\ call.coll = "Allgather" => who = Procs
  OBVIOUS
<1> HIDE DEF who
<1> QED BY <1>1, <1>2, InBlocksRight

LEMMA GatherRight ==
  ASSUME call \in Calls, call.coll = "Gather", NEW m, Given(m),
         \A q \in Procs : \A i \in 1..N : m[Root]["recv"][q * N + i] = << Value(q, i) >>
  PROVE  Right(m)
<1> DEFINE who == {Root}
<1>1. \A r \in who : r = Root OBVIOUS
<1>2. /\ call.coll \in {"Allgather", "Gather"}
      /\ \A r \in Procs : call.coll = "Gather" => (r \in who <=> r = Root)
      /\ call.coll = "Allgather" => who = Procs
  OBVIOUS
<1> HIDE DEF who
<1>3. \A r \in who, q \in Procs : \A i \in 1..N :
        m[r]["recv"][q * N + i] = << Value(q, i) >>
  BY <1>1, Zenon
<1> QED BY <1>2, <1>3, InBlocksRight

LEMMA AlltoallRight ==
  ASSUME call \in Calls, call.coll = "Alltoall", NEW m, Given(m),
         \A r, q \in Procs : \A i \in 1..N :
           m[r]["recv"][q * N + i] = << Value(q, r * N + i) >>
  PROVE  Right(m)
<1>1. ASSUME NEW r \in Procs, NEW k \in 1 .. RecvLen(r)
      PROVE  SameValue(m[r]["recv"][k], Expected(r)[k])
  <2>1. RecvLen(r) = call.p * N BY DEF RecvLen
  <2>2. N \in Nat BY CallTypes
  <2>3. PICK q \in Procs, i \in 1..N :
          k = q * N + i /\ q = (k - 1) \div N /\ i = ((k - 1) % N) + 1
    BY <2>1, <2>2, ByBlocks
  <2>4. Expected(r)[k] = << Value((k - 1) \div N, r * N + (((k - 1) % N) + 1)) >>
    BY DEF Expected
  <2>5. m[r]["recv"][q * N + i] = << Value(q, r * N + i) >> OBVIOUS
  <2>6. m[r]["recv"][k] = Expected(r)[k] BY <2>3, <2>4, <2>5, Zenon
  <2> QED BY <2>6, SameIs
<1> QED BY <1>1 DEF Right

-------------------------------------------------------------------------------
(* The mock-ups of one or two steps on whole buffers.                      *)

LEMMA UserBuffers ==
  /\ "send" \in Buffers /\ "recv" \in Buffers \ {"send"}
  /\ "msg1" \in Buffers \ {"send"} /\ "msg2" \in Buffers \ {"send"}
BY DEF Buffers

(* The rooms that the lemmas about the steps ask for.                      *)
LEMMA Roomy ==
  ASSUME call \in Calls
  PROVE  /\ N \in Nat /\ call.p * N \in Nat /\ N <= call.p * N
         /\ Root \in Procs /\ mockup_root_rank \in Procs /\ 0 \in Procs
         /\ N * call.p = call.p * N
<1>1. call.p \in Nat \ {0} /\ N \in Nat /\ Procs = 0 .. call.p - 1 BY CallTypes
<1>2. 0 \in Procs BY <1>1
<1>3. 0 * N + N <= call.p * N /\ call.p * N \in Nat BY <1>1, <1>2, InBlock
<1>4. 0 * N + N = N /\ N * call.p = call.p * N BY <1>1
<1> QED BY <1>1, <1>2, <1>3, <1>4, RootType

LEMMA AllgathervRight ==
  ASSUME call \in Calls, Is("Allgather", 1), NEW m, Given(m)
  PROVE  Right(After(m, Allgatherv(sendbuf, recvbuf, Blocks(N), Strided(N))))
<1> DEFINE s == Allgatherv(sendbuf, recvbuf, Blocks(N), Strided(N))
           m1 == After(m, s)
<1>1. \A r \in Procs : Room(r, "send") = N /\ Room(r, "recv") = call.p * N
  BY UserRooms DEF Is
<1>2. N \in Nat /\ Whole(m) BY Roomy DEF Given
<1>3. \A r \in Procs : N <= Room(r, "send") /\ call.p * N <= Room(r, "recv")
  BY <1>1, Roomy
<1>4. s = Allgatherv(Pointer("send"), Pointer("recv"), Blocks(N), Strided(N)) BY Names, Zenon
<1> HIDE DEF s
<1>5. Into(s, Procs, Pointer("recv")) /\ Collects(m, "send", m1, "recv", N, Procs)
  BY <1>2, <1>3, <1>4, UserBuffers, AllgatherStep
<1>6. Given(m1) BY <1>5, UserBuffers, GivenStill
<1>7. \A q \in Procs : \A i \in 1..N : m[q]["send"][i] = << Value(q, i) >>
  BY <1>1, Passed
<1> HIDE DEF m1
<1>8. \A r, q \in Procs : \A i \in 1..N : m1[r]["recv"][q * N + i] = << Value(q, i) >>
  BY <1>5, <1>7, Zenon DEF Collects
<1>9. Right(m1) BY <1>6, <1>8, AllgatherRight DEF Is
<1> QED BY <1>9 DEF m1, s

LEMMA AlltoallvRight ==
  ASSUME call \in Calls, Is("Alltoall", 1), NEW m, Given(m)
  PROVE  Right(After(m, Alltoallv(sendbuf, recvbuf, Blocks(N), Strided(N), Strided(N))))
<1> DEFINE s == Alltoallv(sendbuf, recvbuf, Blocks(N), Strided(N), Strided(N))
           m1 == After(m, s)
<1>1. \A r \in Procs : Room(r, "send") = call.p * N /\ Room(r, "recv") = call.p * N
  BY UserRooms DEF Is
<1>2. N \in Nat /\ Whole(m) BY Roomy DEF Given
<1>3. \A r \in Procs : call.p * N <= Room(r, "send") /\ call.p * N <= Room(r, "recv")
  BY <1>1, Roomy
<1>4. s = Alltoallv(Pointer("send"), Pointer("recv"), Blocks(N), Strided(N), Strided(N))
  BY Names, Zenon
<1> HIDE DEF s
<1>5. Into(s, Procs, Pointer("recv")) /\ Trades(m, "send", m1, "recv", N)
  BY <1>2, <1>3, <1>4, UserBuffers, AlltoallStep
<1>6. Given(m1) BY <1>5, UserBuffers, GivenStill
<1>7. \A q, r \in Procs : \A i \in 1..N : m[q]["send"][r * N + i] = << Value(q, r * N + i) >>
  BY <1>1, <1>2, InBlock, Passed
<1> HIDE DEF m1
<1>8. \A r, q \in Procs : \A i \in 1..N :
        m1[r]["recv"][q * N + i] = << Value(q, r * N + i) >>
  BY <1>5, <1>7, ZenonT(60) DEF Trades
<1>9. Right(m1) BY <1>6, <1>8, AlltoallRight DEF Is
<1> QED BY <1>9 DEF m1, s

LEMMA GathervRight ==
  ASSUME call \in Calls, Is("Gather", 2), NEW m, Given(m)
  PROVE  Right(After(m, Gatherv(sendbuf, recvbuf, Blocks(N), Strided(N), Root)))
<1> DEFINE s == Gatherv(sendbuf, recvbuf, Blocks(N), Strided(N), Root)
           m1 == After(m, s)
<1>1. (\A r \in Procs : Room(r, "send") = N) /\ Room(Root, "recv") = call.p * N
  BY Roomy, UserRooms DEF Is
<1>2. N \in Nat /\ Whole(m) /\ Root \in Procs BY Roomy DEF Given
<1>3. (\A r \in Procs : N <= Room(r, "send")) /\ call.p * N <= Room(Root, "recv")
  BY <1>1, Roomy
<1>4. s = Gatherv(Pointer("send"), Pointer("recv"), Blocks(N), Strided(N), Root)
  BY Names, Zenon
<1> HIDE DEF s
<1>5. Into(s, {Root}, Pointer("recv")) /\ Collects(m, "send", m1, "recv", N, {Root})
  BY <1>2, <1>3, <1>4, UserBuffers, GatherStep
<1>6. Given(m1) BY <1>5, UserBuffers, GivenStill
<1>7. \A q \in Procs : \A i \in 1..N : m[q]["send"][i] = << Value(q, i) >>
  BY <1>1, Passed
<1> HIDE DEF m1
<1>8. \A q \in Procs : \A i \in 1..N : m1[Root]["recv"][q * N + i] = << Value(q, i) >>
  BY <1>5, <1>7 DEF Collects
<1>9. Right(m1) BY <1>6, <1>8, GatherRight DEF Is
<1> QED BY <1>9 DEF m1, s

LEMMA ScattervRight ==
  ASSUME call \in Calls, Is("Scatter", 2), NEW m, Given(m)
  PROVE  Right(After(m, Scatterv(sendbuf, recvbuf, Blocks(N), Strided(N), Root)))
<1> DEFINE s == Scatterv(sendbuf, recvbuf, Blocks(N), Strided(N), Root)
           m1 == After(m, s)
<1>1. (\A r \in Procs : Room(r, "recv") = N) /\ Room(Root, "send") = call.p * N
  BY Roomy, UserRooms DEF Is
<1>2. N \in Nat /\ Whole(m) /\ Root \in Procs BY Roomy DEF Given
<1>3. (\A r \in Procs : N <= Room(r, "recv")) /\ call.p * N <= Room(Root, "send")
  BY <1>1, Roomy
<1>4. s = Scatterv(Pointer("send"), Pointer("recv"), Blocks(N), Strided(N), Root)
  BY Names, Zenon
<1> HIDE DEF s
<1>5. Into(s, Procs, Pointer("recv")) /\ Deals(m, "send", m1, "recv", N, Root)
  BY <1>2, <1>3, <1>4, UserBuffers, ScatterStep
<1>6. Given(m1) BY <1>5, UserBuffers, GivenStill
<1>7. \A r \in Procs : \A i \in 1..N :
        m[Root]["send"][r * N + i] = << Value(Root, r * N + i) >>
  BY <1>1, <1>2, InBlock, Passed
<1> HIDE DEF m1
<1>8. \A r \in Procs : \A k \in 1..N : m1[r]["recv"][k] = << Value(Root, r * N + k) >>
  BY <1>5, <1>7, Zenon DEF Deals
<1>9. Right(m1) BY <1>6, <1>8, ScatterRight DEF Is
<1> QED BY <1>9 DEF m1, s

LEMMA GatherBcastRight ==
  ASSUME call \in Calls, Is("Allgather", 4), NEW m, Given(m), NEW m1,
         m1 = After(m, Gather(sendbuf, recvbuf, N, mockup_root_rank))
  PROVE  Right(After(m1, Bcast(recvbuf, N * call.p, mockup_root_rank)))
<1> DEFINE root == mockup_root_rank
           all == N * call.p
           s == Gather(sendbuf, recvbuf, N, root)
           t == Bcast(Pointer("recv"), all, root)
           m2 == After(m1, t)
<1>1. \A r \in Procs : Room(r, "send") = N /\ Room(r, "recv") = call.p * N
  BY UserRooms DEF Is
<1>2. N \in Nat /\ Whole(m) /\ root \in Procs /\ all = call.p * N /\ all \in Nat
  BY Roomy DEF Given
<1> HIDE DEF root, all
<1>3. \A r \in Procs : /\ N <= Room(r, "send") /\ call.p * N <= Room(r, "recv")
                       /\ all <= Room(r, "recv")
  BY <1>1, <1>2, Roomy
<1>4. s = Gather(Pointer("send"), Pointer("recv"), N, root) BY Names, Zenon
<1>5. m1 = After(m, s) BY DEF root
<1> HIDE DEF s
<1>6. Into(s, {root}, Pointer("recv")) /\ Collects(m, "send", m1, "recv", N, {root})
  BY <1>2, <1>3, <1>4, <1>5, UserBuffers, GatherStep
<1>7. Given(m1) /\ Whole(m1) BY <1>5, <1>6, UserBuffers, GivenStill
<1>8. \A q \in Procs : \A i \in 1..N : m[q]["send"][i] = << Value(q, i) >>
  BY <1>1, Passed
<1>9. \A q \in Procs : \A i \in 1..N : m1[root]["recv"][q * N + i] = << Value(q, i) >>
  BY <1>6, <1>8 DEF Collects
<1>10. /\ Into(t, Procs \ {root}, Pointer("recv"))
       /\ \A r \in Procs, k \in 1..all : After(m1, t)[r]["recv"][k] = m1[root]["recv"][k]
  BY <1>2, <1>3, <1>7, UserBuffers, BcastCells
<1> HIDE DEF t
<1>11. Given(m2) BY <1>7, <1>10, UserBuffers, GivenStill
<1>12. \A q \in Procs : \A i \in 1..N : q * N + i \in 1..all BY <1>2, InBlock
<1>13. \A r, q \in Procs : \A i \in 1..N : m2[r]["recv"][q * N + i] = << Value(q, i) >>
  BY <1>9, <1>10, <1>12, Zenon
<1> HIDE DEF m2
<1>14. Right(m2) BY <1>11, <1>13, AllgatherRight DEF Is
<1> QED BY <1>14, Names DEF m2, t, all, root

LEMMA ReduceBcastRight ==
  ASSUME call \in Calls, Is("Allreduce", 1), NEW m, Given(m), NEW m1,
         m1 = After(m, Reduce(sendbuf, recvbuf, N, mockup_root_rank))
  PROVE  Right(After(m1, Bcast(recvbuf, N, mockup_root_rank)))
<1> DEFINE root == mockup_root_rank
           s == Reduce(Pointer("send"), Pointer("recv"), N, root)
           t == Bcast(Pointer("recv"), N, root)
           m2 == After(m1, t)
<1>1. \A r \in Procs : Room(r, "send") = N /\ Room(r, "recv") = N
  BY UserRooms DEF Is
<1>2. N \in Nat /\ Whole(m) /\ root \in Procs BY Roomy DEF Given
<1> HIDE DEF root
<1>3. \A r \in Procs : N <= Room(r, "recv") BY <1>1, <1>2
<1>4. m1 = After(m, s) BY Names DEF root
<1>5. /\ Into(s, {root}, Pointer("recv"))
      /\ \A k \in 1..N :
           After(m, s)[root]["recv"][k] = Reduction(m, InOrder(Pointer("send"), call.p), k)
  BY <1>2, <1>3, UserBuffers, ReduceCells
<1> HIDE DEF s
<1>6. Given(m1) /\ Whole(m1) BY <1>4, <1>5, UserBuffers, GivenStill
<1>7. \A k \in 1..N : Contribute(m, "send", k, k) BY <1>1, Passed DEF Contribute
<1>8. \A k \in 1..N : m1[root]["recv"][k] = Everyone(call.p, k)
  BY <1>2, <1>4, <1>5, <1>7, UserBuffers, EveryoneCells
<1>9. /\ Into(t, Procs \ {root}, Pointer("recv"))
      /\ \A r \in Procs, k \in 1..N : After(m1, t)[r]["recv"][k] = m1[root]["recv"][k]
  BY <1>2, <1>3, <1>6, UserBuffers, BcastCells
<1> HIDE DEF t
<1>10. Given(m2) BY <1>6, <1>9, UserBuffers, GivenStill
<1>11. \A r \in Procs : \A k \in 1..N : m2[r]["recv"][k] = Everyone(call.p, k)
  BY <1>8, <1>9, Zenon
<1> HIDE DEF m2
<1>12. Right(m2) BY <1>10, <1>11, AllreduceRight DEF Is
<1> QED BY <1>12, Names DEF m2, t, root

(* Every process gets its part of the reduction.                           *)
LEMMA ReduceScatterStep ==
  ASSUME call \in Calls, NEW m, Whole(m), NEW a \in Buffers, NEW b \in Buffers, NEW counts,
         NEW offs,
         \A r \in Procs : /\ counts[r] \in Nat /\ counts[r] <= Room(r, b)
                          /\ offs[r] \in Int /\ Before(counts, r) = offs[r],
         NEW name, NEW s, s = Step(name, ReduceScatterMoves(Pointer(a), Pointer(b), counts))
  PROVE  /\ Into(s, Procs, Pointer(b))
         /\ \A r \in Procs : \A k \in 1 .. counts[r] :
              Contribute(m, a, offs[r] + k, offs[r] + k)
                => After(m, s)[r][b][k] = Everyone(call.p, offs[r] + k)
<1>1. /\ Into(s, Procs, Pointer(b))
      /\ \A r \in Procs : \A k \in 1 .. counts[r] :
           After(m, s)[r][b][k]
             = Reduction(m, InOrder(Parts(Pointer(a), counts, r), call.p), k)
  BY ReduceScatterCells
<1>2. ASSUME NEW r \in Procs, NEW k \in 1 .. counts[r],
             Contribute(m, a, offs[r] + k, offs[r] + k)
      PROVE  After(m, s)[r][b][k] = Everyone(call.p, offs[r] + k)
  <2> DEFINE off == offs[r]
             c == off + k
  <2>1. off \in Int /\ k \in Int /\ Before(counts, r) = off OBVIOUS
  <2>2. Contribute(m, a, off + k, c) BY <1>2
  <2> HIDE DEF off, c
  <2>3. Reduction(m, InOrder(Parts(Pointer(a), counts, r), call.p), k) = Everyone(call.p, c)
    BY <2>1, <2>2, PartsCells
  <2> QED BY <1>1, <2>3 DEF c, off
<1> QED BY <1>1, <1>2

LEMMA ReduceBlocksStep ==
  ASSUME call \in Calls, NEW m, Whole(m), NEW a \in Buffers, NEW b \in Buffers,
         NEW n \in Nat, \A r \in Procs : n <= Room(r, b),
         NEW s, \/ s = Reduce_scatter(Pointer(a), Pointer(b), Blocks(n))
                \/ s = Reduce_scatter_block(Pointer(a), Pointer(b), n)
  PROVE  /\ Into(s, Procs, Pointer(b))
         /\ \A r \in Procs : \A k \in 1..n :
              Contribute(m, a, r * n + k, r * n + k)
                => After(m, s)[r][b][k] = Everyone(call.p, r * n + k)
<1> DEFINE counts == Blocks(n)
           offs == Strided(n)
<1>1. PICK name : s = Step(name, ReduceScatterMoves(Pointer(a), Pointer(b), counts))
  BY Zenon DEF Reduce_scatter, Reduce_scatter_block
<1>2. ASSUME NEW r \in Procs
      PROVE  /\ counts[r] = n /\ offs[r] = r * n /\ r * n \in Int
             /\ Before(counts, r) = r * n
  BY BlocksAre, BeforeBlocks, InBlock
<1> HIDE DEF counts, offs
<1>3. \A r \in Procs : /\ counts[r] \in Nat /\ counts[r] <= Room(r, b)
                       /\ offs[r] \in Int /\ Before(counts, r) = offs[r]
  BY <1>2
<1>4. /\ Into(s, Procs, Pointer(b))
      /\ \A r \in Procs : \A k \in 1 .. counts[r] :
           Contribute(m, a, offs[r] + k, offs[r] + k)
             => After(m, s)[r][b][k] = Everyone(call.p, offs[r] + k)
  BY <1>1, <1>3, ReduceScatterStep
<1>5. ASSUME NEW r \in Procs, NEW k \in 1..n, Contribute(m, a, r * n + k, r * n + k)
      PROVE  After(m, s)[r][b][k] = Everyone(call.p, r * n + k)
  <2>1. counts[r] = n /\ offs[r] = r * n BY <1>2
  <2> QED BY <1>4, <1>5, <2>1, Zenon
<1> QED BY <1>4, <1>5

LEMMA ReduceScatterBlocksRight ==
  ASSUME call \in Calls, Is("Reduce_scatter_block", 2), NEW m, Given(m)
  PROVE  Right(After(m, Reduce_scatter(sendbuf, recvbuf, Blocks(N))))
<1> DEFINE s == Reduce_scatter(sendbuf, recvbuf, Blocks(N))
           m1 == After(m, s)
<1>1. \A r \in Procs : Room(r, "send") = call.p * N /\ Room(r, "recv") = N
  BY UserRooms DEF Is
<1>2. N \in Nat /\ Whole(m) BY Roomy DEF Given
<1>3. \A r \in Procs : N <= Room(r, "recv") BY <1>1, <1>2
<1>4. s = Reduce_scatter(Pointer("send"), Pointer("recv"), Blocks(N)) BY Names, Zenon
<1> HIDE DEF s
<1>5. /\ Into(s, Procs, Pointer("recv"))
      /\ \A r \in Procs : \A k \in 1..N :
           Contribute(m, "send", r * N + k, r * N + k)
             => After(m, s)[r]["recv"][k] = Everyone(call.p, r * N + k)
  BY <1>2, <1>3, <1>4, UserBuffers, ReduceBlocksStep
<1>6. Given(m1) BY <1>5, UserBuffers, GivenStill
<1>7. \A r \in Procs : \A k \in 1..N : Contribute(m, "send", r * N + k, r * N + k)
  BY <1>1, <1>2, InBlock, Passed DEF Contribute
<1>8. \A r \in Procs : \A k \in 1..N : m1[r]["recv"][k] = Everyone(call.p, r * N + k)
  BY <1>5, <1>7, Zenon
<1> HIDE DEF m1
<1>9. Right(m1) BY <1>6, <1>8, ReduceScatterRight DEF Is
<1> QED BY <1>9 DEF m1, s

LEMMA ReduceThenScatterRight ==
  ASSUME call \in Calls, Is("Reduce_scatter_block", 1), NEW m, Given(m), NEW m1,
         m1 = After(m, Reduce(sendbuf, aux_buf1, call.p * N, mockup_root_rank))
  PROVE  Right(After(m1, Scatter(aux_buf1, recvbuf, N, mockup_root_rank)))
<1> DEFINE root == mockup_root_rank
           all == call.p * N
           s == Reduce(Pointer("send"), Pointer("msg1"), all, root)
           t == Scatter(Pointer("msg1"), Pointer("recv"), N, root)
           m2 == After(m1, t)
<1>1. \A r \in Procs : /\ Room(r, "send") = call.p * N /\ Room(r, "recv") = N
                       /\ Room(r, "msg1") = call.p * N
  BY UserRooms, RoomsAll DEF Is
<1>2. N \in Nat /\ Whole(m) /\ root \in Procs /\ all = call.p * N /\ all \in Nat
  BY Roomy DEF Given
<1> HIDE DEF root, all
<1>3. all <= Room(root, "msg1") /\ call.p * N <= Room(root, "msg1") BY <1>1, <1>2
<1>4. \A r \in Procs : N <= Room(r, "recv") BY <1>1, <1>2
<1>5. m1 = After(m, s) BY Names DEF root, all
<1>6. /\ Into(s, {root}, Pointer("msg1"))
      /\ \A k \in 1..all :
           After(m, s)[root]["msg1"][k] = Reduction(m, InOrder(Pointer("send"), call.p), k)
  BY <1>2, <1>3, UserBuffers, ReduceCells
<1> HIDE DEF s
<1>7. Given(m1) /\ Whole(m1) BY <1>5, <1>6, UserBuffers, GivenStill
<1>8. \A k \in 1..all : Contribute(m, "send", k, k) BY <1>1, <1>2, Passed DEF Contribute
<1>9. \A k \in 1..all : m1[root]["msg1"][k] = Everyone(call.p, k)
  BY <1>2, <1>5, <1>6, <1>8, UserBuffers, EveryoneCells
<1>10. Into(t, Procs, Pointer("recv")) /\ Deals(m1, "msg1", m2, "recv", N, root)
  BY <1>2, <1>3, <1>4, <1>7, UserBuffers, ScatterStep
<1> HIDE DEF t
<1>11. Given(m2) BY <1>7, <1>10, UserBuffers, GivenStill
<1>12. \A r \in Procs : \A i \in 1..N : r * N + i \in 1..all BY <1>2, InBlock
<1> HIDE DEF m2
<1>13. \A r \in Procs : \A k \in 1..N : m2[r]["recv"][k] = Everyone(call.p, r * N + k)
  BY <1>9, <1>10, <1>12, Zenon DEF Deals
<1>14. Right(m2) BY <1>11, <1>13, ReduceScatterRight DEF Is
<1> QED BY <1>14, Names DEF m2, t, root

-------------------------------------------------------------------------------
(* Copies from and to the middle of a buffer.                              *)

(* The places offs[r] elements after the beginning of buffer b.            *)
Offset(ptr, b, offs) ==
  \A r \in Procs : offs[r] \in Nat /\ ptr[r] = Plus(Pointer(b)[r], offs[r])

LEMMA OffsetEach ==
  ASSUME NEW ptr, NEW b \in Buffers, NEW offs, Offset(ptr, b, offs)
  PROVE  /\ Each(ptr)
         /\ \A r \in Procs : ptr[r].buf = b /\ ptr[r].at = offs[r]
<1>1. ASSUME NEW r \in Procs
      PROVE  ptr[r] \in Places /\ ptr[r].rank = r /\ ptr[r].buf = b /\ ptr[r].at = offs[r]
  <2>1. /\ Pointer(b)[r] \in Places /\ Pointer(b)[r].rank = r /\ Pointer(b)[r].buf = b
        /\ Pointer(b)[r].at = 0
    BY PointerTypes DEF Pointers
  <2> DEFINE off == offs[r]
             place == Pointer(b)[r]
  <2>2. off \in Int /\ 0 + off = off /\ ptr[r] = Plus(place, off) BY DEF Offset
  <2> HIDE DEF off, place
  <2>3. place \in Places BY <2>1 DEF place
  <2>4. /\ Plus(place, off) \in Places
        /\ Plus(place, off).rank = place.rank /\ Plus(place, off).buf = place.buf
        /\ Plus(place, off).at = place.at + off
    BY <2>2, <2>3, PlusType
  <2> QED BY <2>1, <2>2, <2>4 DEF place, off
<1> QED BY <1>1 DEF Each

LEMMA CopyFromStep ==
  ASSUME call \in Calls, NEW m, Whole(m), NEW a \in Buffers, NEW b \in Buffers,
         NEW from, NEW offs, Offset(from, a, offs), NEW n \in Nat,
         \A r \in Procs : offs[r] + n <= Room(r, a) /\ n <= Room(r, b),
         NEW s, s = memcpy(Procs, Pointer(b), from, n)
  PROVE  /\ Into(s, Procs, Pointer(b))
         /\ \A r \in Procs : \A k \in 1..n : After(m, s)[r][b][k] = m[r][a][offs[r] + k]
<1>1. Into(s, Procs, Pointer(b)) BY CopyInto, EachPointer
<1>2. ASSUME NEW r \in Procs, NEW k \in 1..n PROVE After(m, s)[r][b][k] = m[r][a][offs[r] + k]
  <2> DEFINE off == offs[r]
  <2>1. off \in Nat /\ from[r] = Plus(Pointer(a)[r], off) BY DEF Offset
  <2>2. Room(r, a) \in Nat /\ Room(r, b) \in Nat /\ off + n <= Room(r, a) /\ n <= Room(r, b)
    BY RoomNat
  <2> HIDE DEF off
  <2>3. off \in Int /\ k \in Int /\ off + k \in 1 .. Room(r, a) /\ k \in 1 .. Room(r, b)
    BY <2>1, <2>2
  <2>4. Wide(Pointer(b)[r], n) BY <2>2, WidePointer
  <2>5. Read(After(m, s), Pointer(b)[r], k) = Read(m, from[r], k)
    BY <2>4, Copied, EachPointer
  <2>6. Read(m, Plus(Pointer(a)[r], off), k) = m[r][a][off + k] BY <2>3, CellPlus
  <2>7. Read(After(m, s), Pointer(b)[r], k) = After(m, s)[r][b][k]
    BY <2>3, WholeAfter, CellIs
  <2> QED BY <2>1, <2>5, <2>6, <2>7 DEF off
<1> QED BY <1>1, <1>2

LEMMA CopyToStep ==
  ASSUME call \in Calls, NEW m, Whole(m), NEW a \in Buffers, NEW b \in Buffers,
         NEW to, NEW offs, Offset(to, b, offs), NEW n \in Nat,
         \A r \in Procs : offs[r] + n <= Room(r, b) /\ n <= Room(r, a),
         NEW s, s = memcpy(Procs, to, Pointer(a), n)
  PROVE  /\ Into(s, Procs, Pointer(b))
         /\ \A r \in Procs : \A k \in 1..n : After(m, s)[r][b][offs[r] + k] = m[r][a][k]
         /\ \A r \in Procs : \A k \in 1 .. Room(r, b) :
              k - offs[r] \notin 1..n => After(m, s)[r][b][k] = m[r][b][k]
<1>1. Each(to) /\ \A r \in Procs : to[r].buf = b /\ to[r].at = offs[r] BY OffsetEach
<1>2. Into(s, Procs, Pointer(b))
  <2>1. Into(s, Procs, to) BY <1>1, CopyInto
  <2>2. \A r \in Procs : Pointer(b)[r].buf = to[r].buf BY <1>1, EachPointer
  <2> QED BY <2>1, <2>2 DEF Into
<1>3. ASSUME NEW r \in Procs, NEW k \in 1..n PROVE After(m, s)[r][b][offs[r] + k] = m[r][a][k]
  <2> DEFINE off == offs[r]
  <2>1. off \in Nat /\ to[r] = Plus(Pointer(b)[r], off) BY DEF Offset
  <2>2. Room(r, a) \in Nat /\ Room(r, b) \in Nat /\ off + n <= Room(r, b) /\ n <= Room(r, a)
    BY RoomNat
  <2> HIDE DEF off
  <2>3. off \in Int /\ k \in Int /\ off + k \in 1 .. Room(r, b) /\ k \in 1 .. Room(r, a)
    BY <2>1, <2>2
  <2>4. Wide(to[r], n) BY <2>1, <2>2, WidePlus
  <2>5. Read(After(m, s), to[r], k) = Read(m, Pointer(a)[r], k)
    BY <1>1, <2>4, Copied
  <2>6. Whole(After(m, s)) BY WholeAfter
  <2>7. Read(After(m, s), Plus(Pointer(b)[r], off), k) = After(m, s)[r][b][off + k]
    BY <2>3, <2>6, CellPlus
  <2>8. Read(m, Pointer(a)[r], k) = m[r][a][k] BY <2>3, CellIs
  <2> QED BY <2>1, <2>5, <2>7, <2>8 DEF off
<1>4. ASSUME NEW r \in Procs, NEW k \in 1 .. Room(r, b), k - offs[r] \notin 1..n
      PROVE  After(m, s)[r][b][k] = m[r][b][k]
  <2>1. /\ Pointer(b)[r] \in Places /\ Pointer(b)[r].rank = r /\ Pointer(b)[r].buf = b
        /\ Pointer(b)[r].at = 0
    BY PointerTypes DEF Pointers
  <2>2. k \in Int /\ 0 + k = k OBVIOUS
  <2>3. Inside(Pointer(b)[r], k) BY <2>1, <2>2 DEF Inside
  <2>4. (Pointer(b)[r].at + k) - to[Pointer(b)[r].rank].at \notin 1..n
    BY <1>1, <1>4, <2>1, <2>2
  <2>5. Read(After(m, s), Pointer(b)[r], k) = Read(m, Pointer(b)[r], k)
    BY <1>1, <2>3, <2>4, NotCopied
  <2>6. Whole(After(m, s)) BY WholeAfter
  <2> QED BY <2>5, <2>6, CellIs
<1> QED BY <1>2, <1>3, <1>4

(* The places where the blocks of all processes begin.                     *)
LEMMA BlockOffset ==
  ASSUME call \in Calls, NEW n \in Nat, NEW b \in Buffers
  PROVE  Offset([r \in Procs |-> Plus(Pointer(b)[r], r * n)], b, Strided(n))
<1>1. ASSUME NEW r \in Procs PROVE Strided(n)[r] = r * n /\ Strided(n)[r] \in Nat
  BY BlocksAre, InBlock
<1> QED BY <1>1 DEF Offset

LEMMA AllreduceBlocksRight ==
  ASSUME call \in Calls, Is("Reduce_scatter_block", 3), NEW m, Given(m), NEW m1,
         m1 = After(m, Allreduce(sendbuf, aux_buf1, call.p * N)),
         NEW from, from = [r \in Procs |-> Plus(aux_buf1[r], r * N)]
  PROVE  Right(After(m1, memcpy(Procs, recvbuf, from, N)))
<1> DEFINE all == call.p * N
           s == Allreduce(Pointer("send"), Pointer("msg1"), all)
           offs == Strided(N)
           t == memcpy(Procs, Pointer("recv"), from, N)
           m2 == After(m1, t)
<1>1. \A r \in Procs : /\ Room(r, "send") = call.p * N /\ Room(r, "recv") = N
                       /\ Room(r, "msg1") = call.p * N
  BY UserRooms, RoomsAll DEF Is
<1>2. N \in Nat /\ Whole(m) /\ all = call.p * N /\ all \in Nat BY Roomy DEF Given
<1>3. Offset(from, "msg1", offs) BY <1>2, Names, UserBuffers, BlockOffset
<1>4. \A r \in Procs : offs[r] = r * N /\ offs[r] + N <= all BY <1>2, BlocksAre, InBlock
<1>5. m1 = After(m, s) BY Names
<1> HIDE DEF all, offs
<1>6. \A r \in Procs : all <= Room(r, "msg1") BY <1>1, <1>2
<1>7. \A r \in Procs : offs[r] + N <= Room(r, "msg1") /\ N <= Room(r, "recv")
  BY <1>1, <1>2, <1>4
<1>8. /\ Into(s, Procs, Pointer("msg1"))
      /\ \A r \in Procs, k \in 1..all :
           After(m, s)[r]["msg1"][k] = Reduction(m, InOrder(Pointer("send"), call.p), k)
  BY <1>2, <1>6, UserBuffers, AllreduceCells
<1> HIDE DEF s
<1>9. Given(m1) /\ Whole(m1) BY <1>5, <1>8, UserBuffers, GivenStill
<1>10. \A k \in 1..all : Contribute(m, "send", k, k) BY <1>1, <1>2, Passed DEF Contribute
<1>11. \A r \in Procs : \A k \in 1..all : m1[r]["msg1"][k] = Everyone(call.p, k)
  BY <1>2, <1>5, <1>8, <1>10, UserBuffers, EveryoneCells
<1>12. /\ Into(t, Procs, Pointer("recv"))
       /\ \A r \in Procs : \A k \in 1..N :
            After(m1, t)[r]["recv"][k] = m1[r]["msg1"][offs[r] + k]
  BY <1>2, <1>3, <1>7, <1>9, UserBuffers, CopyFromStep
<1> HIDE DEF t
<1>13. Given(m2) BY <1>9, <1>12, UserBuffers, GivenStill
<1>14. \A r \in Procs : \A i \in 1..N : r * N + i \in 1..all BY <1>2, InBlock
<1> HIDE DEF m2
<1>15. \A r \in Procs : \A k \in 1..N : m2[r]["recv"][k] = Everyone(call.p, r * N + k)
  BY <1>4, <1>11, <1>12, <1>14, ZenonT(60) DEF m2
<1>16. Right(m2) BY <1>13, <1>15, ReduceScatterRight DEF Is
<1> QED BY <1>16, Names DEF m2, t

-------------------------------------------------------------------------------
(* A buffer that is zero but for the block of its process.                 *)

LEMMA ZeroCells ==
  ASSUME call \in Calls, NEW m, Whole(m), NEW b \in Buffers, NEW n \in Nat,
         \A r \in Procs : n <= Room(r, b)
  PROVE  /\ Into(memset0(Pointer(b), n), Procs, Pointer(b))
         /\ \A r \in Procs, k \in 1..n : After(m, memset0(Pointer(b), n))[r][b][k] = << >>
<1> DEFINE s == memset0(Pointer(b), n)
<1>1. Into(s, Procs, Pointer(b)) BY ZeroInto, EachPointer
<1>2. ASSUME NEW r \in Procs, NEW k \in 1..n PROVE After(m, s)[r][b][k] = << >>
  <2>1. Wide(Pointer(b)[r], n) BY WidePointer
  <2>2. Read(After(m, s), Pointer(b)[r], k) = << >> BY <2>1, Zeroed, EachPointer
  <2> HIDE DEF s
  <2>3. k \in 1 .. Room(r, b) BY RoomNat
  <2> QED BY <2>2, <2>3, WholeAfter, CellIs
<1> QED BY <1>1, <1>2

(* What process q has in block r.                                          *)
OnlyOwn(m) ==
  \A r, q \in Procs : \A i \in 1..N :
    m[q]["msg1"][r * N + i] = IF q = r THEN << Value(r, i) >> ELSE << >>

LEMMA OwnBlockCells ==
  ASSUME call \in Calls,
         \A r \in Procs : Room(r, "send") = N /\ Room(r, "msg1") = call.p * N,
         NEW m, Given(m), NEW m1, m1 = After(m, memset0(aux_buf1, call.p * N)),
         NEW to, to = [r \in Procs |-> Plus(aux_buf1[r], r * N)],
         NEW m2, m2 = After(m1, memcpy(Procs, to, sendbuf, N))
  PROVE  Given(m2) /\ OnlyOwn(m2)
<1> DEFINE all == call.p * N
           s == memset0(Pointer("msg1"), all)
           offs == Strided(N)
           t == memcpy(Procs, to, Pointer("send"), N)
<1>1. N \in Nat /\ Whole(m) /\ all = call.p * N /\ all \in Nat BY Roomy DEF Given
<1>2. Offset(to, "msg1", offs) BY <1>1, Names, UserBuffers, BlockOffset
<1>3. \A r \in Procs : offs[r] = r * N /\ offs[r] + N <= all BY <1>1, BlocksAre, InBlock
<1>4. m1 = After(m, s) BY Names
<1>5. m2 = After(m1, t) BY Names
<1> HIDE DEF all, offs
<1>6. \A r \in Procs : all <= Room(r, "msg1") BY <1>1
<1>7. \A r \in Procs : offs[r] + N <= Room(r, "msg1") /\ N <= Room(r, "send")
  BY <1>1, <1>3
<1>8. /\ Into(s, Procs, Pointer("msg1"))
      /\ \A r \in Procs, k \in 1..all : After(m, s)[r]["msg1"][k] = << >>
  BY <1>1, <1>6, UserBuffers, ZeroCells
<1> HIDE DEF s
<1>9. Given(m1) /\ Whole(m1) BY <1>4, <1>8, UserBuffers, GivenStill
<1>10. /\ Into(t, Procs, Pointer("msg1"))
       /\ \A r \in Procs : \A k \in 1..N :
            After(m1, t)[r]["msg1"][offs[r] + k] = m1[r]["send"][k]
       /\ \A r \in Procs : \A k \in 1 .. Room(r, "msg1") :
            k - offs[r] \notin 1..N => After(m1, t)[r]["msg1"][k] = m1[r]["msg1"][k]
  BY <1>1, <1>2, <1>7, <1>9, UserBuffers, CopyToStep
<1> HIDE DEF t
<1>11. Given(m2) BY <1>5, <1>9, <1>10, UserBuffers, GivenStill
<1>12. ASSUME NEW r \in Procs, NEW q \in Procs, NEW i \in 1..N, q = r
       PROVE  m2[q]["msg1"][r * N + i] = << Value(r, i) >>
  <2>1. m1[r]["send"][i] = << Value(r, i) >> BY <1>9, Passed
  <2> QED BY <1>3, <1>5, <1>10, <1>12, <2>1, Zenon
<1>13. ASSUME NEW r \in Procs, NEW q \in Procs, NEW i \in 1..N, q # r
       PROVE  m2[q]["msg1"][r * N + i] = << >>
  <2> DEFINE k == r * N + i
             a == q * N
  <2>1. k \in 1..all /\ k \in Int /\ a \in Int BY <1>1, InBlock
  <2>2. k - a \notin 1..N
    <3>1. SUFFICES ASSUME k - a \in 1..N PROVE FALSE
      OBVIOUS
    <3> DEFINE j == k - a
    <3>2. k = a + j
      <4> HIDE DEF k, a
      <4> QED BY <2>1
    <3>3. j \in 1..N BY <3>1
    <3> HIDE DEF j
    <3>4. r * N + i = q * N + j BY <3>2
    <3>5. r \in Nat /\ q \in Nat BY CallTypes
    <3>6. r = q BY <1>1, <3>3, <3>4, <3>5, SameBlock
    <3> QED BY <1>13, <3>6
  <2> HIDE DEF k, a
  <2>3. offs[q] = a BY <1>3 DEF a
  <2>4. k \in 1 .. Room(q, "msg1") BY <1>1, <2>1
  <2>5. m2[q]["msg1"][k] = m1[q]["msg1"][k] BY <1>5, <1>10, <2>2, <2>3, <2>4
  <2>6. m1[q]["msg1"][k] = << >> BY <1>4, <1>8, <2>1
  <2> QED BY <2>5, <2>6 DEF k
<1> QED BY <1>11, <1>12, <1>13 DEF OnlyOwn

(* What a reduction makes of it.                                           *)
LEMMA OwnReduced ==
  ASSUME call \in Calls, \A r \in Procs : Room(r, "msg1") = call.p * N,
         NEW m, Whole(m), OnlyOwn(m), NEW q \in Procs, NEW i \in 1..N
  PROVE  Reduction(m, InOrder(Pointer("msg1"), call.p), q * N + i) = << Value(q, i) >>
<1> DEFINE k == q * N + i
           w == Value(q, i)
<1>1. N \in Nat BY Roomy
<1>2. \A r \in Procs : k \in 1 .. Room(r, "msg1") BY <1>1, InBlock
<1>3. \A r \in Procs : m[r]["msg1"][k] = IF r = q THEN << w >> ELSE << >> BY DEF OnlyOwn
<1> HIDE DEF k, w
<1>4. m[q]["msg1"][k] = << w >> BY <1>3
<1>5. \A r \in Procs : k \in 1 .. Room(r, "msg1") /\ (r # q => m[r]["msg1"][k] = << >>)
  BY <1>2, <1>3
<1>6. Reduction(m, InOrder(Pointer("msg1"), call.p), k) = << w >>
  BY <1>4, <1>5, UserBuffers, SingleCells
<1> QED BY <1>6 DEF k, w

LEMMA AllgatherAllreduceRight ==
  ASSUME call \in Calls, Is("Allgather", 2), NEW m, Given(m),
         NEW m1, m1 = After(m, memset0(aux_buf1, call.p * N)),
         NEW to, to = [r \in Procs |-> Plus(aux_buf1[r], r * N)],
         NEW m2, m2 = After(m1, memcpy(Procs, to, sendbuf, N))
  PROVE  Right(After(m2, Allreduce(aux_buf1, recvbuf, call.p * N)))
<1> DEFINE all == call.p * N
           s == Allreduce(Pointer("msg1"), Pointer("recv"), all)
           m3 == After(m2, s)
<1>1. \A r \in Procs : /\ Room(r, "send") = N /\ Room(r, "recv") = call.p * N
                       /\ Room(r, "msg1") = call.p * N
  BY UserRooms, RoomsAll DEF Is
<1>2. N \in Nat /\ all = call.p * N /\ all \in Nat BY Roomy
<1>3. Given(m2) /\ OnlyOwn(m2) BY <1>1, OwnBlockCells
<1>4. Whole(m2) BY <1>3 DEF Given
<1> HIDE DEF all
<1>5. \A r \in Procs : all <= Room(r, "recv") BY <1>1, <1>2
<1>6. /\ Into(s, Procs, Pointer("recv"))
      /\ \A r \in Procs, k \in 1..all :
           After(m2, s)[r]["recv"][k] = Reduction(m2, InOrder(Pointer("msg1"), call.p), k)
  BY <1>2, <1>4, <1>5, UserBuffers, AllreduceCells
<1> HIDE DEF s
<1>7. Given(m3) BY <1>3, <1>6, UserBuffers, GivenStill
<1>8. \A q \in Procs : \A i \in 1..N :
        Reduction(m2, InOrder(Pointer("msg1"), call.p), q * N + i) = << Value(q, i) >>
  BY <1>1, <1>3, <1>4, OwnReduced
<1>9. \A q \in Procs : \A i \in 1..N : q * N + i \in 1..all BY <1>2, InBlock
<1>10. \A r, q \in Procs : \A i \in 1..N : m3[r]["recv"][q * N + i] = << Value(q, i) >>
  BY <1>6, <1>8, <1>9, Zenon
<1> HIDE DEF m3
<1>11. Right(m3) BY <1>7, <1>10, AllgatherRight DEF Is
<1> QED BY <1>11, Names DEF m3, s, all

LEMMA GatherReduceRight ==
  ASSUME call \in Calls, Is("Gather", 3), NEW m, Given(m),
         NEW m1, m1 = After(m, memset0(aux_buf1, call.p * N)),
         NEW to, to = [r \in Procs |-> Plus(aux_buf1[r], r * N)],
         NEW m2, m2 = After(m1, memcpy(Procs, to, sendbuf, N))
  PROVE  Right(After(m2, Reduce(aux_buf1, recvbuf, call.p * N, Root)))
<1> DEFINE all == call.p * N
           root == Root
           s == Reduce(Pointer("msg1"), Pointer("recv"), all, root)
           m3 == After(m2, s)
<1>1. /\ \A r \in Procs : Room(r, "send") = N /\ Room(r, "msg1") = call.p * N
      /\ Room(Root, "recv") = call.p * N
  BY Roomy, UserRooms, RoomsAll DEF Is
<1>2. N \in Nat /\ all = call.p * N /\ all \in Nat /\ root \in Procs /\ root = Root BY Roomy
<1>3. Given(m2) /\ OnlyOwn(m2) BY <1>1, OwnBlockCells
<1>4. Whole(m2) BY <1>3 DEF Given
<1> HIDE DEF all, root
<1>5. all <= Room(root, "recv") BY <1>1, <1>2
<1>6. /\ Into(s, {root}, Pointer("recv"))
      /\ \A k \in 1..all :
           After(m2, s)[root]["recv"][k] = Reduction(m2, InOrder(Pointer("msg1"), call.p), k)
  BY <1>2, <1>4, <1>5, UserBuffers, ReduceCells
<1> HIDE DEF s
<1>7. Given(m3) BY <1>3, <1>6, UserBuffers, GivenStill
<1>8. \A q \in Procs : \A i \in 1..N :
        Reduction(m2, InOrder(Pointer("msg1"), call.p), q * N + i) = << Value(q, i) >>
  BY <1>1, <1>3, <1>4, OwnReduced
<1>9. \A q \in Procs : \A i \in 1..N : q * N + i \in 1..all BY <1>2, InBlock
<1>10. \A q \in Procs : \A i \in 1..N : m3[Root]["recv"][q * N + i] = << Value(q, i) >>
  BY <1>2, <1>6, <1>8, <1>9, Zenon
<1> HIDE DEF m3
<1>11. Right(m3) BY <1>7, <1>10, GatherRight DEF Is
<1> QED BY <1>11, Names DEF m3, s, all, root

-------------------------------------------------------------------------------
(* Arguments that are in another buffer on the root than elsewhere.        *)

LEMMA RecvAtRootEach ==
  ASSUME call \in Calls
  PROVE  /\ Each(RecvAtRoot) /\ RecvAtRoot[Root] = Pointer("recv")[Root]
         /\ \A r \in Procs : RecvAtRoot[r].buf # "send"
<1>1. "recv" \in Buffers /\ "msg1" \in Buffers /\ "recv" # "send" /\ "msg1" # "send"
  BY UserBuffers
<1>2. ASSUME NEW r \in Procs
      PROVE  /\ RecvAtRoot[r] \in Places /\ RecvAtRoot[r].rank = r
             /\ RecvAtRoot[r].buf # "send"
  <2>1. RecvAtRoot[r] = Pointer("recv")[r] \/ RecvAtRoot[r] = Pointer("msg1")[r]
    BY RecvAtRootIs, Names
  <2>2. /\ Pointer("recv")[r] \in Places /\ Pointer("recv")[r].rank = r
        /\ Pointer("recv")[r].buf = "recv"
    BY <1>1, EachPointer DEF Each
  <2>3. /\ Pointer("msg1")[r] \in Places /\ Pointer("msg1")[r].rank = r
        /\ Pointer("msg1")[r].buf = "msg1"
    BY <1>1, EachPointer DEF Each
  <2> QED BY <1>1, <2>1, <2>2, <2>3
<1>3. RecvAtRoot[Root] = Pointer("recv")[Root] BY Roomy, RecvAtRootIs, Names
<1> QED BY <1>2, <1>3 DEF Each

LEMMA GatherAllgatherRight ==
  ASSUME call \in Calls, Is("Gather", 1), NEW m, Given(m)
  PROVE  Right(After(m, Allgather(sendbuf, RecvAtRoot, N)))
<1> DEFINE counts == Blocks(N)
           offs == Strided(N)
           in == Pointer("send")
           out == RecvAtRoot
           root == Root
           s == Allgather(sendbuf, RecvAtRoot, N)
           m1 == After(m, s)
<1>1. /\ \A r \in Procs : Room(r, "send") = N
      /\ Room(Root, "recv") = call.p * N
  BY Roomy, UserRooms DEF Is
<1>2. N \in Nat /\ Whole(m) /\ root \in Procs /\ root = Root BY Roomy DEF Given
<1>3. s = Step("Allgather", GatherAll(in, out, counts, offs))
  BY Names, Zenon DEF Allgather, GatherAll
<1>4. Laid(counts, offs) BY <1>2, BlocksLaid
<1>5. Each(out) /\ out[root] = Pointer("recv")[root] /\ \A r \in Procs : out[r].buf # "send"
  BY RecvAtRootEach
<1>6. \A q \in Procs : counts[q] = N /\ offs[q] = q * N BY BlocksAre
<1> HIDE DEF counts, offs, in, out, root, s
<1>7. Into(s, Procs, out) BY <1>3, <1>4, <1>5, AllgatherInto
<1>8. Given(m1) BY <1>5, <1>7, GivenAfter
<1>9. ASSUME NEW q \in Procs, NEW i \in 1..N
      PROVE  m1[root]["recv"][q * N + i] = << Value(q, i) >>
  <2>1. /\ Wide(Plus(Pointer("recv")[root], q * N), N)
        /\ q * N + i \in 1 .. Room(root, "recv")
    <3>1. call.p * N <= Room(root, "recv") BY <1>1, <1>2, Roomy
    <3> QED BY <1>2, <3>1, UserBuffers, BlockWide
  <2>2. i \in 1 .. counts[q] /\ Wide(Plus(out[root], offs[q]), counts[q])
    BY <1>5, <1>6, <2>1
  <2>3. Read(After(m, Step("Allgather", GatherAll(in, out, counts, offs))),
             Plus(out[root], offs[q]), i) = Read(m, in[q], i)
    BY <1>2, <1>4, <1>5, <2>2, Allgathered
  <2>4. Read(m1, Plus(Pointer("recv")[root], q * N), i) = Read(m, in[q], i)
    BY <1>3, <1>5, <1>6, <2>3
  <2>5. q * N \in Int /\ i \in Int /\ "recv" \in Buffers /\ Whole(m1)
    BY <1>2, <1>8, InBlock, UserBuffers DEF Given
  <2> HIDE DEF m1
  <2>6. Read(m1, Plus(Pointer("recv")[root], q * N), i) = m1[root]["recv"][q * N + i]
    BY <1>2, <2>1, <2>5, CellPlus
  <2>7. i \in 1 .. Room(q, "send") BY <1>1
  <2>8. Read(m, in[q], i) = m[q]["send"][i] BY <1>2, <2>7, UserBuffers, CellIs DEF in
  <2>9. m[q]["send"][i] = << Value(q, i) >> BY <2>7, Passed
  <2> QED BY <2>4, <2>6, <2>8, <2>9, Zenon
<1> HIDE DEF m1
<1>10. \A q \in Procs : \A i \in 1..N : m1[Root]["recv"][q * N + i] = << Value(q, i) >>
  BY <1>2, <1>9, Zenon
<1>11. Right(m1) BY <1>8, <1>10, GatherRight DEF Is
<1> QED BY <1>11 DEF m1, s

LEMMA ReduceAllreduceRight ==
  ASSUME call \in Calls, Is("Reduce", 1), NEW m, Given(m)
  PROVE  Right(After(m, Allreduce(sendbuf, RecvAtRoot, N)))
<1> DEFINE in == Pointer("send")
           out == RecvAtRoot
           root == Root
           s == Allreduce(in, out, N)
           m1 == After(m, s)
<1>1. (\A r \in Procs : Room(r, "send") = N) /\ Room(Root, "recv") = N
  BY Roomy, UserRooms DEF Is
<1>2. N \in Nat /\ Whole(m) /\ root \in Procs /\ root = Root BY Roomy DEF Given
<1>3. Each(out) /\ out[root] = Pointer("recv")[root] /\ \A r \in Procs : out[r].buf # "send"
  BY RecvAtRootEach
<1> HIDE DEF out, root
<1>4. Into(s, Procs, out) BY <1>3, AllreduceInto
<1>5. Given(m1) BY <1>3, <1>4, GivenAfter
<1>6. ASSUME NEW k \in 1..N PROVE m1[root]["recv"][k] = Everyone(call.p, k)
  <2>1. Wide(out[root], N) /\ k \in 1 .. Room(root, "recv")
    BY <1>1, <1>2, <1>3, UserBuffers, WidePointer
  <2>2. Read(m1, out[root], k) = Reduction(m, InOrder(in, call.p), k)
    BY <1>2, <1>3, <2>1, Allreduced
  <2>3. Contribute(m, "send", k, k) BY <1>1, Passed DEF Contribute
  <2>4. Reduction(m, InOrder(in, call.p), k) = Everyone(call.p, k)
    BY <1>2, <2>3, UserBuffers, EveryoneCells
  <2>5. Whole(m1) BY <1>5 DEF Given
  <2> HIDE DEF m1
  <2>6. Read(m1, Pointer("recv")[root], k) = m1[root]["recv"][k]
    BY <1>2, <2>1, <2>5, UserBuffers, CellIs
  <2> QED BY <1>3, <2>2, <2>4, <2>6
<1> HIDE DEF m1
<1>7. \A k \in 1..N : m1[Root]["recv"][k] = Everyone(call.p, k) BY <1>2, <1>6
<1>8. Right(m1) BY <1>5, <1>7, ReduceRight DEF Is
<1> QED BY <1>8, Names DEF m1, s, in, out

(* The buffer that a scatter broadcasts.                                   *)
LEMMA ScatterBcastRight ==
  ASSUME call \in Calls, Is("Scatter", 1), NEW m, Given(m),
         NEW buf, buf = [r \in Procs |-> IF r = Root THEN sendbuf[r] ELSE aux_buf1[r]],
         NEW m1, m1 = After(m, Bcast(buf, call.p * N, Root)),
         NEW from, from = [r \in Procs |-> Plus(buf[r], r * N)]
  PROVE  Right(After(m1, memcpy(Procs, recvbuf, from, N)))
<1> DEFINE all == call.p * N
           root == Root
           b(r) == IF r = root THEN "send" ELSE "msg1"
           s == Bcast(buf, all, root)
           t == memcpy(Procs, Pointer("recv"), from, N)
           m2 == After(m1, t)
<1>1. \A r \in Procs : /\ Room(r, "recv") = N /\ Room(r, "msg1") = call.p * N
                       /\ r = Root => Room(r, "send") = call.p * N
  BY UserRooms, RoomsAll DEF Is
<1>2. /\ N \in Nat /\ Whole(m) /\ root \in Procs /\ root = Root
      /\ all = call.p * N /\ all \in Nat /\ m1 = After(m, s)
  BY Roomy DEF Given
<1>3. \A r : b(r) \in Buffers /\ (r = root => b(r) = "send") /\ (r # root => b(r) = "msg1")
  BY UserBuffers
<1>4. \A r \in Procs : buf[r] = Pointer(b(r))[r] BY <1>2, Names
<1>5. \A r \in Procs : Room(r, b(r)) = all BY <1>1, <1>2
<1> HIDE DEF all, root, b
<1>6. Each(buf) /\ \A r \in Procs : buf[r].buf = b(r)
  BY <1>3, <1>4, EachPointer DEF Each
<1>7. Into(s, Procs \ {root}, buf) BY <1>6, BcastInto
<1>8. Given(m1) /\ Whole(m1)
  <2>1. \A r \in Procs : r \in Procs \ {root} => buf[r].buf # "send"
    BY <1>3, <1>6, UserBuffers
  <2>2. Given(m1) BY <1>2, <1>7, <2>1, GivenAfter
  <2> QED BY <2>2 DEF Given
<1>9. ASSUME NEW r \in Procs, NEW i \in 1..all
      PROVE  m1[r][b(r)][i] = << Value(root, i) >>
  <2>1. i \in 1 .. Room(r, b(r)) /\ i \in 1 .. Room(root, "send") BY <1>1, <1>2, <1>5
  <2>2. Wide(buf[r], all)
    <3>1. all <= Room(r, b(r)) BY <1>2, <1>5
    <3> QED BY <1>2, <1>3, <1>4, <3>1, WidePointer
  <2>3. Read(m1, buf[r], i) = Read(m, buf[root], i) BY <1>2, <1>6, <2>2, Broadcast
  <2>4. Read(m1, Pointer(b(r))[r], i) = m1[r][b(r)][i] BY <1>3, <1>8, <2>1, CellIs
  <2>5. buf[root] = Pointer("send")[root] BY <1>2, <1>3, <1>4
  <2>6. Read(m, Pointer("send")[root], i) = m[root]["send"][i]
    BY <1>2, <2>1, UserBuffers, CellIs
  <2>7. m[root]["send"][i] = << Value(root, i) >> BY <1>2, <2>1, Passed
  <2> QED BY <1>4, <2>3, <2>4, <2>5, <2>6, <2>7
<1> HIDE DEF s
<1>10. Into(t, Procs, Pointer("recv")) BY CopyInto, EachPointer, UserBuffers
<1>11. Given(m2) BY <1>8, <1>10, UserBuffers, GivenStill
<1>12. ASSUME NEW r \in Procs, NEW k \in 1..N
       PROVE  m2[r]["recv"][k] = << Value(root, r * N + k) >>
  <2> DEFINE off == r * N
             x == b(r)
  <2>1. off \in Int /\ off + k \in 1..all BY <1>2, InBlock, SMTT(60)
  <2>2. off + k \in 1 .. Room(r, x) BY <1>5, <2>1
  <2>3. from[r] = Plus(Pointer(x)[r], off) BY <1>4
  <2>4. m1[r][x][off + k] = << Value(root, off + k) >> BY <1>9, <2>1
  <2>5. x \in Buffers /\ k \in Int BY <1>3
  <2> HIDE DEF off, x
  <2>6. Read(m1, Plus(Pointer(x)[r], off), k) = m1[r][x][off + k]
    BY <1>8, <2>1, <2>2, <2>5, CellPlus
  <2>7. Wide(Pointer("recv")[r], N) /\ k \in 1 .. Room(r, "recv")
    BY <1>1, <1>2, UserBuffers, WidePointer
  <2>8. Read(m2, Pointer("recv")[r], k) = Read(m1, from[r], k)
    BY <1>2, <1>8, <2>7, UserBuffers, EachPointer, Copied
  <2>9. Whole(m2) BY <1>11 DEF Given
  <2> HIDE DEF m2
  <2>10. Read(m2, Pointer("recv")[r], k) = m2[r]["recv"][k]
    BY <2>7, <2>9, UserBuffers, CellIs
  <2> QED BY <2>3, <2>4, <2>6, <2>8, <2>10 DEF off
<1> HIDE DEF t, m2
<1>13. \A r \in Procs : \A k \in 1..N : m2[r]["recv"][k] = << Value(Root, r * N + k) >>
  BY <1>2, <1>12
<1>14. Right(m2) BY <1>11, <1>13, ScatterRight DEF Is
<1> QED BY <1>14, Names DEF m2, t

-------------------------------------------------------------------------------
(* Scans.                                                                  *)

(* The last of the first r + 1 processes, before the others.               *)
LEMMA LastFirst ==
  ASSUME call.commutes, NEW r \in Nat, NEW k
  PROVE  SameValue(<< Value(r, k) >> \o Everyone(r, k), Everyone(r + 1, k))
<1> DEFINE T == {Value(i, k) : i \in 0 .. r}
           u == << Value(r, k) >>
           v == Everyone(r, k)
           w == Everyone(r + 1, k)
           x == u \o v
<1>1. \A i \in 1 .. r + 1 : i - 1 \in 0 .. r OBVIOUS
<1>2. /\ v = [i \in 1..r |-> Value(i - 1, k)] /\ w = [i \in 1 .. r + 1 |-> Value(i - 1, k)]
  BY DEF Everyone
<1>3. \A i \in 0 .. r : Value(i, k) \in T OBVIOUS
<1> HIDE DEF T
<1>4. v \in [1..r -> T]
  <2>1. \A i \in 1..r : i - 1 \in 0 .. r OBVIOUS
  <2> QED BY <1>2, <1>3, <2>1
<1>5. w \in [1 .. r + 1 -> T] BY <1>1, <1>2, <1>3
<1>6. v \in Seq(T) /\ Len(v) = r BY <1>4
<1>7. w \in Seq(T) /\ Len(w) = r + 1 BY <1>5
<1>8. u \in Seq(T) /\ Len(u) = 1 /\ u[1] = Value(r, k)
  <2>1. Value(r, k) \in T BY <1>3
  <2> QED BY <2>1
<1>9. \A i \in 1..r : v[i] = Value(i - 1, k) BY <1>2
<1>10. \A i \in 1 .. r + 1 : w[i] = Value(i - 1, k) BY <1>2
<1> HIDE DEF u, v, w
<1>11. /\ x \in Seq(T) /\ Len(x) = 1 + r
       /\ \A i \in 1 .. 1 + r : x[i] = IF i <= 1 THEN u[i] ELSE v[i - 1]
  <2>1. /\ x \in Seq(T) /\ Len(x) = Len(u) + Len(v)
        /\ \A i \in 1 .. Len(u) + Len(v) :
             x[i] = IF i <= Len(u) THEN u[i] ELSE v[i - Len(u)]
    <3>1. u \in Seq(T) BY <1>8
    <3>2. v \in Seq(T) BY <1>6
    <3> QED BY ONLY <3>1, <3>2, ConcatProperties, Zenon DEF x
  <2> QED BY <1>6, <1>8, <2>1
<1> HIDE DEF x
<1>12. Len(x) = Len(w) /\ DOMAIN x = 1 .. r + 1 /\ DOMAIN w = 1 .. r + 1 BY <1>7, <1>11
<1>13. ASSUME NEW i \in 1 .. r + 1 PROVE \E j \in 1 .. r + 1 : x[i] = w[j]
  <2>1. CASE i = 1
    <3>1. x[i] = Value(r, k) BY <1>8, <1>11, <2>1
    <3>2. r + 1 \in 1 .. r + 1 /\ (r + 1) - 1 = r OBVIOUS
    <3>3. w[r + 1] = Value(r, k) BY <1>10, <3>2
    <3> QED BY <3>1, <3>2, <3>3
  <2>2. CASE i # 1
    <3>1. i \in 1 .. 1 + r /\ ~(i <= 1) /\ i - 1 \in 1..r /\ i - 1 \in 1 .. r + 1 BY <2>2
    <3>2. x[i] = v[i - 1] BY <1>11, <3>1
    <3>3. v[i - 1] = w[i - 1] BY <1>9, <1>10, <3>1
    <3> QED BY <3>1, <3>2, <3>3
  <2> QED BY <2>1, <2>2
<1>14. ASSUME NEW j \in 1 .. r + 1 PROVE \E i \in 1 .. r + 1 : w[j] = x[i]
  <2>1. CASE j = r + 1
    <3>1. 1 \in 1 .. r + 1 /\ 1 \in 1 .. 1 + r /\ (r + 1) - 1 = r OBVIOUS
    <3>2. x[1] = Value(r, k) BY <1>8, <1>11, <3>1
    <3>3. w[j] = Value(r, k) BY <1>10, <2>1, <3>1
    <3> QED BY <3>1, <3>2, <3>3
  <2>2. CASE j # r + 1
    <3>1. /\ j + 1 \in 1 .. 1 + r /\ j + 1 \in 1 .. r + 1 /\ ~(j + 1 <= 1)
          /\ (j + 1) - 1 = j /\ j \in 1..r
      BY <2>2
    <3>2. x[j + 1] = v[j] BY <1>11, <3>1
    <3>3. v[j] = w[j] BY <1>9, <1>10, <3>1
    <3> QED BY <3>1, <3>2, <3>3
  <2> QED BY <2>1, <2>2
<1>15. Range(x) = Range(w)
  <2>1. \A y : y \in Range(x) <=> \E i \in 1 .. r + 1 : y = x[i] BY <1>12 DEF Range
  <2>2. \A y : y \in Range(w) <=> \E i \in 1 .. r + 1 : y = w[i] BY <1>12 DEF Range
  <2>3. \A y : y \in Range(x) <=> y \in Range(w) BY ONLY <1>13, <1>14, <2>1, <2>2, Zenon
  <2> QED BY <2>3
<1>16. SameValue(x, w) BY <1>12, <1>15 DEF SameValue
<1> QED BY <1>16 DEF x, u, v, w

LEMMA ScanAllRight ==
  ASSUME call \in Calls, Is("Scan", 1), call.commutes, NEW m, Given(m),
         NEW m1, m1 = After(m, Exscan(sendbuf, recvbuf, N)),
         NEW m2, m2 = After(m1, memcpy({0}, recvbuf, sendbuf, N))
  PROVE  Right(After(m2, Reduce_local(Procs \ {0}, sendbuf, recvbuf, N)))
<1> DEFINE in == Pointer("send")
           out == Pointer("recv")
           s == Exscan(in, out, N)
           t == memcpy({0}, out, in, N)
           others == Procs \ {0}
           u == Reduce_local(others, in, out, N)
           m3 == After(m2, u)
<1>1. \A r \in Procs : Room(r, "send") = N /\ Room(r, "recv") = N
  BY UserRooms DEF Is
<1>2. N \in Nat /\ Whole(m) /\ {0} \subseteq Procs /\ Procs \ {0} \subseteq Procs
  BY Roomy DEF Given
<1>3. m1 = After(m, s) /\ m2 = After(m1, t) BY Names
<1>4. Each(in) /\ Each(out) BY UserBuffers, EachPointer
<1>5. \A r \in Procs : Wide(out[r], N) BY <1>1, <1>2, UserBuffers, WidePointer
<1>6. Into(s, Procs \ {0}, out) BY <1>4, ExscanInto
<1>7. Into(t, {0}, out) BY <1>2, <1>4, CopyInto
<1>8. Into(u, Procs \ {0}, out) BY <1>2, <1>4, LocalInto
<1>9. Given(m1) /\ Whole(m1) BY <1>3, <1>6, UserBuffers, GivenStill
<1>10. Given(m2) /\ Whole(m2) BY <1>3, <1>7, <1>9, UserBuffers, GivenStill
<1>11. Given(m3) /\ Whole(m3) BY <1>8, <1>10, UserBuffers, GivenStill
<1>12. ASSUME NEW r \in Procs, NEW k \in 1..N
       PROVE  SameValue(m3[r]["recv"][k], Everyone(r + 1, k))
  <2>1. k \in 1 .. Room(r, "recv") /\ k \in 1 .. Room(r, "send") BY <1>1
  <2>2. CASE r = 0
    <3>1. Read(m2, out[r], k) = Read(m1, in[r], k)
      BY <1>2, <1>3, <1>4, <1>5, <1>9, <2>2, Copied
    <3>2. Read(m2, out[r], k) = m2[r]["recv"][k] BY <1>10, <2>1, UserBuffers, CellIs
    <3>3. Read(m1, in[r], k) = m1[r]["send"][k] BY <1>9, <2>1, UserBuffers, CellIs
    <3>4. m1[r]["send"][k] = << Value(r, k) >> BY <1>9, <2>1, Passed
    <3>5. m3[r]["recv"] = m2[r]["recv"]
      <4>1. r \notin Procs \ {0} BY <2>2
      <4> QED BY <1>8, <1>10, <4>1, UserBuffers, Spared
    <3>6. Everyone(r + 1, k) = << Value(r, k) >>
      <4>1. Everyone(1, k) = << Value(0, k) >>
        <5>1. Everyone(1, k) = [i \in 1..1 |-> Value(i - 1, k)] BY DEF Everyone
        <5>2. \A i \in 1..1 : i = 1 /\ i - 1 = 0 OBVIOUS
        <5>3. << Value(0, k) >> = [i \in 1..1 |-> Value(0, k)] OBVIOUS
        <5> QED BY <5>1, <5>2, <5>3
      <4> QED BY <2>2, <4>1
    <3> QED BY <3>1, <3>2, <3>3, <3>4, <3>5, <3>6, SameIs
  <2>3. CASE r # 0
    <3>1. r \in Procs \ {0} /\ r \in Nat /\ \A q \in 0 .. r - 1 : q \in Procs
      BY <2>3, CallTypes
    <3>2. Read(m1, out[r], k) = Reduction(m, InOrder(in, r), k)
      BY <1>2, <1>3, <1>4, <1>5, <2>3, Exscanned
    <3>3. Reduction(m, InOrder(in, r), k) = Everyone(r, k)
      <4>1. ASSUME NEW q \in 0 .. r - 1 PROVE Read(m, in[q], k) = << Value(q, k) >>
        <5>1. q \in Procs BY <3>1
        <5>2. k \in 1 .. Room(q, "send") BY <1>1, <5>1
        <5>3. Read(m, in[q], k) = m[q]["send"][k] BY <1>2, <5>1, <5>2, UserBuffers, CellIs
        <5>4. m[q]["send"][k] = << Value(q, k) >> BY <5>1, <5>2, Passed
        <5> QED BY <5>3, <5>4
      <4> HIDE DEF in
      <4> QED BY <3>1, <4>1, ReduceEveryone
    <3>4. Read(m1, out[r], k) = m1[r]["recv"][k] BY <1>9, <2>1, UserBuffers, CellIs
    <3>5. m2[r]["recv"] = m1[r]["recv"]
      <4>1. r \notin {0} BY <2>3
      <4> QED BY <1>3, <1>7, <1>9, <4>1, UserBuffers, Spared
    <3>6. Read(m3, out[r], k) = Read(m2, in[r], k) \o Read(m2, out[r], k)
      <4>1. others \subseteq Procs /\ r \in others /\ N \in Int BY <1>2, <3>1
      <4> HIDE DEF others, in, out
      <4>2. Whole(m2) BY <1>10
      <4>3. Each(out) BY <1>4
      <4>4. Wide(out[r], N) BY <1>5
      <4>5. others \subseteq Procs BY <4>1
      <4>6. r \in others BY <4>1
      <4>7. N \in Int BY <4>1
      <4> QED BY ONLY call \in Calls, <4>2, <4>3, <4>4, <4>5, <4>6, <4>7, k \in 1..N,
                 LocallyReduced
    <3>7. Read(m3, out[r], k) = m3[r]["recv"][k] BY <1>11, <2>1, UserBuffers, CellIs
    <3>8. Read(m2, out[r], k) = m2[r]["recv"][k] BY <1>10, <2>1, UserBuffers, CellIs
    <3>9. Read(m2, in[r], k) = m2[r]["send"][k] BY <1>10, <2>1, UserBuffers, CellIs
    <3>10. m2[r]["send"][k] = << Value(r, k) >> BY <1>10, <2>1, Passed
    <3>11. m3[r]["recv"][k] = << Value(r, k) >> \o Everyone(r, k)
      BY <3>2, <3>3, <3>4, <3>5, <3>6, <3>7, <3>8, <3>9, <3>10, ZenonT(60)
    <3> QED BY <3>1, <3>11, LastFirst
  <2> QED BY <2>2, <2>3
<1> HIDE DEF m3
<1>13. Right(m3) BY <1>11, <1>12, ScanRight DEF Is
<1> QED BY <1>13, Names DEF m3, u, in, out

-------------------------------------------------------------------------------
(* Parts of any size.                                                      *)

PartsFit(b, counts, offs) == \A r, q \in Procs : offs[q] + counts[q] <= Room(r, b)

(* Everybody has the part of q where q has it.                             *)
Spread(m, m1, b, counts, offs) ==
  \A r, q \in Procs : \A i \in 1 .. counts[q] :
    m1[r][b][offs[q] + i] = m[q][b][offs[q] + i]

LEMMA InPlaceStep ==
  ASSUME call \in Calls, NEW m, Whole(m), NEW b \in Buffers, NEW counts, NEW offs,
         Laid(counts, offs), PartsFit(b, counts, offs),
         NEW s, s = AllgathervInPlace(Pointer(b), counts, offs)
  PROVE  Into(s, Procs, Pointer(b)) /\ Spread(m, After(m, s), b, counts, offs)
<1> DEFINE out == Pointer(b)
           in == [r \in Procs |-> Plus(out[r], offs[r])]
           moves == GatherAll(in, out, counts, offs)
<1>1. s = Step("Allgatherv", moves)
  BY Zenon DEF AllgathervInPlace, Allgatherv, GatherAll, Shifted
<1>2. Each(out) BY EachPointer
<1>3. \A q \in Procs : in[q] = Plus(Pointer(b)[q], offs[q]) OBVIOUS
<1> HIDE DEF in
<1>4. Into(s, Procs, out) BY <1>1, <1>2, AllgatherInto
<1>5. ASSUME NEW r \in Procs, NEW q \in Procs, NEW i \in 1 .. counts[q]
      PROVE  After(m, s)[r][b][offs[q] + i] = m[q][b][offs[q] + i]
  <2> DEFINE off == offs[q]
             n == counts[q]
  <2>1. off \in Nat /\ n \in Nat /\ i \in 1..n BY DEF Laid
  <2>2. off + n <= Room(r, b) /\ off + n <= Room(q, b) BY DEF PartsFit
  <2>3. Room(r, b) \in Nat /\ Room(q, b) \in Nat BY RoomNat
  <2> HIDE DEF off, n
  <2>4. off \in Int /\ i \in Int /\ off + i \in 1 .. Room(r, b) /\ off + i \in 1 .. Room(q, b)
    BY <2>1, <2>2, <2>3
  <2>5. Wide(Plus(Pointer(b)[r], off), n) BY <2>1, <2>2, WidePlus
  <2>6. Wide(Plus(out[r], offs[q]), counts[q]) BY <2>5 DEF off, n
  <2>7. Read(After(m, Step("Allgatherv", moves)), Plus(out[r], offs[q]), i) = Read(m, in[q], i)
    <3> HIDE DEF out
    <3> QED BY <1>2, <2>6, Allgathered
  <2>8. Read(After(m, s), Plus(Pointer(b)[r], off), i) = Read(m, Plus(Pointer(b)[q], off), i)
    BY <1>1, <1>3, <2>7 DEF off
  <2>9. Read(After(m, s), Plus(Pointer(b)[r], off), i) = After(m, s)[r][b][off + i]
    BY <2>4, WholeAfter, CellPlus
  <2>10. Read(m, Plus(Pointer(b)[q], off), i) = m[q][b][off + i]
    BY <2>4, CellPlus
  <2> QED BY <2>8, <2>9, <2>10 DEF off
<1> QED BY <1>4, <1>5 DEF Spread

LEMMA GatherPartsStep ==
  ASSUME call \in Calls, NEW m, Whole(m), NEW a \in Buffers, NEW b \in Buffers,
         NEW counts, NEW offs, Laid(counts, offs), NEW root \in Procs,
         \A q \in Procs : counts[q] <= Room(q, a) /\ offs[q] + counts[q] <= Room(root, b),
         NEW s, s = Gatherv(Pointer(a), Pointer(b), counts, offs, root)
  PROVE  /\ Into(s, {root}, Pointer(b))
         /\ \A q \in Procs : \A i \in 1 .. counts[q] :
              After(m, s)[root][b][offs[q] + i] = m[q][a][i]
<1> DEFINE in == Pointer(a)
           out == Pointer(b)
           moves == GathervMoves(in, out, counts, offs, root)
<1>1. s = Step("Gatherv", moves) BY Zenon DEF Gatherv
<1>2. Each(out) BY EachPointer
<1>3. Into(s, {root}, out) BY <1>1, <1>2, GatherInto
<1>4. ASSUME NEW q \in Procs, NEW i \in 1 .. counts[q]
      PROVE  After(m, s)[root][b][offs[q] + i] = m[q][a][i]
  <2> DEFINE off == offs[q]
             n == counts[q]
  <2>1. off \in Nat /\ n \in Nat /\ i \in 1..n BY DEF Laid
  <2>2. off + n <= Room(root, b) /\ n <= Room(q, a) OBVIOUS
  <2>3. Room(root, b) \in Nat /\ Room(q, a) \in Nat BY RoomNat
  <2> HIDE DEF off, n
  <2>4. off \in Int /\ i \in Int /\ off + i \in 1 .. Room(root, b) /\ i \in 1 .. Room(q, a)
    BY <2>1, <2>2, <2>3
  <2>5. Wide(Plus(Pointer(b)[root], off), n) BY <2>1, <2>2, WidePlus
  <2>6. Wide(Plus(out[root], offs[q]), counts[q]) BY <2>5 DEF off, n
  <2>7. Read(After(m, Step("Gatherv", moves)), Plus(out[root], offs[q]), i) = Read(m, in[q], i)
    <3> HIDE DEF in, out
    <3> QED BY <1>2, <2>6, Gathered
  <2>8. Read(After(m, s), Plus(Pointer(b)[root], off), i) = Read(m, Pointer(a)[q], i)
    BY <1>1, <2>7 DEF off
  <2>9. Read(After(m, s), Plus(Pointer(b)[root], off), i) = After(m, s)[root][b][off + i]
    BY <2>4, WholeAfter, CellPlus
  <2>10. Read(m, Pointer(a)[q], i) = m[q][a][i] BY <2>4, CellIs
  <2> QED BY <2>8, <2>9, <2>10 DEF off
<1> QED BY <1>3, <1>4

(* A part for the root and none for the others.                            *)
LEMMA ReduceOneRight ==
  ASSUME call \in Calls, Is("Reduce", 4), NEW m, Given(m),
         NEW counts, counts = [r \in Procs |-> IF r = Root THEN N ELSE 0]
  PROVE  Right(After(m, Reduce_scatter(sendbuf, recvbuf, counts)))
<1> DEFINE root == Root
           offs == [r \in Procs |-> IF r > root THEN N ELSE 0]
           s == Step("Reduce_scatter",
                     ReduceScatterMoves(Pointer("send"), Pointer("recv"), counts))
           m1 == After(m, s)
<1>1. /\ \A r \in Procs : Room(r, "send") = N /\ Room(r, "recv") \in Nat
      /\ Room(Root, "recv") = N
  BY Roomy, RoomNat, UserRooms, UserBuffers DEF Is
<1>2. N \in Nat /\ Whole(m) /\ root \in Procs /\ root = Root /\ root \in Int
  BY Roomy, CallTypes DEF Given
<1>3. \A r \in Procs : /\ counts[r] = IF r = root THEN N ELSE 0
                       /\ offs[r] = IF r > root THEN N ELSE 0
  OBVIOUS
<1>4. \A r \in Procs : Before(counts, r) = IF r > root THEN N ELSE 0
  BY <1>2, BeforeOne
<1> HIDE DEF root, offs
<1>5. \A r \in Procs : /\ counts[r] \in Nat /\ counts[r] <= Room(r, "recv")
                       /\ offs[r] \in Int /\ Before(counts, r) = offs[r]
  BY <1>1, <1>2, <1>3, <1>4
<1>6. s = Step("Reduce_scatter",
               ReduceScatterMoves(Pointer("send"), Pointer("recv"), counts))
  OBVIOUS
<1> HIDE DEF s
<1>7. /\ Into(s, Procs, Pointer("recv"))
      /\ \A r \in Procs : \A k \in 1 .. counts[r] :
           Contribute(m, "send", offs[r] + k, offs[r] + k)
             => After(m, s)[r]["recv"][k] = Everyone(call.p, offs[r] + k)
  BY ONLY call \in Calls, <1>6, <1>2, <1>5, UserBuffers, ReduceScatterStep
<1>8. Given(m1) BY <1>7, UserBuffers, GivenStill
<1>9. \A k \in 1..N : Contribute(m, "send", k, k) BY <1>1, Passed DEF Contribute
<1>10. ASSUME NEW k \in 1..N PROVE m1[root]["recv"][k] = Everyone(call.p, k)
  <2>1. offs[root] + k = k /\ counts[root] = N BY <1>2, <1>3
  <2>2. k \in 1 .. counts[root] BY <2>1
  <2>3. Contribute(m, "send", offs[root] + k, offs[root] + k) BY <1>9, <2>1
  <2>4. After(m, s)[root]["recv"][k] = Everyone(call.p, offs[root] + k)
    BY <1>2, <1>7, <2>2, <2>3
  <2> QED BY <2>1, <2>4
<1> HIDE DEF m1
<1>11. \A k \in 1..N : m1[Root]["recv"][k] = Everyone(call.p, k) BY <1>2, <1>10
<1>12. Right(m1) BY <1>8, <1>11, ReduceRight DEF Is
<1>13. Reduce_scatter(sendbuf, recvbuf, counts) = s BY Names, Zenon DEF Reduce_scatter, s
<1> QED BY <1>12, <1>13 DEF m1

LEMMA BcastAllgathervRight ==
  ASSUME call \in Calls, Is("Bcast", 1), NEW m, Started(m),
         NEW counts, counts = [r \in Procs |-> IF r = Root THEN N ELSE 0],
         NEW offs, offs = [r \in Procs |-> IF r > Root THEN N ELSE 0]
  PROVE  Right(After(m, AllgathervInPlace(recvbuf, counts, offs)))
<1> DEFINE root == Root
           s == AllgathervInPlace(Pointer("recv"), counts, offs)
           m1 == After(m, s)
<1>1. \A r \in Procs : Room(r, "recv") = N BY UserRooms DEF Is
<1>2. /\ N \in Nat /\ Given(m) /\ Whole(m) /\ root \in Procs /\ root = Root
      /\ root \in Int /\ Procs \subseteq Int
  BY Roomy, CallTypes DEF Given, Started
<1>3. \A r \in Procs : /\ counts[r] = IF r = root THEN N ELSE 0
                       /\ offs[r] = IF r > root THEN N ELSE 0
  OBVIOUS
<1> HIDE DEF root
<1>4. Laid(counts, offs) BY <1>2, <1>3 DEF Laid
<1>5. PartsFit("recv", counts, offs) BY <1>1, <1>2, <1>3 DEF PartsFit
<1>6. s = AllgathervInPlace(Pointer("recv"), counts, offs) OBVIOUS
<1> HIDE DEF s
<1>7. Into(s, Procs, Pointer("recv")) /\ Spread(m, m1, "recv", counts, offs)
  <2>1. Whole(m) /\ "recv" \in Buffers BY <1>2, UserBuffers
  <2> QED BY ONLY call \in Calls, <1>6, <1>4, <1>5, <2>1, InPlaceStep, Zenon
<1>8. Given(m1) BY <1>2, <1>7, UserBuffers, GivenStill
<1>9. ASSUME NEW r \in Procs, NEW k \in 1..N
      PROVE  m1[r]["recv"][k] = << Value(root, k) >>
  <2>1. offs[root] + k = k /\ counts[root] = N BY <1>2, <1>3
  <2>2. k \in 1 .. counts[root] BY <2>1
  <2>3. After(m, s)[r]["recv"][offs[root] + k] = m[root]["recv"][offs[root] + k]
    BY <1>2, <1>7, <2>2 DEF Spread
  <2>4. m[root]["recv"][k] = << Value(root, k) >> BY <1>2 DEF Started, Is
  <2> QED BY <2>1, <2>3, <2>4
<1> HIDE DEF m1
<1>10. \A r \in Procs : \A k \in 1..N : m1[r]["recv"][k] = << Value(Root, k) >>
  BY <1>2, <1>9
<1>11. Right(m1) BY <1>8, <1>10, BcastRight DEF Is
<1> QED BY <1>11, Names DEF m1, s

(* Parts one after the other, n elements in all.                           *)
LEMMA PartsCover ==
  ASSUME call \in Calls, NEW counts, \A r \in Procs : counts[r] \in Nat,
         NEW g, Sums(counts, g), NEW n, g[call.p] = n,
         NEW offs, \A r \in Procs : offs[r] = g[r]
  PROVE  /\ Laid(counts, offs)
         /\ \A k \in 1..n : \E q \in Procs : \E i \in 1 .. counts[q] : k = offs[q] + i
<1> DEFINE p == call.p
<1>1. p \in Nat \ {0} /\ Procs = 0 .. p - 1 BY CallTypes
<1>2. g[0] = 0 /\ \A j \in 1 .. p : g[j] = g[j - 1] + counts[j - 1] BY DEF Sums
<1> HIDE DEF p
<1>3. ASSUME NEW j \in 0 .. p PROVE g[j] \in Nat
  <2> DEFINE bad == {x \in 0 .. p : g[x] \notin Nat}
  <2>1. SUFFICES ASSUME bad # {} PROVE FALSE
    OBVIOUS
  <2>2. bad \subseteq Nat BY <1>1
  <2>3. PICK x \in bad : \A y \in bad : x <= y BY <2>1, <2>2, LeastNumber
  <2>4. x \in 0 .. p /\ x # 0 BY <1>2
  <2>5. x \in 1 .. p /\ x - 1 \in 0 .. p /\ x - 1 \in Procs /\ ~(x <= x - 1) BY <1>1, <2>4
  <2>6. g[x - 1] \in Nat BY <2>3, <2>5
  <2> QED BY <1>2, <2>5, <2>6
<1>4. ASSUME NEW q \in Procs, NEW s \in Procs, q < s PROVE g[q] + counts[q] <= g[s]
  <2> DEFINE bad == {x \in 0 .. p : q < x /\ ~(g[q] + counts[q] <= g[x])}
  <2>1. SUFFICES ASSUME bad # {} PROVE FALSE
    BY <1>1, <1>4
  <2>2. bad \subseteq Nat BY <1>1
  <2>3. PICK x \in bad : \A y \in bad : x <= y BY <2>1, <2>2, LeastNumber
  <2>4. x \in 0 .. p /\ q < x /\ ~(g[q] + counts[q] <= g[x]) /\ q \in 0 .. p BY <1>1
  <2>5. x \in 1 .. p /\ x - 1 \in 0 .. p /\ x - 1 \in Procs /\ ~(x <= x - 1) BY <1>1, <2>4
  <2>6. g[x] = g[x - 1] + counts[x - 1] /\ g[x - 1] \in Nat /\ g[q] \in Nat
        /\ counts[x - 1] \in Nat /\ counts[q] \in Nat
    BY <1>2, <1>3, <2>4, <2>5
  <2>7. q # x - 1 BY <2>4, <2>6
  <2>8. q < x - 1 BY <1>1, <2>4, <2>5, <2>7
  <2>9. g[q] + counts[q] <= g[x - 1] BY <2>3, <2>5, <2>8
  <2> HIDE DEF bad
  <2> QED BY <2>4, <2>6, <2>9
<1>5. \A q \in Procs : q \in 0 .. p /\ q \in Nat BY <1>1
<1>6. Laid(counts, offs)
  <2>1. \A q \in Procs : counts[q] \in Nat /\ offs[q] \in Nat BY <1>3, <1>5
  <2>2. ASSUME NEW q \in Procs, NEW s \in Procs, NEW i \in 1 .. counts[q],
               NEW j \in 1 .. counts[s], offs[q] + i = offs[s] + j
        PROVE  q = s
    <3>1. q < s => offs[q] + counts[q] <= offs[s] BY <1>4
    <3>2. s < q => offs[s] + counts[s] <= offs[q] BY <1>4
    <3>3. /\ counts[q] \in Nat /\ offs[q] \in Nat /\ counts[s] \in Nat /\ offs[s] \in Nat
          /\ q \in Nat /\ s \in Nat
      BY <1>5, <2>1
    <3> QED BY <2>2, <3>1, <3>2, <3>3
  <2> QED BY <2>1, <2>2 DEF Laid
<1>7. ASSUME NEW k \in 1..n PROVE \E q \in Procs : \E i \in 1 .. counts[q] : k = offs[q] + i
  <2> DEFINE T == {x \in 0 .. p : k <= g[x]}
  <2>1. p \in 0 .. p /\ g[p] = n /\ n \in Nat BY <1>1, <1>3 DEF p
  <2>2. T # {} /\ T \subseteq Nat BY <1>1, <2>1
  <2>3. PICK x \in T : \A y \in T : x <= y BY <2>2, LeastNumber
  <2>4. x \in 0 .. p /\ k <= g[x] /\ x # 0 BY <1>2
  <2>5. x \in 1 .. p /\ x - 1 \in 0 .. p /\ x - 1 \in Procs /\ ~(x <= x - 1) BY <1>1, <2>4
  <2>6. g[x] = g[x - 1] + counts[x - 1] /\ g[x - 1] \in Nat /\ counts[x - 1] \in Nat
        /\ offs[x - 1] = g[x - 1]
    BY <1>2, <1>3, <2>5
  <2>7. ~(k <= g[x - 1]) BY <2>3, <2>5
  <2> HIDE DEF T
  <2> DEFINE i == k - g[x - 1]
  <2>8. i \in 1 .. counts[x - 1] /\ k = offs[x - 1] + i BY <2>1, <2>4, <2>6, <2>7
  <2> QED BY <2>5, <2>8
<1> QED BY <1>6, <1>7

(* The parts that the library deals out.                                   *)
LEMMA PartsDealt ==
  ASSUME call \in Calls
  PROVE  /\ Laid(recvcounts, displs)
         /\ \A k \in 1..N : \E q \in Procs : \E i \in 1 .. recvcounts[q] : k = displs[q] + i
<1>1. \A r \in Procs : recvcounts[r] \in Nat BY DealtOut
<1>2. PICK g : Sums(recvcounts, g) /\ g[call.p] = N BY DealtOut
<1>3. \A r \in Procs : displs[r] = Before(recvcounts, r) BY DealtOut
<1>4. ASSUME NEW r \in Procs PROVE displs[r] = g[r]
  <2>1. call.p \in Nat /\ r \in 0 .. call.p BY CallTypes
  <2> QED BY <1>2, <1>3, <2>1, BeforeIs
<1> QED BY <1>1, <1>2, <1>4, PartsCover

LEMMA ReducePartsRight ==
  ASSUME call \in Calls, Is("Reduce", 3), NEW m, Given(m), NEW m1,
         m1 = After(m, Reduce_scatter(sendbuf, aux_buf1, recvcounts))
  PROVE  Right(After(m1, Gatherv(aux_buf1, recvbuf, recvcounts, displs, Root)))
<1> DEFINE root == Root
           counts == recvcounts
           offs == displs
           s == Step("Reduce_scatter",
                     ReduceScatterMoves(Pointer("send"), Pointer("msg1"), counts))
           t == Gatherv(Pointer("msg1"), Pointer("recv"), counts, offs, root)
           m2 == After(m1, t)
<1>1. /\ \A r \in Procs : /\ Room(r, "send") = N
                          /\ Room(r, "msg1") = Scripts!RecvCount(N, call.p, 0)
      /\ Room(Root, "recv") = N
  BY Roomy, RoomsParts, UserRooms DEF Is
<1>2. N \in Nat /\ Whole(m) /\ root \in Procs /\ root = Root BY Roomy DEF Given
<1>3. /\ Laid(counts, offs)
      /\ \A k \in 1..N : \E q \in Procs : \E i \in 1 .. counts[q] : k = offs[q] + i
  BY PartsDealt
<1>4. \A r \in Procs : /\ counts[r] \in Nat /\ offs[r] \in Int
                       /\ offs[r] + counts[r] <= N
                       /\ counts[r] <= Scripts!RecvCount(N, call.p, 0)
                       /\ Before(counts, r) = offs[r]
  BY DealtOut
<1>5. m1 = After(m, s) BY Names DEF Reduce_scatter
<1>6. s = Step("Reduce_scatter",
               ReduceScatterMoves(Pointer("send"), Pointer("msg1"), counts))
  OBVIOUS
<1>7. t = Gatherv(Pointer("msg1"), Pointer("recv"), counts, offs, root) OBVIOUS
<1> HIDE DEF root, counts, offs, s, t
<1>8. \A r \in Procs : /\ counts[r] \in Nat /\ counts[r] <= Room(r, "msg1")
                       /\ offs[r] \in Int /\ Before(counts, r) = offs[r]
  BY <1>1, <1>4
<1>9. /\ Into(s, Procs, Pointer("msg1"))
      /\ \A r \in Procs : \A k \in 1 .. counts[r] :
           Contribute(m, "send", offs[r] + k, offs[r] + k)
             => After(m, s)[r]["msg1"][k] = Everyone(call.p, offs[r] + k)
  BY <1>2, <1>6, <1>8, UserBuffers, ReduceScatterStep
<1>10. Given(m1) /\ Whole(m1) BY <1>5, <1>9, UserBuffers, GivenStill
<1>11. \A k \in 1..N : Contribute(m, "send", k, k) BY <1>1, Passed DEF Contribute
<1>12. \A q \in Procs : /\ counts[q] <= Room(q, "msg1")
                        /\ offs[q] + counts[q] <= Room(root, "recv")
  BY <1>1, <1>2, <1>4
<1>13. /\ Into(t, {root}, Pointer("recv"))
       /\ \A q \in Procs : \A i \in 1 .. counts[q] :
            After(m1, t)[root]["recv"][offs[q] + i] = m1[q]["msg1"][i]
  BY <1>2, <1>3, <1>7, <1>10, <1>12, UserBuffers, GatherPartsStep
<1>14. Given(m2) BY <1>10, <1>13, UserBuffers, GivenStill
<1>15. ASSUME NEW k \in 1..N PROVE m2[root]["recv"][k] = Everyone(call.p, k)
  <2>1. PICK q \in Procs : \E i \in 1 .. counts[q] : k = offs[q] + i BY <1>3
  <2>2. PICK i \in 1 .. counts[q] : k = offs[q] + i BY <2>1
  <2>3. Contribute(m, "send", offs[q] + i, offs[q] + i) BY <1>11, <2>2
  <2>4. m1[q]["msg1"][i] = Everyone(call.p, offs[q] + i) BY <1>5, <1>9, <2>3
  <2>5. m2[root]["recv"][offs[q] + i] = m1[q]["msg1"][i] BY <1>13
  <2> QED BY <2>2, <2>4, <2>5, Zenon
<1> HIDE DEF m2
<1>16. \A k \in 1..N : m2[Root]["recv"][k] = Everyone(call.p, k) BY <1>2, <1>15
<1>17. Right(m2) BY <1>14, <1>16, ReduceRight DEF Is
<1> QED BY <1>17, Names DEF m2, t, root, counts, offs

(* The parts of a reduction, each where it belongs in the vector.          *)
LEMMA ReduceInPlaceStep ==
  ASSUME call \in Calls, NEW m, Whole(m), NEW a \in Buffers, NEW b \in Buffers, NEW counts,
         NEW offs, Laid(counts, offs), PartsFit(b, counts, offs),
         \A r \in Procs : Before(counts, r) = offs[r],
         NEW out, \A r \in Procs : /\ out[r] \in Places /\ out[r].rank = r /\ out[r].buf = b
                                   /\ counts[r] > 0 => out[r] = Plus(Pointer(b)[r], offs[r]),
         NEW name, NEW s, s = Step(name, ReduceScatterMoves(Pointer(a), out, counts))
  PROVE  /\ Into(s, Procs, Pointer(b))
         /\ \A r \in Procs : \A k \in 1 .. counts[r] :
              Contribute(m, a, offs[r] + k, offs[r] + k)
                => After(m, s)[r][b][offs[r] + k] = Everyone(call.p, offs[r] + k)
<1>1. Each(out) BY DEF Each
<1>2. Into(s, Procs, Pointer(b))
  <2>1. Into(s, Procs, out) BY <1>1, ReduceScatterInto
  <2>2. \A r \in Procs : Pointer(b)[r].buf = out[r].buf BY EachPointer
  <2> QED BY <2>1, <2>2 DEF Into
<1>3. ASSUME NEW r \in Procs, NEW k \in 1 .. counts[r],
             Contribute(m, a, offs[r] + k, offs[r] + k)
      PROVE  After(m, s)[r][b][offs[r] + k] = Everyone(call.p, offs[r] + k)
  <2> DEFINE off == offs[r]
             n == counts[r]
             c == off + k
  <2>1. off \in Nat /\ n \in Nat /\ k \in 1..n BY DEF Laid
  <2>2. off + n <= Room(r, b) /\ Room(r, b) \in Nat BY RoomNat DEF PartsFit
  <2>3. Contribute(m, a, off + k, c) BY <1>3
  <2>4. Before(counts, r) = off OBVIOUS
  <2>5. n > 0 => out[r] = Plus(Pointer(b)[r], off) OBVIOUS
  <2>6. counts[r] = n OBVIOUS
  <2> HIDE DEF off, n
  <2>7. off \in Int /\ k \in Int /\ c \in 1 .. Room(r, b) /\ out[r] = Plus(Pointer(b)[r], off)
    BY <2>1, <2>2, <2>5
  <2>8. Wide(out[r], counts[r]) BY <2>1, <2>2, <2>6, <2>7, WidePlus
  <2>9. counts[r] \in Int BY <2>1, <2>6
  <2> HIDE DEF c
  <2>10. Reduction(m, InOrder(Parts(Pointer(a), counts, r), call.p), k) = Everyone(call.p, c)
    BY <2>3, <2>4, <2>7, PartsCells
  <2> DEFINE in == Pointer(a)
  <2>11. Read(After(m, s), out[r], k) = Reduction(m, InOrder(Parts(in, counts, r), call.p), k)
    <3> HIDE DEF in
    <3>1. s = Step(name, ReduceScatterMoves(in, out, counts)) BY DEF in
    <3> DEFINE t == Step(name, ReduceScatterMoves(in, out, counts))
    <3>2. Read(After(m, t), out[r], k) = Reduction(m, InOrder(Parts(in, counts, r), call.p), k)
      BY <1>1, <2>8, <2>9, ReduceScattered
    <3> QED BY <3>1, <3>2
  <2>12. c = off + k BY DEF c
  <2>13. Read(After(m, s), Plus(Pointer(b)[r], off), k) = After(m, s)[r][b][c]
    BY <2>7, <2>12, WholeAfter, CellAt
  <2> QED BY <2>7, <2>10, <2>11, <2>13 DEF c, off
<1> QED BY <1>2, <1>3

LEMMA AllreducePartsRight ==
  ASSUME call \in Calls, Is("Allreduce", 3), NEW m, Given(m),
         NEW out, out = [r \in Procs |->
                           Plus(recvbuf[r], IF recvcounts[r] > 0 THEN displs[r] ELSE 0)],
         NEW m1, m1 = After(m, Reduce_scatter(sendbuf, out, recvcounts))
  PROVE  Right(After(m1, AllgathervInPlace(recvbuf, recvcounts, displs)))
<1> DEFINE counts == recvcounts
           offs == displs
           s == Step("Reduce_scatter", ReduceScatterMoves(Pointer("send"), out, counts))
           t == AllgathervInPlace(Pointer("recv"), counts, offs)
           m2 == After(m1, t)
<1>1. \A r \in Procs : Room(r, "send") = N /\ Room(r, "recv") = N
  BY UserRooms DEF Is
<1>2. N \in Nat /\ Whole(m) BY Roomy DEF Given
<1>3. /\ Laid(counts, offs)
      /\ \A k \in 1..N : \E q \in Procs : \E i \in 1 .. counts[q] : k = offs[q] + i
  BY PartsDealt
<1>4. \A r \in Procs : /\ counts[r] \in Nat /\ offs[r] \in Nat
                       /\ offs[r] + counts[r] <= N
                       /\ Before(counts, r) = offs[r]
  BY DealtOut
<1>5. m1 = After(m, s) BY Names DEF Reduce_scatter
<1>6. s = Step("Reduce_scatter", ReduceScatterMoves(Pointer("send"), out, counts)) OBVIOUS
<1>7. t = AllgathervInPlace(Pointer("recv"), counts, offs) OBVIOUS
<1>8. \A r \in Procs :
        out[r] = Plus(Pointer("recv")[r], IF counts[r] > 0 THEN offs[r] ELSE 0)
  BY Names
<1> HIDE DEF counts, offs, s, t
<1>9. ASSUME NEW r \in Procs
      PROVE  /\ out[r] \in Places /\ out[r].rank = r /\ out[r].buf = "recv"
             /\ counts[r] > 0 => out[r] = Plus(Pointer("recv")[r], offs[r])
  <2> DEFINE off == IF counts[r] > 0 THEN offs[r] ELSE 0
  <2>1. off \in Int BY <1>4
  <2>2. out[r] = Plus(Pointer("recv")[r], off) BY <1>8
  <2> HIDE DEF off
  <2>3. /\ Pointer("recv")[r] \in Places /\ Pointer("recv")[r].rank = r
        /\ Pointer("recv")[r].buf = "recv"
    BY UserBuffers, PointerTypes DEF Pointers
  <2>4. out[r] \in Places /\ out[r].rank = r /\ out[r].buf = "recv"
    BY <2>1, <2>2, <2>3, PlusType
  <2> QED BY <1>8, <2>4
<1>10. PartsFit("recv", counts, offs) BY <1>1, <1>4 DEF PartsFit
<1>11. \A r \in Procs : Before(counts, r) = offs[r] BY <1>4
<1>12. /\ Into(s, Procs, Pointer("recv"))
       /\ \A r \in Procs : \A k \in 1 .. counts[r] :
            Contribute(m, "send", offs[r] + k, offs[r] + k)
              => After(m, s)[r]["recv"][offs[r] + k] = Everyone(call.p, offs[r] + k)
  BY ONLY call \in Calls, <1>2, <1>3, <1>6, <1>9, <1>10, <1>11, UserBuffers, ReduceInPlaceStep
<1>13. Given(m1) /\ Whole(m1) BY <1>5, <1>12, UserBuffers, GivenStill
<1>14. \A k \in 1..N : Contribute(m, "send", k, k) BY <1>1, Passed DEF Contribute
<1>15. Into(t, Procs, Pointer("recv")) /\ Spread(m1, m2, "recv", counts, offs)
  BY ONLY call \in Calls, <1>3, <1>7, <1>10, <1>13, UserBuffers, InPlaceStep
<1>16. Given(m2) BY <1>13, <1>15, UserBuffers, GivenStill
<1> HIDE DEF m2
<1>17. ASSUME NEW r \in Procs, NEW k \in 1..N
       PROVE  m2[r]["recv"][k] = Everyone(call.p, k)
  <2>1. PICK q \in Procs : \E i \in 1 .. counts[q] : k = offs[q] + i BY <1>3
  <2>2. PICK i \in 1 .. counts[q] : k = offs[q] + i BY <2>1
  <2>3. Contribute(m, "send", offs[q] + i, offs[q] + i) BY <1>14, <2>2
  <2>4. m1[q]["recv"][offs[q] + i] = Everyone(call.p, offs[q] + i) BY <1>5, <1>12, <2>3
  <2>5. m2[r]["recv"][offs[q] + i] = m1[q]["recv"][offs[q] + i] BY <1>15 DEF Spread
  <2> QED BY <2>2, <2>4, <2>5, Zenon
<1>18. Right(m2) BY <1>16, <1>17, AllreduceRight DEF Is
<1> QED BY <1>18, Names DEF m2, t, counts, offs

-------------------------------------------------------------------------------
(* The mock-ups that pad.                                                  *)

LEMMA PaddingCells ==
  ASSUME call \in Calls, \A r \in Procs : Room(r, "msg1") = Padded, NEW m, Whole(m)
  PROVE  /\ Into(FillPadding, Procs, Pointer("msg1"))
         /\ \A r \in Procs, k \in 1..N :
              After(m, FillPadding)[r]["msg1"][k] = m[r]["msg1"][k]
<1> DEFINE moves == {Move(<< sendbuf[r] >>, Plus(aux_buf1[r], i), 1)
                       : r \in Procs, i \in N .. Padded - 1}
<1>1. FillPadding = Step("local", moves) BY DEF FillPadding
<1>2. N \in Nat /\ Padded \in Nat /\ N <= Padded BY Roomy, ChunksFill
<1>3. ASSUME NEW w \in moves
      PROVE  \E q \in Procs, i \in N .. Padded - 1 :
               w.to.rank = q /\ w.to.buf = "msg1" /\ w.to.at = i /\ w.n = 1
  <2>1. PICK q \in Procs, i \in N .. Padded - 1 :
          w = Move(<< sendbuf[q] >>, Plus(aux_buf1[q], i), 1)
    OBVIOUS
  <2>2. w.to = Plus(aux_buf1[q], i) /\ w.n = 1 BY <2>1, MoveIs
  <2>3. /\ Pointer("msg1")[q] \in Places /\ Pointer("msg1")[q].rank = q
        /\ Pointer("msg1")[q].buf = "msg1" /\ Pointer("msg1")[q].at = 0
    BY UserBuffers, PointerTypes DEF Pointers
  <2>4. i \in Int /\ 0 + i = i /\ aux_buf1 = Pointer("msg1") BY <1>2, Names
  <2> DEFINE place == Pointer("msg1")[q]
  <2>5. /\ w.to = Plus(place, i) /\ place \in Places
        /\ place.rank = q /\ place.buf = "msg1" /\ place.at = 0
    BY <2>2, <2>3, <2>4
  <2>6. w.to.rank = q /\ w.to.buf = "msg1" /\ w.to.at = i
    <3> HIDE DEF place
    <3>1. place \in Places /\ i \in Int BY <2>4, <2>5
    <3>2. /\ Plus(place, i).rank = place.rank /\ Plus(place, i).buf = place.buf
          /\ Plus(place, i).at = place.at + i
      BY ONLY <3>1, PlusType
    <3> QED BY ONLY <2>4, <2>5, <3>2
  <2> QED BY <2>2, <2>6
<1> HIDE DEF moves
<1>4. Into(FillPadding, Procs, Pointer("msg1"))
  BY <1>1, <1>3, UserBuffers, EachPointer DEF Into, Step
<1>5. ASSUME NEW r \in Procs, NEW k \in 1..N
      PROVE  After(m, FillPadding)[r]["msg1"][k] = m[r]["msg1"][k]
  <2> DEFINE place == Pointer("msg1")[r]
  <2>1. place \in Places /\ place.rank = r /\ place.buf = "msg1" /\ place.at = 0
    BY UserBuffers, PointerTypes DEF Pointers
  <2>2. k \in 1 .. Room(r, "msg1") /\ k \in Int /\ 0 + k = k BY <1>2
  <2> HIDE DEF place
  <2>3. Inside(place, k) BY <2>1, <2>2 DEF Inside
  <2>4. ASSUME NEW w \in moves, Hits(w, place, k) PROVE FALSE
    <3>1. PICK i \in N .. Padded - 1 : w.to.at = i /\ w.n = 1 BY <1>3
    <3>2. k - i \in 1 .. 1 BY <2>1, <2>2, <2>4, <3>1 DEF Hits
    <3> QED BY <1>2, <3>2
  <2>5. Read(After(m, Step("local", moves)), place, k) = Read(m, place, k)
    BY <2>3, <2>4, Untouched
  <2>6. Read(After(m, FillPadding), Pointer("msg1")[r], k) = Read(m, Pointer("msg1")[r], k)
    BY <1>1, <2>5 DEF place
  <2> QED BY <2>2, <2>6, UserBuffers, WholeAfter, CellIs
<1> QED BY <1>4, <1>5

(* The element k of a vector of N is in the chunk of a process.            *)
LEMMA InChunk ==
  ASSUME call \in Calls, NEW k \in 1..N
  PROVE  \E q \in Procs, i \in 1 .. Chunk : k = q * Chunk + i
<1> DEFINE all == call.p * Chunk
<1>1. Chunk \in Nat /\ all \in Nat /\ N \in Nat /\ N <= all BY Roomy, ChunksFill
<1> HIDE DEF all
<1>2. k \in 1..all BY <1>1
<1>3. k \in 1 .. call.p * Chunk BY <1>2 DEF all
<1> QED BY <1>1, <1>3, ByBlocks

LEMMA PaddedReduced ==
  ASSUME call \in Calls,
         \A r \in Procs : /\ Room(r, "send") = N /\ Room(r, "msg1") = Padded
                          /\ Room(r, "msg2") = Chunk,
         NEW m, Given(m), NEW m1, m1 = After(m, CopyIn(Procs, sendbuf)),
         NEW m2, m2 = After(m1, FillPadding),
         NEW m3, m3 = After(m2, Reduce_scatter_block(aux_buf1, aux_buf2, Chunk))
  PROVE  /\ Given(m3) /\ Whole(m3)
         /\ \A q \in Procs : \A i \in 1 .. Chunk :
              q * Chunk + i \in 1..N => m3[q]["msg2"][i] = Everyone(call.p, q * Chunk + i)
<1> DEFINE s == memcpy(Procs, Pointer("msg1"), Pointer("send"), N)
           t == FillPadding
           u == Reduce_scatter_block(Pointer("msg1"), Pointer("msg2"), Chunk)
<1>1. N \in Nat /\ Whole(m) /\ Procs \subseteq Procs BY Roomy DEF Given
<1>2. Chunk \in Nat /\ Padded \in Nat /\ N <= Padded /\ Padded = call.p * Chunk
  BY ChunksFill
<1>3. m1 = After(m, s) BY Names DEF CopyIn
<1>4. m2 = After(m1, t) OBVIOUS
<1>5. m3 = After(m2, u) BY Names
<1>6. /\ Holds("send", N, Procs) /\ Holds("msg1", N, Procs)
      /\ \A r \in Procs : Chunk <= Room(r, "msg2")
  BY <1>1, <1>2 DEF Holds
<1>7. s = memcpy(Procs, Pointer("msg1"), Pointer("send"), N) OBVIOUS
<1> HIDE DEF s
<1>8. Into(s, Procs, Pointer("msg1")) /\ Copies(m, "send", m1, "msg1", N, Procs)
  BY <1>7, <1>1, <1>3, <1>6, UserBuffers, CopyStep
<1>9. Given(m1) /\ Whole(m1) BY <1>3, <1>8, UserBuffers, GivenStill
<1>10. /\ Into(t, Procs, Pointer("msg1"))
      /\ \A r \in Procs, k \in 1..N : After(m1, t)[r]["msg1"][k] = m1[r]["msg1"][k]
  BY <1>9, PaddingCells
<1> HIDE DEF t
<1>11. Given(m2) /\ Whole(m2) BY <1>4, <1>9, <1>10, UserBuffers, GivenStill
<1>12. ASSUME NEW k \in 1..N PROVE Contribute(m2, "msg1", k, k)
  <2>1. ASSUME NEW q \in Procs
        PROVE  k \in 1 .. Room(q, "msg1") /\ m2[q]["msg1"][k] = << Value(q, k) >>
    <3>1. k \in 1 .. Room(q, "msg1") /\ k \in 1 .. Room(q, "send") BY <1>1, <1>2
    <3>2. m[q]["send"][k] = << Value(q, k) >> BY <3>1, Passed
    <3> QED BY <1>4, <1>8, <1>10, <3>1, <3>2 DEF Copies
  <2> QED BY <2>1 DEF Contribute
<1>13. /\ Into(u, Procs, Pointer("msg2"))
       /\ \A r \in Procs : \A k \in 1 .. Chunk :
            Contribute(m2, "msg1", r * Chunk + k, r * Chunk + k)
              => After(m2, u)[r]["msg2"][k] = Everyone(call.p, r * Chunk + k)
  BY <1>2, <1>6, <1>11, UserBuffers, ReduceBlocksStep
<1> HIDE DEF u
<1>14. Given(m3) /\ Whole(m3) BY <1>5, <1>11, <1>13, UserBuffers, GivenStill
<1>15. ASSUME NEW q \in Procs, NEW i \in 1 .. Chunk, q * Chunk + i \in 1..N
       PROVE  m3[q]["msg2"][i] = Everyone(call.p, q * Chunk + i)
  BY <1>5, <1>12, <1>13, <1>15
<1> QED BY <1>14, <1>15

LEMMA AllreducePaddedRight ==
  ASSUME call \in Calls, Is("Allreduce", 2), NEW m, Given(m),
         NEW m1, m1 = After(m, CopyIn(Procs, sendbuf)),
         NEW m2, m2 = After(m1, FillPadding),
         NEW m3, m3 = After(m2, Reduce_scatter_block(aux_buf1, aux_buf2, Chunk)),
         NEW m4, m4 = After(m3, Allgather(aux_buf2, aux_buf1, Chunk))
  PROVE  Right(After(m4, memcpy(Procs, recvbuf, aux_buf1, N)))
<1> DEFINE s == Allgather(Pointer("msg2"), Pointer("msg1"), Chunk)
           t == memcpy(Procs, Pointer("recv"), Pointer("msg1"), N)
           m5 == After(m4, t)
<1>1. \A r \in Procs : /\ Room(r, "send") = N /\ Room(r, "recv") = N
                       /\ Room(r, "msg1") = Padded /\ Room(r, "msg2") = Chunk
  BY UserRooms, RoomsPadded DEF Is
<1>2. /\ N \in Nat /\ Chunk \in Nat /\ Padded \in Nat /\ N <= Padded
      /\ Padded = call.p * Chunk /\ Procs \subseteq Procs
  BY Roomy, ChunksFill
<1>3. /\ Given(m3) /\ Whole(m3)
      /\ \A q \in Procs : \A i \in 1 .. Chunk :
           q * Chunk + i \in 1..N => m3[q]["msg2"][i] = Everyone(call.p, q * Chunk + i)
  BY <1>1, PaddedReduced
<1>4. m4 = After(m3, s) BY Names
<1>5. s = Allgather(Pointer("msg2"), Pointer("msg1"), Chunk) OBVIOUS
<1> HIDE DEF s
<1>6. \A r \in Procs : Chunk <= Room(r, "msg2") /\ call.p * Chunk <= Room(r, "msg1")
  BY <1>1, <1>2
<1>7. Into(s, Procs, Pointer("msg1")) /\ Collects(m3, "msg2", m4, "msg1", Chunk, Procs)
  BY <1>2, <1>3, <1>4, <1>5, <1>6, UserBuffers, AllgatherStep
<1>8. Given(m4) /\ Whole(m4) BY <1>3, <1>4, <1>7, UserBuffers, GivenStill
<1>9. Holds("msg1", N, Procs) /\ Holds("recv", N, Procs) BY <1>1, <1>2 DEF Holds
<1>10. t = memcpy(Procs, Pointer("recv"), Pointer("msg1"), N) OBVIOUS
<1> HIDE DEF t
<1>11. Into(t, Procs, Pointer("recv")) /\ Copies(m4, "msg1", After(m4, t), "recv", N, Procs)
  BY <1>10, <1>2, <1>8, <1>9, UserBuffers, CopyStep
<1>12. Given(m5) BY <1>8, <1>11, UserBuffers, GivenStill
<1>13. ASSUME NEW r \in Procs, NEW k \in 1..N
       PROVE  m5[r]["recv"][k] = Everyone(call.p, k)
  <2>1. PICK q \in Procs, i \in 1 .. Chunk : k = q * Chunk + i BY InChunk
  <2>2. q * Chunk + i \in 1..N BY <2>1
  <2>3. m3[q]["msg2"][i] = Everyone(call.p, q * Chunk + i) BY <1>3, <2>2
  <2>4. m4[r]["msg1"][q * Chunk + i] = m3[q]["msg2"][i] BY <1>7 DEF Collects
  <2>5. m5[r]["recv"][k] = m4[r]["msg1"][k] BY <1>11 DEF Copies
  <2> QED BY <2>1, <2>3, <2>4, <2>5, Zenon
<1> HIDE DEF m5
<1>14. Right(m5) BY <1>12, <1>13, AllreduceRight DEF Is
<1> QED BY <1>14, Names DEF m5, t

LEMMA ReducePaddedRight ==
  ASSUME call \in Calls, Is("Reduce", 2), NEW m, Given(m),
         NEW m1, m1 = After(m, CopyIn(Procs, sendbuf)),
         NEW m2, m2 = After(m1, FillPadding),
         NEW m3, m3 = After(m2, Reduce_scatter_block(aux_buf1, aux_buf2, Chunk)),
         NEW m4, m4 = After(m3, Gather(aux_buf2, aux_buf1, Chunk, Root))
  PROVE  Right(After(m4, memcpy({Root}, recvbuf, aux_buf1, N)))
<1> DEFINE root == Root
           s == Gather(Pointer("msg2"), Pointer("msg1"), Chunk, root)
           t == memcpy({root}, Pointer("recv"), Pointer("msg1"), N)
           m5 == After(m4, t)
<1>1. /\ \A r \in Procs : /\ Room(r, "send") = N
                          /\ Room(r, "msg1") = Padded /\ Room(r, "msg2") = Chunk
      /\ Room(Root, "recv") = N
  BY Roomy, UserRooms, RoomsPadded DEF Is
<1>2. /\ N \in Nat /\ Chunk \in Nat /\ Padded \in Nat /\ N <= Padded
      /\ Padded = call.p * Chunk /\ root \in Procs /\ root = Root /\ {root} \subseteq Procs
  BY Roomy, ChunksFill
<1>3. /\ Given(m3) /\ Whole(m3)
      /\ \A q \in Procs : \A i \in 1 .. Chunk :
           q * Chunk + i \in 1..N => m3[q]["msg2"][i] = Everyone(call.p, q * Chunk + i)
  BY <1>1, PaddedReduced
<1>4. m4 = After(m3, s) BY Names
<1>5. s = Gather(Pointer("msg2"), Pointer("msg1"), Chunk, root) OBVIOUS
<1> HIDE DEF s, root
<1>6. (\A r \in Procs : Chunk <= Room(r, "msg2")) /\ call.p * Chunk <= Room(root, "msg1")
  BY <1>1, <1>2
<1>7. Into(s, {root}, Pointer("msg1")) /\ Collects(m3, "msg2", m4, "msg1", Chunk, {root})
  <2>1. Whole(m3) /\ "msg1" \in Buffers /\ "msg2" \in Buffers BY <1>3, UserBuffers
  <2>2. Chunk \in Nat /\ root \in Procs BY <1>2
  <2> QED BY ONLY call \in Calls, <1>4, <1>5, <1>6, <2>1, <2>2, GatherStep
<1>8. Given(m4) /\ Whole(m4) BY <1>3, <1>4, <1>7, UserBuffers, GivenStill
<1>9. Holds("msg1", N, {root}) /\ Holds("recv", N, {root}) BY <1>1, <1>2 DEF Holds
<1>10. t = memcpy({root}, Pointer("recv"), Pointer("msg1"), N) OBVIOUS
<1> HIDE DEF t
<1>11. /\ Into(t, {root}, Pointer("recv"))
       /\ Copies(m4, "msg1", After(m4, t), "recv", N, {root})
  BY <1>10, <1>2, <1>8, <1>9, UserBuffers, CopyStep
<1>12. Given(m5) BY <1>8, <1>11, UserBuffers, GivenStill
<1>13. ASSUME NEW k \in 1..N PROVE m5[root]["recv"][k] = Everyone(call.p, k)
  <2>1. PICK q \in Procs, i \in 1 .. Chunk : k = q * Chunk + i BY InChunk
  <2>2. q * Chunk + i \in 1..N BY <2>1
  <2>3. m3[q]["msg2"][i] = Everyone(call.p, q * Chunk + i) BY <1>3, <2>2
  <2>4. m4[root]["msg1"][q * Chunk + i] = m3[q]["msg2"][i] BY <1>7 DEF Collects
  <2>5. m5[root]["recv"][k] = m4[root]["msg1"][k] BY <1>11 DEF Copies
  <2> QED BY <2>1, <2>3, <2>4, <2>5, Zenon
<1> HIDE DEF m5
<1>14. \A k \in 1..N : m5[Root]["recv"][k] = Everyone(call.p, k) BY <1>2, <1>13
<1>15. Right(m5) BY <1>12, <1>14, ReduceRight DEF Is
<1> QED BY <1>15, Names DEF m5, t, root

LEMMA BcastPaddedRight ==
  ASSUME call \in Calls, Is("Bcast", 2), NEW m, Started(m),
         NEW m1, m1 = After(m, CopyIn({Root}, recvbuf)),
         NEW m2, m2 = After(m1, Scatter(aux_buf1, aux_buf2, Chunk, Root)),
         NEW m3, m3 = After(m2, Allgather(aux_buf2, aux_buf1, Chunk))
  PROVE  Right(After(m3, memcpy(Procs \ {Root}, recvbuf, aux_buf1, N)))
<1> DEFINE root == Root
           others == Procs \ {root}
           s == memcpy({root}, Pointer("msg1"), Pointer("recv"), N)
           t == Scatter(Pointer("msg1"), Pointer("msg2"), Chunk, root)
           u == Allgather(Pointer("msg2"), Pointer("msg1"), Chunk)
           v == memcpy(others, Pointer("recv"), Pointer("msg1"), N)
           m4 == After(m3, v)
<1>1. \A r \in Procs : /\ Room(r, "recv") = N
                       /\ Room(r, "msg1") = Padded /\ Room(r, "msg2") = Chunk
  BY UserRooms, RoomsPadded DEF Is
<1>2. /\ N \in Nat /\ Chunk \in Nat /\ Padded \in Nat /\ N <= Padded
      /\ Padded = call.p * Chunk /\ root \in Procs /\ root = Root
      /\ {root} \subseteq Procs /\ others \subseteq Procs
  BY Roomy, ChunksFill
<1>3. Given(m) /\ Whole(m) BY DEF Started, Given
<1>4. \A k \in 1..N : m[root]["recv"][k] = << Value(root, k) >> BY DEF Started, Is
<1>5. m1 = After(m, s) BY Names DEF CopyIn
<1>6. m2 = After(m1, t) /\ m3 = After(m2, u) BY Names
<1>7. /\ t = Scatter(Pointer("msg1"), Pointer("msg2"), Chunk, root)
      /\ u = Allgather(Pointer("msg2"), Pointer("msg1"), Chunk)
      /\ s = memcpy({root}, Pointer("msg1"), Pointer("recv"), N)
      /\ v = memcpy(others, Pointer("recv"), Pointer("msg1"), N)
  OBVIOUS
<1>8. \A r \in Procs : r = root \/ r \in others OBVIOUS
<1>9. \A r \in others : r # root OBVIOUS
<1> HIDE DEF root, others, s, t, u, v
<1>10. \A r \in Procs : /\ N <= Room(r, "recv") /\ N <= Room(r, "msg1")
                        /\ Chunk <= Room(r, "msg2") /\ call.p * Chunk <= Room(r, "msg1")
  BY <1>1, <1>2
<1>11. /\ Into(s, {root}, Pointer("msg1"))
       /\ Copies(m, "recv", After(m, s), "msg1", N, {root})
  <2>1. Holds("recv", N, {root}) /\ Holds("msg1", N, {root}) BY <1>2, <1>10 DEF Holds
  <2> QED BY <1>2, <1>3, <1>7, <2>1, UserBuffers, CopyStep
<1>12. Given(m1) /\ Whole(m1) BY <1>3, <1>5, <1>11, UserBuffers, GivenStill
<1>13. Into(t, Procs, Pointer("msg2")) /\ Deals(m1, "msg1", m2, "msg2", Chunk, root)
  BY <1>2, <1>6, <1>7, <1>10, <1>12, UserBuffers, ScatterStep
<1>14. Given(m2) /\ Whole(m2) BY <1>6, <1>12, <1>13, UserBuffers, GivenStill
<1>15. Into(u, Procs, Pointer("msg1")) /\ Collects(m2, "msg2", m3, "msg1", Chunk, Procs)
  BY <1>2, <1>6, <1>7, <1>10, <1>14, UserBuffers, AllgatherStep
<1>16. Given(m3) /\ Whole(m3) BY <1>6, <1>14, <1>15, UserBuffers, GivenStill
<1>17. /\ Into(v, others, Pointer("recv"))
       /\ Copies(m3, "msg1", After(m3, v), "recv", N, others)
  <2>1. Holds("recv", N, others) /\ Holds("msg1", N, others) BY <1>2, <1>10 DEF Holds
  <2> QED BY <1>2, <1>7, <1>16, <2>1, UserBuffers, CopyStep
<1>18. Given(m4) BY <1>16, <1>17, UserBuffers, GivenStill
<1>19. m4[root]["recv"] = m[root]["recv"]
  <2>1. m1[root]["recv"] = m[root]["recv"]
    BY <1>2, <1>3, <1>5, <1>11, UserBuffers, Names, KeepsOthers
  <2>2. m2[root]["recv"] = m1[root]["recv"]
    BY <1>2, <1>6, <1>12, <1>13, UserBuffers, Names, KeepsOthers
  <2>3. m3[root]["recv"] = m2[root]["recv"]
    BY <1>2, <1>6, <1>14, <1>15, UserBuffers, Names, KeepsOthers
  <2>4. m4[root]["recv"] = m3[root]["recv"]
    BY <1>2, <1>9, <1>16, <1>17, UserBuffers, Spared
  <2> QED BY <2>1, <2>2, <2>3, <2>4
<1>20. ASSUME NEW r \in Procs, NEW k \in 1..N
       PROVE  m4[r]["recv"][k] = << Value(root, k) >>
  <2>1. CASE r = root BY <1>4, <1>19, <2>1
  <2>2. CASE r \in others
    <3>1. PICK q \in Procs, i \in 1 .. Chunk : k = q * Chunk + i BY InChunk
    <3>2. m1[root]["msg1"][k] = m[root]["recv"][k] BY <1>5, <1>11 DEF Copies
    <3>3. m2[q]["msg2"][i] = m1[root]["msg1"][q * Chunk + i] BY <1>13 DEF Deals
    <3>4. m3[r]["msg1"][q * Chunk + i] = m2[q]["msg2"][i] BY <1>15 DEF Collects
    <3>5. m4[r]["recv"][k] = m3[r]["msg1"][k] BY <1>17, <2>2 DEF Copies
    <3>6. m[root]["recv"][k] = << Value(root, k) >> BY <1>4
    <3> QED BY <3>1, <3>2, <3>3, <3>4, <3>5, <3>6, Zenon
  <2> QED BY <1>8, <2>1, <2>2
<1> HIDE DEF m4
<1>21. \A r \in Procs : \A k \in 1..N : m4[r]["recv"][k] = << Value(Root, k) >>
  BY <1>2, <1>20
<1>22. Right(m4) BY <1>18, <1>21, BcastRight DEF Is
<1> QED BY <1>22, Names DEF m4, v, others, root

-------------------------------------------------------------------------------
(* The mock-up that fills a buffer block by block.                         *)

(* The first x blocks of the scratch buffer hold what the process passes.  *)
Filled(m, x) ==
  \A r \in Procs : \A j \in Nat : j < x =>
    \A e \in 1..N : m[r]["msg1"][j * N + e] = << Value(r, e) >>

LEMMA FillBlock ==
  ASSUME call \in Calls,
         \A r \in Procs : Room(r, "send") = N /\ Room(r, "msg1") = call.p * N,
         NEW m, Given(m), NEW x \in Procs, Filled(m, x),
         NEW to, to = [r \in Procs |-> Plus(aux_buf1[r], x * N)],
         NEW m1, m1 = After(m, memcpy(Procs, to, sendbuf, N))
  PROVE  Given(m1) /\ Filled(m1, x + 1)
<1> DEFINE all == call.p * N
           off == x * N
           offs == [r \in Procs |-> off]
           s == memcpy(Procs, to, Pointer("send"), N)
<1>1. /\ N \in Nat /\ Whole(m) /\ all \in Nat /\ x \in Nat /\ Procs \subseteq Nat
      /\ off \in Nat /\ off + N <= all
  <2>1. N \in Nat /\ Whole(m) /\ all \in Nat BY Roomy DEF Given
  <2>2. Procs \subseteq Nat BY CallTypes
  <2>3. off \in Nat /\ off + N <= all BY <2>1, InBlock
  <2> QED BY <2>1, <2>2, <2>3
<1>2. m1 = After(m, s) /\ s = memcpy(Procs, to, Pointer("send"), N) BY Names
<1>3. \A r \in Procs : Room(r, "send") = N /\ Room(r, "msg1") = all OBVIOUS
<1>4. \A r \in Procs : to[r] = Plus(Pointer("msg1")[r], off) BY Names
<1> HIDE DEF off, all, s
<1>5. \A r \in Procs : offs[r] = off OBVIOUS
<1> HIDE DEF offs
<1>6. Offset(to, "msg1", offs) BY <1>1, <1>4, <1>5 DEF Offset
<1>7. \A r \in Procs : offs[r] + N <= Room(r, "msg1") /\ N <= Room(r, "send")
  BY <1>1, <1>3, <1>5
<1>8. /\ Into(s, Procs, Pointer("msg1"))
      /\ \A r \in Procs : \A k \in 1..N : After(m, s)[r]["msg1"][offs[r] + k] = m[r]["send"][k]
      /\ \A r \in Procs : \A k \in 1 .. Room(r, "msg1") :
           k - offs[r] \notin 1..N => After(m, s)[r]["msg1"][k] = m[r]["msg1"][k]
  BY ONLY call \in Calls, <1>1, <1>2, <1>6, <1>7, UserBuffers, CopyToStep
<1>9. Given(m1) BY <1>2, <1>8, UserBuffers, GivenStill
<1>10. ASSUME NEW r \in Procs, NEW e \in 1..N
       PROVE  m1[r]["msg1"][off + e] = << Value(r, e) >>
  <2>1. m[r]["send"][e] = << Value(r, e) >> BY <1>1, <1>3, Passed
  <2> QED BY <1>2, <1>5, <1>8, <2>1
<1>11. ASSUME NEW r \in Procs, NEW j \in Nat, j < x, NEW e \in 1..N
       PROVE  m1[r]["msg1"][j * N + e] = << Value(r, e) >>
  <2> DEFINE a == j * N
  <2>1. a \in Nat /\ a + N <= off BY <1>1, <1>11, BlocksBefore DEF off
  <2> HIDE DEF a
  <2>2. a + e \in 1 .. Room(r, "msg1") /\ (a + e) - offs[r] \notin 1..N
    BY <1>1, <1>3, <1>5, <2>1
  <2>3. m1[r]["msg1"][a + e] = m[r]["msg1"][a + e] BY <1>2, <1>8, <2>2
  <2>4. m[r]["msg1"][j * N + e] = << Value(r, e) >> BY <1>11 DEF Filled
  <2> QED BY <2>3, <2>4 DEF a
<1>12. ASSUME NEW r \in Procs, NEW j \in Nat, j < x + 1, NEW e \in 1..N
       PROVE  m1[r]["msg1"][j * N + e] = << Value(r, e) >>
  <2>1. j = x \/ j < x BY <1>1, <1>12
  <2>2. CASE j = x BY <1>10, <2>2 DEF off
  <2>3. CASE j < x BY <1>11, <2>3
  <2> QED BY <2>1, <2>2, <2>3
<1> QED BY <1>9, <1>12 DEF Filled

(* The copies of the loop, one for each process.                           *)
FillLoop(copies) ==
  \A x \in Procs : copies[x + 1] = memcpy(Procs, [r \in Procs |-> Plus(aux_buf1[r], x * N)],
                                          sendbuf, N)

LEMMA FilledByLoop ==
  ASSUME call \in Calls,
         \A r \in Procs : Room(r, "send") = N /\ Room(r, "msg1") = call.p * N,
         NEW h, Given(h[0]), NEW copies, FillLoop(copies),
         \A x \in Procs : h[x + 1] = After(h[x], copies[x + 1])
  PROVE  Given(h[call.p]) /\ Filled(h[call.p], call.p)
<1> DEFINE Fine(x) == Given(h[x]) /\ Filled(h[x], x)
           T == {x \in 0 .. call.p : ~ Fine(x)}
<1>1. call.p \in Nat /\ Procs = 0 .. call.p - 1 BY CallTypes
<1>2. Fine(0) BY DEF Filled
<1>3. ASSUME NEW x \in Procs, Fine(x) PROVE Fine(x + 1)
  <2> DEFINE to == [r \in Procs |-> Plus(aux_buf1[r], x * N)]
  <2>1. copies[x + 1] = memcpy(Procs, to, sendbuf, N) BY DEF FillLoop
  <2>2. to = [r \in Procs |-> Plus(aux_buf1[r], x * N)] OBVIOUS
  <2> HIDE DEF to
  <2>3. h[x + 1] = After(h[x], memcpy(Procs, to, sendbuf, N)) BY <2>1
  <2> QED BY <1>3, <2>2, <2>3, FillBlock
<1> HIDE DEF Fine
<1>4. T = {}
  <2> SUFFICES ASSUME T # {} PROVE FALSE
    OBVIOUS
  <2>1. T \subseteq Nat BY <1>1
  <2>2. PICK y \in T : \A z \in T : y <= z BY <2>1, LeastNumber
  <2>3. y # 0 /\ y \in 0 .. call.p /\ ~ Fine(y) BY <1>2
  <2>4. y - 1 \in Procs /\ y - 1 \in 0 .. call.p /\ y - 1 < y /\ (y - 1) + 1 = y
    BY <1>1, <2>3
  <2>5. y - 1 \notin T BY <2>2, <2>4
  <2>6. Fine(y - 1) BY <2>4, <2>5
  <2>7. Fine((y - 1) + 1) BY <1>3, <2>4, <2>6
  <2> QED BY <2>3, <2>4, <2>7
<1>5. call.p \in 0 .. call.p BY <1>1
<1>6. Fine(call.p) BY <1>4, <1>5
<1> QED BY <1>6 DEF Fine

LEMMA AllgatherAlltoallRight ==
  ASSUME call \in Calls, Is("Allgather", 3), NEW h, Given(h[0]),
         NEW copies, FillLoop(copies),
         \A x \in Procs : h[x + 1] = After(h[x], copies[x + 1])
  PROVE  Right(After(h[call.p], Alltoall(aux_buf1, recvbuf, N)))
<1> DEFINE m == h[call.p]
           s == Alltoall(aux_buf1, recvbuf, N)
           m1 == After(m, s)
<1>1. \A r \in Procs : /\ Room(r, "send") = N /\ Room(r, "recv") = call.p * N
                       /\ Room(r, "msg1") = call.p * N
  BY UserRooms, RoomsAll DEF Is
<1>2. Given(m) /\ Filled(m, call.p) BY <1>1, FilledByLoop
<1>3. N \in Nat /\ Whole(m) /\ call.p * N \in Nat BY <1>2, Roomy DEF Given
<1>4. s = Alltoall(Pointer("msg1"), Pointer("recv"), N) BY Names, Zenon
<1>5. \A r \in Procs : call.p * N <= Room(r, "msg1") /\ call.p * N <= Room(r, "recv")
  BY <1>1, <1>3
<1> HIDE DEF m, s
<1>6. Into(s, Procs, Pointer("recv")) /\ Trades(m, "msg1", m1, "recv", N)
  BY <1>3, <1>4, <1>5, UserBuffers, AlltoallStep
<1>7. Given(m1) BY <1>2, <1>6, UserBuffers, GivenStill
<1> HIDE DEF m1
<1>8. ASSUME NEW r \in Procs, NEW q \in Procs, NEW i \in 1..N
      PROVE  m1[r]["recv"][q * N + i] = << Value(q, i) >>
  <2>1. m1[r]["recv"][q * N + i] = m[q]["msg1"][r * N + i] BY <1>6 DEF Trades
  <2>2. r \in Nat /\ r < call.p
    <3>1. call.p \in Nat /\ Procs = 0 .. call.p - 1 BY CallTypes, Zenon
    <3>2. r \in 0 .. call.p - 1 BY <3>1, Zenon
    <3> QED BY ONLY <3>1, <3>2
  <2>3. m[q]["msg1"][r * N + i] = << Value(q, i) >> BY <1>2, <2>2 DEF Filled
  <2> QED BY <2>1, <2>3, Zenon
<1>9. Right(m1) BY <1>7, <1>8, AllgatherRight DEF Is
<1> QED BY <1>9 DEF m1, m, s

-------------------------------------------------------------------------------
(* From the memory before the first step to that after the last one.       *)

(* The memories h[0], h[1], ... are those that the steps s go through.     *)
Play(h, s) == \A i \in 1 .. Len(s) : h[i] = After(h[i - 1], s[i])

LEMMA Play1 ==
  ASSUME NEW h, NEW s, NEW a, s = << a >>, Play(h, s)
  PROVE  /\ Len(s) = 1
         /\ h[1] = After(h[0], a)
<1>1. Len(s) = 1 /\ s[1] = a OBVIOUS
<1>2. 1 \in 1 .. 1 /\ 1 - 1 = 0 OBVIOUS
<1> QED BY <1>1, <1>2 DEF Play

LEMMA Play2 ==
  ASSUME NEW h, NEW s, NEW a, NEW b, s = << a, b >>, Play(h, s)
  PROVE  /\ Len(s) = 2
         /\ h[1] = After(h[0], a)
         /\ h[2] = After(h[1], b)
<1>1. Len(s) = 2 /\ s[1] = a /\ s[2] = b OBVIOUS
<1>2. 1 \in 1 .. 2 /\ 1 - 1 = 0 /\ 2 \in 1 .. 2 /\ 2 - 1 = 1 OBVIOUS
<1> QED BY <1>1, <1>2 DEF Play

LEMMA Play3 ==
  ASSUME NEW h, NEW s, NEW a, NEW b, NEW c, s = << a, b, c >>, Play(h, s)
  PROVE  /\ Len(s) = 3
         /\ h[1] = After(h[0], a)
         /\ h[2] = After(h[1], b)
         /\ h[3] = After(h[2], c)
<1>1. Len(s) = 3 /\ s[1] = a /\ s[2] = b /\ s[3] = c OBVIOUS
<1>2. 1 \in 1 .. 3 /\ 1 - 1 = 0 /\ 2 \in 1 .. 3 /\ 2 - 1 = 1 /\ 3 \in 1 .. 3 /\ 3 - 1 = 2
  OBVIOUS
<1> QED BY <1>1, <1>2 DEF Play

LEMMA Play4 ==
  ASSUME NEW h, NEW s, NEW a, NEW b, NEW c, NEW d, s = << a, b, c, d >>, Play(h, s)
  PROVE  /\ Len(s) = 4
         /\ h[1] = After(h[0], a)
         /\ h[2] = After(h[1], b)
         /\ h[3] = After(h[2], c)
         /\ h[4] = After(h[3], d)
<1>1. Len(s) = 4 /\ s[1] = a /\ s[2] = b /\ s[3] = c /\ s[4] = d OBVIOUS
<1>2. 1 \in 1 .. 4 /\ 1 - 1 = 0 /\ 2 \in 1 .. 4 /\ 2 - 1 = 1 /\ 3 \in 1 .. 4 /\ 3 - 1 = 2
      /\ 4 \in 1 .. 4 /\ 4 - 1 = 3
  OBVIOUS
<1> QED BY <1>1, <1>2 DEF Play

LEMMA Play5 ==
  ASSUME NEW h, NEW s, NEW a, NEW b, NEW c, NEW d, NEW f, s = << a, b, c, d, f >>, Play(h, s)
  PROVE  /\ Len(s) = 5
         /\ h[1] = After(h[0], a)
         /\ h[2] = After(h[1], b)
         /\ h[3] = After(h[2], c)
         /\ h[4] = After(h[3], d)
         /\ h[5] = After(h[4], f)
<1>1. Len(s) = 5 /\ s[1] = a /\ s[2] = b /\ s[3] = c /\ s[4] = d /\ s[5] = f OBVIOUS
<1>2. 1 \in 1 .. 5 /\ 1 - 1 = 0 /\ 2 \in 1 .. 5 /\ 2 - 1 = 1 /\ 3 \in 1 .. 5 /\ 3 - 1 = 2
      /\ 4 \in 1 .. 5 /\ 4 - 1 = 3 /\ 5 \in 1 .. 5 /\ 5 - 1 = 4
  OBVIOUS
<1> QED BY <1>1, <1>2 DEF Play

LEMMA Appended ==
  ASSUME NEW n \in Nat, NEW s, s = [i \in 1..n |-> s[i]], NEW x
  PROVE  /\ Len(s \o << x >>) = n + 1 /\ (s \o << x >>)[n + 1] = x
         /\ \A i \in 1..n : (s \o << x >>)[i] = s[i]
<1> DEFINE T == {s[i] : i \in 1..n} \cup {x}
           t == << x >>
<1>1. \A i \in 1..n : s[i] \in T OBVIOUS
<1>2. t \in Seq(T) /\ Len(t) = 1 /\ t[1] = x OBVIOUS
<1> HIDE DEF T, t
<1>3. s \in [1..n -> T] BY <1>1, Zenon
<1>4. s \in Seq(T) /\ Len(s) = n BY <1>3
<1>5. /\ Len(s \o t) = Len(s) + Len(t)
       /\ \A i \in 1 .. Len(s) + Len(t) :
            (s \o t)[i] = IF i <= Len(s) THEN s[i] ELSE t[i - Len(s)]
  BY ONLY <1>2, <1>4, ConcatProperties, Zenon
<1>6. /\ Len(s \o t) = n + 1
      /\ \A i \in 1 .. n + 1 : (s \o t)[i] = IF i <= n THEN s[i] ELSE t[i - n]
  BY <1>2, <1>4, <1>5
<1>7. \A i \in 1..n : i \in 1 .. n + 1 /\ i <= n OBVIOUS
<1>8. n + 1 \in 1 .. n + 1 /\ ~ (n + 1 <= n) /\ (n + 1) - n = 1 OBVIOUS
<1>9. (s \o t)[n + 1] = t[1] BY <1>6, <1>8, Zenon
<1>10. \A i \in 1..n : (s \o t)[i] = s[i] BY <1>6, <1>7
<1> QED BY <1>2, <1>6, <1>9, <1>10 DEF t

LEMMA Joined ==
  ASSUME NEW a, NEW b, NEW c PROVE << a, b >> \o << c >> = << a, b, c >>
<1> DEFINE T == {a, b, c}
           s == << a, b >>
           t == << c >>
           u == << a, b, c >>
<1>1. /\ s \in Seq(T) /\ Len(s) = 2 /\ s[1] = a /\ s[2] = b
      /\ t \in Seq(T) /\ Len(t) = 1 /\ t[1] = c
      /\ u \in Seq(T) /\ Len(u) = 3 /\ u[1] = a /\ u[2] = b /\ u[3] = c
  OBVIOUS
<1> HIDE DEF T, s, t, u
<1>2. /\ s \o t \in Seq(T) /\ Len(s \o t) = Len(s) + Len(t)
      /\ \A i \in 1 .. Len(s) + Len(t) :
           (s \o t)[i] = IF i <= Len(s) THEN s[i] ELSE t[i - Len(s)]
  BY <1>1, ConcatProperties, Zenon
<1>3. /\ s \o t \in Seq(T) /\ Len(s \o t) = 3
      /\ (s \o t)[1] = a /\ (s \o t)[2] = b /\ (s \o t)[3] = c
  BY <1>1, <1>2
<1>4. \A i \in 1..3 : (s \o t)[i] = u[i]
  <2>1. \A i \in 1..3 : i = 1 \/ i = 2 \/ i = 3 OBVIOUS
  <2> QED BY <1>1, <1>3, <2>1
<1>5. s \o t = u BY <1>1, <1>3, <1>4, SeqEqual
<1> QED BY <1>5 DEF s, t, u

(* Allgather_as_Alltoall, whose number of steps depends on that of the     *)
(* processes.                                                              *)
LEMMA AllgatherAlltoallPlayed ==
  ASSUME call \in Calls, Is("Allgather", 3), NEW h, Given(h[0]), Play(h, Allgather_as_Alltoall)
  PROVE  Right(h[Len(Allgather_as_Alltoall)])
<1> DEFINE ptr(y) == [r \in Procs |-> Plus(aux_buf1[r], y * N)]
           copies == [i \in 1 .. call.p |-> memcpy(Procs, ptr(i - 1), sendbuf, N)]
           last == Alltoall(aux_buf1, recvbuf, N)
           s == copies \o << last >>
<1>1. Allgather_as_Alltoall = s BY DEF Allgather_as_Alltoall, Shifted
<1>2. call.p \in Nat /\ Procs = 0 .. call.p - 1 BY CallTypes
<1> HIDE DEF ptr
<1>3. \A x \in Procs : copies[x + 1] = memcpy(Procs, ptr(x), sendbuf, N)
  <2> TAKE x \in Procs
  <2>1. x + 1 \in 1 .. call.p /\ (x + 1) - 1 = x BY <1>2
  <2>2. copies[x + 1] = memcpy(Procs, ptr((x + 1) - 1), sendbuf, N) BY <2>1
  <2> QED BY <2>1, <2>2
<1>4. copies = [i \in 1 .. call.p |-> copies[i]] OBVIOUS
<1> HIDE DEF copies, last
<1>5. FillLoop(copies) BY <1>3 DEF FillLoop, ptr
<1>6. /\ Len(s) = call.p + 1 /\ s[call.p + 1] = last
      /\ \A x \in Procs : s[x + 1] = copies[x + 1]
  <2>1. \A x \in Procs : x + 1 \in 1 .. call.p BY <1>2
  <2> QED BY <1>2, <1>4, <2>1, Appended
<1> HIDE DEF s
<1>7. \A x \in Procs : h[x + 1] = After(h[x], copies[x + 1])
  <2> TAKE x \in Procs
  <2>1. x + 1 \in 1 .. Len(s) /\ (x + 1) - 1 = x BY <1>2, <1>6
  <2> QED BY <1>1, <1>6, <2>1 DEF Play
<1>8. h[call.p + 1] = After(h[call.p], last)
  <2>1. call.p + 1 \in 1 .. Len(s) /\ (call.p + 1) - 1 = call.p BY <1>2, <1>6
  <2> QED BY <1>1, <1>6, <2>1 DEF Play
<1>9. Right(After(h[call.p], last)) BY <1>5, <1>7, AllgatherAlltoallRight DEF last
<1> QED BY <1>1, <1>6, <1>8, <1>9

LEMMA StepsRight ==
  ASSUME call \in Calls, call.coll = "Scan" => call.commutes,
         NEW h, Started(h[0]), Play(h, Steps)
  PROVE  Right(h[Len(Steps)])
<1>1. Given(h[0]) BY DEF Started
<1>2. CASE Is("Allgather", 1)
  <2> DEFINE a == Allgatherv(sendbuf, recvbuf, Blocks(N), Strided(N))
  <2>1. Steps = << a >> BY <1>2 DEF Is, Steps, Allgather_as_Allgatherv
  <2> HIDE DEF a
  <2>2. Len(Steps) = 1 /\ h[1] = After(h[0], a)
    BY <2>1, Play1
  <2> QED BY <1>1, <1>2, <2>2, AllgathervRight DEF a
<1>3. CASE Is("Allgather", 2)
  <2> DEFINE to == [r \in Procs |-> Plus(aux_buf1[r], r * N)]
             a == memset0(aux_buf1, call.p * N)
             b == memcpy(Procs, to, sendbuf, N)
             c == Allreduce(aux_buf1, recvbuf, call.p * N)
  <2>1. Steps = Allgather_as_Allreduce BY <1>3 DEF Is, Steps
  <2>2. Allgather_as_Allreduce = << a, b >> \o << c >>
    BY DEF Allgather_as_Allreduce, OwnBlock, Shifted
  <2>3. Steps = << a, b, c >> BY <2>1, <2>2, Joined
  <2>4. to = [r \in Procs |-> Plus(aux_buf1[r], r * N)] OBVIOUS
  <2> HIDE DEF to
  <2> HIDE DEF a, b, c
  <2>5. Len(Steps) = 3 /\ h[1] = After(h[0], a) /\ h[2] = After(h[1], b)
        /\ h[3] = After(h[2], c)
    BY <2>3, Play3
  <2> QED BY <1>1, <1>3, <2>5, <2>4, AllgatherAllreduceRight DEF a, b, c
<1>4. CASE Is("Allgather", 3)
  <2>1. Steps = Allgather_as_Alltoall BY <1>4 DEF Is, Steps
  <2> QED BY <1>1, <1>4, <2>1, AllgatherAlltoallPlayed
<1>5. CASE Is("Allgather", 4)
  <2> DEFINE a == Gather(sendbuf, recvbuf, N, mockup_root_rank)
             b == Bcast(recvbuf, N * call.p, mockup_root_rank)
  <2>1. Steps = << a, b >> BY <1>5 DEF Is, Steps, Allgather_as_GatherBcast
  <2> HIDE DEF a, b
  <2>2. Len(Steps) = 2 /\ h[1] = After(h[0], a) /\ h[2] = After(h[1], b)
    BY <2>1, Play2
  <2> QED BY <1>1, <1>5, <2>2, GatherBcastRight DEF a, b
<1>6. CASE Is("Allreduce", 1)
  <2> DEFINE a == Reduce(sendbuf, recvbuf, N, mockup_root_rank)
             b == Bcast(recvbuf, N, mockup_root_rank)
  <2>1. Steps = << a, b >> BY <1>6 DEF Is, Steps, Allreduce_as_Reduce_Bcast
  <2> HIDE DEF a, b
  <2>2. Len(Steps) = 2 /\ h[1] = After(h[0], a) /\ h[2] = After(h[1], b)
    BY <2>1, Play2
  <2> QED BY <1>1, <1>6, <2>2, ReduceBcastRight DEF a, b
<1>7. CASE Is("Allreduce", 2)
  <2> DEFINE a == CopyIn(Procs, sendbuf)
             b == FillPadding
             c == Reduce_scatter_block(aux_buf1, aux_buf2, Chunk)
             d == Allgather(aux_buf2, aux_buf1, Chunk)
             f == memcpy(Procs, recvbuf, aux_buf1, N)
  <2>1. Steps = << a, b, c, d, f >>
    BY <1>7 DEF Is, Steps, Allreduce_as_Reduce_scatter_block_Allgather
  <2> HIDE DEF a, b, c, d, f
  <2>2. Len(Steps) = 5 /\ h[1] = After(h[0], a) /\ h[2] = After(h[1], b)
        /\ h[3] = After(h[2], c) /\ h[4] = After(h[3], d) /\ h[5] = After(h[4], f)
    BY <2>1, Play5
  <2> QED BY <1>1, <1>7, <2>2, AllreducePaddedRight DEF a, b, c, d, f
<1>8. CASE Is("Allreduce", 3)
  <2> DEFINE out == [r \in Procs |->
                     Plus(recvbuf[r], IF recvcounts[r] > 0 THEN displs[r] ELSE 0)]
             a == Reduce_scatter(sendbuf, out, recvcounts)
             b == AllgathervInPlace(recvbuf, recvcounts, displs)
  <2>1. Steps = << a, b >>
    BY <1>8 DEF Is, Steps, Allreduce_as_Reduce_scatter_Allgatherv, Shifted
  <2>2. out = [r \in Procs |->
                     Plus(recvbuf[r], IF recvcounts[r] > 0 THEN displs[r] ELSE 0)] OBVIOUS
  <2> HIDE DEF out
  <2> HIDE DEF a, b
  <2>3. Len(Steps) = 2 /\ h[1] = After(h[0], a) /\ h[2] = After(h[1], b)
    BY <2>1, Play2
  <2> QED BY <1>1, <1>8, <2>3, <2>2, AllreducePartsRight DEF a, b
<1>9. CASE Is("Alltoall", 1)
  <2> DEFINE a == Alltoallv(sendbuf, recvbuf, Blocks(N), Strided(N), Strided(N))
  <2>1. Steps = << a >> BY <1>9 DEF Is, Steps, Alltoall_as_Alltoallv
  <2> HIDE DEF a
  <2>2. Len(Steps) = 1 /\ h[1] = After(h[0], a)
    BY <2>1, Play1
  <2> QED BY <1>1, <1>9, <2>2, AlltoallvRight DEF a
<1>10. CASE Is("Bcast", 1)
  <2> DEFINE counts == [r \in Procs |-> IF r = Root THEN N ELSE 0]
             offs == [r \in Procs |-> IF r > Root THEN N ELSE 0]
             a == AllgathervInPlace(recvbuf, counts, offs)
  <2>1. Steps = << a >> BY <1>10 DEF Is, Steps, Bcast_as_Allgatherv
  <2>2. counts = [r \in Procs |-> IF r = Root THEN N ELSE 0]
        /\ offs = [r \in Procs |-> IF r > Root THEN N ELSE 0]
    OBVIOUS
  <2> HIDE DEF counts, offs
  <2> HIDE DEF a
  <2>3. Len(Steps) = 1 /\ h[1] = After(h[0], a)
    BY <2>1, Play1
  <2> QED BY <1>1, <1>10, <2>3, <2>2, BcastAllgathervRight DEF a
<1>11. CASE Is("Bcast", 2)
  <2> DEFINE a == CopyIn({Root}, recvbuf)
             b == Scatter(aux_buf1, aux_buf2, Chunk, Root)
             c == Allgather(aux_buf2, aux_buf1, Chunk)
             d == memcpy(Procs \ {Root}, recvbuf, aux_buf1, N)
  <2>1. Steps = << a, b, c, d >> BY <1>11 DEF Is, Steps, Bcast_as_Scatter_Allgather
  <2> HIDE DEF a, b, c, d
  <2>2. Len(Steps) = 4 /\ h[1] = After(h[0], a) /\ h[2] = After(h[1], b)
        /\ h[3] = After(h[2], c) /\ h[4] = After(h[3], d)
    BY <2>1, Play4
  <2> QED BY <1>1, <1>11, <2>2, BcastPaddedRight DEF a, b, c, d
<1>12. CASE Is("Gather", 1)
  <2> DEFINE a == Allgather(sendbuf, RecvAtRoot, N)
  <2>1. Steps = << a >> BY <1>12 DEF Is, Steps, Gather_as_Allgather
  <2> HIDE DEF a
  <2>2. Len(Steps) = 1 /\ h[1] = After(h[0], a)
    BY <2>1, Play1
  <2> QED BY <1>1, <1>12, <2>2, GatherAllgatherRight DEF a
<1>13. CASE Is("Gather", 2)
  <2> DEFINE a == Gatherv(sendbuf, recvbuf, Blocks(N), Strided(N), Root)
  <2>1. Steps = << a >> BY <1>13 DEF Is, Steps, Gather_as_Gatherv
  <2> HIDE DEF a
  <2>2. Len(Steps) = 1 /\ h[1] = After(h[0], a)
    BY <2>1, Play1
  <2> QED BY <1>1, <1>13, <2>2, GathervRight DEF a
<1>14. CASE Is("Gather", 3)
  <2> DEFINE to == [r \in Procs |-> Plus(aux_buf1[r], r * N)]
             a == memset0(aux_buf1, call.p * N)
             b == memcpy(Procs, to, sendbuf, N)
             c == Reduce(aux_buf1, recvbuf, call.p * N, Root)
  <2>1. Steps = Gather_as_Reduce BY <1>14 DEF Is, Steps
  <2>2. Gather_as_Reduce = << a, b >> \o << c >> BY DEF Gather_as_Reduce, OwnBlock, Shifted
  <2>3. Steps = << a, b, c >> BY <2>1, <2>2, Joined
  <2>4. to = [r \in Procs |-> Plus(aux_buf1[r], r * N)] OBVIOUS
  <2> HIDE DEF to
  <2> HIDE DEF a, b, c
  <2>5. Len(Steps) = 3 /\ h[1] = After(h[0], a) /\ h[2] = After(h[1], b)
        /\ h[3] = After(h[2], c)
    BY <2>3, Play3
  <2> QED BY <1>1, <1>14, <2>5, <2>4, GatherReduceRight DEF a, b, c
<1>15. CASE Is("Reduce", 1)
  <2> DEFINE a == Allreduce(sendbuf, RecvAtRoot, N)
  <2>1. Steps = << a >> BY <1>15 DEF Is, Steps, Reduce_as_Allreduce
  <2> HIDE DEF a
  <2>2. Len(Steps) = 1 /\ h[1] = After(h[0], a)
    BY <2>1, Play1
  <2> QED BY <1>1, <1>15, <2>2, ReduceAllreduceRight DEF a
<1>16. CASE Is("Reduce", 2)
  <2> DEFINE a == CopyIn(Procs, sendbuf)
             b == FillPadding
             c == Reduce_scatter_block(aux_buf1, aux_buf2, Chunk)
             d == Gather(aux_buf2, aux_buf1, Chunk, Root)
             f == memcpy({Root}, recvbuf, aux_buf1, N)
  <2>1. Steps = << a, b, c, d, f >>
    BY <1>16 DEF Is, Steps, Reduce_as_Reduce_scatter_block_Gather
  <2> HIDE DEF a, b, c, d, f
  <2>2. Len(Steps) = 5 /\ h[1] = After(h[0], a) /\ h[2] = After(h[1], b)
        /\ h[3] = After(h[2], c) /\ h[4] = After(h[3], d) /\ h[5] = After(h[4], f)
    BY <2>1, Play5
  <2> QED BY <1>1, <1>16, <2>2, ReducePaddedRight DEF a, b, c, d, f
<1>17. CASE Is("Reduce", 3)
  <2> DEFINE a == Reduce_scatter(sendbuf, aux_buf1, recvcounts)
             b == Gatherv(aux_buf1, recvbuf, recvcounts, displs, Root)
  <2>1. Steps = << a, b >> BY <1>17 DEF Is, Steps, Reduce_as_Reduce_scatter_Gatherv
  <2> HIDE DEF a, b
  <2>2. Len(Steps) = 2 /\ h[1] = After(h[0], a) /\ h[2] = After(h[1], b)
    BY <2>1, Play2
  <2> QED BY <1>1, <1>17, <2>2, ReducePartsRight DEF a, b
<1>18. CASE Is("Reduce", 4)
  <2> DEFINE counts == [r \in Procs |-> IF r = Root THEN N ELSE 0]
             a == Reduce_scatter(sendbuf, recvbuf, counts)
  <2>1. Steps = << a >> BY <1>18 DEF Is, Steps, Reduce_as_Reduce_scatter
  <2>2. counts = [r \in Procs |-> IF r = Root THEN N ELSE 0] OBVIOUS
  <2> HIDE DEF counts
  <2> HIDE DEF a
  <2>3. Len(Steps) = 1 /\ h[1] = After(h[0], a)
    BY <2>1, Play1
  <2> QED BY <1>1, <1>18, <2>3, <2>2, ReduceOneRight DEF a
<1>19. CASE Is("Reduce_scatter_block", 1)
  <2> DEFINE a == Reduce(sendbuf, aux_buf1, call.p * N, mockup_root_rank)
             b == Scatter(aux_buf1, recvbuf, N, mockup_root_rank)
  <2>1. Steps = << a, b >> BY <1>19 DEF Is, Steps, Reduce_scatter_block_as_Reduce_Scatter
  <2> HIDE DEF a, b
  <2>2. Len(Steps) = 2 /\ h[1] = After(h[0], a) /\ h[2] = After(h[1], b)
    BY <2>1, Play2
  <2> QED BY <1>1, <1>19, <2>2, ReduceThenScatterRight DEF a, b
<1>20. CASE Is("Reduce_scatter_block", 2)
  <2> DEFINE a == Reduce_scatter(sendbuf, recvbuf, Blocks(N))
  <2>1. Steps = << a >> BY <1>20 DEF Is, Steps, Reduce_scatter_block_as_Reduce_scatter
  <2> HIDE DEF a
  <2>2. Len(Steps) = 1 /\ h[1] = After(h[0], a)
    BY <2>1, Play1
  <2> QED BY <1>1, <1>20, <2>2, ReduceScatterBlocksRight DEF a
<1>21. CASE Is("Reduce_scatter_block", 3)
  <2> DEFINE from == [r \in Procs |-> Plus(aux_buf1[r], r * N)]
             a == Allreduce(sendbuf, aux_buf1, call.p * N)
             b == memcpy(Procs, recvbuf, from, N)
  <2>1. Steps = << a, b >> BY <1>21 DEF Is, Steps, Reduce_scatter_block_as_Allreduce, Shifted
  <2>2. from = [r \in Procs |-> Plus(aux_buf1[r], r * N)] OBVIOUS
  <2> HIDE DEF from
  <2> HIDE DEF a, b
  <2>3. Len(Steps) = 2 /\ h[1] = After(h[0], a) /\ h[2] = After(h[1], b)
    BY <2>1, Play2
  <2> QED BY <1>1, <1>21, <2>3, <2>2, AllreduceBlocksRight DEF a, b
<1>22. CASE Is("Scan", 1)
  <2> DEFINE a == Exscan(sendbuf, recvbuf, N)
             b == memcpy({0}, recvbuf, sendbuf, N)
             c == Reduce_local(Procs \ {0}, sendbuf, recvbuf, N)
  <2>1. Steps = << a, b, c >> BY <1>22 DEF Is, Steps, Scan_as_Exscan_Reduce_local
  <2> HIDE DEF a, b, c
  <2>2. Len(Steps) = 3 /\ h[1] = After(h[0], a) /\ h[2] = After(h[1], b)
        /\ h[3] = After(h[2], c)
    BY <2>1, Play3
  <2> QED BY <1>1, <1>22, <2>2, ScanAllRight DEF a, b, c, Is
<1>23. CASE Is("Scatter", 1)
  <2> DEFINE buf == [r \in Procs |-> IF r = Root THEN sendbuf[r] ELSE aux_buf1[r]]
             from == [r \in Procs |-> Plus(buf[r], r * N)]
             a == Bcast(buf, call.p * N, Root)
             b == memcpy(Procs, recvbuf, from, N)
  <2>1. Steps = << a, b >> BY <1>23 DEF Is, Steps, Scatter_as_Bcast, Shifted
  <2>2. buf = [r \in Procs |-> IF r = Root THEN sendbuf[r] ELSE aux_buf1[r]]
        /\ from = [r \in Procs |-> Plus(buf[r], r * N)]
    OBVIOUS
  <2> HIDE DEF buf, from
  <2> HIDE DEF a, b
  <2>3. Len(Steps) = 2 /\ h[1] = After(h[0], a) /\ h[2] = After(h[1], b)
    BY <2>1, Play2
  <2> QED BY <1>1, <1>23, <2>3, <2>2, ScatterBcastRight DEF a, b
<1>24. CASE Is("Scatter", 2)
  <2> DEFINE a == Scatterv(sendbuf, recvbuf, Blocks(N), Strided(N), Root)
  <2>1. Steps = << a >> BY <1>24 DEF Is, Steps, Scatter_as_Scatterv
  <2> HIDE DEF a
  <2>2. Len(Steps) = 1 /\ h[1] = After(h[0], a)
    BY <2>1, Play1
  <2> QED BY <1>1, <1>24, <2>2, ScattervRight DEF a
<1> QED BY Selections, <1>2, <1>3, <1>4, <1>5, <1>6, <1>7, <1>8, <1>9, <1>10, <1>11, <1>12,
           <1>13, <1>14, <1>15, <1>16, <1>17, <1>18, <1>19, <1>20, <1>21, <1>22, <1>23, <1>24

-------------------------------------------------------------------------------
(* A step changes neither the call nor what follows from it.               *)

LEMMA SameCall ==
  ASSUME call' = call
  PROVE  /\ Procs' = Procs /\ N' = N /\ Root' = Root /\ call'.p = call.p
         /\ sendbuf' = sendbuf /\ recvbuf' = recvbuf
         /\ aux_buf1' = aux_buf1 /\ aux_buf2' = aux_buf2 /\ RecvAtRoot' = RecvAtRoot
<1>1. Procs' = Procs /\ N' = N /\ Root' = Root BY DEF Procs, N, Root
<1>2. \A b : Pointer(b)' = Pointer(b) BY <1>1 DEF Pointer
<1>3. /\ sendbuf' = sendbuf /\ recvbuf' = recvbuf
      /\ aux_buf1' = aux_buf1 /\ aux_buf2' = aux_buf2
  BY <1>2 DEF sendbuf, recvbuf, aux_buf1, aux_buf2
<1>4. RecvAtRoot' = RecvAtRoot BY <1>1, <1>3 DEF RecvAtRoot
<1> QED BY <1>1, <1>3, <1>4

LEMMA SameParts ==
  ASSUME call' = call
  PROVE  /\ Padded' = Padded /\ Chunk' = Chunk
         /\ Blocks(N)' = Blocks(N) /\ Strided(N)' = Strided(N)
         /\ Blocks(Chunk)' = Blocks(Chunk) /\ Strided(Chunk)' = Strided(Chunk)
         /\ recvcounts' = recvcounts /\ displs' = displs
<1>1. Padded' = Padded /\ Chunk' = Chunk BY SameCall DEF Padded, Chunk
<1>2. Blocks(N)' = Blocks(N) /\ Strided(N)' = Strided(N) BY SameCall DEF Blocks, Strided
<1>3. Blocks(Chunk)' = Blocks(Chunk) /\ Strided(Chunk)' = Strided(Chunk)
  BY <1>1, SameCall DEF Blocks, Strided
<1>4. recvcounts' = recvcounts BY SameCall DEF recvcounts
<1>5. displs' = displs BY <1>4, SameCall DEF displs, Before
<1> QED BY <1>1, <1>2, <1>3, <1>4, <1>5

(* Steps that several mock-ups take, and those on blocks of many sizes.    *)
LEMMA SameSteps ==
  ASSUME call' = call
  PROVE  /\ OwnBlock' = OwnBlock
         /\ FillPadding' = FillPadding
         /\ CopyIn(Procs, sendbuf)' = CopyIn(Procs, sendbuf)
         /\ memcpy(Procs, recvbuf, aux_buf1, N)' = memcpy(Procs, recvbuf, aux_buf1, N)
         /\ memcpy({Root}, recvbuf, aux_buf1, N)' = memcpy({Root}, recvbuf, aux_buf1, N)
         /\ Allgather(aux_buf2, aux_buf1, Chunk)' = Allgather(aux_buf2, aux_buf1, Chunk)
         /\ Gather(aux_buf2, aux_buf1, Chunk, Root)' = Gather(aux_buf2, aux_buf1, Chunk, Root)
         /\ Alltoall(aux_buf1, recvbuf, N)' = Alltoall(aux_buf1, recvbuf, N)
         /\ Reduce_scatter_block(aux_buf1, aux_buf2, Chunk)'
              = Reduce_scatter_block(aux_buf1, aux_buf2, Chunk)
         /\ Reduce_scatter(sendbuf, aux_buf1, recvcounts)'
              = Reduce_scatter(sendbuf, aux_buf1, recvcounts)
         /\ Gatherv(aux_buf1, recvbuf, recvcounts, displs, Root)'
              = Gatherv(aux_buf1, recvbuf, recvcounts, displs, Root)
         /\ AllgathervInPlace(recvbuf, recvcounts, displs)'
              = AllgathervInPlace(recvbuf, recvcounts, displs)
<1>1. OwnBlock' = OwnBlock
  BY SameCall, SameParts DEF OwnBlock, memset0, memcpy, Step, Shifted
<1>2. FillPadding' = FillPadding
  BY SameCall, SameParts DEF FillPadding, Step
<1>3. CopyIn(Procs, sendbuf)' = CopyIn(Procs, sendbuf)
  BY SameCall, SameParts DEF CopyIn, memcpy, Step
<1>4. memcpy(Procs, recvbuf, aux_buf1, N)' = memcpy(Procs, recvbuf, aux_buf1, N)
  BY SameCall, SameParts DEF memcpy, Step
<1>5. memcpy({Root}, recvbuf, aux_buf1, N)' = memcpy({Root}, recvbuf, aux_buf1, N)
  BY SameCall, SameParts DEF memcpy, Step
<1>6. Allgather(aux_buf2, aux_buf1, Chunk)' = Allgather(aux_buf2, aux_buf1, Chunk)
  BY SameCall, SameParts DEF Allgather, GathervMoves, Step
<1>7. Gather(aux_buf2, aux_buf1, Chunk, Root)'
       = Gather(aux_buf2, aux_buf1, Chunk, Root)
  BY SameCall, SameParts DEF Gather, GathervMoves, Step
<1>8. Alltoall(aux_buf1, recvbuf, N)' = Alltoall(aux_buf1, recvbuf, N)
  BY SameCall, SameParts DEF Alltoall, AlltoallvMoves, Step
<1>9. Reduce_scatter_block(aux_buf1, aux_buf2, Chunk)'
       = Reduce_scatter_block(aux_buf1, aux_buf2, Chunk)
  BY SameCall, SameParts DEF Reduce_scatter_block, ReduceScatterMoves, ReduceMoves,
                             InOrder, Shifted,
         Before, Step
<1>10. Reduce_scatter(sendbuf, aux_buf1, recvcounts)'
       = Reduce_scatter(sendbuf, aux_buf1, recvcounts)
  BY SameCall, SameParts DEF Reduce_scatter, ReduceScatterMoves, ReduceMoves, InOrder, Shifted,
         Before, Step
<1>11. Gatherv(aux_buf1, recvbuf, recvcounts, displs, Root)'
       = Gatherv(aux_buf1, recvbuf, recvcounts, displs, Root)
  BY SameCall, SameParts DEF Gatherv, GathervMoves, Step
<1>12. AllgathervInPlace(recvbuf, recvcounts, displs)'
       = AllgathervInPlace(recvbuf, recvcounts, displs)
  BY SameCall, SameParts DEF AllgathervInPlace, Allgatherv, GathervMoves, Shifted, Step
<1> QED BY <1>1, <1>2, <1>3, <1>4, <1>5, <1>6, <1>7, <1>8, <1>9, <1>10, <1>11, <1>12

LEMMA StepsSame == ASSUME call' = call PROVE Steps' = Steps
<1>1. Allgather_as_Allgatherv' = Allgather_as_Allgatherv
  BY SameCall, SameParts
     DEF Allgather_as_Allgatherv, Allgatherv, GathervMoves, Step
<1>2. Allgather_as_Allreduce' = Allgather_as_Allreduce
  BY SameCall, SameParts, SameSteps
     DEF Allgather_as_Allreduce, Allreduce, ReduceMoves, InOrder, Step
<1>3. Allgather_as_Alltoall' = Allgather_as_Alltoall
  <2> DEFINE copies == [i \in 1 .. call.p |->
                          memcpy(Procs, [r \in Procs |-> Plus(aux_buf1[r], (i - 1) * N)],
                                 sendbuf, N)]
             last == Alltoall(aux_buf1, recvbuf, N)
  <2>1. Allgather_as_Alltoall = copies \o << last >> BY DEF Allgather_as_Alltoall, Shifted
  <2>2. Allgather_as_Alltoall' = copies' \o << last' >>
    BY DEF Allgather_as_Alltoall, Shifted
  <2>3. copies' = copies BY SameCall DEF memcpy, Step
  <2>4. last' = last BY SameSteps
  <2> HIDE DEF copies, last
  <2> QED BY <2>1, <2>2, <2>3, <2>4
<1>4. Allgather_as_GatherBcast' = Allgather_as_GatherBcast
  BY SameCall, SameParts
     DEF Allgather_as_GatherBcast, Gather, GathervMoves, Bcast, Step, mockup_root_rank
<1>5. Allreduce_as_Reduce_Bcast' = Allreduce_as_Reduce_Bcast
  BY SameCall, SameParts
     DEF Allreduce_as_Reduce_Bcast, Reduce, ReduceMoves, InOrder, Bcast, Step, mockup_root_rank
<1>6. Allreduce_as_Reduce_scatter_block_Allgather'
       = Allreduce_as_Reduce_scatter_block_Allgather
  BY SameSteps DEF Allreduce_as_Reduce_scatter_block_Allgather
<1>7. Allreduce_as_Reduce_scatter_Allgatherv'
       = Allreduce_as_Reduce_scatter_Allgatherv
  <2> DEFINE out == [r \in Procs |->
                       Plus(recvbuf[r], IF recvcounts[r] > 0 THEN displs[r] ELSE 0)]
  <2>1. Reduce_scatter(sendbuf, out, recvcounts)' = Reduce_scatter(sendbuf, out, recvcounts)
    BY SameCall, SameParts
       DEF Reduce_scatter, ReduceScatterMoves, ReduceMoves, InOrder, Shifted, Before, Step
  <2> QED BY <2>1, SameSteps DEF Allreduce_as_Reduce_scatter_Allgatherv, Shifted
<1>8. Alltoall_as_Alltoallv' = Alltoall_as_Alltoallv
  BY SameCall, SameParts
     DEF Alltoall_as_Alltoallv, Alltoallv, AlltoallvMoves, Step
<1>9. Bcast_as_Allgatherv' = Bcast_as_Allgatherv
  BY SameCall, SameParts
     DEF Bcast_as_Allgatherv, AllgathervInPlace, Allgatherv, GathervMoves, Shifted, Step
<1>10. Bcast_as_Scatter_Allgather' = Bcast_as_Scatter_Allgather
  BY SameCall, SameParts
     DEF Bcast_as_Scatter_Allgather, CopyIn, memcpy, Scatter, ScattervMoves, Allgather,
         GathervMoves, Step
<1>11. Gather_as_Allgather' = Gather_as_Allgather
  BY SameCall, SameParts
     DEF Gather_as_Allgather, Allgather, GathervMoves, Step
<1>12. Gather_as_Gatherv' = Gather_as_Gatherv
  BY SameCall, SameParts
     DEF Gather_as_Gatherv, Gatherv, GathervMoves, Step
<1>13. Gather_as_Reduce' = Gather_as_Reduce
  BY SameCall, SameParts, SameSteps
     DEF Gather_as_Reduce, Reduce, ReduceMoves, InOrder, Step
<1>14. Reduce_as_Allreduce' = Reduce_as_Allreduce
  BY SameCall, SameParts
     DEF Reduce_as_Allreduce, Allreduce, ReduceMoves, InOrder, Step
<1>15. Reduce_as_Reduce_scatter_block_Gather' = Reduce_as_Reduce_scatter_block_Gather
  BY SameSteps DEF Reduce_as_Reduce_scatter_block_Gather
<1>16. Reduce_as_Reduce_scatter_Gatherv' = Reduce_as_Reduce_scatter_Gatherv
  BY SameSteps DEF Reduce_as_Reduce_scatter_Gatherv
<1>17. Reduce_as_Reduce_scatter' = Reduce_as_Reduce_scatter
  BY SameCall, SameParts
     DEF Reduce_as_Reduce_scatter, Reduce_scatter, ReduceScatterMoves, ReduceMoves, InOrder,
         Shifted, Before, Step
<1>18. Reduce_scatter_block_as_Reduce_Scatter' = Reduce_scatter_block_as_Reduce_Scatter
  BY SameCall, SameParts
     DEF Reduce_scatter_block_as_Reduce_Scatter, Reduce, ReduceMoves, InOrder, Scatter,
         ScattervMoves, Step, mockup_root_rank
<1>19. Reduce_scatter_block_as_Reduce_scatter' = Reduce_scatter_block_as_Reduce_scatter
  BY SameCall, SameParts
     DEF Reduce_scatter_block_as_Reduce_scatter, Reduce_scatter, ReduceScatterMoves,
         ReduceMoves, InOrder, Shifted, Before, Step
<1>20. Reduce_scatter_block_as_Allreduce' = Reduce_scatter_block_as_Allreduce
  BY SameCall, SameParts
     DEF Reduce_scatter_block_as_Allreduce, Allreduce, ReduceMoves, InOrder, memcpy,
         Shifted, Step
<1>21. Scan_as_Exscan_Reduce_local' = Scan_as_Exscan_Reduce_local
  BY SameCall, SameParts
     DEF Scan_as_Exscan_Reduce_local, Exscan, InOrder, memcpy, Reduce_local, Step
<1>22. Scatter_as_Bcast' = Scatter_as_Bcast
  BY SameCall, SameParts
     DEF Scatter_as_Bcast, Bcast, memcpy, Shifted, Step
<1>23. Scatter_as_Scatterv' = Scatter_as_Scatterv
  BY SameCall, SameParts
     DEF Scatter_as_Scatterv, Scatterv, ScattervMoves, Step
<1> QED BY <1>1, <1>2, <1>3, <1>4, <1>5, <1>6, <1>7, <1>8, <1>9, <1>10, <1>11, <1>12, <1>13,
           <1>14, <1>15, <1>16, <1>17, <1>18, <1>19, <1>20, <1>21, <1>22, <1>23 DEF Steps

-------------------------------------------------------------------------------
(* The memory is the one that the steps made so far lead to.               *)

LEMMA SameAfter == ASSUME call' = call, NEW m, NEW s PROVE After(m, s)' = After(m, s)
BY SameCall DEF After, Done

LEMMA SameStarted == ASSUME call' = call, NEW m PROVE Started(m)' = Started(m)
<1>1. \A r, b : Room(r, b)' = Room(r, b)
  BY SameCall DEF Room, SendLen, RecvLen, MsgLen, Rooted, N, Root
<1>2. \A r : SendLen(r)' = SendLen(r) BY SameCall DEF SendLen, Rooted
<1> QED BY <1>1, <1>2, SameCall DEF Started, Given, Whole

LEMMA InitStarted == Init => Started(mem)
<1> SUFFICES ASSUME Init PROVE Started(mem)
  OBVIOUS
<1>1. Whole(mem) BY InitSized DEF IInv, Whole
<1>2. ASSUME NEW r \in Procs
      PROVE  /\ mem[r]["send"] = Inputs(r, SendLen(r))
             /\ call.coll = "Bcast" /\ r = Root => mem[r]["recv"] = Inputs(r, N)
  <2> DEFINE recv == IF call.coll = "Bcast" /\ Rooted(r) THEN Inputs(r, N)
                     ELSE Unwritten(RecvLen(r))
  <2>1. mem[r] = [send |-> Inputs(r, SendLen(r)), recv |-> recv,
                  msg1 |-> Unwritten(MsgLen(1)), msg2 |-> Unwritten(MsgLen(2))]
    BY Zenon DEF Init, Initial
  <2>2. call.coll = "Bcast" /\ r = Root => recv = Inputs(r, N) BY DEF Rooted
  <2> HIDE DEF recv
  <2> QED BY <2>1, <2>2
<1>3. \A r, n : \A k \in 1..n : Inputs(r, n)[k] = << Value(r, k) >> BY DEF Inputs
<1>4. Root \in Procs BY CallTypes DEF Init
<1> QED BY <1>1, <1>2, <1>3, <1>4 DEF Started, Given

(* h and s are the memories and the steps up to the current one.           *)
Past(h, s) ==
  /\ s = Steps /\ Started(h[0]) /\ mem = h[step]
  /\ \A i \in 1..step : h[i] = After(h[i - 1], s[i])

Replayed == /\ IInv
            /\ step <= Len(Steps)
            /\ \E h, s : Past(h, s)

LEMMA StepsLen == ASSUME call \in Calls PROVE Len(Steps) \in Nat
<1>1. PICK S : Steps \in Seq(S) BY StepsSteady DEF Steady
<1> QED BY <1>1

LEMMA InitReplayed == Init => Replayed
<1> SUFFICES ASSUME Init PROVE Replayed
  OBVIOUS
<1>1. IInv /\ Started(mem) BY InitSized, InitStarted
<1>2. step = 0 /\ call \in Calls BY DEF Init
<1>3. step <= Len(Steps) BY <1>2, StepsLen
<1> DEFINE h == [i \in {0} |-> mem]
<1>4. h[0] = mem OBVIOUS
<1> HIDE DEF h
<1>5. Past(h, Steps) BY <1>1, <1>2, <1>4 DEF Past
<1> QED BY <1>1, <1>3, <1>5 DEF Replayed

LEMMA NextReplayed == Replayed /\ [Next]_vars => Replayed'
<1> SUFFICES ASSUME Replayed, [Next]_vars PROVE Replayed'
  OBVIOUS
<1>1. call' = call BY DEF Next, Proceed, vars
<1>2. IInv /\ IInv' /\ step \in Nat /\ call \in Calls BY NextSized DEF Replayed, IInv
<1>3. Steps' = Steps /\ Len(Steps)' = Len(Steps) BY <1>1, StepsSame
<1>4. PICK h, s : Past(h, s) BY DEF Replayed
<1>5. CASE UNCHANGED vars
  <2>1. mem' = mem /\ step' = step BY <1>5 DEF vars
  <2>2. \A i \in 1..step : After(h[i - 1], s[i])' = After(h[i - 1], s[i])
    BY <1>1, SameAfter
  <2>3. Past(h, s)' BY <1>1, <1>3, <1>4, <2>1, <2>2, SameStarted DEF Past
  <2> QED BY <1>2, <1>3, <2>1, <2>3 DEF Replayed
<1>6. CASE Proceed
  <2>1. step' = step + 1 /\ mem' = After(mem, Steps[step + 1]) /\ step < Len(Steps)
    BY <1>6 DEF Proceed, After
  <2>2. PICK g : /\ g[step + 1] = mem' /\ g[0] = h[0]
                 /\ \A i \in 0..step : g[i] = h[i]
    <3> DEFINE f == [i \in Nat |-> IF i = step + 1 THEN mem' ELSE h[i]]
    <3>1. /\ f[step + 1] = mem' /\ f[0] = h[0]
          /\ \A i \in 0..step : f[i] = h[i]
      BY <1>2
    <3> HIDE DEF f
    <3> QED BY <3>1
  <2>3. Started(g[0])' BY <1>1, <1>4, <2>2, SameStarted DEF Past
  <2>4. ASSUME NEW i \in 1 .. step + 1 PROVE g[i] = After(g[i - 1], s[i])
    <3>1. i - 1 \in 0..step BY <1>2
    <3>2. CASE i \in 1..step BY <1>2, <1>4, <2>2, <3>1, <3>2 DEF Past
    <3>3. CASE i = step + 1
      <4>1. (step + 1) - 1 = step BY <1>2
      <4> QED BY <1>2, <1>4, <2>1, <2>2, <3>3, <4>1 DEF Past
    <3> QED BY <1>2, <3>2, <3>3
  <2>5. \A i \in 1 .. step + 1 : After(g[i - 1], s[i])' = After(g[i - 1], s[i])
    BY <1>1, SameAfter
  <2>6. Past(g, s)' BY <1>3, <1>4, <2>1, <2>2, <2>3, <2>4, <2>5 DEF Past
  <2>7. step' <= Len(Steps)' BY <1>2, <1>3, <2>1, StepsLen
  <2> QED BY <1>2, <2>6, <2>7 DEF Replayed
<1> QED BY <1>5, <1>6 DEF Next

(* A reduction of a scan is only the same for a commutative operation.     *)
OrderFree == call.coll = "Scan" => call.commutes

LEMMA RightIsEquivalent ==
  ASSUME call \in Calls, Right(mem) PROVE Equivalent
<1>1. Given(mem) /\ Whole(mem) BY DEF Right, Given
<1>2. ASSUME NEW r \in Procs
      PROVE  /\ mem[r].send = Inputs(r, SendLen(r))
             /\ Len(mem[r].recv) = RecvLen(r)
             /\ \A k \in 1 .. RecvLen(r) : SameValue(mem[r].recv[k], Expected(r)[k])
  <2>1. /\ "send" \in Buffers /\ "recv" \in Buffers
        /\ Room(r, "send") = SendLen(r) /\ Room(r, "recv") = RecvLen(r)
    BY DEF Buffers, Room
  <2>2. /\ mem[r].send = [k \in 1 .. SendLen(r) |-> mem[r].send[k]]
        /\ mem[r].recv = [k \in 1 .. RecvLen(r) |-> mem[r].recv[k]]
    BY <1>1, <2>1 DEF Whole, Sized
  <2>3. \A k \in 1 .. SendLen(r) : mem[r].send[k] = << Value(r, k) >> BY <1>1 DEF Given
  <2>4. mem[r].send = Inputs(r, SendLen(r)) BY <2>2, <2>3 DEF Inputs
  <2>5. RecvLen(r) \in Nat BY <2>1, RoomNat
  <2>6. Len(mem[r].recv) = RecvLen(r) BY <2>2, <2>5, Length
  <2> QED BY <2>4, <2>6 DEF Right
<1> QED BY <1>2 DEF Equivalent

LEMMA ReplayedIsEquivalent == Replayed /\ OrderFree => Equivalent
<1> SUFFICES ASSUME Replayed, OrderFree, step = Len(Steps) PROVE Equivalent
  BY DEF Equivalent
<1>1. PICK h, s : Past(h, s) BY DEF Replayed
<1>2. call \in Calls BY DEF Replayed, IInv
<1>3. Started(h[0]) /\ Play(h, Steps) /\ mem = h[Len(Steps)] BY <1>1 DEF Past, Play
<1>4. Right(h[Len(Steps)]) BY <1>2, <1>3, StepsRight DEF OrderFree
<1> QED BY <1>2, <1>3, <1>4, RightIsEquivalent

(* A mock-up leaves in the receive buffer of every process what the MPI    *)
(* function it stands for would, and the send buffer as it was, for any    *)
(* number of processes, count and root, and any associative operation,     *)
(* but for a scan with one that is not commutative (Scan_as_Exscan_-       *)
(* Reduce_local in src/src/collectives/scan_impl.c swaps its operands).    *)
THEOREM EquivalentUnlessOrderedScan == Spec => [](OrderFree => Equivalent)
<1>1. Replayed => (OrderFree => Equivalent) BY ReplayedIsEquivalent
<1>2. Init => Replayed BY InitReplayed
<1>3. Replayed /\ [Next]_vars => Replayed' BY NextReplayed
<1> QED BY <1>1, <1>2, <1>3, PTL DEF Spec

(* In an application whose scans all have commutative operations, every    *)
(* mock-up (src/src/collectives) does what it stands for.                  *)
THEOREM AlwaysEquivalent ==
  (\A c \in Calls : c.coll = "Scan" => c.commutes) => (Spec => []Equivalent)
<1> SUFFICES ASSUME \A c \in Calls : c.coll = "Scan" => c.commutes
             PROVE  Spec => []Equivalent
  OBVIOUS
<1>1. Replayed => OrderFree BY DEF Replayed, IInv, OrderFree
<1>2. Replayed => Equivalent BY <1>1, ReplayedIsEquivalent
<1>3. Init => Replayed BY InitReplayed
<1>4. Replayed /\ [Next]_vars => Replayed' BY NextReplayed
<1> QED BY <1>2, <1>3, <1>4, PTL DEF Spec

-------------------------------------------------------------------------------
(* What the operation of the user sees.                                    *)

(* The words in buffer b of process r hold values of the user only.        *)
Pure(m, r, b) == \A k \in 1 .. Room(r, b) : Value(-1, 0) \notin Range(m[r][b][k])

(* The step hands only such words to the operation.                        *)
Clean(m, s) ==
  \A v \in s.moves :
    Len(v.of) > 1 => \A place \in Range(v.of), k \in 1 .. v.n :
                       Value(-1, 0) \notin Range(Read(m, place, k))

(* The step reduces nothing but what is in the buffers B.                  *)
Reduces(s, B) ==
  \A v \in s.moves :
    Len(v.of) > 1 => /\ v.n \in Int
                     /\ \A place \in Range(v.of) : place.at \in Nat /\ place.buf \in B

Single(s) == Reduces(s, {})

LEMMA CleanByBuffers ==
  ASSUME call \in Calls, NEW m, Whole(m), NEW s, Within(s), NEW B, Reduces(s, B),
         \A r \in Procs, b \in B : Pure(m, r, b)
  PROVE  Clean(m, s)
<1> SUFFICES ASSUME NEW v \in s.moves, Len(v.of) > 1,
                    NEW place \in Range(v.of), NEW k \in 1 .. v.n
             PROVE  Value(-1, 0) \notin Range(Read(m, place, k))
  BY DEF Clean
<1>1. v.n \in Int /\ place.at \in Nat /\ place.buf \in B BY DEF Reduces
<1>2. place \in Places /\ place.at + v.n <= Room(place.rank, place.buf) BY DEF Within, Fit
<1>3. place.rank \in Procs /\ place.buf \in Buffers BY <1>2 DEF Places
<1>4. place.at + k \in 1 .. Room(place.rank, place.buf) /\ k \in Int
  <2>1. Room(place.rank, place.buf) \in Nat BY <1>3, RoomNat
  <2> QED BY <1>1, <1>2, <2>1
<1>5. Inside(place, k) BY <1>2, <1>4 DEF Inside
<1>6. Read(m, place, k) = m[place.rank][place.buf][place.at + k] BY <1>5, ReadIs
<1>7. Pure(m, place.rank, place.buf) BY <1>1, <1>3
<1> QED BY <1>4, <1>6, <1>7 DEF Pure

LEMMA SingleReduces == ASSUME NEW s, Single(s), NEW B PROVE Reduces(s, B)
BY DEF Single, Reduces

LEMMA SingleClean == ASSUME NEW s, Single(s), NEW m PROVE Clean(m, s)
<1> SUFFICES ASSUME NEW v \in s.moves, Len(v.of) > 1,
                    NEW place \in Range(v.of), NEW k \in 1 .. v.n
             PROVE  Value(-1, 0) \notin Range(Read(m, place, k))
  BY DEF Clean
<1>1. place.buf \in {} BY DEF Single, Reduces
<1> QED BY <1>1

(* The words that a process has passed are the user's.                     *)
LEMMA OwnWord ==
  ASSUME call \in Calls, NEW r \in Procs, NEW k, NEW w, w = << Value(r, k) >> \/ w = << >>
  PROVE  Value(-1, 0) \notin Range(w)
<1>1. r \in Nat BY CallTypes
<1>2. Value(r, k)[1] = r /\ Value(-1, 0)[1] = -1 BY DEF Value
<1>3. Value(r, k) # Value(-1, 0) BY <1>1, <1>2
<1>4. CASE w = << >> BY <1>4 DEF Range
<1>5. CASE w = << Value(r, k) >>
  <2> DEFINE x == Value(r, k)
  <2> HIDE DEF x
  <2>1. Range(<< x >>) = {x} BY DEF Range
  <2> QED BY <1>3, <1>5, <2>1 DEF x
<1> QED BY <1>4, <1>5

LEMMA GivenPure ==
  ASSUME call \in Calls, NEW m, Given(m), NEW r \in Procs PROVE Pure(m, r, "send")
<1>1. \A k \in 1 .. Room(r, "send") : m[r]["send"][k] = << Value(r, k) >> BY Passed
<1> QED BY <1>1, OwnWord DEF Pure

-------------------------------------------------------------------------------
(* What the steps reduce.                                                  *)

LEMMA SingleMoves ==
  ASSUME NEW name, NEW moves,
         \A v \in moves : v.of = << >> \/ \E x : v.of = << x >>
  PROVE  Single(Step(name, moves))
<1>1. ASSUME NEW v \in moves PROVE ~ (Len(v.of) > 1)
  <2>1. CASE v.of = << >>
    <3>1. Len(v.of) = 0 BY <2>1
    <3> QED BY <3>1
  <2>2. CASE \E x : v.of = << x >>
    <3>1. PICK x : v.of = << x >> BY <2>2
    <3>2. Len(v.of) = 1 BY <3>1
    <3> QED BY <3>2
  <2> QED BY <2>1, <2>2
<1> QED BY <1>1 DEF Single, Reduces, Step

LEMMA SingleMemcpy ==
  ASSUME NEW who, NEW to, NEW from, NEW n PROVE Single(memcpy(who, to, from, n))
<1> DEFINE moves == {Move(<< from[r] >>, to[r], n) : r \in who}
<1>1. ASSUME NEW v \in moves PROVE v.of = << >> \/ \E x : v.of = << x >>
  <2>1. PICK r \in who : v = Move(<< from[r] >>, to[r], n) OBVIOUS
  <2>2. v.of = << from[r] >> BY <2>1, MoveIs
  <2> QED BY <2>2, Zenon
<1> HIDE DEF moves
<1>2. Single(Step("local", moves)) BY <1>1, SingleMoves
<1> QED BY <1>2 DEF moves, memcpy

LEMMA SingleZero == ASSUME NEW to, NEW n PROVE Single(memset0(to, n))
<1> DEFINE moves == {Move(<< >>, to[r], n) : r \in Procs}
<1>1. ASSUME NEW v \in moves PROVE v.of = << >> \/ \E x : v.of = << x >>
  <2>1. PICK r \in Procs : v = Move(<< >>, to[r], n) OBVIOUS
  <2>2. v.of = << >> BY <2>1, MoveIs
  <2> QED BY <2>2, Zenon
<1> HIDE DEF moves
<1>2. Single(Step("local", moves)) BY <1>1, SingleMoves
<1> QED BY <1>2 DEF moves, memset0

LEMMA SinglePadding == Single(FillPadding)
<1> DEFINE moves == {Move(<< sendbuf[r] >>, Plus(aux_buf1[r], i), 1)
                     : r \in Procs, i \in N .. Padded - 1}
<1> HIDE DEF moves
<1>1. ASSUME NEW v \in moves PROVE v.of = << >> \/ \E x : v.of = << x >>
  <2>1. PICK r \in Procs, i \in N .. Padded - 1 :
          v = Move(<< sendbuf[r] >>, Plus(aux_buf1[r], i), 1) BY DEF moves
  <2>2. v.of = << sendbuf[r] >> BY <2>1, MoveIs
  <2> QED BY <2>2, Zenon
<1>2. Single(Step("local", moves)) BY <1>1, SingleMoves
<1> QED BY <1>2 DEF moves, FillPadding

LEMMA SingleBcast ==
  ASSUME NEW buf, NEW n, NEW root PROVE Single(Bcast(buf, n, root))
<1> DEFINE moves == {Move(<< buf[root] >>, buf[r], n) : r \in Procs \ {root}}
<1>1. ASSUME NEW v \in moves PROVE v.of = << >> \/ \E x : v.of = << x >>
  <2>1. PICK r \in Procs \ {root} : v = Move(<< buf[root] >>, buf[r], n) OBVIOUS
  <2>2. v.of = << buf[root] >> BY <2>1, MoveIs
  <2> QED BY <2>2, Zenon
<1> HIDE DEF moves
<1>2. Single(Step("Bcast", moves)) BY <1>1, SingleMoves
<1> QED BY <1>2 DEF moves, Bcast

LEMMA SingleGather ==
  ASSUME NEW in, NEW out, NEW counts, NEW offs, NEW root, NEW name
  PROVE  Single(Step(name, GathervMoves(in, out, counts, offs, root)))
<1> DEFINE moves == GathervMoves(in, out, counts, offs, root)
<1>1. ASSUME NEW v \in moves PROVE v.of = << >> \/ \E x : v.of = << x >>
  <2>1. PICK q \in Procs : v = Move(<< in[q] >>, Plus(out[root], offs[q]), counts[q]) 
    BY DEF GathervMoves
  <2>2. v.of = << in[q] >> BY <2>1, MoveIs
  <2> QED BY <2>2, Zenon
<1> HIDE DEF moves
<1>2. Single(Step(name, moves)) BY <1>1, SingleMoves
<1> QED BY <1>2 DEF moves

LEMMA SingleAllgather ==
  ASSUME NEW in, NEW out, NEW counts, NEW offs, NEW name
  PROVE  Single(Step(name, UNION {GathervMoves(in, out, counts, offs, r) : r \in Procs}))
<1> DEFINE moves == UNION {GathervMoves(in, out, counts, offs, r) : r \in Procs}
<1>1. ASSUME NEW v \in moves PROVE v.of = << >> \/ \E x : v.of = << x >>
  <2>1. PICK r \in Procs, q \in Procs :
          v = Move(<< in[q] >>, Plus(out[r], offs[q]), counts[q]) 
    BY DEF GathervMoves
  <2>2. v.of = << in[q] >> BY <2>1, MoveIs
  <2> QED BY <2>2, Zenon
<1> HIDE DEF moves
<1>2. Single(Step(name, moves)) BY <1>1, SingleMoves
<1> QED BY <1>2 DEF moves

LEMMA SingleScatter ==
  ASSUME NEW in, NEW out, NEW counts, NEW offs, NEW root, NEW name
  PROVE  Single(Step(name, ScattervMoves(in, out, counts, offs, root)))
<1> DEFINE moves == ScattervMoves(in, out, counts, offs, root)
<1>1. ASSUME NEW v \in moves PROVE v.of = << >> \/ \E x : v.of = << x >>
  <2>1. PICK q \in Procs : v = Move(<< Plus(in[root], offs[q]) >>, out[q], counts[q]) 
    BY DEF ScattervMoves
  <2>2. v.of = << Plus(in[root], offs[q]) >> BY <2>1, MoveIs
  <2> QED BY <2>2, Zenon
<1> HIDE DEF moves
<1>2. Single(Step(name, moves)) BY <1>1, SingleMoves
<1> QED BY <1>2 DEF moves

LEMMA SingleAlltoall ==
  ASSUME NEW in, NEW out, NEW counts, NEW from, NEW to, NEW name
  PROVE  Single(Step(name, AlltoallvMoves(in, out, counts, from, to)))
<1> DEFINE moves == AlltoallvMoves(in, out, counts, from, to)
<1>1. ASSUME NEW v \in moves PROVE v.of = << >> \/ \E x : v.of = << x >>
  <2>1. PICK q \in Procs, r \in Procs :
          v = Move(<< Plus(in[q], from[r]) >>, Plus(out[r], to[q]), counts[r]) 
    BY DEF AlltoallvMoves
  <2>2. v.of = << Plus(in[q], from[r]) >> BY <2>1, MoveIs
  <2> QED BY <2>2, Zenon
<1> HIDE DEF moves
<1>2. Single(Step(name, moves)) BY <1>1, SingleMoves
<1> QED BY <1>2 DEF moves

LEMMA OfReduction ==
  ASSUME call \in Calls, NEW b \in Buffers, NEW off \in Nat, NEW in,
         \A q \in Procs : in[q] = Plus(Pointer(b)[q], off),
         NEW x \in 0 .. call.p, NEW place \in Range(InOrder(in, x))
  PROVE  place.at \in Nat /\ place.buf = b
<1>1. call.p \in Nat /\ Procs = 0 .. call.p - 1 BY CallTypes
<1>2. PICK i \in 1..x : place = in[i - 1]
  <2>1. DOMAIN InOrder(in, x) = 1..x /\ \A i \in 1..x : InOrder(in, x)[i] = in[i - 1]
    BY DEF InOrder
  <2> QED BY <2>1 DEF Range
<1>3. i - 1 \in Procs BY <1>1
<1>4. place = Plus(Pointer(b)[i - 1], off) BY <1>2, <1>3
<1>5. /\ Pointer(b)[i - 1] \in Places /\ Pointer(b)[i - 1].buf = b
      /\ Pointer(b)[i - 1].at = 0
  BY <1>3, PointerTypes DEF Pointers
<1> DEFINE first == Pointer(b)[i - 1]
<1>6. place = Plus(first, off) /\ first \in Places /\ first.buf = b /\ first.at = 0
  BY <1>4, <1>5
<1> HIDE DEF first
<1>7. off \in Int OBVIOUS
<1>8. place.buf = first.buf /\ place.at = first.at + off BY ONLY <1>6, <1>7, PlusType
<1> QED BY <1>6, <1>8

LEMMA OfBuffer ==
  ASSUME call \in Calls, NEW b \in Buffers,
         NEW x \in 0 .. call.p, NEW place \in Range(InOrder(Pointer(b), x))
  PROVE  place.at \in Nat /\ place.buf = b
<1>1. call.p \in Nat /\ Procs = 0 .. call.p - 1 BY CallTypes
<1> DEFINE in == Pointer(b)
<1>2. PICK i \in 1..x : place = in[i - 1]
  <2> HIDE DEF in
  <2>1. DOMAIN InOrder(in, x) = 1..x /\ \A i \in 1..x : InOrder(in, x)[i] = in[i - 1]
    BY DEF InOrder
  <2> QED BY <2>1 DEF Range, in
<1>3. i - 1 \in Procs BY <1>1
<1> QED BY <1>2, <1>3, EachPointer

LEMMA ReduceFrom ==
  ASSUME call \in Calls, NEW b \in Buffers, NEW out, NEW n \in Nat, NEW root
  PROVE  /\ Reduces(Reduce(Pointer(b), out, n, root), {b})
         /\ Reduces(Allreduce(Pointer(b), out, n), {b})
         /\ Reduces(Exscan(Pointer(b), out, n), {b})
<1>1. call.p \in Nat /\ Procs = 0 .. call.p - 1 BY CallTypes
<1>2. call.p \in 0 .. call.p /\ \A r \in Procs : r \in 0 .. call.p BY <1>1
<1>3. \A x \in 0 .. call.p : \A place \in Range(InOrder(Pointer(b), x)) :
        place.at \in Nat /\ place.buf \in {b}
  BY OfBuffer
<1>4. Reduces(Reduce(Pointer(b), out, n, root), {b})
  BY <1>2, <1>3, MoveIs DEF Reduces, Reduce, ReduceMoves, Step
<1>5. Reduces(Allreduce(Pointer(b), out, n), {b})
  BY <1>2, <1>3, MoveIs DEF Reduces, Allreduce, ReduceMoves, Step
<1>6. Reduces(Exscan(Pointer(b), out, n), {b})
  BY <1>2, <1>3, MoveIs DEF Reduces, Exscan, Step
<1> QED BY <1>4, <1>5, <1>6

LEMMA ReducePartsFrom ==
  ASSUME call \in Calls, NEW b \in Buffers, NEW out, NEW counts, NEW name,
         \A r \in Procs : counts[r] \in Nat /\ Before(counts, r) \in Nat
  PROVE  Reduces(Step(name, ReduceScatterMoves(Pointer(b), out, counts)), {b})
<1>1. call.p \in 0 .. call.p BY CallTypes
<1> SUFFICES ASSUME NEW v \in ReduceScatterMoves(Pointer(b), out, counts), Len(v.of) > 1
             PROVE  /\ v.n \in Int
                    /\ \A place \in Range(v.of) : place.at \in Nat /\ place.buf \in {b}
  BY DEF Reduces, Step
<1>2. PICK r \in Procs :
        v = Move(InOrder(Parts(Pointer(b), counts, r), call.p), out[r], counts[r])
  BY DEF ReduceScatterMoves, ReduceMoves, Shifted, Parts
<1> DEFINE in == Parts(Pointer(b), counts, r)
           off == Before(counts, r)
<1>3. v.n = counts[r] /\ v.of = InOrder(in, call.p) BY <1>2, MoveIs
<1>4. off \in Nat /\ \A q \in Procs : in[q] = Plus(Pointer(b)[q], off) BY DEF Parts
<1> HIDE DEF in, off
<1>5. \A place \in Range(InOrder(in, call.p)) : place.at \in Nat /\ place.buf = b
  <2> TAKE place \in Range(InOrder(in, call.p))
  <2> QED BY ONLY <1>1, <1>4, call \in Calls, b \in Buffers, OfReduction
<1> QED BY <1>3, <1>5

LEMMA ReduceLocalFrom ==
  ASSUME NEW a \in Buffers, NEW b \in Buffers, NEW who, who \subseteq Procs, NEW n \in Nat
  PROVE  Reduces(Reduce_local(who, Pointer(a), Pointer(b), n), {a, b})
<1>1. ASSUME NEW x, NEW y PROVE Range(<< x, y >>) = {x, y}
  <2>1. DOMAIN << x, y >> = {1, 2} /\ << x, y >>[1] = x /\ << x, y >>[2] = y OBVIOUS
  <2> QED BY <2>1 DEF Range
<1>2. ASSUME NEW r \in who
      PROVE  \A place \in {Pointer(a)[r], Pointer(b)[r]} :
               place.at \in Nat /\ place.buf \in {a, b}
  BY EachPointer
<1> DEFINE moves == {Move(<< Pointer(a)[r], Pointer(b)[r] >>, Pointer(b)[r], n) : r \in who}
<1>3. ASSUME NEW v \in moves
      PROVE  /\ v.n \in Int
             /\ \A place \in Range(v.of) : place.at \in Nat /\ place.buf \in {a, b}
  <2>1. PICK r \in who :
          v = Move(<< Pointer(a)[r], Pointer(b)[r] >>, Pointer(b)[r], n)
    OBVIOUS
  <2>2. v.n = n /\ v.of = << Pointer(a)[r], Pointer(b)[r] >> BY <2>1, MoveIs
  <2>3. Range(v.of) = {Pointer(a)[r], Pointer(b)[r]} BY <1>1, <2>2
  <2> QED BY <1>2, <2>2, <2>3
<1> HIDE DEF moves
<1>4. Reduces(Step("local", moves), {a, b}) BY <1>3 DEF Reduces, Step
<1> QED BY <1>4 DEF moves, Reduce_local

-------------------------------------------------------------------------------
(* What the buffers hold before the steps that reduce.                     *)

LEMMA OwnPure ==
  ASSUME call \in Calls, \A r \in Procs : Room(r, "msg1") = call.p * N,
         NEW m, OnlyOwn(m), NEW q \in Procs
  PROVE  Pure(m, q, "msg1")
<1>1. N \in Nat BY Roomy
<1>2. ASSUME NEW k \in 1 .. call.p * N PROVE Value(-1, 0) \notin Range(m[q]["msg1"][k])
  <2>1. PICK r \in Procs, i \in 1..N : k = r * N + i BY <1>1, ByBlocks
  <2>2. m[q]["msg1"][k] = << Value(r, i) >> \/ m[q]["msg1"][k] = << >>
    BY <2>1 DEF OnlyOwn
  <2> QED BY <2>2, OwnWord
<1> QED BY <1>2 DEF Pure

LEMMA PaddingWritten ==
  ASSUME call \in Calls,
         \A r \in Procs : Room(r, "send") = N /\ Room(r, "msg1") = Padded,
         NEW m, Given(m), NEW r \in Procs, NEW k \in 1 .. Padded, N < k
  PROVE  After(m, FillPadding)[r]["msg1"][k] = << Value(r, 1) >>
<1> DEFINE moves == {Move(<< sendbuf[q] >>, Plus(aux_buf1[q], i), 1)
                       : q \in Procs, i \in N .. Padded - 1}
           place == Plus(Pointer("msg1")[r], k - 1)
           from == Pointer("send")[r]
<1>1. FillPadding = Step("local", moves) BY DEF FillPadding
<1>2. N \in Nat /\ Padded \in Nat /\ call.p \in Nat \ {0} BY CallTypes, ChunksFill
<1>3. N # 0
  <2>1. N = 0 => Padded = 0 BY <1>2 DEF Padded, Scripts!Padded
  <2> QED BY <1>2, <2>1
<1>4. k - 1 \in N .. Padded - 1 /\ k - 1 \in Nat /\ (k - 1) + 1 = k BY <1>2
<1>5. Wide(place, 1) BY <1>2, <1>4, UserBuffers, WidePlus
<1>6. ASSUME NEW q \in Procs, NEW i \in N .. Padded - 1
      PROVE  /\ Plus(Pointer("msg1")[q], i).rank = q
             /\ Plus(Pointer("msg1")[q], i).at = i
  <2> DEFINE start == Pointer("msg1")[q]
  <2>1. start \in Places /\ start.rank = q /\ start.at = 0
    BY UserBuffers, PointerTypes DEF Pointers
  <2>2. i \in Int /\ 0 + i = i BY <1>2
  <2> HIDE DEF start
  <2>3. Plus(start, i).rank = start.rank /\ Plus(start, i).at = start.at + i
    BY ONLY <2>1, <2>2, PlusType
  <2> QED BY <2>1, <2>2, <2>3 DEF start
<1>7. place.rank = r /\ place.at = k - 1 BY <1>4, <1>6
<1>8. Move(<< from >>, place, 1) \in moves BY <1>4, Names
<1>9. ASSUME NEW w \in moves, Hits(w, place, 1) PROVE w = Move(<< from >>, place, 1)
  <2>1. PICK q \in Procs, i \in N .. Padded - 1 :
          w = Move(<< sendbuf[q] >>, Plus(aux_buf1[q], i), 1)
    OBVIOUS
  <2>2. w.to = Plus(Pointer("msg1")[q], i) /\ w.n = 1 BY <2>1, MoveIs, Names
  <2>3. w.to.rank = q /\ w.to.at = i BY <1>6, <2>2
  <2>4. w.to.rank = r /\ ((k - 1) + 1) - w.to.at \in 1 .. 1 BY <1>7, <1>9, <2>2 DEF Hits
  <2>5. q = r /\ i = k - 1 BY <1>2, <1>4, <2>3, <2>4
  <2> QED BY <2>1, <2>5, Names
<1> HIDE DEF moves, place, from
<1>10. Whole(m) /\ 1 \in 1 .. 1 /\ 1 \in Int BY DEF Given
<1>11. Read(After(m, Step("local", moves)), place, 1) = Reduction(m, << from >>, 1)
  BY <1>5, <1>8, <1>9, <1>10, Sole
<1>12. Reduction(m, << from >>, 1) = Read(m, from, 1) BY ReduceOne
<1>13. 1 \in 1 .. Room(r, "send") BY <1>2, <1>3
<1>14. Read(m, from, 1) = << Value(r, 1) >>
  BY <1>10, <1>13, UserBuffers, CellIs, Passed DEF from
<1>15. Whole(After(m, FillPadding)) BY <1>10, WholeAfter
<1>16. Read(After(m, FillPadding), place, 1) = After(m, FillPadding)[r]["msg1"][k]
  <2>1. Inside(place, 1) BY <1>5, <1>10, WideInside
  <2>2. place.buf = "msg1"
    <3> DEFINE start == Pointer("msg1")[r]
    <3>1. start \in Places /\ start.buf = "msg1" /\ k - 1 \in Int
      BY <1>4, UserBuffers, PointerTypes DEF Pointers
    <3> HIDE DEF start
    <3>2. Plus(start, k - 1).buf = start.buf BY ONLY <3>1, PlusType
    <3> QED BY <3>1, <3>2 DEF start, place
  <2> QED BY <1>4, <1>7, <1>15, <2>1, <2>2, ReadIs
<1> QED BY <1>1, <1>11, <1>12, <1>14, <1>16

LEMMA PaddedPure ==
  ASSUME call \in Calls,
         \A r \in Procs : Room(r, "send") = N /\ Room(r, "msg1") = Padded,
         NEW m, Given(m), NEW m1, m1 = After(m, CopyIn(Procs, sendbuf)),
         NEW m2, m2 = After(m1, FillPadding), NEW r \in Procs
  PROVE  Pure(m2, r, "msg1")
<1> DEFINE s == memcpy(Procs, Pointer("msg1"), Pointer("send"), N)
<1>1. N \in Nat /\ Whole(m) /\ Procs \subseteq Procs BY Roomy DEF Given
<1>2. Padded \in Nat /\ N <= Padded BY ChunksFill
<1>3. m1 = After(m, s) BY Names DEF CopyIn
<1>4. Holds("send", N, Procs) /\ Holds("msg1", N, Procs) BY <1>1, <1>2 DEF Holds
<1>5. s = memcpy(Procs, Pointer("msg1"), Pointer("send"), N) OBVIOUS
<1> HIDE DEF s
<1>6. Into(s, Procs, Pointer("msg1")) /\ Copies(m, "send", m1, "msg1", N, Procs)
  BY <1>1, <1>3, <1>4, <1>5, UserBuffers, CopyStep
<1>7. Given(m1) /\ Whole(m1) BY <1>3, <1>6, UserBuffers, GivenStill
<1>8. ASSUME NEW k \in 1 .. Padded
      PROVE  m2[r]["msg1"][k] = << Value(r, k) >> \/ m2[r]["msg1"][k] = << Value(r, 1) >>
  <2>1. CASE k \in 1..N
    <3>1. m2[r]["msg1"][k] = m1[r]["msg1"][k] BY <1>7, <2>1, PaddingCells
    <3>2. m1[r]["msg1"][k] = m[r]["send"][k] BY <1>6, <2>1 DEF Copies
    <3>3. m[r]["send"][k] = << Value(r, k) >> BY <2>1, Passed
    <3> QED BY <3>1, <3>2, <3>3
  <2>2. CASE N < k BY <1>7, <2>2, PaddingWritten
  <2> QED BY <1>1, <1>2, <2>1, <2>2
<1>9. ASSUME NEW k \in 1 .. Padded PROVE Value(-1, 0) \notin Range(m2[r]["msg1"][k])
  BY <1>8, OwnWord
<1> QED BY <1>9 DEF Pure

LEMMA EveryoneOwn ==
  ASSUME call \in Calls, NEW r \in Procs, NEW k
  PROVE  Value(-1, 0) \notin Range(Everyone(r, k))
<1>1. r \in Nat /\ Procs = 0 .. call.p - 1 BY CallTypes
<1>2. ASSUME NEW i \in 1..r PROVE Value(-1, 0) # Value(i - 1, k)
  <2>1. Value(-1, 0)[1] = -1 /\ Value(i - 1, k)[1] = i - 1 BY DEF Value
  <2>2. i - 1 # -1 BY <1>1
  <2> QED BY <2>1, <2>2
<1>3. DOMAIN Everyone(r, k) = 1..r /\ \A i \in 1..r : Everyone(r, k)[i] = Value(i - 1, k)
  BY DEF Everyone
<1> QED BY <1>2, <1>3 DEF Range

LEMMA ScanPure ==
  ASSUME call \in Calls, Is("Scan", 1), NEW m, Given(m),
         NEW m1, m1 = After(m, Exscan(sendbuf, recvbuf, N)),
         NEW m2, m2 = After(m1, memcpy({0}, recvbuf, sendbuf, N))
  PROVE  Given(m2) /\ \A r \in Procs : Pure(m2, r, "recv")
<1> DEFINE in == Pointer("send")
           out == Pointer("recv")
           s == Exscan(in, out, N)
           t == memcpy({0}, out, in, N)
<1>1. \A r \in Procs : Room(r, "send") = N /\ Room(r, "recv") = N
  BY UserRooms DEF Is
<1>2. N \in Nat /\ Whole(m) /\ {0} \subseteq Procs BY Roomy DEF Given
<1>3. m1 = After(m, s) /\ m2 = After(m1, t) BY Names
<1>4. Each(in) /\ Each(out) BY UserBuffers, EachPointer
<1>5. \A r \in Procs : Wide(out[r], N) BY <1>1, <1>2, UserBuffers, WidePointer
<1>6. Into(s, Procs \ {0}, out) BY <1>4, ExscanInto
<1>7. Into(t, {0}, out) BY <1>2, <1>4, CopyInto
<1>8. Given(m1) /\ Whole(m1) BY <1>3, <1>6, UserBuffers, GivenStill
<1>9. Given(m2) /\ Whole(m2) BY <1>3, <1>7, <1>8, UserBuffers, GivenStill
<1>10. ASSUME NEW r \in Procs, NEW k \in 1..N
       PROVE  Value(-1, 0) \notin Range(m2[r]["recv"][k])
  <2>1. k \in 1 .. Room(r, "recv") /\ k \in 1 .. Room(r, "send") BY <1>1
  <2>2. CASE r = 0
    <3>1. Read(m2, out[r], k) = Read(m1, in[r], k)
      BY <1>2, <1>3, <1>4, <1>5, <1>8, <2>2, Copied
    <3>2. Read(m2, out[r], k) = m2[r]["recv"][k] BY <1>9, <2>1, UserBuffers, CellIs
    <3>3. Read(m1, in[r], k) = m1[r]["send"][k] BY <1>8, <2>1, UserBuffers, CellIs
    <3>4. m1[r]["send"][k] = << Value(r, k) >> BY <1>8, <2>1, Passed
    <3>5. m2[r]["recv"][k] = << Value(r, k) >> BY <3>1, <3>2, <3>3, <3>4
    <3> QED BY <3>5, OwnWord
  <2>3. CASE r # 0
    <3>1. r \in Procs \ {0} /\ r \in Nat /\ \A q \in 0 .. r - 1 : q \in Procs
      BY <2>3, CallTypes
    <3>2. Read(m1, out[r], k) = Reduction(m, InOrder(in, r), k)
      BY <1>2, <1>3, <1>4, <1>5, <2>3, Exscanned
    <3>3. Reduction(m, InOrder(in, r), k) = Everyone(r, k)
      <4>1. ASSUME NEW q \in 0 .. r - 1 PROVE Read(m, in[q], k) = << Value(q, k) >>
        <5>1. q \in Procs BY <3>1
        <5>2. k \in 1 .. Room(q, "send") BY <1>1, <5>1
        <5>3. Read(m, in[q], k) = m[q]["send"][k] BY <1>2, <5>1, <5>2, UserBuffers, CellIs
        <5>4. m[q]["send"][k] = << Value(q, k) >> BY <5>1, <5>2, Passed
        <5> QED BY <5>3, <5>4
      <4> HIDE DEF in
      <4> QED BY <3>1, <4>1, ReduceEveryone
    <3>4. Read(m1, out[r], k) = m1[r]["recv"][k] BY <1>8, <2>1, UserBuffers, CellIs
    <3>5. m2[r]["recv"] = m1[r]["recv"]
      <4>1. r \notin {0} BY <2>3
      <4> QED BY <1>3, <1>7, <1>8, <4>1, UserBuffers, Spared
    <3>6. m2[r]["recv"][k] = Everyone(r, k) BY <3>2, <3>3, <3>4, <3>5
    <3> QED BY <3>6, EveryoneOwn
  <2> QED BY <2>2, <2>3
<1>11. \A r \in Procs : Pure(m2, r, "recv") BY <1>1, <1>10 DEF Pure
<1> QED BY <1>9, <1>11

-------------------------------------------------------------------------------
(* The steps of a mock-up.                                                 *)

LEMMA StepsWithin == ASSUME call \in Calls, NEW i \in 1 .. Len(Steps) PROVE Within(Steps[i])
<1>1. PICK S : Steps \in Seq(S) /\ \A x \in S : Within(x) BY StepsSteady DEF Steady
<1>2. Steps[i] \in S BY <1>1
<1> QED BY <1>1, <1>2

(* The steps made so far have led from h[0] to h[j].                       *)
Played(h, j) == \A i \in 1..j : h[i] = After(h[i - 1], Steps[i])

LEMMA FirstClean ==
  ASSUME call \in Calls, Len(Steps) >= 1, Reduces(Steps[1], {"send"}), NEW h, Given(h[0])
  PROVE  Clean(h[0], Steps[1])
<1>1. 1 \in 1 .. Len(Steps) BY StepsLen
<1>2. Within(Steps[1]) /\ Whole(h[0]) BY <1>1, StepsWithin DEF Given
<1>3. \A r \in Procs, b \in {"send"} : Pure(h[0], r, b) BY GivenPure
<1> QED BY <1>2, <1>3, CleanByBuffers

LEMMA ByFirst1 ==
  ASSUME call \in Calls, NEW a, Steps = << a >>,
         Reduces(a, {"send"}),
         NEW h, Given(h[0]), NEW j \in Nat, j < Len(Steps)
  PROVE  Clean(h[j], Steps[j + 1])
<1>1. Len(Steps) = 1 /\ Steps[1] = a
  OBVIOUS
<1>2. CASE j = 0 BY <1>1, <1>2, FirstClean
<1> QED BY <1>1, <1>2

LEMMA ByFirst2 ==
  ASSUME call \in Calls, NEW a, NEW b, Steps = << a, b >>,
         Reduces(a, {"send"}), Single(b),
         NEW h, Given(h[0]), NEW j \in Nat, j < Len(Steps)
  PROVE  Clean(h[j], Steps[j + 1])
<1>1. Len(Steps) = 2 /\ Steps[1] = a /\ Steps[2] = b
  OBVIOUS
<1>2. CASE j = 0 BY <1>1, <1>2, FirstClean
<1>3. CASE j # 0
  <2>1. j + 1 = 2 BY <1>1, <1>3
  <2>2. Single(Steps[j + 1]) BY <1>1, <2>1
  <2> QED BY <2>2, SingleClean
<1> QED BY <1>2, <1>3

LEMMA ByFirst4 ==
  ASSUME call \in Calls, NEW a, NEW b, NEW c, NEW d, Steps = << a, b, c, d >>,
         Reduces(a, {"send"}), Single(b), Single(c), Single(d),
         NEW h, Given(h[0]), NEW j \in Nat, j < Len(Steps)
  PROVE  Clean(h[j], Steps[j + 1])
<1>1. Len(Steps) = 4 /\ Steps[1] = a /\ Steps[2] = b /\ Steps[3] = c /\ Steps[4] = d
  OBVIOUS
<1>2. CASE j = 0 BY <1>1, <1>2, FirstClean
<1>3. CASE j # 0
  <2>1. j + 1 = 2 \/ j + 1 = 3 \/ j + 1 = 4 BY <1>1, <1>3
  <2>2. Single(Steps[j + 1]) BY <1>1, <2>1
  <2> QED BY <2>2, SingleClean
<1> QED BY <1>2, <1>3

LEMMA ThirdPlayed ==
  ASSUME call \in Calls, NEW a, NEW b, NEW c, Len(Steps) >= 3,
         Steps[1] = a, Steps[2] = b, Steps[3] = c,
         NEW h, Played(h, 2),
         \A m1, m2 : m1 = After(h[0], a) /\ m2 = After(m1, b) /\ Within(c) => Clean(m2, c)
  PROVE  Clean(h[2], Steps[3])
<1>1. 3 \in 1 .. Len(Steps) /\ 1 \in 1..2 /\ 2 \in 1..2 BY StepsLen
<1>2. h[1] = After(h[0], a) /\ h[2] = After(h[1], b) BY <1>1 DEF Played
<1>3. Within(c) BY <1>1, StepsWithin
<1> QED BY <1>2, <1>3

LEMMA ByThird3 ==
  ASSUME call \in Calls, NEW a, NEW b, NEW c, Steps = << a, b, c >>,
         Single(a), Single(b),
         NEW h, NEW j \in Nat, j < Len(Steps), Played(h, j),
         \A m1, m2 : m1 = After(h[0], a) /\ m2 = After(m1, b) /\ Within(c) => Clean(m2, c)
  PROVE  Clean(h[j], Steps[j + 1])
<1>1. Len(Steps) = 3 /\ Steps[1] = a /\ Steps[2] = b /\ Steps[3] = c
  OBVIOUS
<1>2. CASE j = 2 BY <1>1, <1>2, ThirdPlayed
<1>3. CASE j # 2
  <2>1. j + 1 = 1 \/ j + 1 = 2 BY <1>1, <1>3
  <2>2. Single(Steps[j + 1]) BY <1>1, <2>1
  <2> QED BY <2>2, SingleClean
<1> QED BY <1>2, <1>3

LEMMA ByThird5 ==
  ASSUME call \in Calls, NEW a, NEW b, NEW c, NEW d, NEW f, Steps = << a, b, c, d, f >>,
         Single(a), Single(b), Single(d), Single(f),
         NEW h, NEW j \in Nat, j < Len(Steps), Played(h, j),
         \A m1, m2 : m1 = After(h[0], a) /\ m2 = After(m1, b) /\ Within(c) => Clean(m2, c)
  PROVE  Clean(h[j], Steps[j + 1])
<1>1. Len(Steps) = 5 /\ Steps[1] = a /\ Steps[2] = b /\ Steps[3] = c /\ Steps[4] = d
      /\ Steps[5] = f
  OBVIOUS
<1>2. CASE j = 2 BY <1>1, <1>2, ThirdPlayed
<1>3. CASE j # 2
  <2>1. j + 1 = 1 \/ j + 1 = 2 \/ j + 1 = 4 \/ j + 1 = 5 BY <1>1, <1>3
  <2>2. Single(Steps[j + 1]) BY <1>1, <2>1
  <2> QED BY <2>2, SingleClean
<1> QED BY <1>2, <1>3

LEMMA ByAll3 ==
  ASSUME call \in Calls, NEW a, NEW b, NEW c, Steps = << a, b, c >>,
         NEW h, NEW j \in Nat, j < Len(Steps), Played(h, j),
         Within(a) => Clean(h[0], a), \A m : Clean(m, b),
         \A m1, m2 : m1 = After(h[0], a) /\ m2 = After(m1, b) /\ Within(c) => Clean(m2, c)
  PROVE  Clean(h[j], Steps[j + 1])
<1>1. Len(Steps) = 3 /\ Steps[1] = a /\ Steps[2] = b /\ Steps[3] = c OBVIOUS
<1>2. CASE j = 0
  <2>1. Within(a) BY <1>1, StepsWithin
  <2> QED BY <1>1, <1>2, <2>1
<1>3. CASE j = 1 BY <1>1, <1>3
<1>4. CASE j = 2 BY <1>1, <1>4, ThirdPlayed
<1> QED BY <1>1, <1>2, <1>3, <1>4

LEMMA SingleInPlace ==
  ASSUME NEW out, NEW counts, NEW offs PROVE Single(AllgathervInPlace(out, counts, offs))
<1> DEFINE in == Shifted(out, LAMBDA r : offs[r])
<1>1. AllgathervInPlace(out, counts, offs) = Allgatherv(in, out, counts, offs)
  BY DEF AllgathervInPlace
<1> HIDE DEF in
<1>2. Single(Allgatherv(in, out, counts, offs)) BY SingleAllgather DEF Allgatherv
<1> QED BY <1>1, <1>2

LEMMA BlockSizes ==
  ASSUME call \in Calls, NEW n \in Nat
  PROVE  \A r \in Procs : Blocks(n)[r] \in Nat /\ Before(Blocks(n), r) \in Nat
<1>1. \A r \in Procs : r * n \in Nat BY InBlock
<1> QED BY <1>1, BlocksAre, BeforeBlocks

LEMMA ReduceChunks ==
  ASSUME call \in Calls
  PROVE  Reduces(Reduce_scatter_block(aux_buf1, aux_buf2, Chunk), {"msg1"})
<1>1. Chunk \in Nat BY ChunksFill
<1>2. \A r \in Procs : Blocks(Chunk)[r] \in Nat /\ Before(Blocks(Chunk), r) \in Nat
  BY <1>1, BlockSizes
<1> QED BY <1>2, Names, ReducePartsFrom DEF Reduce_scatter_block

LEMMA StepsClean ==
  ASSUME call \in Calls, NEW h, Given(h[0]), NEW j \in Nat, j < Len(Steps), Played(h, j)
  PROVE  Clean(h[j], Steps[j + 1])
<1>1. CASE Is("Allgather", 1)
  <2> DEFINE a == Allgatherv(sendbuf, recvbuf, Blocks(N), Strided(N))
  <2>1. Steps = << a >> BY <1>1 DEF Is, Steps, Allgather_as_Allgatherv
  <2>2. Single(a) BY SingleAllgather DEF Allgatherv
  <2>3. Reduces(a, {"send"}) BY <2>2, SingleReduces
  <2> HIDE DEF a
  <2> QED BY <2>1, <2>3, ByFirst1
<1>2. CASE Is("Allgather", 2)
  <2> DEFINE to == [r \in Procs |-> Plus(aux_buf1[r], r * N)]
             a == memset0(aux_buf1, call.p * N)
             b == memcpy(Procs, to, sendbuf, N)
             c == Allreduce(aux_buf1, recvbuf, call.p * N)
  <2>1. Steps = Allgather_as_Allreduce BY <1>2 DEF Is, Steps
  <2>2. Allgather_as_Allreduce = << a, b >> \o << c >>
    BY DEF Allgather_as_Allreduce, OwnBlock, Shifted
  <2>3. Steps = << a, b, c >> BY <2>1, <2>2, Joined
  <2>4. to = [r \in Procs |-> Plus(aux_buf1[r], r * N)] OBVIOUS
  <2> HIDE DEF to
  <2>5. Single(a) /\ Single(b) BY SingleZero, SingleMemcpy
  <2>6. Reduces(c, {"msg1"}) BY Names, Roomy, ReduceFrom
  <2>7. ASSUME NEW m1, NEW m2, m1 = After(h[0], a), m2 = After(m1, b)
        PROVE  Whole(m2) /\ \A r \in Procs : Pure(m2, r, "msg1")
    <3>1. \A r \in Procs : Room(r, "send") = N /\ Room(r, "msg1") = call.p * N
      BY <1>2, UserRooms, RoomsAll DEF Is
    <3>2. Given(m2) /\ OnlyOwn(m2) BY <2>4, <2>7, <3>1, OwnBlockCells
    <3> QED BY <3>1, <3>2, OwnPure DEF Given
  <2> HIDE DEF a, b, c
  <2>8. \A m1, m2 : m1 = After(h[0], a) /\ m2 = After(m1, b) /\ Within(c) => Clean(m2, c)
    BY <2>6, <2>7, CleanByBuffers
  <2> QED BY <2>3, <2>5, <2>8, ByThird3
<1>3. CASE Is("Allgather", 3)
  <2> DEFINE copies == [i \in 1 .. call.p |->
                          memcpy(Procs, [r \in Procs |-> Plus(aux_buf1[r], (i - 1) * N)],
                                 sendbuf, N)]
             last == Alltoall(aux_buf1, recvbuf, N)
  <2>1. Steps = Allgather_as_Alltoall BY <1>3 DEF Is, Steps
  <2>2. Steps = copies \o << last >> BY <2>1 DEF Allgather_as_Alltoall, Shifted
  <2>3. \A i \in 1 .. call.p : Single(copies[i]) BY SingleMemcpy
  <2>4. Single(last) BY SingleAlltoall DEF Alltoall
  <2>5. copies = [i \in 1 .. call.p |-> copies[i]] /\ call.p \in Nat BY CallTypes
  <2> HIDE DEF copies, last
  <2>6. /\ Len(Steps) = call.p + 1 /\ Steps[call.p + 1] = last
        /\ \A i \in 1 .. call.p : Steps[i] = copies[i]
    BY <2>2, <2>5, Appended
  <2>7. Single(Steps[j + 1])
    <3>1. j + 1 \in 1 .. call.p + 1 BY <2>5, <2>6
    <3>2. CASE j + 1 \in 1 .. call.p BY <2>3, <2>6, <3>2
    <3>3. CASE j + 1 = call.p + 1 BY <2>4, <2>6, <3>3
    <3> QED BY <2>5, <3>1, <3>2, <3>3
  <2> QED BY <2>7, SingleClean
<1>4. CASE Is("Allgather", 4)
  <2> DEFINE a == Gather(sendbuf, recvbuf, N, mockup_root_rank)
             b == Bcast(recvbuf, N * call.p, mockup_root_rank)
  <2>1. Steps = << a, b >> BY <1>4 DEF Is, Steps, Allgather_as_GatherBcast
  <2>2. Single(a) BY SingleGather DEF Gather
  <2>3. Single(b) BY SingleBcast
  <2>4. Reduces(a, {"send"}) BY <2>2, SingleReduces
  <2> HIDE DEF a, b
  <2> QED BY <2>1, <2>4, <2>3, ByFirst2
<1>5. CASE Is("Allreduce", 1)
  <2> DEFINE a == Reduce(sendbuf, recvbuf, N, mockup_root_rank)
             b == Bcast(recvbuf, N, mockup_root_rank)
  <2>1. Steps = << a, b >> BY <1>5 DEF Is, Steps, Allreduce_as_Reduce_Bcast
  <2>2. Reduces(a, {"send"}) BY Names, Roomy, ReduceFrom
  <2>3. Single(b) BY SingleBcast
  <2> HIDE DEF a, b
  <2> QED BY <2>1, <2>2, <2>3, ByFirst2
<1>6. CASE Is("Allreduce", 2)
  <2> DEFINE a == CopyIn(Procs, sendbuf)
             b == FillPadding
             c == Reduce_scatter_block(aux_buf1, aux_buf2, Chunk)
             d == Allgather(aux_buf2, aux_buf1, Chunk)
             f == memcpy(Procs, recvbuf, aux_buf1, N)
  <2>1. Steps = << a, b, c, d, f >>
    BY <1>6 DEF Is, Steps, Allreduce_as_Reduce_scatter_block_Allgather
  <2>2. Single(a) /\ Single(b) BY SingleMemcpy, SinglePadding DEF CopyIn
  <2>3. Single(d) /\ Single(f) BY SingleAllgather, SingleMemcpy DEF Allgather
  <2>4. Reduces(c, {"msg1"}) BY ReduceChunks
  <2>5. ASSUME NEW m1, NEW m2, m1 = After(h[0], a), m2 = After(m1, b)
        PROVE  Whole(m2) /\ \A r \in Procs : Pure(m2, r, "msg1")
    <3>1. \A r \in Procs : Room(r, "send") = N /\ Room(r, "msg1") = Padded
      BY <1>6, UserRooms, RoomsPadded DEF Is
    <3>2. Whole(m2) BY <2>5, WholeAfter DEF Given
    <3> QED BY <2>5, <3>1, <3>2, PaddedPure
  <2> HIDE DEF a, b, c, d, f
  <2>6. \A m1, m2 : m1 = After(h[0], a) /\ m2 = After(m1, b) /\ Within(c) => Clean(m2, c)
    BY <2>4, <2>5, CleanByBuffers
  <2> QED BY <2>1, <2>2, <2>3, <2>6, ByThird5
<1>7. CASE Is("Allreduce", 3)
  <2> DEFINE out == [r \in Procs |->
                     Plus(recvbuf[r], IF recvcounts[r] > 0 THEN displs[r] ELSE 0)]
             a == Reduce_scatter(sendbuf, out, recvcounts)
             b == AllgathervInPlace(recvbuf, recvcounts, displs)
  <2>1. Steps = << a, b >>
    BY <1>7 DEF Is, Steps, Allreduce_as_Reduce_scatter_Allgatherv, Shifted
  <2> HIDE DEF out
  <2>2. \A r \in Procs : recvcounts[r] \in Nat /\ Before(recvcounts, r) \in Nat
    BY DealtOut
  <2>3. Reduces(a, {"send"}) BY <2>2, Names, ReducePartsFrom DEF Reduce_scatter
  <2>4. Single(b) BY SingleInPlace
  <2> HIDE DEF a, b
  <2> QED BY <2>1, <2>3, <2>4, ByFirst2
<1>8. CASE Is("Alltoall", 1)
  <2> DEFINE a == Alltoallv(sendbuf, recvbuf, Blocks(N), Strided(N), Strided(N))
  <2>1. Steps = << a >> BY <1>8 DEF Is, Steps, Alltoall_as_Alltoallv
  <2>2. Single(a) BY SingleAlltoall DEF Alltoallv
  <2>3. Reduces(a, {"send"}) BY <2>2, SingleReduces
  <2> HIDE DEF a
  <2> QED BY <2>1, <2>3, ByFirst1
<1>9. CASE Is("Bcast", 1)
  <2> DEFINE counts == [r \in Procs |-> IF r = Root THEN N ELSE 0]
             offs == [r \in Procs |-> IF r > Root THEN N ELSE 0]
             a == AllgathervInPlace(recvbuf, counts, offs)
  <2>1. Steps = << a >> BY <1>9 DEF Is, Steps, Bcast_as_Allgatherv, Shifted
  <2> HIDE DEF counts, offs
  <2>2. Single(a) BY SingleInPlace
  <2>3. Reduces(a, {"send"}) BY <2>2, SingleReduces
  <2> HIDE DEF a
  <2> QED BY <2>1, <2>3, ByFirst1
<1>10. CASE Is("Bcast", 2)
  <2> DEFINE a == CopyIn({Root}, recvbuf)
             b == Scatter(aux_buf1, aux_buf2, Chunk, Root)
             c == Allgather(aux_buf2, aux_buf1, Chunk)
             d == memcpy(Procs \ {Root}, recvbuf, aux_buf1, N)
  <2>1. Steps = << a, b, c, d >> BY <1>10 DEF Is, Steps, Bcast_as_Scatter_Allgather
  <2>2. Single(a) BY SingleMemcpy DEF CopyIn
  <2>3. Single(b) BY SingleScatter DEF Scatter
  <2>4. Single(c) BY SingleAllgather DEF Allgather
  <2>5. Single(d) BY SingleMemcpy
  <2>6. Reduces(a, {"send"}) BY <2>2, SingleReduces
  <2> HIDE DEF a, b, c, d
  <2> QED BY <2>1, <2>6, <2>3, <2>4, <2>5, ByFirst4
<1>11. CASE Is("Gather", 1)
  <2> DEFINE a == Allgather(sendbuf, RecvAtRoot, N)
  <2>1. Steps = << a >> BY <1>11 DEF Is, Steps, Gather_as_Allgather
  <2>2. Single(a) BY SingleAllgather DEF Allgather
  <2>3. Reduces(a, {"send"}) BY <2>2, SingleReduces
  <2> HIDE DEF a
  <2> QED BY <2>1, <2>3, ByFirst1
<1>12. CASE Is("Gather", 2)
  <2> DEFINE a == Gatherv(sendbuf, recvbuf, Blocks(N), Strided(N), Root)
  <2>1. Steps = << a >> BY <1>12 DEF Is, Steps, Gather_as_Gatherv
  <2>2. Single(a) BY SingleGather DEF Gatherv
  <2>3. Reduces(a, {"send"}) BY <2>2, SingleReduces
  <2> HIDE DEF a
  <2> QED BY <2>1, <2>3, ByFirst1
<1>13. CASE Is("Gather", 3)
  <2> DEFINE to == [r \in Procs |-> Plus(aux_buf1[r], r * N)]
             a == memset0(aux_buf1, call.p * N)
             b == memcpy(Procs, to, sendbuf, N)
             c == Reduce(aux_buf1, recvbuf, call.p * N, Root)
  <2>1. Steps = Gather_as_Reduce BY <1>13 DEF Is, Steps
  <2>2. Gather_as_Reduce = << a, b >> \o << c >> BY DEF Gather_as_Reduce, OwnBlock, Shifted
  <2>3. Steps = << a, b, c >> BY <2>1, <2>2, Joined
  <2>4. to = [r \in Procs |-> Plus(aux_buf1[r], r * N)] OBVIOUS
  <2> HIDE DEF to
  <2>5. Single(a) /\ Single(b) BY SingleZero, SingleMemcpy
  <2>6. Reduces(c, {"msg1"}) BY Names, Roomy, ReduceFrom
  <2>7. ASSUME NEW m1, NEW m2, m1 = After(h[0], a), m2 = After(m1, b)
        PROVE  Whole(m2) /\ \A r \in Procs : Pure(m2, r, "msg1")
    <3>1. \A r \in Procs : Room(r, "send") = N /\ Room(r, "msg1") = call.p * N
      BY <1>13, UserRooms, RoomsAll DEF Is
    <3>2. Given(m2) /\ OnlyOwn(m2) BY <2>4, <2>7, <3>1, OwnBlockCells
    <3> QED BY <3>1, <3>2, OwnPure DEF Given
  <2> HIDE DEF a, b, c
  <2>8. \A m1, m2 : m1 = After(h[0], a) /\ m2 = After(m1, b) /\ Within(c) => Clean(m2, c)
    BY <2>6, <2>7, CleanByBuffers
  <2> QED BY <2>3, <2>5, <2>8, ByThird3
<1>14. CASE Is("Reduce", 1)
  <2> DEFINE a == Allreduce(sendbuf, RecvAtRoot, N)
  <2>1. Steps = << a >> BY <1>14 DEF Is, Steps, Reduce_as_Allreduce
  <2>2. Reduces(a, {"send"}) BY Names, Roomy, ReduceFrom
  <2> HIDE DEF a
  <2> QED BY <2>1, <2>2, ByFirst1
<1>15. CASE Is("Reduce", 2)
  <2> DEFINE a == CopyIn(Procs, sendbuf)
             b == FillPadding
             c == Reduce_scatter_block(aux_buf1, aux_buf2, Chunk)
             d == Gather(aux_buf2, aux_buf1, Chunk, Root)
             f == memcpy({Root}, recvbuf, aux_buf1, N)
  <2>1. Steps = << a, b, c, d, f >>
    BY <1>15 DEF Is, Steps, Reduce_as_Reduce_scatter_block_Gather
  <2>2. Single(a) /\ Single(b) BY SingleMemcpy, SinglePadding DEF CopyIn
  <2>3. Single(d) /\ Single(f) BY SingleGather, SingleMemcpy DEF Gather
  <2>4. Reduces(c, {"msg1"}) BY ReduceChunks
  <2>5. ASSUME NEW m1, NEW m2, m1 = After(h[0], a), m2 = After(m1, b)
        PROVE  Whole(m2) /\ \A r \in Procs : Pure(m2, r, "msg1")
    <3>1. \A r \in Procs : Room(r, "send") = N /\ Room(r, "msg1") = Padded
      BY <1>15, UserRooms, RoomsPadded DEF Is
    <3>2. Whole(m2) BY <2>5, WholeAfter DEF Given
    <3> QED BY <2>5, <3>1, <3>2, PaddedPure
  <2> HIDE DEF a, b, c, d, f
  <2>6. \A m1, m2 : m1 = After(h[0], a) /\ m2 = After(m1, b) /\ Within(c) => Clean(m2, c)
    BY <2>4, <2>5, CleanByBuffers
  <2> QED BY <2>1, <2>2, <2>3, <2>6, ByThird5
<1>16. CASE Is("Reduce", 3)
  <2> DEFINE a == Reduce_scatter(sendbuf, aux_buf1, recvcounts)
             b == Gatherv(aux_buf1, recvbuf, recvcounts, displs, Root)
  <2>1. Steps = << a, b >> BY <1>16 DEF Is, Steps, Reduce_as_Reduce_scatter_Gatherv
  <2>2. \A r \in Procs : recvcounts[r] \in Nat /\ Before(recvcounts, r) \in Nat
    BY DealtOut
  <2>3. Reduces(a, {"send"}) BY <2>2, Names, ReducePartsFrom DEF Reduce_scatter
  <2>4. Single(b) BY SingleGather DEF Gatherv
  <2> HIDE DEF a, b
  <2> QED BY <2>1, <2>3, <2>4, ByFirst2
<1>17. CASE Is("Reduce", 4)
  <2> DEFINE counts == [r \in Procs |-> IF r = Root THEN N ELSE 0]
             a == Reduce_scatter(sendbuf, recvbuf, counts)
  <2>1. Steps = << a >> BY <1>17 DEF Is, Steps, Reduce_as_Reduce_scatter, Shifted
  <2>2. \A r \in Procs : counts[r] \in Nat /\ Before(counts, r) \in Nat BY Roomy, BeforeOne
  <2> HIDE DEF counts
  <2>3. Reduces(a, {"send"}) BY <2>2, Names, ReducePartsFrom DEF Reduce_scatter
  <2> HIDE DEF a
  <2> QED BY <2>1, <2>3, ByFirst1
<1>18. CASE Is("Reduce_scatter_block", 1)
  <2> DEFINE a == Reduce(sendbuf, aux_buf1, call.p * N, mockup_root_rank)
             b == Scatter(aux_buf1, recvbuf, N, mockup_root_rank)
  <2>1. Steps = << a, b >> BY <1>18 DEF Is, Steps, Reduce_scatter_block_as_Reduce_Scatter
  <2>2. Reduces(a, {"send"}) BY Names, Roomy, ReduceFrom
  <2>3. Single(b) BY SingleScatter DEF Scatter
  <2> HIDE DEF a, b
  <2> QED BY <2>1, <2>2, <2>3, ByFirst2
<1>19. CASE Is("Reduce_scatter_block", 2)
  <2> DEFINE a == Reduce_scatter(sendbuf, recvbuf, Blocks(N))
  <2>1. Steps = << a >> BY <1>19 DEF Is, Steps, Reduce_scatter_block_as_Reduce_scatter
  <2>2. \A r \in Procs : Blocks(N)[r] \in Nat /\ Before(Blocks(N), r) \in Nat
    BY Roomy, BlockSizes
  <2>3. Reduces(a, {"send"}) BY <2>2, Names, ReducePartsFrom DEF Reduce_scatter
  <2> HIDE DEF a
  <2> QED BY <2>1, <2>3, ByFirst1
<1>20. CASE Is("Reduce_scatter_block", 3)
  <2> DEFINE from == [r \in Procs |-> Plus(aux_buf1[r], r * N)]
             a == Allreduce(sendbuf, aux_buf1, call.p * N)
             b == memcpy(Procs, recvbuf, from, N)
  <2>1. Steps = << a, b >> BY <1>20 DEF Is, Steps, Reduce_scatter_block_as_Allreduce, Shifted
  <2> HIDE DEF from
  <2>2. Reduces(a, {"send"}) BY Names, Roomy, ReduceFrom
  <2>3. Single(b) BY SingleMemcpy
  <2> HIDE DEF a, b
  <2> QED BY <2>1, <2>2, <2>3, ByFirst2
<1>21. CASE Is("Scan", 1)
  <2> DEFINE a == Exscan(sendbuf, recvbuf, N)
             b == memcpy({0}, recvbuf, sendbuf, N)
             c == Reduce_local(Procs \ {0}, sendbuf, recvbuf, N)
  <2>1. Steps = << a, b, c >> BY <1>21 DEF Is, Steps, Scan_as_Exscan_Reduce_local
  <2>2. Reduces(a, {"send"}) BY Names, Roomy, ReduceFrom
  <2>3. Single(b) BY SingleMemcpy
  <2>4. Reduces(c, {"send", "recv"})
    <3>1. Procs \ {0} \subseteq Procs OBVIOUS
    <3> QED BY <3>1, Names, Roomy, ReduceLocalFrom
  <2>5. ASSUME NEW m1, NEW m2, m1 = After(h[0], a), m2 = After(m1, b)
        PROVE  /\ Whole(m2)
               /\ \A r \in Procs : Pure(m2, r, "send") /\ Pure(m2, r, "recv")
    <3>1. Given(m2) /\ \A r \in Procs : Pure(m2, r, "recv") BY <1>21, <2>5, ScanPure
    <3> QED BY <3>1, GivenPure DEF Given
  <2> HIDE DEF a, b, c
  <2>6. ASSUME Within(a) PROVE Clean(h[0], a)
    BY <2>2, <2>6, GivenPure, CleanByBuffers DEF Given
  <2>7. \A m1, m2 : m1 = After(h[0], a) /\ m2 = After(m1, b) /\ Within(c) => Clean(m2, c)
    BY <2>4, <2>5, CleanByBuffers
  <2>8. \A m : Clean(m, b) BY <2>3, SingleClean
  <2> QED BY <2>1, <2>6, <2>7, <2>8, ByAll3
<1>22. CASE Is("Scatter", 1)
  <2> DEFINE buf == [r \in Procs |-> IF r = Root THEN sendbuf[r] ELSE aux_buf1[r]]
             from == [r \in Procs |-> Plus(buf[r], r * N)]
             a == Bcast(buf, call.p * N, Root)
             b == memcpy(Procs, recvbuf, from, N)
  <2>1. Steps = << a, b >> BY <1>22 DEF Is, Steps, Scatter_as_Bcast, Shifted
  <2> HIDE DEF buf, from
  <2>2. Single(a) BY SingleBcast
  <2>3. Single(b) BY SingleMemcpy
  <2>4. Reduces(a, {"send"}) BY <2>2, SingleReduces
  <2> HIDE DEF a, b
  <2> QED BY <2>1, <2>4, <2>3, ByFirst2
<1>23. CASE Is("Scatter", 2)
  <2> DEFINE a == Scatterv(sendbuf, recvbuf, Blocks(N), Strided(N), Root)
  <2>1. Steps = << a >> BY <1>23 DEF Is, Steps, Scatter_as_Scatterv
  <2>2. Single(a) BY SingleScatter DEF Scatterv
  <2>3. Reduces(a, {"send"}) BY <2>2, SingleReduces
  <2> HIDE DEF a
  <2> QED BY <2>1, <2>3, ByFirst1
<1> QED BY Selections, <1>1, <1>2, <1>3, <1>4, <1>5, <1>6, <1>7, <1>8, <1>9, <1>10, <1>11,
           <1>12, <1>13, <1>14, <1>15, <1>16, <1>17, <1>18, <1>19, <1>20, <1>21, <1>22, <1>23

LEMMA ReplayedIsUserData == Replayed => UserDataOnly
<1> SUFFICES ASSUME Replayed, step < Len(Steps) PROVE UserDataOnly
  BY DEF UserDataOnly
<1>1. PICK h, s : Past(h, s) BY DEF Replayed
<1>2. call \in Calls /\ step \in Nat BY DEF Replayed, IInv
<1>3. Given(h[0]) /\ Played(h, step) /\ mem = h[step] BY <1>1 DEF Past, Played, Started
<1>4. Clean(mem, Steps[step + 1]) BY <1>2, <1>3, StepsClean
<1> QED BY <1>4 DEF Clean, UserDataOnly

(* An operation of the user's is applied to values that processes passed   *)
(* and to nothing else: never to the garbage of a buffer that a mock-up    *)
(* took, nor to padding that it has not filled in (allreduce_impl.c and    *)
(* reduce_impl.c in src/src/collectives repeat the first element for that).*)
THEOREM OnlyUserData == Spec => []UserDataOnly
<1>1. Replayed => UserDataOnly BY ReplayedIsUserData
<1>2. Init => Replayed BY InitReplayed
<1>3. Replayed /\ [Next]_vars => Replayed' BY NextReplayed
<1> QED BY <1>1, <1>2, <1>3, PTL DEF Spec

-------------------------------------------------------------------------------
(* The calls of a mock-up. Every step has the name of what it does, and    *)
(* what its moves read are lists of places.                                *)

IsList(of) == \E n \in Nat : of = [i \in 1..n |-> of[i]]

Makes(s, name) == s.name = name /\ \A v \in s.moves : IsList(v.of)

LEMMA Lists ==
  /\ IsList(<< >>)
  /\ \A x : IsList(<< x >>)
  /\ \A x, y : IsList(<< x, y >>)
  /\ \A in : \A n \in Nat : IsList(InOrder(in, n))
<1>1. IsList(<< >>)
  <2>1. << >> = [i \in 1..0 |-> << >>[i]] OBVIOUS
  <2> QED BY <2>1 DEF IsList
<1>2. ASSUME NEW x PROVE IsList(<< x >>)
  <2>1. << x >> = [i \in 1..1 |-> << x >>[i]] OBVIOUS
  <2> QED BY <2>1 DEF IsList
<1>3. ASSUME NEW x, NEW y PROVE IsList(<< x, y >>)
  <2>1. << x, y >> = [i \in 1..2 |-> << x, y >>[i]] OBVIOUS
  <2> QED BY <2>1 DEF IsList
<1>4. ASSUME NEW in, NEW n \in Nat PROVE IsList(InOrder(in, n))
  <2>1. InOrder(in, n) = [i \in 1..n |-> InOrder(in, n)[i]] BY DEF InOrder
  <2> QED BY <2>1 DEF IsList
<1> QED BY <1>1, <1>2, <1>3, <1>4

LEMMA MakesStep ==
  ASSUME NEW name, NEW moves, \A v \in moves : IsList(v.of)
  PROVE  Makes(Step(name, moves), name)
<1>1. /\ Step(name, moves).name = name
      /\ Step(name, moves).moves \subseteq moves
  BY DEF Step
<1> QED BY <1>1 DEF Makes

LEMMA MakesLocal ==
  /\ \A who, to, from, n : Makes(memcpy(who, to, from, n), "local")
  /\ \A to, n : Makes(memset0(to, n), "local")
  /\ \A who, in, inout, n : Makes(Reduce_local(who, in, inout, n), "local")
  /\ Makes(FillPadding, "local")
<1>1. ASSUME NEW who, NEW to, NEW from, NEW n PROVE Makes(memcpy(who, to, from, n), "local")
  <2> DEFINE moves == {Move(<< from[r] >>, to[r], n) : r \in who}
  <2> HIDE DEF moves
  <2>1. ASSUME NEW v \in moves PROVE IsList(v.of)
    <3>1. PICK r \in who : v = Move(<< from[r] >>, to[r], n)
      BY DEF moves
    <3>2. v.of = << from[r] >> BY <3>1, MoveIs
    <3> QED BY <3>2, Lists
  <2>3. Makes(Step("local", moves), "local") BY <2>1, MakesStep
  <2> QED BY <2>3 DEF moves, memcpy
<1>2. ASSUME NEW to, NEW n PROVE Makes(memset0(to, n), "local")
  <2> DEFINE moves == {Move(<< >>, to[r], n) : r \in Procs}
  <2> HIDE DEF moves
  <2>1. ASSUME NEW v \in moves PROVE IsList(v.of)
    <3>1. PICK r \in Procs : v = Move(<< >>, to[r], n)
      BY DEF moves
    <3>2. v.of = << >> BY <3>1, MoveIs
    <3> QED BY <3>2, Lists
  <2>3. Makes(Step("local", moves), "local") BY <2>1, MakesStep
  <2> QED BY <2>3 DEF moves, memset0
<1>3. ASSUME NEW who, NEW in, NEW inout, NEW n
      PROVE  Makes(Reduce_local(who, in, inout, n), "local")
  <2> DEFINE moves == {Move(<< in[r], inout[r] >>, inout[r], n) : r \in who}
  <2> HIDE DEF moves
  <2>1. ASSUME NEW v \in moves PROVE IsList(v.of)
    <3>1. PICK r \in who : v = Move(<< in[r], inout[r] >>, inout[r], n)
      BY DEF moves
    <3>2. v.of = << in[r], inout[r] >> BY <3>1, MoveIs
    <3> QED BY <3>2, Lists
  <2>3. Makes(Step("local", moves), "local") BY <2>1, MakesStep
  <2> QED BY <2>3 DEF moves, Reduce_local
<1>4. Makes(FillPadding, "local")
  <2> DEFINE moves == {Move(<< sendbuf[r] >>, Plus(aux_buf1[r], i), 1)
                         : r \in Procs, i \in N .. Padded - 1}
  <2> HIDE DEF moves
  <2>1. ASSUME NEW v \in moves PROVE IsList(v.of)
    <3>1. PICK r \in Procs, i \in N .. Padded - 1 :
            v = Move(<< sendbuf[r] >>, Plus(aux_buf1[r], i), 1)
      BY DEF moves
    <3>2. v.of = << sendbuf[r] >> BY <3>1, MoveIs
    <3> QED BY <3>2, Lists
  <2>3. Makes(Step("local", moves), "local") BY <2>1, MakesStep
  <2> QED BY <2>3 DEF moves, FillPadding
<1> QED BY <1>1, <1>2, <1>3, <1>4

LEMMA MakesGather ==
  /\ \A in, out, n, root : Makes(Gather(in, out, n, root), "Gather")
  /\ \A in, out, counts, offs, root : Makes(Gatherv(in, out, counts, offs, root), "Gatherv")
  /\ \A in, out, n : Makes(Allgather(in, out, n), "Allgather")
  /\ \A in, out, counts, offs : Makes(Allgatherv(in, out, counts, offs), "Allgatherv")
  /\ \A out, counts, offs : Makes(AllgathervInPlace(out, counts, offs), "Allgatherv")
<1>1. ASSUME NEW in, NEW out, NEW counts, NEW offs, NEW root,
             NEW v \in GathervMoves(in, out, counts, offs, root)
      PROVE  IsList(v.of)
  <2>1. PICK q \in Procs : v = Move(<< in[q] >>, Plus(out[root], offs[q]), counts[q])
    BY DEF GathervMoves
  <2>2. v.of = << in[q] >> BY <2>1, MoveIs
  <2> QED BY <2>2, Lists
<1>2. ASSUME NEW in, NEW out, NEW counts, NEW offs, NEW root, NEW name
      PROVE  Makes(Step(name, GathervMoves(in, out, counts, offs, root)), name)
  BY <1>1, MakesStep
<1>3. ASSUME NEW in, NEW out, NEW counts, NEW offs, NEW name
      PROVE  Makes(Step(name, UNION {GathervMoves(in, out, counts, offs, r) : r \in Procs}),
                   name)
  <2> DEFINE moves == UNION {GathervMoves(in, out, counts, offs, r) : r \in Procs}
  <2>1. \A v \in moves : \E r \in Procs : v \in GathervMoves(in, out, counts, offs, r) OBVIOUS
  <2>2. \A v \in moves : IsList(v.of) BY <1>1, <2>1
  <2> HIDE DEF moves
  <2>3. Makes(Step(name, moves), name) BY <2>2, MakesStep
  <2> QED BY <2>3 DEF moves
<1>4. \A in, out, counts, offs : Makes(Allgatherv(in, out, counts, offs), "Allgatherv")
  BY <1>3 DEF Allgatherv
<1>5. \A in, out, n, root : Makes(Gather(in, out, n, root), "Gather") BY <1>2 DEF Gather
<1>6. \A in, out, counts, offs, root : Makes(Gatherv(in, out, counts, offs, root), "Gatherv")
  BY <1>2 DEF Gatherv
<1>7. \A in, out, n : Makes(Allgather(in, out, n), "Allgather") BY <1>3 DEF Allgather
<1>8. \A out, counts, offs : Makes(AllgathervInPlace(out, counts, offs), "Allgatherv")
  BY <1>4 DEF AllgathervInPlace
<1> QED BY <1>4, <1>5, <1>6, <1>7, <1>8

LEMMA MakesScatter ==
  /\ \A in, out, n, root : Makes(Scatter(in, out, n, root), "Scatter")
  /\ \A in, out, counts, offs, root : Makes(Scatterv(in, out, counts, offs, root), "Scatterv")
  /\ \A buf, n, root : Makes(Bcast(buf, n, root), "Bcast")
<1>1. ASSUME NEW in, NEW out, NEW counts, NEW offs, NEW root, NEW name
      PROVE  Makes(Step(name, ScattervMoves(in, out, counts, offs, root)), name)
  <2> DEFINE moves == ScattervMoves(in, out, counts, offs, root)
  <2>1. ASSUME NEW v \in moves PROVE IsList(v.of)
    <3>1. PICK q \in Procs : v = Move(<< Plus(in[root], offs[q]) >>, out[q], counts[q])
      BY DEF ScattervMoves
    <3>2. v.of = << Plus(in[root], offs[q]) >> BY <3>1, MoveIs
    <3> QED BY <3>2, Lists
  <2> HIDE DEF moves
  <2>2. Makes(Step(name, moves), name) BY <2>1, MakesStep
  <2> QED BY <2>2 DEF moves
<1>2. ASSUME NEW buf, NEW n, NEW root PROVE Makes(Bcast(buf, n, root), "Bcast")
  <2> DEFINE moves == {Move(<< buf[root] >>, buf[r], n) : r \in Procs \ {root}}
  <2> HIDE DEF moves
  <2>1. ASSUME NEW v \in moves PROVE IsList(v.of)
    <3>1. PICK r \in Procs \ {root} : v = Move(<< buf[root] >>, buf[r], n)
      BY DEF moves
    <3>2. v.of = << buf[root] >> BY <3>1, MoveIs
    <3> QED BY <3>2, Lists
  <2>3. Makes(Step("Bcast", moves), "Bcast") BY <2>1, MakesStep
  <2> QED BY <2>3 DEF moves, Bcast
<1> QED BY <1>1, <1>2, Zenon DEF Scatter, Scatterv

LEMMA MakesAlltoall ==
  /\ \A in, out, n : Makes(Alltoall(in, out, n), "Alltoall")
  /\ \A in, out, counts, from, to :
       Makes(Alltoallv(in, out, counts, from, to), "Alltoallv")
<1>1. ASSUME NEW in, NEW out, NEW counts, NEW from, NEW to, NEW name
      PROVE  Makes(Step(name, AlltoallvMoves(in, out, counts, from, to)), name)
  <2> DEFINE moves == AlltoallvMoves(in, out, counts, from, to)
  <2>1. ASSUME NEW v \in moves PROVE IsList(v.of)
    <3>1. PICK q \in Procs, r \in Procs :
            v = Move(<< Plus(in[q], from[r]) >>, Plus(out[r], to[q]), counts[r])
      BY DEF AlltoallvMoves
    <3>2. v.of = << Plus(in[q], from[r]) >> BY <3>1, MoveIs
    <3> QED BY <3>2, Lists
  <2> HIDE DEF moves
  <2>2. Makes(Step(name, moves), name) BY <2>1, MakesStep
  <2> QED BY <2>2 DEF moves
<1> QED BY <1>1, Zenon DEF Alltoall, Alltoallv

LEMMA MakesReduce ==
  ASSUME call \in Calls
  PROVE  /\ \A in, out, n, root : Makes(Reduce(in, out, n, root), "Reduce")
         /\ \A in, out, n : Makes(Allreduce(in, out, n), "Allreduce")
         /\ \A in, out, counts : Makes(Reduce_scatter(in, out, counts), "Reduce_scatter")
         /\ \A in, out, n : Makes(Reduce_scatter_block(in, out, n), "Reduce_scatter_block")
         /\ \A in, out, n : Makes(Exscan(in, out, n), "Exscan")
<1>1. call.p \in Nat /\ Procs \subseteq Nat BY CallTypes
<1>2. ASSUME NEW in, NEW out, NEW n, NEW root, NEW v \in ReduceMoves(in, out, n, root)
      PROVE  IsList(v.of)
  <2>1. v = Move(InOrder(in, call.p), out[root], n) BY DEF ReduceMoves
  <2>2. v.of = InOrder(in, call.p) BY <2>1, MoveIs
  <2> QED BY <1>1, <2>2, Lists
<1>3. \A in, out, n, root : Makes(Reduce(in, out, n, root), "Reduce")
  BY <1>2, MakesStep DEF Reduce
<1>4. ASSUME NEW in, NEW out, NEW n PROVE Makes(Allreduce(in, out, n), "Allreduce")
  <2> DEFINE moves == UNION {ReduceMoves(in, out, n, r) : r \in Procs}
  <2>1. \A v \in moves : \E r \in Procs : v \in ReduceMoves(in, out, n, r) OBVIOUS
  <2>2. \A v \in moves : IsList(v.of) BY <1>2, <2>1
  <2> HIDE DEF moves
  <2>3. Makes(Step("Allreduce", moves), "Allreduce") BY <2>2, MakesStep
  <2> QED BY <2>3 DEF moves, Allreduce
<1>5. ASSUME NEW in, NEW out, NEW counts, NEW name
      PROVE  Makes(Step(name, ReduceScatterMoves(in, out, counts)), name)
  <2> DEFINE moves == ReduceScatterMoves(in, out, counts)
             part(r) == Shifted(in, LAMBDA q : Before(counts, r))
  <2>1. \A v \in moves : \E r \in Procs : v \in ReduceMoves(part(r), out, counts[r], r)
    BY DEF ReduceScatterMoves
  <2> HIDE DEF part
  <2>2. \A v \in moves : IsList(v.of) BY <1>2, <2>1
  <2> HIDE DEF moves
  <2>3. Makes(Step(name, moves), name) BY <2>2, MakesStep
  <2> QED BY <2>3 DEF moves
<1>6. ASSUME NEW in, NEW out, NEW n PROVE Makes(Exscan(in, out, n), "Exscan")
  <2> DEFINE moves == {Move(InOrder(in, r), out[r], n) : r \in Procs \ {0}}
  <2> HIDE DEF moves
  <2>1. ASSUME NEW v \in moves PROVE IsList(v.of)
    <3>1. PICK r \in Procs \ {0} : v = Move(InOrder(in, r), out[r], n)
      BY DEF moves
    <3>2. v.of = InOrder(in, r) BY <3>1, MoveIs
    <3> QED BY <1>1, <3>2, Lists
  <2>3. Makes(Step("Exscan", moves), "Exscan") BY <2>1, MakesStep
  <2> QED BY <2>3 DEF moves, Exscan
<1> QED BY <1>3, <1>4, <1>5, <1>6, Zenon DEF Reduce_scatter, Reduce_scatter_block

(* The descriptions of a mock-up match if both make the one call, or both  *)
(* make the same two in the same order.                                    *)
LEMMA MatchOne ==
  ASSUME NEW i \in Int, NEW j \in Int, Called = {i}, Collective = {j},
         Steps[j].name = Function(i)
  PROVE  SameCalls
<1> DEFINE at == [k \in Called |-> j]
<1>1. at \in [Called -> Collective] /\ at[i] = j OBVIOUS
<1> HIDE DEF at
<1>2. \A k \in Called : Steps[at[k]].name = Function(k) BY <1>1
<1>3. \A k, l \in Called : ~ k < l OBVIOUS
<1>4. \A k \in Collective : \E l \in Called : at[l] = k BY <1>1
<1> QED BY <1>1, <1>2, <1>3, <1>4 DEF SameCalls

LEMMA MatchTwo ==
  ASSUME NEW i1 \in Int, NEW i2 \in Int, NEW j1 \in Int, NEW j2 \in Int, i1 < i2, j1 < j2,
         Called = {i1, i2}, Collective = {j1, j2},
         Steps[j1].name = Function(i1), Steps[j2].name = Function(i2)
  PROVE  SameCalls
<1> DEFINE at == [k \in Called |-> IF k = i1 THEN j1 ELSE j2]
<1>1. at \in [Called -> Collective] /\ at[i1] = j1 /\ at[i2] = j2 OBVIOUS
<1> HIDE DEF at
<1>2. \A k \in Called : Steps[at[k]].name = Function(k) BY <1>1
<1>3. \A k, l \in Called : k < l => at[k] < at[l] BY <1>1
<1>4. \A k \in Collective : \E l \in Called : at[l] = k BY <1>1
<1> QED BY <1>1, <1>2, <1>3, <1>4 DEF SameCalls

Listed == \A k \in DOMAIN Steps : \A v \in Steps[k].moves : IsList(v.of)

LEMMA StepsDomain == ASSUME call \in Calls PROVE DOMAIN Steps = 1 .. Len(Steps)
<1>1. PICK S : Steps \in Seq(S) BY StepsSteady DEF Steady
<1> QED BY <1>1

LEMMA StepsMatch == ASSUME call \in Calls PROVE SameCalls /\ Listed
<1>1. CASE Is("Allgather", 1)
  <2> DEFINE a == Allgatherv(sendbuf, recvbuf, Blocks(N), Strided(N))
  <2>1. Steps = << a >>
    BY <1>1 DEF Is, Steps, Allgather_as_Allgatherv, Shifted
  <2>2. Makes(a, "Allgatherv") BY MakesGather
  <2> HIDE DEF a
  <2>3. /\ \A k : k \in DOMAIN Steps <=> k = 1
        /\ Steps[1] = a
    BY <2>1
  <2>4. /\ Collective = {1}
        /\ Steps[1].name = "Allgatherv"
    BY <2>2, <2>3 DEF Collective, Makes
  <2>5. Listed BY <2>2, <2>3 DEF Listed, Makes
  <2>6. Script = Scripts!Allgather_as_Allgatherv(N, 1, call.p)
    BY <1>1 DEF Is, Script, Scripts!Mockups, Scripts!Allgather
  <2>7. /\ Called = {3}
        /\ Function(3) = "Allgatherv"
    BY <2>6 DEF Called, Function, Scripts!Allgather_as_Allgatherv, Scripts!Mpi,
       Scripts!Call, Scripts!Release, Scripts!GrabInt2, Scripts!GrabInt, Scripts!Grab
  <2> QED BY <2>4, <2>5, <2>7, MatchOne
<1>2. CASE Is("Allgather", 2)
  <2> DEFINE to == [r \in Procs |-> Plus(aux_buf1[r], r * N)]
             a == memset0(aux_buf1, call.p * N)
             b == memcpy(Procs, to, sendbuf, N)
             c == Allreduce(aux_buf1, recvbuf, call.p * N)
  <2>1. Steps = Allgather_as_Allreduce BY <1>2 DEF Is, Steps
  <2>2. Allgather_as_Allreduce = << a, b >> \o << c >>
    BY DEF Allgather_as_Allreduce, OwnBlock, Shifted
  <2>3. Steps = << a, b, c >> BY <2>1, <2>2, Joined
  <2> HIDE DEF to
  <2>4. Makes(a, "local") BY MakesLocal
  <2>5. Makes(b, "local") BY MakesLocal
  <2>6. Makes(c, "Allreduce") BY MakesReduce
  <2> HIDE DEF a, b, c
  <2>7. /\ \A k : k \in DOMAIN Steps <=> k = 1 \/ k = 2 \/ k = 3
        /\ Steps[1] = a /\ Steps[2] = b /\ Steps[3] = c
    BY <2>3
  <2>8. /\ Collective = {3}
        /\ Steps[3].name = "Allreduce"
    BY <2>4, <2>5, <2>6, <2>7 DEF Collective, Makes
  <2>9. Listed BY <2>4, <2>5, <2>6, <2>7 DEF Listed, Makes
  <2>10. Script = Scripts!Allgather_as_Allreduce(N, 1, call.p)
    BY <1>2 DEF Is, Script, Scripts!Mockups, Scripts!Allgather
  <2>11. /\ Called = {2}
        /\ Function(2) = "Allreduce"
    BY <2>10 DEF Called, Function, Scripts!Allgather_as_Allreduce, Scripts!Mpi,
       Scripts!Call, Scripts!Release, Scripts!GrabMsg, Scripts!Grab
  <2> QED BY <2>8, <2>9, <2>11, MatchOne
<1>3. CASE Is("Allgather", 3)
  <2> DEFINE copies == [i \in 1 .. call.p |->
                          memcpy(Procs, [r \in Procs |-> Plus(aux_buf1[r], (i - 1) * N)],
                                 sendbuf, N)]
             last == Alltoall(aux_buf1, recvbuf, N)
  <2>1. Steps = Allgather_as_Alltoall BY <1>3 DEF Is, Steps
  <2>2. Steps = copies \o << last >> BY <2>1 DEF Allgather_as_Alltoall, Shifted
  <2>3. \A i \in 1 .. call.p : Makes(copies[i], "local") BY MakesLocal
  <2>4. Makes(last, "Alltoall") BY MakesAlltoall
  <2>5. copies = [i \in 1 .. call.p |-> copies[i]] /\ call.p \in Nat BY CallTypes
  <2> HIDE DEF copies, last
  <2>6. /\ Len(Steps) = call.p + 1 /\ Steps[call.p + 1] = last
        /\ \A i \in 1 .. call.p : Steps[i] = copies[i]
    BY <2>2, <2>5, Appended
  <2>7. DOMAIN Steps = 1 .. call.p + 1 BY <2>6, StepsDomain
  <2>8. \A k \in 1 .. call.p + 1 : k \in 1 .. call.p \/ k = call.p + 1 BY <2>5
  <2>9. call.p + 1 \in 1 .. call.p + 1 BY <2>5
  <2>10. Collective = {call.p + 1} /\ Steps[call.p + 1].name = "Alltoall"
    <3>1. \A k \in 1 .. call.p : Steps[k].name = "local" BY <2>3, <2>6 DEF Makes
    <3>2. Steps[call.p + 1].name = "Alltoall" BY <2>4, <2>6 DEF Makes
    <3>3. \A k \in DOMAIN Steps : Steps[k].name # "local" <=> k = call.p + 1
      BY <2>7, <2>8, <3>1, <3>2
    <3>4. call.p + 1 \in DOMAIN Steps BY <2>7, <2>9
    <3> QED BY <3>2, <3>3, <3>4, Zenon DEF Collective
  <2>11. Listed BY <2>3, <2>4, <2>6, <2>7, <2>8 DEF Listed, Makes
  <2>12. Script = Scripts!Allgather_as_Alltoall(N, 1, call.p)
    BY <1>3 DEF Is, Script, Scripts!Mockups, Scripts!Allgather
  <2>13. /\ Called = {2}
        /\ Function(2) = "Alltoall"
    BY <2>12 DEF Called, Function, Scripts!Allgather_as_Alltoall, Scripts!Mpi,
       Scripts!Call, Scripts!Release, Scripts!GrabMsg, Scripts!Grab
  <2> QED BY <2>10, <2>11, <2>13, <2>5, MatchOne
<1>4. CASE Is("Allgather", 4)
  <2> DEFINE a == Gather(sendbuf, recvbuf, N, mockup_root_rank)
             b == Bcast(recvbuf, N * call.p, mockup_root_rank)
  <2>1. Steps = << a, b >>
    BY <1>4 DEF Is, Steps, Allgather_as_GatherBcast, Shifted
  <2>2. Makes(a, "Gather") BY MakesGather
  <2>3. Makes(b, "Bcast") BY MakesScatter
  <2> HIDE DEF a, b
  <2>4. /\ \A k : k \in DOMAIN Steps <=> k = 1 \/ k = 2
        /\ Steps[1] = a /\ Steps[2] = b
    BY <2>1
  <2>5. /\ Collective = {1, 2}
        /\ Steps[1].name = "Gather" /\ Steps[2].name = "Bcast"
    BY <2>2, <2>3, <2>4 DEF Collective, Makes
  <2>6. Listed BY <2>2, <2>3, <2>4 DEF Listed, Makes
  <2>7. Script = Scripts!Allgather_as_GatherBcast(N, 1, call.p)
    BY <1>4 DEF Is, Script, Scripts!Mockups, Scripts!Allgather
  <2>8. /\ Called = {1, 2}
        /\ Function(1) = "Gather" /\ Function(2) = "Bcast"
    BY <2>7 DEF Called, Function, Scripts!Allgather_as_GatherBcast, Scripts!Mpi,
       Scripts!Call
  <2> QED BY <2>5, <2>6, <2>8, MatchTwo
<1>5. CASE Is("Allreduce", 1)
  <2> DEFINE a == Reduce(sendbuf, recvbuf, N, mockup_root_rank)
             b == Bcast(recvbuf, N, mockup_root_rank)
  <2>1. Steps = << a, b >>
    BY <1>5 DEF Is, Steps, Allreduce_as_Reduce_Bcast, Shifted
  <2>2. Makes(a, "Reduce") BY MakesReduce
  <2>3. Makes(b, "Bcast") BY MakesScatter
  <2> HIDE DEF a, b
  <2>4. /\ \A k : k \in DOMAIN Steps <=> k = 1 \/ k = 2
        /\ Steps[1] = a /\ Steps[2] = b
    BY <2>1
  <2>5. /\ Collective = {1, 2}
        /\ Steps[1].name = "Reduce" /\ Steps[2].name = "Bcast"
    BY <2>2, <2>3, <2>4 DEF Collective, Makes
  <2>6. Listed BY <2>2, <2>3, <2>4 DEF Listed, Makes
  <2>7. Script = Scripts!Allreduce_as_Reduce_Bcast(N, 1, call.p)
    BY <1>5 DEF Is, Script, Scripts!Mockups, Scripts!Allreduce
  <2>8. /\ Called = {1, 2}
        /\ Function(1) = "Reduce" /\ Function(2) = "Bcast"
    BY <2>7 DEF Called, Function, Scripts!Allreduce_as_Reduce_Bcast, Scripts!Mpi,
       Scripts!Call
  <2> QED BY <2>5, <2>6, <2>8, MatchTwo
<1>6. CASE Is("Allreduce", 2)
  <2> DEFINE a == CopyIn(Procs, sendbuf)
             b == FillPadding
             c == Reduce_scatter_block(aux_buf1, aux_buf2, Chunk)
             d == Allgather(aux_buf2, aux_buf1, Chunk)
             f == memcpy(Procs, recvbuf, aux_buf1, N)
  <2>1. Steps = << a, b, c, d, f >>
    BY <1>6 DEF Is, Steps, Allreduce_as_Reduce_scatter_block_Allgather, Shifted
  <2>2. Makes(a, "local") BY MakesLocal DEF CopyIn
  <2>3. Makes(b, "local") BY MakesLocal
  <2>4. Makes(c, "Reduce_scatter_block") BY MakesReduce
  <2>5. Makes(d, "Allgather") BY MakesGather
  <2>6. Makes(f, "local") BY MakesLocal
  <2> HIDE DEF a, b, c, d, f
  <2>7. /\ \A k : k \in DOMAIN Steps <=> k = 1 \/ k = 2 \/ k = 3 \/ k = 4 \/ k = 5
        /\ Steps[1] = a /\ Steps[2] = b /\ Steps[3] = c /\ Steps[4] = d /\ Steps[5] = f
    BY <2>1
  <2>8. /\ Collective = {3, 4}
        /\ Steps[3].name = "Reduce_scatter_block" /\ Steps[4].name = "Allgather"
    BY <2>2, <2>3, <2>4, <2>5, <2>6, <2>7 DEF Collective, Makes
  <2>9. Listed BY <2>2, <2>3, <2>4, <2>5, <2>6, <2>7 DEF Listed, Makes
  <2>10. Script = Scripts!Allreduce_as_Reduce_scatter_block_Allgather(N, 1, call.p)
    BY <1>6 DEF Is, Script, Scripts!Mockups, Scripts!Allreduce
  <2>11. /\ Called = {3, 4}
        /\ Function(3) = "Reduce_scatter_block" /\ Function(4) = "Allgather"
    BY <2>10 DEF Called, Function, Scripts!Allreduce_as_Reduce_scatter_block_Allgather,
       Scripts!Mpi, Scripts!Call, Scripts!Release, Scripts!GrabMsg2, Scripts!GrabMsg,
       Scripts!Grab
  <2> QED BY <2>8, <2>9, <2>11, MatchTwo
<1>7. CASE Is("Allreduce", 3)
  <2> DEFINE out == [r \in Procs |->
                     Plus(recvbuf[r], IF recvcounts[r] > 0 THEN displs[r] ELSE 0)]
             a == Reduce_scatter(sendbuf, out, recvcounts)
             b == AllgathervInPlace(recvbuf, recvcounts, displs)
  <2>1. Steps = << a, b >>
    BY <1>7 DEF Is, Steps, Allreduce_as_Reduce_scatter_Allgatherv, Shifted
  <2> HIDE DEF out
  <2>2. Makes(a, "Reduce_scatter") BY MakesReduce
  <2>3. Makes(b, "Allgatherv") BY MakesGather
  <2> HIDE DEF a, b
  <2>4. /\ \A k : k \in DOMAIN Steps <=> k = 1 \/ k = 2
        /\ Steps[1] = a /\ Steps[2] = b
    BY <2>1
  <2>5. /\ Collective = {1, 2}
        /\ Steps[1].name = "Reduce_scatter" /\ Steps[2].name = "Allgatherv"
    BY <2>2, <2>3, <2>4 DEF Collective, Makes
  <2>6. Listed BY <2>2, <2>3, <2>4 DEF Listed, Makes
  <2>7. Script = Scripts!Allreduce_as_Reduce_scatter_Allgatherv(N, 1, call.p)
    BY <1>7 DEF Is, Script, Scripts!Mockups, Scripts!Allreduce
  <2>8. /\ Called = {3, 4}
        /\ Function(3) = "Reduce_scatter" /\ Function(4) = "Allgatherv"
    BY <2>7 DEF Called, Function, Scripts!Allreduce_as_Reduce_scatter_Allgatherv,
       Scripts!Mpi, Scripts!Call, Scripts!Release, Scripts!GrabInt2, Scripts!GrabInt,
       Scripts!Grab
  <2> QED BY <2>5, <2>6, <2>8, MatchTwo
<1>8. CASE Is("Alltoall", 1)
  <2> DEFINE a == Alltoallv(sendbuf, recvbuf, Blocks(N), Strided(N), Strided(N))
  <2>1. Steps = << a >>
    BY <1>8 DEF Is, Steps, Alltoall_as_Alltoallv, Shifted
  <2>2. Makes(a, "Alltoallv") BY MakesAlltoall
  <2> HIDE DEF a
  <2>3. /\ \A k : k \in DOMAIN Steps <=> k = 1
        /\ Steps[1] = a
    BY <2>1
  <2>4. /\ Collective = {1}
        /\ Steps[1].name = "Alltoallv"
    BY <2>2, <2>3 DEF Collective, Makes
  <2>5. Listed BY <2>2, <2>3 DEF Listed, Makes
  <2>6. Script = Scripts!Alltoall_as_Alltoallv(N, 1, call.p)
    BY <1>8 DEF Is, Script, Scripts!Mockups, Scripts!Alltoall
  <2>7. /\ Called = {3}
        /\ Function(3) = "Alltoallv"
    BY <2>6 DEF Called, Function, Scripts!Alltoall_as_Alltoallv, Scripts!Mpi,
       Scripts!Call, Scripts!Release, Scripts!GrabInt2, Scripts!GrabInt, Scripts!Grab
  <2> QED BY <2>4, <2>5, <2>7, MatchOne
<1>9. CASE Is("Bcast", 1)
  <2> DEFINE counts == [r \in Procs |-> IF r = Root THEN N ELSE 0]
             offs == [r \in Procs |-> IF r > Root THEN N ELSE 0]
             a == AllgathervInPlace(recvbuf, counts, offs)
  <2>1. Steps = << a >>
    BY <1>9 DEF Is, Steps, Bcast_as_Allgatherv, Shifted
  <2> HIDE DEF counts, offs
  <2>2. Makes(a, "Allgatherv") BY MakesGather
  <2> HIDE DEF a
  <2>3. /\ \A k : k \in DOMAIN Steps <=> k = 1
        /\ Steps[1] = a
    BY <2>1
  <2>4. /\ Collective = {1}
        /\ Steps[1].name = "Allgatherv"
    BY <2>2, <2>3 DEF Collective, Makes
  <2>5. Listed BY <2>2, <2>3 DEF Listed, Makes
  <2>6. Script = Scripts!Bcast_as_Allgatherv(N, 1, call.p)
    BY <1>9 DEF Is, Script, Scripts!Mockups, Scripts!Bcast
  <2>7. /\ Called = {3}
        /\ Function(3) = "Allgatherv"
    BY <2>6 DEF Called, Function, Scripts!Bcast_as_Allgatherv, Scripts!Mpi, Scripts!Call,
       Scripts!Release, Scripts!GrabInt2, Scripts!GrabInt, Scripts!Grab
  <2> QED BY <2>4, <2>5, <2>7, MatchOne
<1>10. CASE Is("Bcast", 2)
  <2> DEFINE a == CopyIn({Root}, recvbuf)
             b == Scatter(aux_buf1, aux_buf2, Chunk, Root)
             c == Allgather(aux_buf2, aux_buf1, Chunk)
             d == memcpy(Procs \ {Root}, recvbuf, aux_buf1, N)
  <2>1. Steps = << a, b, c, d >>
    BY <1>10 DEF Is, Steps, Bcast_as_Scatter_Allgather, Shifted
  <2>2. Makes(a, "local") BY MakesLocal DEF CopyIn
  <2>3. Makes(b, "Scatter") BY MakesScatter
  <2>4. Makes(c, "Allgather") BY MakesGather
  <2>5. Makes(d, "local") BY MakesLocal
  <2> HIDE DEF a, b, c, d
  <2>6. /\ \A k : k \in DOMAIN Steps <=> k = 1 \/ k = 2 \/ k = 3 \/ k = 4
        /\ Steps[1] = a /\ Steps[2] = b /\ Steps[3] = c /\ Steps[4] = d
    BY <2>1
  <2>7. /\ Collective = {2, 3}
        /\ Steps[2].name = "Scatter" /\ Steps[3].name = "Allgather"
    BY <2>2, <2>3, <2>4, <2>5, <2>6 DEF Collective, Makes
  <2>8. Listed BY <2>2, <2>3, <2>4, <2>5, <2>6 DEF Listed, Makes
  <2>9. Script = Scripts!Bcast_as_Scatter_Allgather(N, 1, call.p)
    BY <1>10 DEF Is, Script, Scripts!Mockups, Scripts!Bcast
  <2>10. /\ Called = {3, 4}
        /\ Function(3) = "Scatter" /\ Function(4) = "Allgather"
    BY <2>9 DEF Called, Function, Scripts!Bcast_as_Scatter_Allgather, Scripts!Mpi,
       Scripts!Call, Scripts!Release, Scripts!GrabMsg2, Scripts!GrabMsg, Scripts!Grab
  <2> QED BY <2>7, <2>8, <2>10, MatchTwo
<1>11. CASE Is("Gather", 1)
  <2> DEFINE a == Allgather(sendbuf, RecvAtRoot, N)
  <2>1. Steps = << a >>
    BY <1>11 DEF Is, Steps, Gather_as_Allgather, Shifted
  <2>2. Makes(a, "Allgather") BY MakesGather
  <2> HIDE DEF a
  <2>3. /\ \A k : k \in DOMAIN Steps <=> k = 1
        /\ Steps[1] = a
    BY <2>1
  <2>4. /\ Collective = {1}
        /\ Steps[1].name = "Allgather"
    BY <2>2, <2>3 DEF Collective, Makes
  <2>5. Listed BY <2>2, <2>3 DEF Listed, Makes
  <2>6. Script = Scripts!Gather_as_Allgather(N, 1, call.p)
    BY <1>11 DEF Is, Script, Scripts!Mockups, Scripts!Gather
  <2>7. /\ Called = {2}
        /\ Function(2) = "Allgather"
    BY <2>6 DEF Called, Function, Scripts!Gather_as_Allgather, Scripts!Mpi, Scripts!Call,
       Scripts!Release, Scripts!GrabMsg, Scripts!Grab
  <2> QED BY <2>4, <2>5, <2>7, MatchOne
<1>12. CASE Is("Gather", 2)
  <2> DEFINE a == Gatherv(sendbuf, recvbuf, Blocks(N), Strided(N), Root)
  <2>1. Steps = << a >>
    BY <1>12 DEF Is, Steps, Gather_as_Gatherv, Shifted
  <2>2. Makes(a, "Gatherv") BY MakesGather
  <2> HIDE DEF a
  <2>3. /\ \A k : k \in DOMAIN Steps <=> k = 1
        /\ Steps[1] = a
    BY <2>1
  <2>4. /\ Collective = {1}
        /\ Steps[1].name = "Gatherv"
    BY <2>2, <2>3 DEF Collective, Makes
  <2>5. Listed BY <2>2, <2>3 DEF Listed, Makes
  <2>6. Script = Scripts!Gather_as_Gatherv(N, 1, call.p)
    BY <1>12 DEF Is, Script, Scripts!Mockups, Scripts!Gather
  <2>7. /\ Called = {3}
        /\ Function(3) = "Gatherv"
    BY <2>6 DEF Called, Function, Scripts!Gather_as_Gatherv, Scripts!Mpi, Scripts!Call,
       Scripts!Release, Scripts!GrabInt2, Scripts!GrabInt, Scripts!Grab
  <2> QED BY <2>4, <2>5, <2>7, MatchOne
<1>13. CASE Is("Gather", 3)
  <2> DEFINE to == [r \in Procs |-> Plus(aux_buf1[r], r * N)]
             a == memset0(aux_buf1, call.p * N)
             b == memcpy(Procs, to, sendbuf, N)
             c == Reduce(aux_buf1, recvbuf, call.p * N, Root)
  <2>1. Steps = Gather_as_Reduce BY <1>13 DEF Is, Steps
  <2>2. Gather_as_Reduce = << a, b >> \o << c >>
    BY DEF Gather_as_Reduce, OwnBlock, Shifted
  <2>3. Steps = << a, b, c >> BY <2>1, <2>2, Joined
  <2> HIDE DEF to
  <2>4. Makes(a, "local") BY MakesLocal
  <2>5. Makes(b, "local") BY MakesLocal
  <2>6. Makes(c, "Reduce") BY MakesReduce
  <2> HIDE DEF a, b, c
  <2>7. /\ \A k : k \in DOMAIN Steps <=> k = 1 \/ k = 2 \/ k = 3
        /\ Steps[1] = a /\ Steps[2] = b /\ Steps[3] = c
    BY <2>3
  <2>8. /\ Collective = {3}
        /\ Steps[3].name = "Reduce"
    BY <2>4, <2>5, <2>6, <2>7 DEF Collective, Makes
  <2>9. Listed BY <2>4, <2>5, <2>6, <2>7 DEF Listed, Makes
  <2>10. Script = Scripts!Gather_as_Reduce(N, 1, call.p)
    BY <1>13 DEF Is, Script, Scripts!Mockups, Scripts!Gather
  <2>11. /\ Called = {2}
        /\ Function(2) = "Reduce"
    BY <2>10 DEF Called, Function, Scripts!Gather_as_Reduce, Scripts!Mpi, Scripts!Call,
       Scripts!Release, Scripts!GrabMsg, Scripts!Grab
  <2> QED BY <2>8, <2>9, <2>11, MatchOne
<1>14. CASE Is("Reduce", 1)
  <2> DEFINE a == Allreduce(sendbuf, RecvAtRoot, N)
  <2>1. Steps = << a >>
    BY <1>14 DEF Is, Steps, Reduce_as_Allreduce, Shifted
  <2>2. Makes(a, "Allreduce") BY MakesReduce
  <2> HIDE DEF a
  <2>3. /\ \A k : k \in DOMAIN Steps <=> k = 1
        /\ Steps[1] = a
    BY <2>1
  <2>4. /\ Collective = {1}
        /\ Steps[1].name = "Allreduce"
    BY <2>2, <2>3 DEF Collective, Makes
  <2>5. Listed BY <2>2, <2>3 DEF Listed, Makes
  <2>6. Script = Scripts!Reduce_as_Allreduce(N, 1, call.p)
    BY <1>14 DEF Is, Script, Scripts!Mockups, Scripts!Reduce
  <2>7. /\ Called = {2}
        /\ Function(2) = "Allreduce"
    BY <2>6 DEF Called, Function, Scripts!Reduce_as_Allreduce, Scripts!Mpi, Scripts!Call,
       Scripts!Release, Scripts!GrabMsg, Scripts!Grab
  <2> QED BY <2>4, <2>5, <2>7, MatchOne
<1>15. CASE Is("Reduce", 2)
  <2> DEFINE a == CopyIn(Procs, sendbuf)
             b == FillPadding
             c == Reduce_scatter_block(aux_buf1, aux_buf2, Chunk)
             d == Gather(aux_buf2, aux_buf1, Chunk, Root)
             f == memcpy({Root}, recvbuf, aux_buf1, N)
  <2>1. Steps = << a, b, c, d, f >>
    BY <1>15 DEF Is, Steps, Reduce_as_Reduce_scatter_block_Gather, Shifted
  <2>2. Makes(a, "local") BY MakesLocal DEF CopyIn
  <2>3. Makes(b, "local") BY MakesLocal
  <2>4. Makes(c, "Reduce_scatter_block") BY MakesReduce
  <2>5. Makes(d, "Gather") BY MakesGather
  <2>6. Makes(f, "local") BY MakesLocal
  <2> HIDE DEF a, b, c, d, f
  <2>7. /\ \A k : k \in DOMAIN Steps <=> k = 1 \/ k = 2 \/ k = 3 \/ k = 4 \/ k = 5
        /\ Steps[1] = a /\ Steps[2] = b /\ Steps[3] = c /\ Steps[4] = d /\ Steps[5] = f
    BY <2>1
  <2>8. /\ Collective = {3, 4}
        /\ Steps[3].name = "Reduce_scatter_block" /\ Steps[4].name = "Gather"
    BY <2>2, <2>3, <2>4, <2>5, <2>6, <2>7 DEF Collective, Makes
  <2>9. Listed BY <2>2, <2>3, <2>4, <2>5, <2>6, <2>7 DEF Listed, Makes
  <2>10. Script = Scripts!Reduce_as_Reduce_scatter_block_Gather(N, 1, call.p)
    BY <1>15 DEF Is, Script, Scripts!Mockups, Scripts!Reduce
  <2>11. /\ Called = {3, 4}
        /\ Function(3) = "Reduce_scatter_block" /\ Function(4) = "Gather"
    BY <2>10 DEF Called, Function, Scripts!Reduce_as_Reduce_scatter_block_Gather,
       Scripts!Mpi, Scripts!Call, Scripts!Release, Scripts!GrabMsg2, Scripts!GrabMsg,
       Scripts!Grab
  <2> QED BY <2>8, <2>9, <2>11, MatchTwo
<1>16. CASE Is("Reduce", 3)
  <2> DEFINE a == Reduce_scatter(sendbuf, aux_buf1, recvcounts)
             b == Gatherv(aux_buf1, recvbuf, recvcounts, displs, Root)
  <2>1. Steps = << a, b >>
    BY <1>16 DEF Is, Steps, Reduce_as_Reduce_scatter_Gatherv, Shifted
  <2>2. Makes(a, "Reduce_scatter") BY MakesReduce
  <2>3. Makes(b, "Gatherv") BY MakesGather
  <2> HIDE DEF a, b
  <2>4. /\ \A k : k \in DOMAIN Steps <=> k = 1 \/ k = 2
        /\ Steps[1] = a /\ Steps[2] = b
    BY <2>1
  <2>5. /\ Collective = {1, 2}
        /\ Steps[1].name = "Reduce_scatter" /\ Steps[2].name = "Gatherv"
    BY <2>2, <2>3, <2>4 DEF Collective, Makes
  <2>6. Listed BY <2>2, <2>3, <2>4 DEF Listed, Makes
  <2>7. Script = Scripts!Reduce_as_Reduce_scatter_Gatherv(N, 1, call.p)
    BY <1>16 DEF Is, Script, Scripts!Mockups, Scripts!Reduce
  <2>8. /\ Called = {4, 5}
        /\ Function(4) = "Reduce_scatter" /\ Function(5) = "Gatherv"
    BY <2>7 DEF Called, Function, Scripts!Reduce_as_Reduce_scatter_Gatherv, Scripts!Mpi,
       Scripts!Call, Scripts!Release, Scripts!GrabMsg, Scripts!GrabInt2, Scripts!GrabInt,
       Scripts!Grab
  <2> QED BY <2>5, <2>6, <2>8, MatchTwo
<1>17. CASE Is("Reduce", 4)
  <2> DEFINE counts == [r \in Procs |-> IF r = Root THEN N ELSE 0]
             a == Reduce_scatter(sendbuf, recvbuf, counts)
  <2>1. Steps = << a >>
    BY <1>17 DEF Is, Steps, Reduce_as_Reduce_scatter, Shifted
  <2> HIDE DEF counts
  <2>2. Makes(a, "Reduce_scatter") BY MakesReduce
  <2> HIDE DEF a
  <2>3. /\ \A k : k \in DOMAIN Steps <=> k = 1
        /\ Steps[1] = a
    BY <2>1
  <2>4. /\ Collective = {1}
        /\ Steps[1].name = "Reduce_scatter"
    BY <2>2, <2>3 DEF Collective, Makes
  <2>5. Listed BY <2>2, <2>3 DEF Listed, Makes
  <2>6. Script = Scripts!Reduce_as_Reduce_scatter(N, 1, call.p)
    BY <1>17 DEF Is, Script, Scripts!Mockups, Scripts!Reduce
  <2>7. /\ Called = {2}
        /\ Function(2) = "Reduce_scatter"
    BY <2>6 DEF Called, Function, Scripts!Reduce_as_Reduce_scatter, Scripts!Mpi,
       Scripts!Call, Scripts!Release, Scripts!GrabInt, Scripts!Grab
  <2> QED BY <2>4, <2>5, <2>7, MatchOne
<1>18. CASE Is("Reduce_scatter_block", 1)
  <2> DEFINE a == Reduce(sendbuf, aux_buf1, call.p * N, mockup_root_rank)
             b == Scatter(aux_buf1, recvbuf, N, mockup_root_rank)
  <2>1. Steps = << a, b >>
    BY <1>18 DEF Is, Steps, Reduce_scatter_block_as_Reduce_Scatter, Shifted
  <2>2. Makes(a, "Reduce") BY MakesReduce
  <2>3. Makes(b, "Scatter") BY MakesScatter
  <2> HIDE DEF a, b
  <2>4. /\ \A k : k \in DOMAIN Steps <=> k = 1 \/ k = 2
        /\ Steps[1] = a /\ Steps[2] = b
    BY <2>1
  <2>5. /\ Collective = {1, 2}
        /\ Steps[1].name = "Reduce" /\ Steps[2].name = "Scatter"
    BY <2>2, <2>3, <2>4 DEF Collective, Makes
  <2>6. Listed BY <2>2, <2>3, <2>4 DEF Listed, Makes
  <2>7. Script = Scripts!Reduce_scatter_block_as_Reduce_Scatter(N, 1, call.p)
    BY <1>18 DEF Is, Script, Scripts!Mockups, Scripts!Reduce_scatter_block
  <2>8. /\ Called = {2, 3}
        /\ Function(2) = "Reduce" /\ Function(3) = "Scatter"
    BY <2>7 DEF Called, Function, Scripts!Reduce_scatter_block_as_Reduce_Scatter,
       Scripts!Mpi, Scripts!Call, Scripts!Release, Scripts!GrabMsg, Scripts!Grab
  <2> QED BY <2>5, <2>6, <2>8, MatchTwo
<1>19. CASE Is("Reduce_scatter_block", 2)
  <2> DEFINE a == Reduce_scatter(sendbuf, recvbuf, Blocks(N))
  <2>1. Steps = << a >>
    BY <1>19 DEF Is, Steps, Reduce_scatter_block_as_Reduce_scatter, Shifted
  <2>2. Makes(a, "Reduce_scatter") BY MakesReduce
  <2> HIDE DEF a
  <2>3. /\ \A k : k \in DOMAIN Steps <=> k = 1
        /\ Steps[1] = a
    BY <2>1
  <2>4. /\ Collective = {1}
        /\ Steps[1].name = "Reduce_scatter"
    BY <2>2, <2>3 DEF Collective, Makes
  <2>5. Listed BY <2>2, <2>3 DEF Listed, Makes
  <2>6. Script = Scripts!Reduce_scatter_block_as_Reduce_scatter(N, 1, call.p)
    BY <1>19 DEF Is, Script, Scripts!Mockups, Scripts!Reduce_scatter_block
  <2>7. /\ Called = {2}
        /\ Function(2) = "Reduce_scatter"
    BY <2>6 DEF Called, Function, Scripts!Reduce_scatter_block_as_Reduce_scatter,
       Scripts!Mpi, Scripts!Call, Scripts!Release, Scripts!GrabInt, Scripts!Grab
  <2> QED BY <2>4, <2>5, <2>7, MatchOne
<1>20. CASE Is("Reduce_scatter_block", 3)
  <2> DEFINE from == [r \in Procs |-> Plus(aux_buf1[r], r * N)]
             a == Allreduce(sendbuf, aux_buf1, call.p * N)
             b == memcpy(Procs, recvbuf, from, N)
  <2>1. Steps = << a, b >>
    BY <1>20 DEF Is, Steps, Reduce_scatter_block_as_Allreduce, Shifted
  <2> HIDE DEF from
  <2>2. Makes(a, "Allreduce") BY MakesReduce
  <2>3. Makes(b, "local") BY MakesLocal
  <2> HIDE DEF a, b
  <2>4. /\ \A k : k \in DOMAIN Steps <=> k = 1 \/ k = 2
        /\ Steps[1] = a /\ Steps[2] = b
    BY <2>1
  <2>5. /\ Collective = {1}
        /\ Steps[1].name = "Allreduce"
    BY <2>2, <2>3, <2>4 DEF Collective, Makes
  <2>6. Listed BY <2>2, <2>3, <2>4 DEF Listed, Makes
  <2>7. Script = Scripts!Reduce_scatter_block_as_Allreduce(N, 1, call.p)
    BY <1>20 DEF Is, Script, Scripts!Mockups, Scripts!Reduce_scatter_block
  <2>8. /\ Called = {2}
        /\ Function(2) = "Allreduce"
    BY <2>7 DEF Called, Function, Scripts!Reduce_scatter_block_as_Allreduce, Scripts!Mpi,
       Scripts!Call, Scripts!Release, Scripts!GrabMsg, Scripts!Grab
  <2> QED BY <2>5, <2>6, <2>8, MatchOne
<1>21. CASE Is("Scan", 1)
  <2> DEFINE a == Exscan(sendbuf, recvbuf, N)
             b == memcpy({0}, recvbuf, sendbuf, N)
             c == Reduce_local(Procs \ {0}, sendbuf, recvbuf, N)
  <2>1. Steps = << a, b, c >>
    BY <1>21 DEF Is, Steps, Scan_as_Exscan_Reduce_local, Shifted
  <2>2. Makes(a, "Exscan") BY MakesReduce
  <2>3. Makes(b, "local") BY MakesLocal
  <2>4. Makes(c, "local") BY MakesLocal
  <2> HIDE DEF a, b, c
  <2>5. /\ \A k : k \in DOMAIN Steps <=> k = 1 \/ k = 2 \/ k = 3
        /\ Steps[1] = a /\ Steps[2] = b /\ Steps[3] = c
    BY <2>1
  <2>6. /\ Collective = {1}
        /\ Steps[1].name = "Exscan"
    BY <2>2, <2>3, <2>4, <2>5 DEF Collective, Makes
  <2>7. Listed BY <2>2, <2>3, <2>4, <2>5 DEF Listed, Makes
  <2>8. Script = Scripts!Scan_as_Exscan_Reduce_local(N, 1, call.p)
    BY <1>21 DEF Is, Script, Scripts!Mockups, Scripts!Scan
  <2>9. /\ Called = {1}
        /\ Function(1) = "Exscan"
    BY <2>8 DEF Called, Function, Scripts!Scan_as_Exscan_Reduce_local, Scripts!Mpi,
       Scripts!Call
  <2> QED BY <2>6, <2>7, <2>9, MatchOne
<1>22. CASE Is("Scatter", 1)
  <2> DEFINE buf == [r \in Procs |-> IF r = Root THEN sendbuf[r] ELSE aux_buf1[r]]
             from == [r \in Procs |-> Plus(buf[r], r * N)]
             a == Bcast(buf, call.p * N, Root)
             b == memcpy(Procs, recvbuf, from, N)
  <2>1. Steps = << a, b >>
    BY <1>22 DEF Is, Steps, Scatter_as_Bcast, Shifted
  <2> HIDE DEF buf, from
  <2>2. Makes(a, "Bcast") BY MakesScatter
  <2>3. Makes(b, "local") BY MakesLocal
  <2> HIDE DEF a, b
  <2>4. /\ \A k : k \in DOMAIN Steps <=> k = 1 \/ k = 2
        /\ Steps[1] = a /\ Steps[2] = b
    BY <2>1
  <2>5. /\ Collective = {1}
        /\ Steps[1].name = "Bcast"
    BY <2>2, <2>3, <2>4 DEF Collective, Makes
  <2>6. Listed BY <2>2, <2>3, <2>4 DEF Listed, Makes
  <2>7. Script = Scripts!Scatter_as_Bcast(N, 1, call.p)
    BY <1>22 DEF Is, Script, Scripts!Mockups, Scripts!Scatter
  <2>8. /\ Called = {2}
        /\ Function(2) = "Bcast"
    BY <2>7 DEF Called, Function, Scripts!Scatter_as_Bcast, Scripts!Mpi, Scripts!Call,
       Scripts!Release, Scripts!GrabMsg, Scripts!Grab
  <2> QED BY <2>5, <2>6, <2>8, MatchOne
<1>23. CASE Is("Scatter", 2)
  <2> DEFINE a == Scatterv(sendbuf, recvbuf, Blocks(N), Strided(N), Root)
  <2>1. Steps = << a >>
    BY <1>23 DEF Is, Steps, Scatter_as_Scatterv, Shifted
  <2>2. Makes(a, "Scatterv") BY MakesScatter
  <2> HIDE DEF a
  <2>3. /\ \A k : k \in DOMAIN Steps <=> k = 1
        /\ Steps[1] = a
    BY <2>1
  <2>4. /\ Collective = {1}
        /\ Steps[1].name = "Scatterv"
    BY <2>2, <2>3 DEF Collective, Makes
  <2>5. Listed BY <2>2, <2>3 DEF Listed, Makes
  <2>6. Script = Scripts!Scatter_as_Scatterv(N, 1, call.p)
    BY <1>23 DEF Is, Script, Scripts!Mockups, Scripts!Scatter
  <2>7. /\ Called = {3}
        /\ Function(3) = "Scatterv"
    BY <2>6 DEF Called, Function, Scripts!Scatter_as_Scatterv, Scripts!Mpi, Scripts!Call,
       Scripts!Release, Scripts!GrabInt2, Scripts!GrabInt, Scripts!Grab
  <2> QED BY <2>4, <2>5, <2>7, MatchOne
<1> QED BY Selections, <1>1, <1>2, <1>3, <1>4, <1>5, <1>6, <1>7, <1>8, <1>9, <1>10, <1>11,
           <1>12, <1>13, <1>14, <1>15, <1>16, <1>17, <1>18, <1>19, <1>20, <1>21, <1>22, <1>23

-------------------------------------------------------------------------------
(* Memories hold words over what processes pass.                           *)

Word == Seq(Int \X Int)
Memories == [Procs -> [Buffers -> Seq(Word)]]

(* Concatenations of the first n words of s.                               *)
Grows(s, g, n) ==
  g \in [1..n -> Word] /\ g[1] = s[1] /\ \A i \in 2..n : g[i] = g[i - 1] \o s[i]

LEMMA GrowsFurther ==
  ASSUME NEW n \in Nat \ {0}, NEW s, \A i \in 1 .. n + 1 : s[i] \in Word,
         NEW g, Grows(s, g, n)
  PROVE  \E f : Grows(s, f, n + 1)
<1> DEFINE f == [i \in 1 .. n + 1 |-> IF i = n + 1 THEN g[n] \o s[n + 1] ELSE g[i]]
           cat(a, b) == a \o b
<1>1. \A a, b \in Word : cat(a, b) \in Word BY DEF Word
<1>2. /\ g \in [1..n -> Word] /\ g[1] = s[1]
      /\ \A i \in 2..n : g[i] = cat(g[i - 1], s[i])
  BY DEF Grows
<1>3. f = [i \in 1 .. n + 1 |-> IF i = n + 1 THEN cat(g[n], s[n + 1]) ELSE g[i]] OBVIOUS
<1> HIDE DEF f, cat
<1>4. g[n] \in Word /\ s[n + 1] \in Word BY <1>2
<1>5. cat(g[n], s[n + 1]) \in Word BY <1>1, <1>4
<1>6. f \in [1 .. n + 1 -> Word] BY <1>2, <1>3, <1>5
<1>7. f[1] = s[1] BY <1>2, <1>3
<1>8. ASSUME NEW i \in 2 .. n + 1 PROVE f[i] = cat(f[i - 1], s[i])
  <2>1. i \in 1 .. n + 1 /\ i - 1 \in 1 .. n + 1 /\ i - 1 # n + 1 OBVIOUS
  <2>2. f[i - 1] = g[i - 1] BY <1>3, <2>1
  <2>3. CASE i = n + 1
    <3>1. i - 1 = n BY <2>3
    <3>2. f[i] = cat(g[n], s[n + 1]) BY <1>3, <2>1, <2>3
    <3> QED BY <2>2, <2>3, <3>1, <3>2
  <2>4. CASE i \in 2..n
    <3>1. f[i] = g[i] BY <1>3, <2>1, <2>4
    <3> QED BY <1>2, <2>2, <2>4, <3>1
  <2> QED BY <2>3, <2>4
<1>9. Grows(s, f, n + 1) BY <1>6, <1>7, <1>8 DEF Grows, cat
<1> QED BY <1>9

LEMMA GrowsAll ==
  ASSUME NEW n \in Nat \ {0}, NEW s, \A i \in 1..n : s[i] \in Word
  PROVE  \E g : Grows(s, g, n)
<1> DEFINE bad == {j \in 1..n : ~ \E g : Grows(s, g, j)}
<1>1. ASSUME bad # {} PROVE FALSE
  <2>1. bad \subseteq Nat OBVIOUS
  <2>2. PICK j \in bad : \A k \in bad : j <= k BY <1>1, <2>1, LeastNumber
  <2>3. j \in 1..n /\ ~ \E g : Grows(s, g, j) OBVIOUS
  <2>4. CASE j = 1
    <3> DEFINE g == [i \in 1..1 |-> s[1]]
    <3>1. g \in [1..1 -> Word] /\ g[1] = s[1] OBVIOUS
    <3>2. \A i \in 2..1 : FALSE OBVIOUS
    <3> HIDE DEF g
    <3>3. Grows(s, g, 1) BY <3>1, <3>2 DEF Grows
    <3> QED BY <2>3, <2>4, <3>3
  <2>5. CASE j # 1
    <3>1. j - 1 \in Nat \ {0} /\ j - 1 \in 1..n /\ (j - 1) + 1 = j BY <2>3, <2>5
    <3>2. j - 1 \notin bad BY <2>2, <3>1
    <3>3. PICK g : Grows(s, g, j - 1) BY <3>1, <3>2
    <3>4. \A i \in 1..j : s[i] \in Word BY <2>3
    <3>5. \A i \in 1 .. (j - 1) + 1 : s[i] \in Word BY <3>1, <3>4
    <3> HIDE DEF bad
    <3>6. \E f : Grows(s, f, (j - 1) + 1) BY <3>1, <3>3, <3>5, GrowsFurther
    <3> QED BY <2>3, <3>1, <3>6
  <2> QED BY <2>4, <2>5
<1>2. n \in 1..n OBVIOUS
<1> QED BY <1>1, <1>2

LEMMA FlattenTyped ==
  ASSUME NEW n \in Nat, NEW s, s = [i \in 1..n |-> s[i]], \A i \in 1..n : s[i] \in Word
  PROVE  FlattenSeq(s) \in Word
<1>1. CASE n = 0
  <2>1. s = << >> BY <1>1
  <2>2. FlattenSeq(<< >>) = << >> BY DEF FlattenSeq
  <2>3. << >> \in Word BY DEF Word
  <2> QED BY <2>1, <2>2, <2>3
<1>2. CASE n # 0
  <2>1. n \in Nat \ {0} BY <1>2
  <2>2. PICK g : Grows(s, g, n) BY <2>1, GrowsAll
  <2>3. g \in [1..n -> Word] BY <2>2 DEF Grows
  <2>4. g = [i \in 1..n |-> g[i]] BY <2>3
  <2>5. Builds(s, g, n) BY <2>2, <2>4 DEF Grows, Builds
  <2>6. FlattenSeq(s) = g[n] BY <2>1, <2>5, FlattenIs
  <2>7. n \in 1..n BY <2>1
  <2> QED BY <2>3, <2>6, <2>7
<1> QED BY <1>1, <1>2

LEMMA ReadTyped ==
  ASSUME NEW m \in Memories, NEW place \in Places, NEW k PROVE Read(m, place, k) \in Word
<1> DEFINE b == m[place.rank][place.buf]
<1>1. place.rank \in Procs /\ place.buf \in Buffers BY DEF Places
<1>2. b \in Seq(Word) BY <1>1 DEF Memories
<1>3. Garbage \in Word
  <2>1. Value(-1, 0) \in Int \X Int BY DEF Value
  <2> HIDE DEF Value
  <2> QED BY <2>1 DEF Garbage, Word
<1> HIDE DEF b, Word
<1>4. \A i \in DOMAIN b : b[i] \in Word BY <1>2
<1>5. Read(m, place, k) = IF place.at + k \in DOMAIN b THEN b[place.at + k] ELSE Garbage
  BY DEF Read, b
<1> QED BY <1>3, <1>4, <1>5

LEMMA ReductionTyped ==
  ASSUME NEW m \in Memories, NEW of, IsList(of), \A i \in DOMAIN of : of[i] \in Places, NEW k
  PROVE  Reduction(m, of, k) \in Word
<1>1. PICK n \in Nat : of = [i \in 1..n |-> of[i]] BY DEF IsList
<1>2. DOMAIN of = 1..n BY <1>1
<1> DEFINE s == [i \in 1..n |-> Read(m, of[i], k)]
<1>3. Reduction(m, of, k) = FlattenSeq(s) BY <1>2 DEF Reduction
<1>4. \A i \in 1..n : s[i] \in Word BY <1>2, ReadTyped
<1>5. s = [i \in 1..n |-> s[i]] OBVIOUS
<1> HIDE DEF s
<1> QED BY <1>3, <1>4, <1>5, FlattenTyped

LEMMA DoneTyped ==
  ASSUME NEW m \in Memories, NEW moves,
         \A v \in moves : IsList(v.of) /\ \A i \in DOMAIN v.of : v.of[i] \in Places
  PROVE  Done(m, moves) \in Memories
<1>1. \A v \in moves : \A k : Reduction(m, v.of, k) \in Word BY ReductionTyped
<1> DEFINE here(r, b) == {v \in moves : v.to.rank = r /\ v.to.buf = b}
           on(r, b, k) == {v \in here(r, b) : k - v.to.at \in 1 .. v.n}
           who(r, b, k) == CHOOSE v \in on(r, b, k) : TRUE
           new(r, b, k) == IF on(r, b, k) = {} THEN m[r][b][k]
                           ELSE Reduction(m, who(r, b, k).of, k - who(r, b, k).to.at)
           buf(r, b) == IF here(r, b) = {} THEN m[r][b]
                        ELSE [k \in DOMAIN m[r][b] |-> new(r, b, k)]
<1>2. Done(m, moves) = [r \in Procs |-> [b \in Buffers |-> buf(r, b)]] BY DEF Done
<1>3. ASSUME NEW r \in Procs, NEW b \in Buffers PROVE buf(r, b) \in Seq(Word)
  <2>1. m[r][b] \in Seq(Word) BY DEF Memories
  <2>2. ASSUME NEW k \in DOMAIN m[r][b] PROVE new(r, b, k) \in Word
    <3>1. m[r][b][k] \in Word BY <2>1
    <3>2. on(r, b, k) # {} => who(r, b, k) \in moves OBVIOUS
    <3> HIDE DEF on, who
    <3> QED BY <1>1, <3>1, <3>2
  <2> HIDE DEF new, here
  <2>3. DOMAIN m[r][b] = 1 .. Len(m[r][b]) /\ Len(m[r][b]) \in Nat BY <2>1
  <2>4. [k \in DOMAIN m[r][b] |-> new(r, b, k)] \in Seq(Word) BY <2>2, <2>3
  <2> QED BY <2>1, <2>4
<1> HIDE DEF buf
<1> QED BY <1>2, <1>3 DEF Memories

LEMMA InitTyped == Init => mem \in Memories
<1> SUFFICES ASSUME Init PROVE mem \in Memories
  OBVIOUS
<1>1. call \in Calls /\ mem = [r \in Procs |-> Initial(r)] BY DEF Init
<1>2. ASSUME NEW w \in Word, NEW n \in Nat PROVE [k \in 1..n |-> w] \in Seq(Word)
  OBVIOUS
<1>3. Garbage \in Word
  <2>1. Value(-1, 0) \in Int \X Int BY DEF Value
  <2> HIDE DEF Value
  <2> QED BY <2>1 DEF Garbage, Word
<1>4. \A n \in Nat : Unwritten(n) \in Seq(Word) BY <1>2, <1>3 DEF Unwritten
<1>5. ASSUME NEW r \in Procs, NEW n \in Nat PROVE Inputs(r, n) \in Seq(Word)
  <2>1. r \in Int BY <1>1, CallTypes
  <2>2. ASSUME NEW k \in 1..n PROVE << Value(r, k) >> \in Word
    <3>1. Value(r, k) \in Int \X Int BY <2>1 DEF Value
    <3> HIDE DEF Value
    <3> QED BY <3>1 DEF Word
  <2> HIDE DEF Word
  <2> QED BY <2>2 DEF Inputs
<1>6. ASSUME NEW r \in Procs PROVE Initial(r) \in [Buffers -> Seq(Word)]
  <2> DEFINE recv == IF call.coll = "Bcast" /\ Rooted(r) THEN Inputs(r, N)
                     ELSE Unwritten(RecvLen(r))
             new == [send |-> Inputs(r, SendLen(r)), recv |-> recv,
                     msg1 |-> Unwritten(MsgLen(1)), msg2 |-> Unwritten(MsgLen(2))]
  <2>1. Initial(r) = new BY Zenon DEF Initial
  <2>2. SendLen(r) \in Nat /\ RecvLen(r) \in Nat
    <3>1. Room(r, "send") \in Nat /\ Room(r, "recv") \in Nat BY <1>1, RoomNat DEF Buffers
    <3> QED BY <3>1 DEF Room
  <2>3. N \in Nat /\ MsgLen(1) \in Nat /\ MsgLen(2) \in Nat BY <1>1, CallTypes, MsgLenNat
  <2>4. recv \in Seq(Word) BY <1>4, <1>5, <2>2, <2>3
  <2>5. Inputs(r, SendLen(r)) \in Seq(Word) BY <1>5, <2>2
  <2>6. Unwritten(MsgLen(1)) \in Seq(Word) /\ Unwritten(MsgLen(2)) \in Seq(Word)
    BY <1>4, <2>3
  <2> HIDE DEF recv
  <2> DEFINE S == Seq(Word)
  <2>7. new \in [send : S, recv : S, msg1 : S, msg2 : S] BY <2>4, <2>5, <2>6
  <2> HIDE DEF new, S
  <2>8. new \in [Buffers -> S] BY <2>7 DEF Buffers
  <2> QED BY <2>1, <2>8 DEF S
<1> QED BY <1>1, <1>6 DEF Memories

TInv == Replayed /\ mem \in Memories

LEMMA InitTInv == Init => TInv
BY InitReplayed, InitTyped DEF TInv

LEMMA NextTInv == TInv /\ [Next]_vars => TInv'
<1> SUFFICES ASSUME TInv, [Next]_vars PROVE TInv'
  OBVIOUS
<1>1. Replayed /\ Replayed' /\ mem \in Memories BY NextReplayed DEF TInv
<1>2. call' = call BY DEF Next, Proceed, vars
<1>3. Memories' = Memories BY <1>2 DEF Memories, Procs
<1>4. CASE UNCHANGED vars BY <1>1, <1>3, <1>4 DEF TInv, vars
<1>5. CASE Proceed
  <2>1. call \in Calls /\ step \in Nat BY <1>1 DEF Replayed, IInv
  <2>2. step < Len(Steps) /\ mem' = Done(mem, Steps[step + 1].moves) BY <1>5 DEF Proceed
  <2>3. step + 1 \in 1 .. Len(Steps) BY <2>1, <2>2, StepsLen
  <2>4. Within(Steps[step + 1]) BY <2>1, <2>3, StepsWithin
  <2>5. \A v \in Steps[step + 1].moves : IsList(v.of)
    <3>1. step + 1 \in DOMAIN Steps BY <2>1, <2>3, StepsDomain
    <3> QED BY <2>1, <3>1, StepsMatch DEF Listed
  <2>6. ASSUME NEW v \in Steps[step + 1].moves, NEW i \in DOMAIN v.of
        PROVE  v.of[i] \in Places
    <3>1. v.of[i] \in Range(v.of) BY DEF Range
    <3> QED BY <2>4, <3>1 DEF Within, Fit
  <2>7. Done(mem, Steps[step + 1].moves) \in Memories BY <1>1, <2>5, <2>6, DoneTyped
  <2> QED BY <1>1, <1>3, <2>2, <2>7 DEF TInv
<1> QED BY <1>4, <1>5 DEF Next

(* Whatever a mock-up moves, its buffers hold words over values of the     *)
(* processes; and what Mockups says of the calls of each mock-up in        *)
(* src/src/collectives agrees with the steps that its contents follow.     *)
THEOREM TypeCorrect == Spec => []TypeOK
<1>1. TInv => TypeOK
  <2> SUFFICES ASSUME TInv PROVE TypeOK
    OBVIOUS
  <2>1. call \in Calls /\ step \in Nat /\ step <= Len(Steps) /\ mem \in Memories
    BY DEF TInv, Replayed, IInv
  <2>2. SameCalls /\ step \in 0 .. Len(Steps) BY <2>1, StepsMatch, StepsLen
  <2> QED BY <2>1, <2>2 DEF TypeOK, Memories, Word
<1>2. Init => TInv BY InitTInv
<1>3. TInv /\ [Next]_vars => TInv' BY NextTInv
<1> QED BY <1>1, <1>2, <1>3, PTL DEF Spec
================================================================================
