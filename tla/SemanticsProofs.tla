--------------------------- MODULE SemanticsProofs ---------------------------
(***************************************************************************)
(* Theorems about Semantics, for any number of processes, any count and    *)
(* any root: no mock-up reads or writes past the end of a buffer.          *)
(***************************************************************************)
EXTENDS Semantics, NaturalsInduction, WellFoundedInduction, TLAPS

-------------------------------------------------------------------------------
(* Numbers.                                                                *)

LEMMA LeastNumber ==
  ASSUME NEW T, T \subseteq Nat, T # {}
  PROVE  \E x \in T : \A y \in T : x <= y
<1> DEFINE R == {ss \in Nat \X Nat : ss[1] < ss[2]}
<1>1. R = OpToRel(<, Nat) BY DEF OpToRel
<1>2. IsWellFoundedOn(R, Nat) BY <1>1, NatLessThanWellFounded, Zenon
<1>3. PICK x \in T : \A y \in T : << y, x >> \notin R BY <1>2, WFMin
<1>4. ASSUME NEW y \in T, ~(x <= y) PROVE FALSE
  <2>1. x \in Nat /\ y \in Nat /\ y < x BY <1>4
  <2>2. << y, x >> \in R BY <2>1
  <2> QED BY <1>3, <2>2
<1> QED BY <1>4

(* Blocks of n elements, one for each of p processes.                      *)
LEMMA BlockFits ==
  ASSUME NEW p \in Nat \ {0}, NEW n \in Nat, NEW r \in 0 .. p - 1
  PROVE  r * n \in Nat /\ p * n \in Nat /\ r * n + n <= p * n
<1> DEFINE d == p - (r + 1)
<1>1. d \in Nat /\ p = (r + 1) + d OBVIOUS
<1> HIDE DEF d
<1>2. p * n = (r + 1) * n + d * n BY <1>1
<1>3. (r + 1) * n = r * n + n OBVIOUS
<1>4. d * n \in Nat /\ r * n \in Nat BY <1>1
<1> QED BY <1>2, <1>3, <1>4

(* What the call is.                                                       *)
LEMMA CallTypes ==
  ASSUME call \in Calls
  PROVE  /\ call.p \in Nat \ {0} /\ N \in Nat /\ Root \in Procs
         /\ call.coll \in Scripts!Collectives
         /\ call.alg \in Scripts!AlgIds(call.coll) \ {0}
         /\ Procs = 0 .. call.p - 1
<1>1. call \in Arguments /\ call.root < call.p /\ call.alg \in Scripts!AlgIds(call.coll)
  BY CallsAssumption
<1>2. /\ call.p \in Nat \ {0} /\ call.n \in Nat /\ call.root \in Nat
      /\ call.coll \in Scripts!Collectives /\ call.alg # 0
  BY <1>1 DEF Arguments
<1> QED BY <1>1, <1>2 DEF N, Root, Procs

(* A closed form of the sums that the displacements of vector collectives  *)
(* are.                                                                    *)
Sums(counts, g) ==
  /\ g = [j \in 0 .. call.p |-> g[j]]
  /\ g[0] = 0
  /\ \A j \in 1 .. call.p : g[j] = g[j - 1] + counts[j - 1]

LEMMA BeforeIs ==
  ASSUME call.p \in Nat, NEW counts, NEW g, Sums(counts, g), NEW i \in 0 .. call.p
  PROVE  Before(counts, i) = g[i]
<1> DEFINE p == call.p
           eq(f) == f = [j \in 0 .. p |-> IF j = 0 THEN 0 ELSE f[j - 1] + counts[j - 1]]
           sum == CHOOSE f : eq(f)
           bad == {j \in 0 .. p : sum[j] # g[j]}
<1>1. Before(counts, i) = sum[i] BY DEF Before
<1>0. /\ g = [j \in 0 .. p |-> g[j]] /\ g[0] = 0
      /\ \A j \in 1 .. p : g[j] = g[j - 1] + counts[j - 1]
  BY DEF Sums
<1>2. eq(g)
  <2>1. \A j \in 0 .. p : j = 0 \/ j \in 1 .. p OBVIOUS
  <2>2. \A j \in 0 .. p : g[j] = IF j = 0 THEN 0 ELSE g[j - 1] + counts[j - 1]
    BY <1>0, <2>1
  <2> QED BY <1>0, <2>2
<1>3. eq(sum) BY <1>2
<1> HIDE DEF sum
<1>4. \A j \in 0 .. p : sum[j] = IF j = 0 THEN 0 ELSE sum[j - 1] + counts[j - 1] BY <1>3
<1> HIDE DEF eq
<1>5. bad = {}
  <2>1. SUFFICES ASSUME bad # {} PROVE FALSE
    OBVIOUS
  <2>2. bad \subseteq Nat OBVIOUS
  <2>3. PICK j \in bad : \A k \in bad : j <= k BY <2>1, <2>2, LeastNumber
  <2>4. j \in 0 .. p /\ sum[j] # g[j] OBVIOUS
  <2>5. j # 0 BY <1>0, <1>4, <2>4
  <2>6. j \in 1 .. p /\ j - 1 \in 0 .. p /\ ~(j <= j - 1) BY <2>4, <2>5
  <2>7. sum[j - 1] = g[j - 1] BY <2>3, <2>6
  <2> QED BY <1>0, <1>4, <2>4, <2>5, <2>6, <2>7
<1> QED BY <1>1, <1>5

(* Parts of equal size.                                                    *)
LEMMA BeforeBlocks ==
  ASSUME call \in Calls, NEW n \in Nat, NEW r \in Procs
  PROVE  Before(Blocks(n), r) = r * n
<1> DEFINE p == call.p
           g == [j \in 0 .. p |-> j * n]
<1>1. p \in Nat \ {0} /\ Procs = 0 .. p - 1 BY CallTypes
<1>2. g[0] = 0 BY <1>1
<1>3. ASSUME NEW j \in 1 .. p PROVE g[j] = g[j - 1] + Blocks(n)[j - 1]
  <2>1. j \in 0 .. p /\ j - 1 \in 0 .. p /\ j - 1 \in Procs BY <1>1
  <2>2. Blocks(n)[j - 1] = n BY <2>1 DEF Blocks
  <2>3. g[j] = j * n /\ g[j - 1] = (j - 1) * n BY <2>1
  <2>4. j * n = (j - 1) * n + n BY <1>1
  <2> QED BY <2>2, <2>3, <2>4
<1>4. r \in 0 .. p /\ g[r] = r * n BY <1>1
<1>5. g = [j \in 0 .. p |-> g[j]] OBVIOUS
<1>6. Sums(Blocks(n), g) BY <1>2, <1>3, <1>5 DEF Sums
<1> HIDE DEF g
<1>7. Before(Blocks(n), r) = g[r] BY <1>1, <1>4, <1>6, BeforeIs
<1> QED BY <1>4, <1>7

(* All on one process.                                                     *)
LEMMA BeforeOne ==
  ASSUME call \in Calls, NEW n \in Nat, NEW root \in Procs, NEW r \in Procs
  PROVE  Before([q \in Procs |-> IF q = root THEN n ELSE 0], r) = IF r > root THEN n ELSE 0
<1> DEFINE p == call.p
           counts == [q \in Procs |-> IF q = root THEN n ELSE 0]
           g == [j \in 0 .. p |-> IF j > root THEN n ELSE 0]
<1>1. p \in Nat \ {0} /\ Procs = 0 .. p - 1 /\ root \in Nat BY CallTypes
<1>2. g[0] = 0 BY <1>1
<1>3. ASSUME NEW j \in 1 .. p PROVE g[j] = g[j - 1] + counts[j - 1]
  <2>1. j \in 0 .. p /\ j - 1 \in 0 .. p /\ j - 1 \in Procs BY <1>1
  <2>2. counts[j - 1] = IF j - 1 = root THEN n ELSE 0 BY <2>1
  <2>3. /\ g[j] = IF j > root THEN n ELSE 0
        /\ g[j - 1] = IF j - 1 > root THEN n ELSE 0
    BY <2>1
  <2> QED BY <1>1, <2>2, <2>3
<1>4. r \in 0 .. p /\ g[r] = IF r > root THEN n ELSE 0 BY <1>1
<1>5. g = [j \in 0 .. p |-> g[j]] OBVIOUS
<1> HIDE DEF counts
<1>6. Sums(counts, g) BY <1>2, <1>3, <1>5 DEF Sums
<1> HIDE DEF g
<1>7. Before(counts, r) = g[r] BY <1>1, <1>4, <1>6, BeforeIs
<1> QED BY <1>4, <1>7 DEF counts

LEMMA Division ==
  ASSUME NEW a \in Nat, NEW p \in Nat \ {0}
  PROVE  /\ a \div p \in Nat /\ a % p \in 0 .. p - 1
         /\ a = p * (a \div p) + (a % p)
OBVIOUS

(* Chunks dealt out round robin: every process gets the same number of     *)
(* whole rounds, the first ones a chunk more, the next one the rest.       *)
LEMMA DealtOut ==
  ASSUME call \in Calls
  PROVE  /\ \A r \in Procs : /\ recvcounts[r] \in Nat /\ displs[r] \in Nat
                            /\ displs[r] + recvcounts[r] <= N
                            /\ recvcounts[r] <= Scripts!RecvCount(N, call.p, 0)
                            /\ displs[r] = Before(recvcounts, r)
                            /\ recvcounts[r] = Scripts!RecvCount(N, call.p, r)
         /\ Scripts!RecvCount(N, call.p, 0) \in Nat
         /\ \E g : Sums(recvcounts, g) /\ g[call.p] = N
<1> DEFINE p == call.p
           a == N \div 4
           rest == N % 4
           q == a \div p
           m == a % p
           count(i) == 4 * q + (IF i < m THEN 4 ELSE IF i = m THEN rest ELSE 0)
           g == [j \in 0 .. p |-> 4 * (q * j) + (IF j <= m THEN 4 * j ELSE 4 * m + rest)]
<1>1. p \in Nat \ {0} /\ N \in Nat /\ Procs = 0 .. p - 1 BY CallTypes
<1>2. a \in Nat /\ rest \in 0 .. 3 /\ N = 4 * a + rest BY <1>1
<1> HIDE DEF a, rest
<1>3. q \in Nat /\ m \in 0 .. p - 1 /\ a = p * q + m BY <1>1, <1>2, Division
<1>4. \A i : Scripts!RecvCount(N, p, i) = count(i)
  BY DEF Scripts!RecvCount, Scripts!MIN_SCATTER_CHUNK_SIZE, a, rest
<1> HIDE DEF q, m
<1>5. \A r \in Procs : recvcounts[r] = count(r) /\ displs[r] = Before(recvcounts, r)
  BY <1>4 DEF recvcounts, displs
<1>6. g[0] = 0 BY <1>1, <1>3
<1>7. ASSUME NEW j \in 1 .. p PROVE g[j] = g[j - 1] + recvcounts[j - 1]
  <2>1. j \in 0 .. p /\ j - 1 \in 0 .. p /\ j - 1 \in Procs BY <1>1
  <2>2. /\ g[j] = 4 * (q * j) + (IF j <= m THEN 4 * j ELSE 4 * m + rest)
        /\ g[j - 1] = 4 * (q * (j - 1)) + (IF j - 1 <= m THEN 4 * (j - 1) ELSE 4 * m + rest)
    BY <2>1
  <2>3. recvcounts[j - 1] = count(j - 1) BY <1>5, <2>1
  <2> DEFINE x == q * j
             y == q * (j - 1)
  <2>4. x = y + q /\ y \in Nat BY <1>3, <2>1
  <2>5. /\ g[j] = 4 * x + (IF j <= m THEN 4 * j ELSE 4 * m + rest)
        /\ g[j - 1] = 4 * y + (IF j - 1 <= m THEN 4 * (j - 1) ELSE 4 * m + rest)
    BY <2>2
  <2>6. q \in Nat /\ m \in Nat /\ rest \in Nat BY <1>2, <1>3
  <2> HIDE DEF g, x, y
  <2> QED BY <2>3, <2>4, <2>5, <2>6
<1>8. g = [j \in 0 .. p |-> g[j]] OBVIOUS
<1>9. Sums(recvcounts, g) BY <1>6, <1>7, <1>8 DEF Sums
<1>10. ASSUME NEW r \in Procs
       PROVE  displs[r] \in Nat /\ displs[r] + recvcounts[r] <= N
  <2>1. r \in 0 .. p /\ r + 1 \in 1 .. p /\ r + 1 \in 0 .. p /\ (r + 1) - 1 = r BY <1>1
  <2>2. g[r + 1] = g[r] + recvcounts[r] BY <1>7, <2>1
  <2>3. /\ g[r + 1] = 4 * (q * (r + 1)) + (IF r + 1 <= m THEN 4 * (r + 1) ELSE 4 * m + rest)
        /\ g[r] = 4 * (q * r) + (IF r <= m THEN 4 * r ELSE 4 * m + rest)
    BY <2>1
  <2> HIDE DEF g
  <2>4. displs[r] = g[r] BY <1>1, <1>5, <1>9, <2>1, BeforeIs
  <2> DEFINE x == q * r
             y == p * q
  <2>5. x + q <= y /\ x \in Nat /\ y \in Nat /\ q * (r + 1) = x + q
    <3>1. r * q + q <= p * q /\ r * q \in Nat /\ p * q \in Nat
      BY <1>1, <1>3, BlockFits
    <3>2. q * r = r * q /\ q * (r + 1) = r * q + q BY <1>1, <1>3, <2>1
    <3> QED BY <3>1, <3>2
  <2>6. /\ g[r + 1] = 4 * (x + q) + (IF r + 1 <= m THEN 4 * (r + 1) ELSE 4 * m + rest)
        /\ g[r] = 4 * x + (IF r <= m THEN 4 * r ELSE 4 * m + rest)
    BY <2>3, <2>5
  <2>7. a = y + m BY <1>3
  <2>8. q \in Nat /\ m \in Nat /\ rest \in Nat /\ r \in Nat BY <1>1, <1>2, <1>3
  <2> HIDE DEF x, y
  <2>9. g[r] \in Nat BY <2>5, <2>6, <2>8
  <2>10. N = 4 * y + 4 * m + rest BY <1>2, <2>5, <2>7, <2>8
  <2>11. g[r + 1] <= 4 * y + 4 * m + rest BY <2>5, <2>6, <2>8
  <2> QED BY <2>2, <2>4, <2>9, <2>10, <2>11
<1>11. ASSUME NEW r \in Procs PROVE count(r) \in Nat /\ count(r) <= count(0)
  <2>1. q \in Nat /\ m \in Nat /\ rest \in 0 .. 3 /\ r \in Nat BY <1>1, <1>2, <1>3
  <2> QED BY <2>1
<1>12. 0 \in Procs BY <1>1
<1>13. g[p] = N
  <2> DEFINE y == q * p
  <2>1. p \in 0 .. p /\ ~(p <= m) BY <1>1, <1>3
  <2>2. g[p] = 4 * y + (4 * m + rest) BY <2>1
  <2>3. y \in Nat /\ a = y + m BY <1>1, <1>3
  <2>4. m \in Nat /\ rest \in Nat BY <1>1, <1>2, <1>3
  <2> HIDE DEF y, g
  <2> QED BY <1>2, <2>2, <2>3, <2>4
<1> HIDE DEF count, g
<1> QED BY <1>4, <1>5, <1>9, <1>10, <1>11, <1>12, <1>13

(* Padding makes chunks of equal size.                                     *)
LEMMA Divides ==
  ASSUME NEW k \in Nat, NEW p \in Nat \ {0} PROVE (p * k) \div p = k
<1> DEFINE x == p * k
           d == x \div p
           m == x % p
           e == k - d
<1>1. x \in Nat OBVIOUS
<1> HIDE DEF x
<1>2. d \in Nat /\ m \in 0 .. p - 1 /\ x = p * d + m BY <1>1, Division
<1> HIDE DEF d, m
<1>3. e \in Int /\ p * e = m
  <2>1. p * k = p * d + p * e BY <1>2
  <2>2. x = p * k /\ p * d \in Int /\ p * e \in Int BY <1>2 DEF x
  <2> QED BY <1>2, <2>1, <2>2
<1> HIDE DEF e
<1>4. e >= 1 => p * e >= p BY <1>3
<1>5. e <= -1 => p * e <= 0 - p BY <1>3
<1>6. e = 0 BY <1>2, <1>3, <1>4, <1>5
<1> QED BY <1>2, <1>6 DEF e, x, d

LEMMA ChunksFill ==
  ASSUME call \in Calls
  PROVE  /\ Padded \in Nat /\ Chunk \in Nat /\ N <= Padded
         /\ Padded = call.p * Chunk
<1> DEFINE p == call.p
           d == N \div p
           m == N % p
<1>1. p \in Nat \ {0} /\ N \in Nat BY CallTypes
<1>2. d \in Nat /\ m \in 0 .. p - 1 /\ N = p * d + m BY <1>1, Division
<1>3. Padded = IF m = 0 THEN N ELSE N + (p - m) BY DEF Padded, Scripts!Padded
<1>4. Chunk = Padded \div p BY DEF Chunk
<1> HIDE DEF d, m
<1>5. PICK k \in Nat : Padded = p * k
  <2> DEFINE x == p * d
  <2>1. x \in Nat /\ N = x + m /\ p * (d + 1) = x + p
    <3>1. d \in Nat BY <1>2
    <3>2. x \in Nat /\ p * (d + 1) = x + p BY <1>1, <3>1
    <3> QED BY <1>2, <3>2
  <2>2. d + 1 \in Nat /\ m \in Nat BY <1>1, <1>2
  <2> HIDE DEF x
  <2>3. CASE m = 0
    <3>1. Padded = x BY <1>3, <2>1, <2>3
    <3> QED BY <1>2, <3>1 DEF x
  <2>4. CASE m # 0
    <3>1. Padded = x + p BY <1>1, <1>3, <2>1, <2>2, <2>4
    <3> QED BY <2>1, <2>2, <3>1
  <2> QED BY <2>3, <2>4
<1>6. Chunk = k BY <1>1, <1>4, <1>5, Divides
<1>7. p * k \in Nat BY <1>1
<1> QED BY <1>1, <1>2, <1>3, <1>5, <1>6, <1>7

-------------------------------------------------------------------------------
(* Buffers and the steps that stay inside them.                            *)

(* The elements of a buffer.                                               *)
Room(r, buf) ==
  CASE buf = "send" -> SendLen(r)
    [] buf = "recv" -> RecvLen(r)
    [] buf = "msg1" -> MsgLen(1)
    [] buf = "msg2" -> MsgLen(2)

Places == [rank : Procs, buf : Buffers, at : Int]
Pointers == [Procs -> Places]

Fit(place, n) == place \in Places /\ place.at + n <= Room(place.rank, place.buf)

MovesFit(moves) ==
  \A v \in moves : Fit(v.to, v.n) /\ \A i \in DOMAIN v.of : Fit(v.of[i], v.n)

Within(s) ==
  \A v \in s.moves : Fit(v.to, v.n) /\ \A place \in Range(v.of) : Fit(place, v.n)

LEMMA WithinByMoves ==
  ASSUME NEW name, NEW moves, MovesFit(moves) PROVE Within(Step(name, moves))
<1>1. Step(name, moves).moves \subseteq moves BY DEF Step
<1>2. ASSUME NEW v \in moves, NEW place \in Range(v.of) PROVE Fit(place, v.n)
  <2>1. PICK i \in DOMAIN v.of : place = v.of[i] BY DEF Range
  <2> QED BY <2>1 DEF MovesFit
<1> QED BY <1>1, <1>2 DEF Within, MovesFit

LEMMA PointerTypes ==
  ASSUME NEW buf \in Buffers
  PROVE  /\ Pointer(buf) \in Pointers
         /\ \A r \in Procs : /\ Pointer(buf)[r].rank = r /\ Pointer(buf)[r].buf = buf
                             /\ Pointer(buf)[r].at = 0
BY DEF Pointer, Pointers, Places

LEMMA PlusType ==
  ASSUME NEW place \in Places, NEW off \in Int
  PROVE  /\ Plus(place, off) \in Places
         /\ Plus(place, off).rank = place.rank /\ Plus(place, off).buf = place.buf
         /\ Plus(place, off).at = place.at + off
BY DEF Plus, Places

LEMMA FitPlus ==
  ASSUME NEW place \in Places, NEW off \in Int, NEW n
  PROVE  Fit(Plus(place, off), n) <=> place.at + off + n <= Room(place.rank, place.buf)
BY PlusType DEF Fit

(* The local steps.                                                        *)
LEMMA LocalWithin ==
  ASSUME NEW who, NEW to, NEW from, NEW n,
         \A r \in who : Fit(to[r], n) /\ Fit(from[r], n)
  PROVE  Within(memcpy(who, to, from, n)) /\ Within(Reduce_local(who, from, to, n))
<1>1. MovesFit({Move(<< from[r] >>, to[r], n) : r \in who})
  BY DEF Move, MovesFit
<1>2. MovesFit({Move(<< from[r], to[r] >>, to[r], n) : r \in who})
  BY DEF Move, MovesFit
<1> QED BY <1>1, <1>2, WithinByMoves, Zenon DEF memcpy, Reduce_local

LEMMA ZeroWithin ==
  ASSUME NEW to, NEW n, \A r \in Procs : Fit(to[r], n) PROVE Within(memset0(to, n))
<1>1. MovesFit({Move(<< >>, to[r], n) : r \in Procs}) BY DEF Move, MovesFit
<1> QED BY <1>1, WithinByMoves, Zenon DEF memset0

(* The collective ones, by what they read and write on each process.       *)
LEMMA UnionFits ==
  ASSUME NEW S, \A moves \in S : MovesFit(moves) PROVE MovesFit(UNION S)
BY DEF MovesFit

LEMMA GathervFits ==
  ASSUME NEW in, NEW out, NEW counts, NEW offs, NEW root,
         \A q \in Procs : /\ Fit(in[q], counts[q])
                          /\ Fit(Plus(out[root], offs[q]), counts[q])
  PROVE  MovesFit(GathervMoves(in, out, counts, offs, root))
BY DEF GathervMoves, Move, MovesFit

LEMMA ScattervFits ==
  ASSUME NEW in, NEW out, NEW counts, NEW offs, NEW root,
         \A q \in Procs : /\ Fit(out[q], counts[q])
                          /\ Fit(Plus(in[root], offs[q]), counts[q])
  PROVE  MovesFit(ScattervMoves(in, out, counts, offs, root))
BY DEF ScattervMoves, Move, MovesFit

LEMMA ReduceFits ==
  ASSUME call \in Calls, NEW in, NEW out, NEW n, NEW root,
         \A q \in Procs : Fit(in[q], n), Fit(out[root], n)
  PROVE  MovesFit(ReduceMoves(in, out, n, root))
<1>1. \A i \in 1 .. call.p : i - 1 \in Procs BY CallTypes
<1>2. \A i \in DOMAIN InOrder(in, call.p) : Fit(InOrder(in, call.p)[i], n)
  BY <1>1 DEF InOrder
<1> QED BY <1>2 DEF ReduceMoves, Move, MovesFit

LEMMA AlltoallvFits ==
  ASSUME NEW in, NEW out, NEW scounts, NEW sdispls, NEW rdispls,
         \A q, r \in Procs : /\ Fit(Plus(in[q], sdispls[r]), scounts[r])
                             /\ Fit(Plus(out[r], rdispls[q]), scounts[r])
  PROVE  MovesFit(AlltoallvMoves(in, out, scounts, sdispls, rdispls))
<1>1. ASSUME NEW q \in Procs
      PROVE  MovesFit({Move(<< Plus(in[q], sdispls[r]) >>, Plus(out[r], rdispls[q]),
                            scounts[r])
                         : r \in Procs})
  BY DEF Move, MovesFit
<1> QED BY <1>1, UnionFits DEF AlltoallvMoves

(* The places behind an argument.                                          *)
LEMMA AtStart ==
  ASSUME NEW buf \in Buffers, NEW r \in Procs, NEW n \in Int, n <= Room(r, buf)
  PROVE  Fit(Pointer(buf)[r], n)
<1>1. Pointer(buf)[r] \in Places BY PointerTypes DEF Pointers
<1>2. /\ Pointer(buf)[r].rank = r /\ Pointer(buf)[r].buf = buf
      /\ Pointer(buf)[r].at = 0
  BY PointerTypes
<1> QED BY <1>1, <1>2 DEF Fit

LEMMA Further ==
  ASSUME NEW buf \in Buffers, NEW r \in Procs, NEW off \in Int, NEW n,
         off + n <= Room(r, buf)
  PROVE  Fit(Plus(Pointer(buf)[r], off), n)
<1>1. Pointer(buf)[r] \in Places BY PointerTypes DEF Pointers
<1>2. /\ Pointer(buf)[r].rank = r /\ Pointer(buf)[r].buf = buf
      /\ Pointer(buf)[r].at = 0
  BY PointerTypes
<1>3. 0 + off = off OBVIOUS
<1> QED BY <1>1, <1>2, <1>3, FitPlus

-------------------------------------------------------------------------------
(* The MPI functions stay inside the buffers that their arguments promise. *)

BlocksFit(place, n) == \A q \in Procs : Fit(Plus(place, q * n), n)

LEMMA BlocksAre ==
  ASSUME NEW n, NEW r \in Procs PROVE Blocks(n)[r] = n /\ Strided(n)[r] = r * n
BY DEF Blocks, Strided

LEMMA GatherWithin ==
  ASSUME NEW in, NEW out, NEW n, NEW root,
         \A q \in Procs : Fit(in[q], n), BlocksFit(out[root], n)
  PROVE  /\ MovesFit(GathervMoves(in, out, Blocks(n), Strided(n), root))
         /\ Within(Gather(in, out, n, root))
         /\ Within(Gatherv(in, out, Blocks(n), Strided(n), root))
<1> DEFINE moves == GathervMoves(in, out, Blocks(n), Strided(n), root)
<1>1. MovesFit(moves)
  <2>1. \A q \in Procs : /\ Fit(in[q], Blocks(n)[q])
                         /\ Fit(Plus(out[root], Strided(n)[q]), Blocks(n)[q])
    BY BlocksAre DEF BlocksFit
  <2> QED BY <2>1, GathervFits
<1> HIDE DEF moves
<1>2. \A name : Within(Step(name, moves)) BY <1>1, WithinByMoves
<1> QED BY <1>1, <1>2, Zenon DEF moves, Gather, Gatherv

LEMMA AllgatherWithin ==
  ASSUME NEW in, NEW out, NEW n,
         \A q \in Procs : Fit(in[q], n) /\ BlocksFit(out[q], n)
  PROVE  /\ Within(Allgather(in, out, n))
         /\ Within(Allgatherv(in, out, Blocks(n), Strided(n)))
<1> DEFINE all == {GathervMoves(in, out, Blocks(n), Strided(n), r) : r \in Procs}
<1>1. \A r \in Procs : MovesFit(GathervMoves(in, out, Blocks(n), Strided(n), r))
  BY GatherWithin
<1>2. MovesFit(UNION all) BY <1>1, UnionFits
<1>3. \A name : Within(Step(name, UNION all)) BY <1>2, WithinByMoves
<1> QED BY <1>3, Zenon DEF Allgather, Allgatherv

LEMMA ScatterWithin ==
  ASSUME NEW in, NEW out, NEW n, NEW root,
         \A q \in Procs : Fit(out[q], n), BlocksFit(in[root], n)
  PROVE  /\ Within(Scatter(in, out, n, root))
         /\ Within(Scatterv(in, out, Blocks(n), Strided(n), root))
<1> DEFINE moves == ScattervMoves(in, out, Blocks(n), Strided(n), root)
<1>1. MovesFit(moves)
  <2>1. \A q \in Procs : /\ Fit(out[q], Blocks(n)[q])
                         /\ Fit(Plus(in[root], Strided(n)[q]), Blocks(n)[q])
    BY BlocksAre DEF BlocksFit
  <2> QED BY <2>1, ScattervFits
<1> HIDE DEF moves
<1>2. \A name : Within(Step(name, moves)) BY <1>1, WithinByMoves
<1> QED BY <1>2, Zenon DEF moves, Scatter, Scatterv

LEMMA BcastWithin ==
  ASSUME NEW buf, NEW n, NEW root \in Procs, \A r \in Procs : Fit(buf[r], n)
  PROVE  Within(Bcast(buf, n, root))
<1>1. MovesFit({Move(<< buf[root] >>, buf[r], n) : r \in Procs \ {root}})
  BY DEF Move, MovesFit
<1> QED BY <1>1, WithinByMoves, Zenon DEF Bcast

LEMMA AlltoallWithin ==
  ASSUME NEW in, NEW out, NEW n,
         \A q \in Procs : BlocksFit(in[q], n) /\ BlocksFit(out[q], n)
  PROVE  /\ Within(Alltoall(in, out, n))
         /\ Within(Alltoallv(in, out, Blocks(n), Strided(n), Strided(n)))
<1> DEFINE moves == AlltoallvMoves(in, out, Blocks(n), Strided(n), Strided(n))
<1>1. MovesFit(moves)
  <2>1. \A q, r \in Procs : /\ Fit(Plus(in[q], Strided(n)[r]), Blocks(n)[r])
                            /\ Fit(Plus(out[r], Strided(n)[q]), Blocks(n)[r])
    BY BlocksAre DEF BlocksFit
  <2> QED BY <2>1, AlltoallvFits
<1> HIDE DEF moves
<1>2. \A name : Within(Step(name, moves)) BY <1>1, WithinByMoves
<1> QED BY <1>2, Zenon DEF moves, Alltoall, Alltoallv

LEMMA ReduceWithin ==
  ASSUME call \in Calls, NEW in, NEW out, NEW n, NEW root,
         \A q \in Procs : Fit(in[q], n), Fit(out[root], n)
  PROVE  Within(Reduce(in, out, n, root))
<1>1. MovesFit(ReduceMoves(in, out, n, root)) BY ReduceFits
<1> QED BY <1>1, WithinByMoves, Zenon DEF Reduce

LEMMA AllreduceWithin ==
  ASSUME call \in Calls, NEW in, NEW out, NEW n,
         \A q \in Procs : Fit(in[q], n) /\ Fit(out[q], n)
  PROVE  Within(Allreduce(in, out, n))
<1> DEFINE all == {ReduceMoves(in, out, n, r) : r \in Procs}
<1>1. \A r \in Procs : MovesFit(ReduceMoves(in, out, n, r)) BY ReduceFits
<1>2. MovesFit(UNION all) BY <1>1, UnionFits
<1> QED BY <1>2, WithinByMoves, Zenon DEF Allreduce

LEMMA ReduceScatterWithin ==
  ASSUME call \in Calls, NEW in, NEW out, NEW counts,
         \A q, r \in Procs : Fit(Plus(in[q], Before(counts, r)), counts[r]),
         \A r \in Procs : Fit(out[r], counts[r])
  PROVE  Within(Reduce_scatter(in, out, counts))
<1> DEFINE part(r) == ReduceMoves(Shifted(in, LAMBDA q : Before(counts, r)), out, counts[r], r)
           all == {part(r) : r \in Procs}
<1>1. ASSUME NEW r \in Procs PROVE MovesFit(part(r))
  <2> DEFINE ptr == Shifted(in, LAMBDA q : Before(counts, r))
  <2>1. \A q \in Procs : ptr[q] = Plus(in[q], Before(counts, r)) BY DEF Shifted
  <2> HIDE DEF ptr
  <2>2. \A q \in Procs : Fit(ptr[q], counts[r]) BY <2>1
  <2>3. MovesFit(ReduceMoves(ptr, out, counts[r], r)) BY <2>2, ReduceFits
  <2> QED BY <2>3 DEF ptr
<1> HIDE DEF part
<1>2. MovesFit(UNION all) BY <1>1, UnionFits
<1>3. ReduceScatterMoves(in, out, counts) = UNION all BY DEF ReduceScatterMoves, part
<1> HIDE DEF all
<1> QED BY <1>2, <1>3, WithinByMoves DEF Reduce_scatter

LEMMA ReduceScatterBlockWithin ==
  ASSUME call \in Calls, NEW in, NEW out, NEW n \in Nat,
         \A q \in Procs : BlocksFit(in[q], n) /\ Fit(out[q], n)
  PROVE  /\ Within(Reduce_scatter(in, out, Blocks(n)))
         /\ Within(Reduce_scatter_block(in, out, n))
<1>1. \A r \in Procs : Blocks(n)[r] = n /\ Before(Blocks(n), r) = r * n
  BY BlocksAre, BeforeBlocks
<1>2. \A q, r \in Procs : Fit(Plus(in[q], Before(Blocks(n), r)), Blocks(n)[r])
  BY <1>1 DEF BlocksFit
<1>3. \A r \in Procs : Fit(out[r], Blocks(n)[r]) BY <1>1
<1>4. Within(Reduce_scatter(in, out, Blocks(n))) BY <1>2, <1>3, ReduceScatterWithin
<1>5. Reduce_scatter(in, out, Blocks(n)).moves = Reduce_scatter_block(in, out, n).moves
  BY DEF Reduce_scatter, Reduce_scatter_block, Step
<1> QED BY <1>4, <1>5 DEF Within

LEMMA ExscanWithin ==
  ASSUME call \in Calls, NEW in, NEW out, NEW n,
         \A q \in Procs : Fit(in[q], n) /\ Fit(out[q], n)
  PROVE  Within(Exscan(in, out, n))
<1> DEFINE moves == {Move(InOrder(in, r), out[r], n) : r \in Procs \ {0}}
<1>1. \A r \in Procs : \A i \in 1 .. r : i - 1 \in Procs BY CallTypes
<1>2. \A r \in Procs : \A i \in DOMAIN InOrder(in, r) : Fit(InOrder(in, r)[i], n)
  BY <1>1 DEF InOrder
<1>3. MovesFit(moves) BY <1>2 DEF Move, MovesFit
<1> QED BY <1>3, WithinByMoves, Zenon DEF Exscan

LEMMA AllgathervInPlaceWithin ==
  ASSUME NEW out, NEW counts, NEW offs,
         \A q, r \in Procs : Fit(Plus(out[r], offs[q]), counts[q])
  PROVE  Within(AllgathervInPlace(out, counts, offs))
<1> DEFINE in == Shifted(out, LAMBDA r : offs[r])
           all == {GathervMoves(in, out, counts, offs, r) : r \in Procs}
<1>1. \A q \in Procs : in[q] = Plus(out[q], offs[q]) BY DEF Shifted
<1>2. AllgathervInPlace(out, counts, offs) = Allgatherv(in, out, counts, offs)
  BY DEF AllgathervInPlace
<1> HIDE DEF in
<1>3. \A r \in Procs : MovesFit(GathervMoves(in, out, counts, offs, r))
  BY <1>1, GathervFits
<1>4. \A moves \in all : MovesFit(moves) BY <1>3
<1>5. Allgatherv(in, out, counts, offs) = Step("Allgatherv", UNION all) BY DEF Allgatherv
<1> HIDE DEF all
<1>6. Within(Step("Allgatherv", UNION all)) BY <1>4, UnionFits, WithinByMoves
<1> QED BY <1>2, <1>5, <1>6

-------------------------------------------------------------------------------
(* How much room a mock-up asks for.                                       *)

Takes(script, slot, i) == script[i].op = "grab" /\ script[i].buf = << "msg", slot >>

LEMMA TakesNone ==
  ASSUME NEW script, script = Script, NEW slot,
         \A i \in DOMAIN script : ~Takes(script, slot, i)
  PROVE  MsgLen(slot) = 0
<1> DEFINE grabs == {i \in DOMAIN script : Takes(script, slot, i)}
<1>1. MsgLen(slot) = IF grabs = {} THEN 0 ELSE script[CHOOSE i \in grabs : TRUE].size
  BY DEF MsgLen, Takes
<1>2. grabs = {} OBVIOUS
<1> QED BY <1>1, <1>2

LEMMA TakesOne ==
  ASSUME NEW script, script = Script, NEW slot, NEW k \in DOMAIN script,
         \A i \in DOMAIN script : Takes(script, slot, i) <=> i = k
  PROVE  MsgLen(slot) = script[k].size
<1> DEFINE grabs == {i \in DOMAIN script : Takes(script, slot, i)}
<1>1. MsgLen(slot) = IF grabs = {} THEN 0 ELSE script[CHOOSE i \in grabs : TRUE].size
  BY DEF MsgLen, Takes
<1>2. grabs = {k} OBVIOUS
<1> HIDE DEF grabs
<1>3. \A i : i \in grabs <=> i = k BY <1>2
<1>4. (CHOOSE i \in grabs : TRUE) = k BY <1>3
<1> QED BY <1>1, <1>2, <1>4

(* No buffer for messages.                                                 *)
LEMMA NoMsg ==
  ASSUME NEW script, script = Script,
         \A i \in DOMAIN script : script[i].op = "grab" => script[i].buf[1] = "int"
  PROVE  MsgLen(1) = 0 /\ MsgLen(2) = 0
<1>1. \A slot : \A i \in DOMAIN script : ~Takes(script, slot, i)
  BY DEF Takes
<1> QED BY <1>1, TakesNone

(* One, at the beginning.                                                  *)
LEMMA OneMsg ==
  ASSUME NEW script, script = Script, NEW size, 1 \in DOMAIN script,
         script[1] = Scripts!GrabMsg(size),
         \A i \in DOMAIN script : i # 1 => script[i].op # "grab"
  PROVE  MsgLen(1) = size /\ MsgLen(2) = 0
<1>1. /\ script[1].op = "grab" /\ script[1].buf = << "msg", 1 >> /\ script[1].size = size
  BY DEF Scripts!GrabMsg, Scripts!Grab, Scripts!First
<1>2. \A i \in DOMAIN script : Takes(script, 1, i) <=> i = 1 BY <1>1 DEF Takes
<1>3. \A i \in DOMAIN script : ~Takes(script, 2, i) BY <1>1 DEF Takes
<1> QED BY <1>1, <1>2, <1>3, TakesOne, TakesNone

(* Two, at the beginning.                                                  *)
LEMMA TwoMsgs ==
  ASSUME NEW script, script = Script, NEW size1, NEW size2,
         1 \in DOMAIN script, 2 \in DOMAIN script,
         script[1] = Scripts!GrabMsg(size1), script[2] = Scripts!GrabMsg2(size2),
         \A i \in DOMAIN script : i \notin {1, 2} => script[i].op # "grab"
  PROVE  MsgLen(1) = size1 /\ MsgLen(2) = size2
<1>1. /\ script[1].op = "grab" /\ script[1].buf = << "msg", 1 >> /\ script[1].size = size1
      /\ script[2].op = "grab" /\ script[2].buf = << "msg", 2 >> /\ script[2].size = size2
  BY DEF Scripts!GrabMsg, Scripts!GrabMsg2, Scripts!Grab, Scripts!First, Scripts!Second
<1>2. \A i \in DOMAIN script : Takes(script, 1, i) <=> i = 1 BY <1>1 DEF Takes
<1>3. \A i \in DOMAIN script : Takes(script, 2, i) <=> i = 2 BY <1>1 DEF Takes
<1> QED BY <1>1, <1>2, <1>3, TakesOne

(* Their sizes, in elements.                                               *)
LEMMA Elements ==
  ASSUME call \in Calls
  PROVE  /\ call.p * (N * 1) = call.p * N /\ call.p * N \in Nat
         /\ Scripts!Padded(N, call.p) * 1 = Padded
         /\ (Scripts!Padded(N, call.p) \div call.p) * 1 = Chunk
         /\ N * 1 = N /\ N \in Nat
         /\ Scripts!RecvCount(N, call.p, 0) * 1 = Scripts!RecvCount(N, call.p, 0)
<1>1. call.p \in Nat /\ N \in Nat BY CallTypes
<1>2. Padded \in Nat /\ Chunk \in Nat BY ChunksFill
<1>3. Scripts!RecvCount(N, call.p, 0) \in Nat BY DealtOut
<1>4. call.p * N \in Nat /\ N * 1 = N BY <1>1
<1>5. Padded = Scripts!Padded(N, call.p) /\ Chunk = Scripts!Padded(N, call.p) \div call.p
  BY DEF Padded, Chunk
<1> DEFINE pad == Scripts!Padded(N, call.p)
           chunk == Scripts!Padded(N, call.p) \div call.p
           first == Scripts!RecvCount(N, call.p, 0)
           all == call.p * N
<1>6. pad \in Nat /\ chunk \in Nat /\ first \in Nat /\ pad = Padded /\ chunk = Chunk
  BY <1>2, <1>3, <1>5, Zenon
<1>7. call.p * (N * 1) = all BY <1>4
<1>8. all \in Nat BY <1>4
<1> HIDE DEF pad, chunk, first, all
<1>9. pad * 1 = pad /\ chunk * 1 = chunk /\ first * 1 = first BY <1>6
<1> QED BY <1>1, <1>4, <1>6, <1>7, <1>8, <1>9, Zenon DEF pad, chunk, first, all

(* The mock-up that is selected.                                           *)
Is(coll, alg) == call.coll = coll /\ call.alg = alg

LEMMA Selections ==
  ASSUME call \in Calls
  PROVE  \/ Is("Allgather", 1) \/ Is("Allgather", 2) \/ Is("Allgather", 3)
         \/ Is("Allgather", 4)
         \/ Is("Allreduce", 1) \/ Is("Allreduce", 2) \/ Is("Allreduce", 3)
         \/ Is("Alltoall", 1)
         \/ Is("Bcast", 1) \/ Is("Bcast", 2)
         \/ Is("Gather", 1) \/ Is("Gather", 2) \/ Is("Gather", 3)
         \/ Is("Reduce", 1) \/ Is("Reduce", 2) \/ Is("Reduce", 3) \/ Is("Reduce", 4)
         \/ Is("Reduce_scatter_block", 1) \/ Is("Reduce_scatter_block", 2)
         \/ Is("Reduce_scatter_block", 3)
         \/ Is("Scan", 1)
         \/ Is("Scatter", 1) \/ Is("Scatter", 2)
<1>1. call.coll \in Scripts!Collectives /\ call.alg \in Scripts!AlgIds(call.coll) \ {0}
  BY CallTypes
<1>2. \A i : i \in 0 .. 4 \ {0} <=> i \in {1, 2, 3, 4} OBVIOUS
<1>3. \A i : i \in 0 .. 3 \ {0} <=> i \in {1, 2, 3} OBVIOUS
<1>4. \A i : i \in 0 .. 2 \ {0} <=> i \in {1, 2} OBVIOUS
<1>5. \A i : i \in 0 .. 1 \ {0} <=> i \in {1} OBVIOUS
<1>6. CASE call.coll = "Allgather"
  BY <1>1, <1>2, <1>3, <1>4, <1>5, <1>6 DEF Is, Scripts!AlgIds
<1>7. CASE call.coll = "Allreduce"
  BY <1>1, <1>2, <1>3, <1>4, <1>5, <1>7 DEF Is, Scripts!AlgIds
<1>8. CASE call.coll = "Alltoall"
  BY <1>1, <1>2, <1>3, <1>4, <1>5, <1>8 DEF Is, Scripts!AlgIds
<1>9. CASE call.coll = "Bcast"
  BY <1>1, <1>2, <1>3, <1>4, <1>5, <1>9 DEF Is, Scripts!AlgIds
<1>10. CASE call.coll = "Gather"
  BY <1>1, <1>2, <1>3, <1>4, <1>5, <1>10 DEF Is, Scripts!AlgIds
<1>11. CASE call.coll = "Reduce"
  BY <1>1, <1>2, <1>3, <1>4, <1>5, <1>11 DEF Is, Scripts!AlgIds
<1>12. CASE call.coll = "Reduce_scatter_block"
  BY <1>1, <1>2, <1>3, <1>4, <1>5, <1>12 DEF Is, Scripts!AlgIds
<1>13. CASE call.coll = "Scan"
  BY <1>1, <1>2, <1>3, <1>4, <1>5, <1>13 DEF Is, Scripts!AlgIds
<1>14. CASE call.coll = "Scatter"
  BY <1>1, <1>2, <1>3, <1>4, <1>5, <1>14 DEF Is, Scripts!AlgIds
<1> QED BY <1>1, <1>6, <1>7, <1>8, <1>9, <1>10, <1>11, <1>12, <1>13,
           <1>14 DEF Scripts!Collectives

(* Mock-ups that take no buffer for messages.                              *)
LEMMA RoomsNone ==
  ASSUME call \in Calls,
         \/ Is("Allgather", 1)
         \/ Is("Allgather", 4)
         \/ Is("Allreduce", 1)
         \/ Is("Allreduce", 3)
         \/ Is("Alltoall", 1)
         \/ Is("Bcast", 1)
         \/ Is("Gather", 2)
         \/ Is("Reduce", 4)
         \/ Is("Reduce_scatter_block", 2)
         \/ Is("Scan", 1)
         \/ Is("Scatter", 2)
  PROVE  MsgLen(1) = 0 /\ MsgLen(2) = 0
<1>1. CASE Is("Allgather", 1)
  <2> DEFINE script == Scripts!Allgather_as_Allgatherv(N, 1, call.p)
  <2>1. script = Script BY <1>1 DEF Is, Script, Scripts!Mockups, Scripts!Allgather
  <2>2. \A i \in DOMAIN script : script[i].op = "grab" => script[i].buf[1] = "int"
    BY DEF Scripts!Allgather_as_Allgatherv, Scripts!Grab, Scripts!GrabInt, Scripts!GrabInt2,
           Scripts!First, Scripts!Second, Scripts!Mpi, Scripts!Call, Scripts!Release
  <2> HIDE DEF script
  <2> QED BY <2>1, <2>2, NoMsg
<1>2. CASE Is("Allgather", 4)
  <2> DEFINE script == Scripts!Allgather_as_GatherBcast(N, 1, call.p)
  <2>1. script = Script BY <1>2 DEF Is, Script, Scripts!Mockups, Scripts!Allgather
  <2>2. \A i \in DOMAIN script : script[i].op = "grab" => script[i].buf[1] = "int"
    BY DEF Scripts!Allgather_as_GatherBcast, Scripts!Grab, Scripts!GrabInt, Scripts!GrabInt2,
           Scripts!First, Scripts!Second, Scripts!Mpi, Scripts!Call, Scripts!Release
  <2> HIDE DEF script
  <2> QED BY <2>1, <2>2, NoMsg
<1>3. CASE Is("Allreduce", 1)
  <2> DEFINE script == Scripts!Allreduce_as_Reduce_Bcast(N, 1, call.p)
  <2>1. script = Script BY <1>3 DEF Is, Script, Scripts!Mockups, Scripts!Allreduce
  <2>2. \A i \in DOMAIN script : script[i].op = "grab" => script[i].buf[1] = "int"
    BY DEF Scripts!Allreduce_as_Reduce_Bcast, Scripts!Grab, Scripts!GrabInt, Scripts!GrabInt2,
           Scripts!First, Scripts!Second, Scripts!Mpi, Scripts!Call, Scripts!Release
  <2> HIDE DEF script
  <2> QED BY <2>1, <2>2, NoMsg
<1>4. CASE Is("Allreduce", 3)
  <2> DEFINE script == Scripts!Allreduce_as_Reduce_scatter_Allgatherv(N, 1, call.p)
  <2>1. script = Script BY <1>4 DEF Is, Script, Scripts!Mockups, Scripts!Allreduce
  <2>2. \A i \in DOMAIN script : script[i].op = "grab" => script[i].buf[1] = "int"
    BY DEF Scripts!Allreduce_as_Reduce_scatter_Allgatherv, Scripts!Grab, Scripts!GrabInt,
           Scripts!GrabInt2,
           Scripts!First, Scripts!Second, Scripts!Mpi, Scripts!Call, Scripts!Release
  <2> HIDE DEF script
  <2> QED BY <2>1, <2>2, NoMsg
<1>5. CASE Is("Alltoall", 1)
  <2> DEFINE script == Scripts!Alltoall_as_Alltoallv(N, 1, call.p)
  <2>1. script = Script BY <1>5 DEF Is, Script, Scripts!Mockups, Scripts!Alltoall
  <2>2. \A i \in DOMAIN script : script[i].op = "grab" => script[i].buf[1] = "int"
    BY DEF Scripts!Alltoall_as_Alltoallv, Scripts!Grab, Scripts!GrabInt, Scripts!GrabInt2,
           Scripts!First, Scripts!Second, Scripts!Mpi, Scripts!Call, Scripts!Release
  <2> HIDE DEF script
  <2> QED BY <2>1, <2>2, NoMsg
<1>6. CASE Is("Bcast", 1)
  <2> DEFINE script == Scripts!Bcast_as_Allgatherv(N, 1, call.p)
  <2>1. script = Script BY <1>6 DEF Is, Script, Scripts!Mockups, Scripts!Bcast
  <2>2. \A i \in DOMAIN script : script[i].op = "grab" => script[i].buf[1] = "int"
    BY DEF Scripts!Bcast_as_Allgatherv, Scripts!Grab, Scripts!GrabInt, Scripts!GrabInt2,
           Scripts!First, Scripts!Second, Scripts!Mpi, Scripts!Call, Scripts!Release
  <2> HIDE DEF script
  <2> QED BY <2>1, <2>2, NoMsg
<1>7. CASE Is("Gather", 2)
  <2> DEFINE script == Scripts!Gather_as_Gatherv(N, 1, call.p)
  <2>1. script = Script BY <1>7 DEF Is, Script, Scripts!Mockups, Scripts!Gather
  <2>2. \A i \in DOMAIN script : script[i].op = "grab" => script[i].buf[1] = "int"
    BY DEF Scripts!Gather_as_Gatherv, Scripts!Grab, Scripts!GrabInt, Scripts!GrabInt2,
           Scripts!First, Scripts!Second, Scripts!Mpi, Scripts!Call, Scripts!Release
  <2> HIDE DEF script
  <2> QED BY <2>1, <2>2, NoMsg
<1>8. CASE Is("Reduce", 4)
  <2> DEFINE script == Scripts!Reduce_as_Reduce_scatter(N, 1, call.p)
  <2>1. script = Script BY <1>8 DEF Is, Script, Scripts!Mockups, Scripts!Reduce
  <2>2. \A i \in DOMAIN script : script[i].op = "grab" => script[i].buf[1] = "int"
    BY DEF Scripts!Reduce_as_Reduce_scatter, Scripts!Grab, Scripts!GrabInt, Scripts!GrabInt2,
           Scripts!First, Scripts!Second, Scripts!Mpi, Scripts!Call, Scripts!Release
  <2> HIDE DEF script
  <2> QED BY <2>1, <2>2, NoMsg
<1>9. CASE Is("Reduce_scatter_block", 2)
  <2> DEFINE script == Scripts!Reduce_scatter_block_as_Reduce_scatter(N, 1, call.p)
  <2>1. script = Script BY <1>9 DEF Is, Script, Scripts!Mockups, Scripts!Reduce_scatter_block
  <2>2. \A i \in DOMAIN script : script[i].op = "grab" => script[i].buf[1] = "int"
    BY DEF Scripts!Reduce_scatter_block_as_Reduce_scatter, Scripts!Grab, Scripts!GrabInt,
           Scripts!GrabInt2,
           Scripts!First, Scripts!Second, Scripts!Mpi, Scripts!Call, Scripts!Release
  <2> HIDE DEF script
  <2> QED BY <2>1, <2>2, NoMsg
<1>10. CASE Is("Scan", 1)
  <2> DEFINE script == Scripts!Scan_as_Exscan_Reduce_local(N, 1, call.p)
  <2>1. script = Script BY <1>10 DEF Is, Script, Scripts!Mockups, Scripts!Scan
  <2>2. \A i \in DOMAIN script : script[i].op = "grab" => script[i].buf[1] = "int"
    BY DEF Scripts!Scan_as_Exscan_Reduce_local, Scripts!Grab, Scripts!GrabInt,
           Scripts!GrabInt2,
           Scripts!First, Scripts!Second, Scripts!Mpi, Scripts!Call, Scripts!Release
  <2> HIDE DEF script
  <2> QED BY <2>1, <2>2, NoMsg
<1>11. CASE Is("Scatter", 2)
  <2> DEFINE script == Scripts!Scatter_as_Scatterv(N, 1, call.p)
  <2>1. script = Script BY <1>11 DEF Is, Script, Scripts!Mockups, Scripts!Scatter
  <2>2. \A i \in DOMAIN script : script[i].op = "grab" => script[i].buf[1] = "int"
    BY DEF Scripts!Scatter_as_Scatterv, Scripts!Grab, Scripts!GrabInt, Scripts!GrabInt2,
           Scripts!First, Scripts!Second, Scripts!Mpi, Scripts!Call, Scripts!Release
  <2> HIDE DEF script
  <2> QED BY <2>1, <2>2, NoMsg
<1> QED BY <1>1, <1>2, <1>3, <1>4, <1>5, <1>6, <1>7, <1>8, <1>9, <1>10, <1>11

(* Mock-ups that take one for the elements of all processes.               *)
LEMMA RoomsAll ==
  ASSUME call \in Calls,
         \/ Is("Allgather", 2)
         \/ Is("Allgather", 3)
         \/ Is("Gather", 1)
         \/ Is("Gather", 3)
         \/ Is("Reduce_scatter_block", 1)
         \/ Is("Reduce_scatter_block", 3)
         \/ Is("Scatter", 1)
  PROVE  MsgLen(1) = call.p * N /\ MsgLen(2) = 0
<1>1. CASE Is("Allgather", 2)
  <2> DEFINE script == Scripts!Allgather_as_Allreduce(N, 1, call.p)
  <2>1. script = Script BY <1>1 DEF Is, Script, Scripts!Mockups, Scripts!Allgather
  <2>2. /\ 1 \in DOMAIN script /\ script[1] = Scripts!GrabMsg(call.p * (N * 1))
        /\ \A i \in DOMAIN script : i # 1 => script[i].op # "grab"
    BY DEF Scripts!Allgather_as_Allreduce, Scripts!Mpi, Scripts!Call, Scripts!Release
  <2> HIDE DEF script
  <2>3. MsgLen(1) = call.p * (N * 1) /\ MsgLen(2) = 0 BY <2>1, <2>2, OneMsg
  <2> QED BY <2>3, Elements
<1>2. CASE Is("Allgather", 3)
  <2> DEFINE script == Scripts!Allgather_as_Alltoall(N, 1, call.p)
  <2>1. script = Script BY <1>2 DEF Is, Script, Scripts!Mockups, Scripts!Allgather
  <2>2. /\ 1 \in DOMAIN script /\ script[1] = Scripts!GrabMsg(call.p * (N * 1))
        /\ \A i \in DOMAIN script : i # 1 => script[i].op # "grab"
    BY DEF Scripts!Allgather_as_Alltoall, Scripts!Mpi, Scripts!Call, Scripts!Release
  <2> HIDE DEF script
  <2>3. MsgLen(1) = call.p * (N * 1) /\ MsgLen(2) = 0 BY <2>1, <2>2, OneMsg
  <2> QED BY <2>3, Elements
<1>3. CASE Is("Gather", 1)
  <2> DEFINE script == Scripts!Gather_as_Allgather(N, 1, call.p)
  <2>1. script = Script BY <1>3 DEF Is, Script, Scripts!Mockups, Scripts!Gather
  <2>2. /\ 1 \in DOMAIN script /\ script[1] = Scripts!GrabMsg(call.p * (N * 1))
        /\ \A i \in DOMAIN script : i # 1 => script[i].op # "grab"
    BY DEF Scripts!Gather_as_Allgather, Scripts!Mpi, Scripts!Call, Scripts!Release
  <2> HIDE DEF script
  <2>3. MsgLen(1) = call.p * (N * 1) /\ MsgLen(2) = 0 BY <2>1, <2>2, OneMsg
  <2> QED BY <2>3, Elements
<1>4. CASE Is("Gather", 3)
  <2> DEFINE script == Scripts!Gather_as_Reduce(N, 1, call.p)
  <2>1. script = Script BY <1>4 DEF Is, Script, Scripts!Mockups, Scripts!Gather
  <2>2. /\ 1 \in DOMAIN script /\ script[1] = Scripts!GrabMsg(call.p * (N * 1))
        /\ \A i \in DOMAIN script : i # 1 => script[i].op # "grab"
    BY DEF Scripts!Gather_as_Reduce, Scripts!Mpi, Scripts!Call, Scripts!Release
  <2> HIDE DEF script
  <2>3. MsgLen(1) = call.p * (N * 1) /\ MsgLen(2) = 0 BY <2>1, <2>2, OneMsg
  <2> QED BY <2>3, Elements
<1>5. CASE Is("Reduce_scatter_block", 1)
  <2> DEFINE script == Scripts!Reduce_scatter_block_as_Reduce_Scatter(N, 1, call.p)
  <2>1. script = Script BY <1>5 DEF Is, Script, Scripts!Mockups, Scripts!Reduce_scatter_block
  <2>2. /\ 1 \in DOMAIN script /\ script[1] = Scripts!GrabMsg(call.p * (N * 1))
        /\ \A i \in DOMAIN script : i # 1 => script[i].op # "grab"
    BY DEF Scripts!Reduce_scatter_block_as_Reduce_Scatter, Scripts!Mpi, Scripts!Call,
           Scripts!Release
  <2> HIDE DEF script
  <2>3. MsgLen(1) = call.p * (N * 1) /\ MsgLen(2) = 0 BY <2>1, <2>2, OneMsg
  <2> QED BY <2>3, Elements
<1>6. CASE Is("Reduce_scatter_block", 3)
  <2> DEFINE script == Scripts!Reduce_scatter_block_as_Allreduce(N, 1, call.p)
  <2>1. script = Script BY <1>6 DEF Is, Script, Scripts!Mockups, Scripts!Reduce_scatter_block
  <2>2. /\ 1 \in DOMAIN script /\ script[1] = Scripts!GrabMsg(call.p * (N * 1))
        /\ \A i \in DOMAIN script : i # 1 => script[i].op # "grab"
    BY DEF Scripts!Reduce_scatter_block_as_Allreduce, Scripts!Mpi, Scripts!Call,
           Scripts!Release
  <2> HIDE DEF script
  <2>3. MsgLen(1) = call.p * (N * 1) /\ MsgLen(2) = 0 BY <2>1, <2>2, OneMsg
  <2> QED BY <2>3, Elements
<1>7. CASE Is("Scatter", 1)
  <2> DEFINE script == Scripts!Scatter_as_Bcast(N, 1, call.p)
  <2>1. script = Script BY <1>7 DEF Is, Script, Scripts!Mockups, Scripts!Scatter
  <2>2. /\ 1 \in DOMAIN script /\ script[1] = Scripts!GrabMsg(call.p * (N * 1))
        /\ \A i \in DOMAIN script : i # 1 => script[i].op # "grab"
    BY DEF Scripts!Scatter_as_Bcast, Scripts!Mpi, Scripts!Call, Scripts!Release
  <2> HIDE DEF script
  <2>3. MsgLen(1) = call.p * (N * 1) /\ MsgLen(2) = 0 BY <2>1, <2>2, OneMsg
  <2> QED BY <2>3, Elements
<1> QED BY <1>1, <1>2, <1>3, <1>4, <1>5, <1>6, <1>7

(* Mock-ups that pad, and take a second one for a chunk.                   *)
LEMMA RoomsPadded ==
  ASSUME call \in Calls,
         \/ Is("Allreduce", 2)
         \/ Is("Bcast", 2)
         \/ Is("Reduce", 2)
  PROVE  MsgLen(1) = Padded /\ MsgLen(2) = Chunk
<1>1. CASE Is("Allreduce", 2)
  <2> DEFINE script == Scripts!Allreduce_as_Reduce_scatter_block_Allgather(N, 1, call.p)
  <2>1. script = Script BY <1>1 DEF Is, Script, Scripts!Mockups, Scripts!Allreduce
  <2> DEFINE pad == Scripts!Padded(N, call.p) * 1
             chunk == (Scripts!Padded(N, call.p) \div call.p) * 1
  <2>2. /\ 1 \in DOMAIN script /\ script[1] = Scripts!GrabMsg(pad)
        /\ 2 \in DOMAIN script /\ script[2] = Scripts!GrabMsg2(chunk)
        /\ \A i \in DOMAIN script : i \notin {1, 2} => script[i].op # "grab"
    BY DEF Scripts!Allreduce_as_Reduce_scatter_block_Allgather, Scripts!Mpi, Scripts!Call,
           Scripts!Release
  <2> HIDE DEF script, pad, chunk
  <2>3. MsgLen(1) = pad /\ MsgLen(2) = chunk BY <2>1, <2>2, TwoMsgs
  <2>4. pad = Padded /\ chunk = Chunk BY Elements DEF pad, chunk
  <2> QED BY <2>3, <2>4
<1>2. CASE Is("Bcast", 2)
  <2> DEFINE script == Scripts!Bcast_as_Scatter_Allgather(N, 1, call.p)
  <2>1. script = Script BY <1>2 DEF Is, Script, Scripts!Mockups, Scripts!Bcast
  <2> DEFINE pad == Scripts!Padded(N, call.p) * 1
             chunk == (Scripts!Padded(N, call.p) \div call.p) * 1
  <2>2. /\ 1 \in DOMAIN script /\ script[1] = Scripts!GrabMsg(pad)
        /\ 2 \in DOMAIN script /\ script[2] = Scripts!GrabMsg2(chunk)
        /\ \A i \in DOMAIN script : i \notin {1, 2} => script[i].op # "grab"
    BY DEF Scripts!Bcast_as_Scatter_Allgather, Scripts!Mpi, Scripts!Call, Scripts!Release
  <2> HIDE DEF script, pad, chunk
  <2>3. MsgLen(1) = pad /\ MsgLen(2) = chunk BY <2>1, <2>2, TwoMsgs
  <2>4. pad = Padded /\ chunk = Chunk BY Elements DEF pad, chunk
  <2> QED BY <2>3, <2>4
<1>3. CASE Is("Reduce", 2)
  <2> DEFINE script == Scripts!Reduce_as_Reduce_scatter_block_Gather(N, 1, call.p)
  <2>1. script = Script BY <1>3 DEF Is, Script, Scripts!Mockups, Scripts!Reduce
  <2> DEFINE pad == Scripts!Padded(N, call.p) * 1
             chunk == (Scripts!Padded(N, call.p) \div call.p) * 1
  <2>2. /\ 1 \in DOMAIN script /\ script[1] = Scripts!GrabMsg(pad)
        /\ 2 \in DOMAIN script /\ script[2] = Scripts!GrabMsg2(chunk)
        /\ \A i \in DOMAIN script : i \notin {1, 2} => script[i].op # "grab"
    BY DEF Scripts!Reduce_as_Reduce_scatter_block_Gather, Scripts!Mpi, Scripts!Call,
           Scripts!Release
  <2> HIDE DEF script, pad, chunk
  <2>3. MsgLen(1) = pad /\ MsgLen(2) = chunk BY <2>1, <2>2, TwoMsgs
  <2>4. pad = Padded /\ chunk = Chunk BY Elements DEF pad, chunk
  <2> QED BY <2>3, <2>4
<1> QED BY <1>1, <1>2, <1>3

(* The scratch receive buffer of a reduction.                              *)
LEMMA RoomsReduce ==
  ASSUME call \in Calls, Is("Reduce", 1)
  PROVE  MsgLen(1) = N /\ MsgLen(2) = 0
<1> DEFINE script == Scripts!Reduce_as_Allreduce(N, 1, call.p)
<1>1. script = Script BY DEF Is, Script, Scripts!Mockups, Scripts!Reduce
<1>2. /\ 1 \in DOMAIN script /\ script[1] = Scripts!GrabMsg(N * 1)
      /\ \A i \in DOMAIN script : i # 1 => script[i].op # "grab"
  BY DEF Scripts!Reduce_as_Allreduce, Scripts!Mpi, Scripts!Call, Scripts!Release
<1> HIDE DEF script
<1>3. MsgLen(1) = N * 1 /\ MsgLen(2) = 0 BY <1>1, <1>2, OneMsg
<1> QED BY <1>3, Elements

(* One for the largest part of a vector.                                   *)
LEMMA RoomsParts ==
  ASSUME call \in Calls, Is("Reduce", 3)
  PROVE  MsgLen(1) = Scripts!RecvCount(N, call.p, 0) /\ MsgLen(2) = 0
<1> DEFINE size == Scripts!RecvCount(N, call.p, 0) * 1
           script == Scripts!Reduce_as_Reduce_scatter_Gatherv(N, 1, call.p)
<1>1. script = Script BY DEF Is, Script, Scripts!Mockups, Scripts!Reduce
<1>2. /\ 3 \in DOMAIN script /\ script[3] = Scripts!GrabMsg(size)
      /\ \A i \in DOMAIN script :
           i # 3 /\ script[i].op = "grab" => script[i].buf[1] = "int"
  BY DEF Scripts!Reduce_as_Reduce_scatter_Gatherv, Scripts!Grab, Scripts!GrabInt,
         Scripts!GrabInt2, Scripts!First, Scripts!Second, Scripts!Mpi, Scripts!Release
<1> HIDE DEF script, size
<1>3. /\ script[3].op = "grab" /\ script[3].buf = << "msg", 1 >> /\ script[3].size = size
  BY <1>2 DEF Scripts!GrabMsg, Scripts!Grab, Scripts!First
<1>4. \A i \in DOMAIN script : Takes(script, 1, i) <=> i = 3 BY <1>2, <1>3 DEF Takes
<1>5. \A i \in DOMAIN script : ~Takes(script, 2, i) BY <1>2, <1>3 DEF Takes
<1>6. MsgLen(1) = size BY <1>1, <1>2, <1>3, <1>4, TakesOne
<1>7. MsgLen(2) = 0 BY <1>1, <1>5, TakesNone
<1>8. size = Scripts!RecvCount(N, call.p, 0) BY Elements DEF size
<1> QED BY <1>6, <1>7, <1>8

-------------------------------------------------------------------------------
(* Sequences of steps that stay inside the buffers.                        *)

Steady(s) == \E S : s \in Seq(S) /\ \A x \in S : Within(x)

LEMMA Steady1 ==
  ASSUME NEW a,
         Within(a)
  PROVE  Steady(<< a >>)
<1> DEFINE S == {a}
<1>1. << a >> \in Seq(S) OBVIOUS
<1>2. \A x \in S : Within(x) OBVIOUS
<1> HIDE DEF S
<1> QED BY <1>1, <1>2 DEF Steady

LEMMA Steady2 ==
  ASSUME NEW a, NEW b,
         Within(a), Within(b)
  PROVE  Steady(<< a, b >>)
<1> DEFINE S == {a, b}
<1>1. << a, b >> \in Seq(S) OBVIOUS
<1>2. \A x \in S : Within(x) OBVIOUS
<1> HIDE DEF S
<1> QED BY <1>1, <1>2 DEF Steady

LEMMA Steady3 ==
  ASSUME NEW a, NEW b, NEW c,
         Within(a), Within(b), Within(c)
  PROVE  Steady(<< a, b, c >>)
<1> DEFINE S == {a, b, c}
<1>1. << a, b, c >> \in Seq(S) OBVIOUS
<1>2. \A x \in S : Within(x) OBVIOUS
<1> HIDE DEF S
<1> QED BY <1>1, <1>2 DEF Steady

LEMMA Steady4 ==
  ASSUME NEW a, NEW b, NEW c, NEW d,
         Within(a), Within(b), Within(c), Within(d)
  PROVE  Steady(<< a, b, c, d >>)
<1> DEFINE S == {a, b, c, d}
<1>1. << a, b, c, d >> \in Seq(S) OBVIOUS
<1>2. \A x \in S : Within(x) OBVIOUS
<1> HIDE DEF S
<1> QED BY <1>1, <1>2 DEF Steady

LEMMA Steady5 ==
  ASSUME NEW a, NEW b, NEW c, NEW d, NEW f,
         Within(a), Within(b), Within(c), Within(d), Within(f)
  PROVE  Steady(<< a, b, c, d, f >>)
<1> DEFINE S == {a, b, c, d, f}
<1>1. << a, b, c, d, f >> \in Seq(S) OBVIOUS
<1>2. \A x \in S : Within(x) OBVIOUS
<1> HIDE DEF S
<1> QED BY <1>1, <1>2 DEF Steady

LEMMA SteadyAll ==
  ASSUME NEW n \in Nat, NEW s, s = [i \in 1..n |-> s[i]], \A i \in 1..n : Within(s[i])
  PROVE  Steady(s)
<1> DEFINE S == {s[i] : i \in 1..n}
<1>1. \A i \in 1..n : s[i] \in S OBVIOUS
<1>2. \A x \in S : Within(x) OBVIOUS
<1> HIDE DEF S
<1>3. s \in [1..n -> S] BY <1>1, Zenon
<1>4. s \in Seq(S) BY <1>3
<1> QED BY <1>2, <1>4 DEF Steady

LEMMA SteadyConcat ==
  ASSUME NEW s, NEW t, Steady(s), Steady(t) PROVE Steady(s \o t)
<1>1. PICK S : s \in Seq(S) /\ \A x \in S : Within(x) BY DEF Steady
<1>2. PICK T : t \in Seq(T) /\ \A x \in T : Within(x) BY DEF Steady
<1> DEFINE U == S \cup T
<1>3. s \in Seq(U) /\ t \in Seq(U) BY <1>1, <1>2
<1>4. \A x \in U : Within(x) BY <1>1, <1>2
<1> HIDE DEF U
<1>5. s \o t \in Seq(U) BY <1>3
<1> QED BY <1>4, <1>5 DEF Steady

-------------------------------------------------------------------------------
(* The buffers of each collective.                                         *)

LEMMA UserRooms ==
  ASSUME call \in Calls, NEW r \in Procs
  PROVE  /\ call.coll \in {"Allgather", "Allreduce", "Gather", "Reduce", "Scan"}
              => Room(r, "send") = N
         /\ call.coll \in {"Alltoall", "Reduce_scatter_block"}
              => Room(r, "send") = call.p * N
         /\ call.coll = "Scatter" /\ r = Root => Room(r, "send") = call.p * N
         /\ call.coll \in {"Allgather", "Alltoall"} => Room(r, "recv") = call.p * N
         /\ call.coll \in {"Allreduce", "Bcast", "Reduce_scatter_block", "Scan", "Scatter"}
              => Room(r, "recv") = N
         /\ call.coll = "Gather" /\ r = Root => Room(r, "recv") = call.p * N
         /\ call.coll = "Reduce" /\ r = Root => Room(r, "recv") = N
         /\ Room(r, "msg1") = MsgLen(1) /\ Room(r, "msg2") = MsgLen(2)
<1>1. /\ Room(r, "send") = SendLen(r) /\ Room(r, "recv") = RecvLen(r)
      /\ Room(r, "msg1") = MsgLen(1) /\ Room(r, "msg2") = MsgLen(2)
  BY DEF Room
<1> QED BY <1>1 DEF SendLen, RecvLen, Rooted

(* A buffer with room for n elements of every process.                     *)
LEMMA WholeRoom ==
  ASSUME call \in Calls, NEW buf \in Buffers, NEW r \in Procs, NEW n \in Nat,
         call.p * n = Room(r, buf)
  PROVE  /\ BlocksFit(Pointer(buf)[r], n)
         /\ Fit(Pointer(buf)[r], call.p * n) /\ Fit(Pointer(buf)[r], n)
<1>1. call.p \in Nat \ {0} /\ Procs = 0 .. call.p - 1 BY CallTypes
<1>2. \A q \in Procs : q * n \in Nat /\ call.p * n \in Nat /\ q * n + n <= call.p * n
  BY <1>1, BlockFits
<1> DEFINE all == call.p * n
<1>3. all \in Nat /\ \A q \in Procs : q * n \in Nat /\ q * n + n <= all BY <1>1, <1>2
<1>4. all = Room(r, buf) OBVIOUS
<1> HIDE DEF all
<1>5. n <= all
  <2>1. 0 \in Procs BY <1>1
  <2>2. 0 * n + n <= all BY <1>3, <2>1, Zenon
  <2> QED BY <2>2
<1>6. BlocksFit(Pointer(buf)[r], n) BY <1>3, <1>4, Further DEF BlocksFit
<1>7. Fit(Pointer(buf)[r], all) /\ Fit(Pointer(buf)[r], n)
  BY <1>3, <1>4, <1>5, AtStart
<1> QED BY <1>6, <1>7 DEF all

(* A buffer with room for n elements.                                      *)
LEMMA BlockRoom ==
  ASSUME NEW buf \in Buffers, NEW r \in Procs, NEW n \in Nat, n = Room(r, buf)
  PROVE  Fit(Pointer(buf)[r], n)
BY AtStart

LEMMA Names ==
  /\ "send" \in Buffers /\ "recv" \in Buffers /\ "msg1" \in Buffers /\ "msg2" \in Buffers
  /\ sendbuf = Pointer("send") /\ recvbuf = Pointer("recv")
  /\ aux_buf1 = Pointer("msg1") /\ aux_buf2 = Pointer("msg2")
BY DEF Buffers, sendbuf, recvbuf, aux_buf1, aux_buf2

(* The padding repeats the first element, which is there if any is needed. *)
LEMMA PaddingWithin ==
  ASSUME call \in Calls,
         \A r \in Procs : Room(r, "send") = N /\ Room(r, "msg1") = Padded
  PROVE  Within(FillPadding)
<1> DEFINE moves == {Move(<< sendbuf[r] >>, Plus(aux_buf1[r], i), 1)
                       : r \in Procs, i \in N .. Padded - 1}
<1>1. N \in Nat /\ Padded \in Nat /\ call.p \in Nat \ {0} BY CallTypes, ChunksFill
<1>2. N = 0 => Padded = 0 BY <1>1 DEF Padded, Scripts!Padded
<1>3. ASSUME NEW r \in Procs, NEW i \in N .. Padded - 1
      PROVE  Fit(sendbuf[r], 1) /\ Fit(Plus(aux_buf1[r], i), 1)
  <2>1. i \in Int /\ i + 1 <= Padded /\ 1 <= N BY <1>1, <1>2
  <2> QED BY <2>1, Names, AtStart, Further
<1>4. MovesFit(moves) BY <1>3 DEF Move, MovesFit
<1>5. FillPadding = Step("local", moves) BY DEF FillPadding
<1> HIDE DEF moves
<1> QED BY <1>4, <1>5, WithinByMoves

-------------------------------------------------------------------------------
(* The mock-ups, one after the other.                                      *)

LEMMA AllgathervSteady ==
  ASSUME call \in Calls, Is("Allgather", 1) PROVE Steady(Allgather_as_Allgatherv)
<1>1. /\ N \in Nat
      /\ \A r \in Procs : Room(r, "send") = N /\ Room(r, "recv") = call.p * N
  BY CallTypes, UserRooms DEF Is
<1>2. \A r \in Procs : Fit(sendbuf[r], N) /\ BlocksFit(recvbuf[r], N)
  BY <1>1, Names, BlockRoom, WholeRoom
<1>3. Within(Allgatherv(sendbuf, recvbuf, Blocks(N), Strided(N)))
  BY <1>2, AllgatherWithin
<1> QED BY <1>3, Steady1 DEF Allgather_as_Allgatherv

(* The two steps that mock-ups which reduce blocks begin with.             *)
LEMMA OwnBlockSteady ==
  ASSUME call \in Calls,
         \A r \in Procs : Room(r, "send") = N /\ Room(r, "msg1") = call.p * N
  PROVE  /\ Steady(OwnBlock)
         /\ \A r \in Procs : Fit(aux_buf1[r], call.p * N)
<1>1. N \in Nat BY CallTypes
<1>2. \A r \in Procs : /\ Fit(sendbuf[r], N) /\ Fit(aux_buf1[r], call.p * N)
                       /\ BlocksFit(aux_buf1[r], N)
  BY <1>1, Names, BlockRoom, WholeRoom
<1> DEFINE own == [r \in Procs |-> Plus(aux_buf1[r], r * N)]
<1>3. \A r \in Procs : own[r] = Plus(aux_buf1[r], r * N) OBVIOUS
<1>4. OwnBlock = << memset0(aux_buf1, call.p * N), memcpy(Procs, own, sendbuf, N) >>
  BY DEF OwnBlock, Shifted
<1> HIDE DEF own
<1>5. \A r \in Procs : Fit(own[r], N) BY <1>2, <1>3 DEF BlocksFit
<1>6. Within(memset0(aux_buf1, call.p * N)) BY <1>2, ZeroWithin
<1>7. Within(memcpy(Procs, own, sendbuf, N)) BY <1>2, <1>5, LocalWithin
<1> QED BY <1>2, <1>4, <1>6, <1>7, Steady2

LEMMA AllgatherAllreduceSteady ==
  ASSUME call \in Calls, Is("Allgather", 2) PROVE Steady(Allgather_as_Allreduce)
<1>1. /\ N \in Nat
      /\ \A r \in Procs : /\ Room(r, "send") = N /\ Room(r, "recv") = call.p * N
                          /\ Room(r, "msg1") = call.p * N
  BY CallTypes, UserRooms, RoomsAll DEF Is
<1>2. \A r \in Procs : Fit(recvbuf[r], call.p * N) BY <1>1, Names, WholeRoom
<1>3. Steady(OwnBlock) /\ \A r \in Procs : Fit(aux_buf1[r], call.p * N)
  BY <1>1, OwnBlockSteady
<1>4. Within(Allreduce(aux_buf1, recvbuf, call.p * N)) BY <1>2, <1>3, AllreduceWithin
<1>5. Steady(<< Allreduce(aux_buf1, recvbuf, call.p * N) >>) BY <1>4, Steady1
<1> QED BY <1>3, <1>5, SteadyConcat DEF Allgather_as_Allreduce

LEMMA AllgatherAlltoallSteady ==
  ASSUME call \in Calls, Is("Allgather", 3) PROVE Steady(Allgather_as_Alltoall)
<1>1. /\ N \in Nat /\ call.p \in Nat /\ Procs = 0 .. call.p - 1
      /\ \A r \in Procs : /\ Room(r, "send") = N /\ Room(r, "recv") = call.p * N
                          /\ Room(r, "msg1") = call.p * N
  BY CallTypes, UserRooms, RoomsAll DEF Is
<1>2. \A r \in Procs : /\ Fit(sendbuf[r], N) /\ BlocksFit(recvbuf[r], N)
                       /\ BlocksFit(aux_buf1[r], N)
  BY <1>1, Names, BlockRoom, WholeRoom
<1> DEFINE ptr(i) == [r \in Procs |-> Plus(aux_buf1[r], (i - 1) * N)]
           copies == [i \in 1 .. call.p |-> memcpy(Procs, ptr(i), sendbuf, N)]
<1>3. \A i : \A r \in Procs : ptr(i)[r] = Plus(aux_buf1[r], (i - 1) * N) OBVIOUS
<1>4. Allgather_as_Alltoall = copies \o << Alltoall(aux_buf1, recvbuf, N) >>
  BY DEF Allgather_as_Alltoall, Shifted
<1> HIDE DEF ptr
<1>5. ASSUME NEW i \in 1 .. call.p PROVE Within(copies[i])
  <2>1. i - 1 \in Procs BY <1>1
  <2>2. \A r \in Procs : Fit(ptr(i)[r], N) BY <1>2, <1>3, <2>1 DEF BlocksFit
  <2>3. Within(memcpy(Procs, ptr(i), sendbuf, N)) BY <1>2, <2>2, LocalWithin
  <2> QED BY <2>3
<1>6. copies = [i \in 1 .. call.p |-> copies[i]] OBVIOUS
<1> HIDE DEF copies
<1>7. Steady(copies) BY <1>1, <1>5, <1>6, SteadyAll
<1>8. Within(Alltoall(aux_buf1, recvbuf, N)) BY <1>2, AlltoallWithin
<1>9. Steady(<< Alltoall(aux_buf1, recvbuf, N) >>) BY <1>8, Steady1
<1> QED BY <1>4, <1>7, <1>9, SteadyConcat

LEMMA RootType == ASSUME call \in Calls PROVE mockup_root_rank \in Procs /\ Root \in Procs
BY CallTypes DEF mockup_root_rank

LEMMA GatherBcastSteady ==
  ASSUME call \in Calls, Is("Allgather", 4) PROVE Steady(Allgather_as_GatherBcast)
<1>1. /\ N \in Nat /\ call.p \in Nat /\ N * call.p = call.p * N
      /\ \A r \in Procs : Room(r, "send") = N /\ Room(r, "recv") = call.p * N
  BY CallTypes, UserRooms DEF Is
<1>2. \A r \in Procs : /\ Fit(sendbuf[r], N) /\ BlocksFit(recvbuf[r], N)
                       /\ Fit(recvbuf[r], N * call.p)
  BY <1>1, Names, BlockRoom, WholeRoom
<1>3. Within(Gather(sendbuf, recvbuf, N, mockup_root_rank)) BY <1>2, RootType, GatherWithin
<1>4. Within(Bcast(recvbuf, N * call.p, mockup_root_rank)) BY <1>2, RootType, BcastWithin
<1> QED BY <1>3, <1>4, Steady2 DEF Allgather_as_GatherBcast

LEMMA ReduceBcastSteady ==
  ASSUME call \in Calls, Is("Allreduce", 1) PROVE Steady(Allreduce_as_Reduce_Bcast)
<1>1. N \in Nat /\ \A r \in Procs : Room(r, "send") = N /\ Room(r, "recv") = N
  BY CallTypes, UserRooms DEF Is
<1>2. \A r \in Procs : Fit(sendbuf[r], N) /\ Fit(recvbuf[r], N) BY <1>1, Names, BlockRoom
<1>3. Within(Reduce(sendbuf, recvbuf, N, mockup_root_rank)) BY <1>2, RootType, ReduceWithin
<1>4. Within(Bcast(recvbuf, N, mockup_root_rank)) BY <1>2, RootType, BcastWithin
<1> QED BY <1>3, <1>4, Steady2 DEF Allreduce_as_Reduce_Bcast

(* Padded buffers.                                                         *)
LEMMA PaddedRooms ==
  ASSUME call \in Calls,
         \A r \in Procs : Room(r, "msg1") = Padded /\ Room(r, "msg2") = Chunk
  PROVE  \A r \in Procs : /\ BlocksFit(aux_buf1[r], Chunk) /\ Fit(aux_buf1[r], N)
                          /\ Fit(aux_buf2[r], Chunk)
<1>1. /\ Padded \in Nat /\ Chunk \in Nat /\ N <= Padded /\ Padded = call.p * Chunk
      /\ N \in Nat
  BY ChunksFill, CallTypes
<1>2. \A r \in Procs : BlocksFit(aux_buf1[r], Chunk) BY <1>1, Names, WholeRoom
<1>3. \A r \in Procs : Fit(aux_buf2[r], Chunk) BY <1>1, Names, BlockRoom
<1>4. \A r \in Procs : Fit(aux_buf1[r], N) BY <1>1, Names, AtStart
<1> QED BY <1>2, <1>3, <1>4

LEMMA AllreducePaddedSteady ==
  ASSUME call \in Calls, Is("Allreduce", 2)
  PROVE  Steady(Allreduce_as_Reduce_scatter_block_Allgather)
<1>1. /\ N \in Nat /\ Chunk \in Nat
      /\ \A r \in Procs : /\ Room(r, "send") = N /\ Room(r, "recv") = N
                          /\ Room(r, "msg1") = Padded /\ Room(r, "msg2") = Chunk
  BY CallTypes, ChunksFill, UserRooms, RoomsPadded DEF Is
<1>2. \A r \in Procs : /\ Fit(sendbuf[r], N) /\ Fit(recvbuf[r], N)
                       /\ BlocksFit(aux_buf1[r], Chunk) /\ Fit(aux_buf1[r], N)
                       /\ Fit(aux_buf2[r], Chunk)
  BY <1>1, Names, BlockRoom, PaddedRooms
<1>3. Within(CopyIn(Procs, sendbuf)) BY <1>2, LocalWithin DEF CopyIn
<1>4. Within(FillPadding) BY <1>1, PaddingWithin
<1>5. Within(Reduce_scatter_block(aux_buf1, aux_buf2, Chunk))
  BY <1>1, <1>2, ReduceScatterBlockWithin
<1>6. Within(Allgather(aux_buf2, aux_buf1, Chunk)) BY <1>2, AllgatherWithin
<1>7. Within(memcpy(Procs, recvbuf, aux_buf1, N)) BY <1>2, LocalWithin
<1> QED BY <1>3, <1>4, <1>5, <1>6, <1>7, Steady5
        DEF Allreduce_as_Reduce_scatter_block_Allgather

LEMMA AllreducePartsSteady ==
  ASSUME call \in Calls, Is("Allreduce", 3)
  PROVE  Steady(Allreduce_as_Reduce_scatter_Allgatherv)
<1>1. /\ N \in Nat
      /\ \A r \in Procs : Room(r, "send") = N /\ Room(r, "recv") = N
      /\ \A r \in Procs : /\ recvcounts[r] \in Nat /\ displs[r] \in Nat
                          /\ displs[r] + recvcounts[r] <= N
                          /\ displs[r] = Before(recvcounts, r)
  BY CallTypes, UserRooms, DealtOut DEF Is
<1> DEFINE off(r) == IF recvcounts[r] > 0 THEN displs[r] ELSE 0
           out == [r \in Procs |-> Plus(recvbuf[r], off(r))]
<1>2. \A r \in Procs : out[r] = Plus(recvbuf[r], off(r)) OBVIOUS
<1>3. \A r \in Procs : off(r) \in Int /\ off(r) + recvcounts[r] <= N BY <1>1
<1>4. Allreduce_as_Reduce_scatter_Allgatherv
        = << Reduce_scatter(sendbuf, out, recvcounts),
             AllgathervInPlace(recvbuf, recvcounts, displs) >>
  BY DEF Allreduce_as_Reduce_scatter_Allgatherv, Shifted
<1> HIDE DEF off, out
<1>5. \A r \in Procs : Fit(out[r], recvcounts[r]) BY <1>1, <1>2, <1>3, Names, Further
<1>6. \A q, r \in Procs : /\ Fit(Plus(sendbuf[q], displs[r]), recvcounts[r])
                          /\ Fit(Plus(recvbuf[q], displs[r]), recvcounts[r])
  BY <1>1, Names, Further
<1>7. \A q, r \in Procs : Fit(Plus(sendbuf[q], Before(recvcounts, r)), recvcounts[r])
  BY <1>1, <1>6
<1>8. Within(Reduce_scatter(sendbuf, out, recvcounts)) BY <1>5, <1>7, ReduceScatterWithin
<1>9. Within(AllgathervInPlace(recvbuf, recvcounts, displs))
  BY <1>6, AllgathervInPlaceWithin
<1> QED BY <1>4, <1>8, <1>9, Steady2

LEMMA AlltoallvSteady ==
  ASSUME call \in Calls, Is("Alltoall", 1) PROVE Steady(Alltoall_as_Alltoallv)
<1>1. /\ N \in Nat
      /\ \A r \in Procs : Room(r, "send") = call.p * N /\ Room(r, "recv") = call.p * N
  BY CallTypes, UserRooms DEF Is
<1>2. \A r \in Procs : BlocksFit(sendbuf[r], N) /\ BlocksFit(recvbuf[r], N)
  BY <1>1, Names, WholeRoom
<1>3. Within(Alltoallv(sendbuf, recvbuf, Blocks(N), Strided(N), Strided(N)))
  BY <1>2, AlltoallWithin
<1> QED BY <1>3, Steady1 DEF Alltoall_as_Alltoallv

LEMMA BcastAllgathervSteady ==
  ASSUME call \in Calls, Is("Bcast", 1) PROVE Steady(Bcast_as_Allgatherv)
<1>1. /\ N \in Nat /\ Root \in Procs /\ Procs \subseteq Nat
      /\ \A r \in Procs : Room(r, "recv") = N
  BY CallTypes, UserRooms DEF Is
<1> DEFINE counts == [r \in Procs |-> IF r = Root THEN N ELSE 0]
           offs == [r \in Procs |-> IF r > Root THEN N ELSE 0]
<1>2. \A r \in Procs : /\ counts[r] \in Int /\ offs[r] \in Int
                       /\ offs[r] + counts[r] <= N
  BY <1>1
<1>3. Bcast_as_Allgatherv = << AllgathervInPlace(recvbuf, counts, offs) >>
  BY DEF Bcast_as_Allgatherv
<1> HIDE DEF counts, offs
<1>4. \A q, r \in Procs : Fit(Plus(recvbuf[r], offs[q]), counts[q])
  BY <1>1, <1>2, Names, Further
<1>5. Within(AllgathervInPlace(recvbuf, counts, offs)) BY <1>4, AllgathervInPlaceWithin
<1> QED BY <1>3, <1>5, Steady1

LEMMA BcastPaddedSteady ==
  ASSUME call \in Calls, Is("Bcast", 2) PROVE Steady(Bcast_as_Scatter_Allgather)
<1>1. /\ N \in Nat /\ Root \in Procs
      /\ \A r \in Procs : /\ Room(r, "recv") = N
                          /\ Room(r, "msg1") = Padded /\ Room(r, "msg2") = Chunk
  BY CallTypes, UserRooms, RoomsPadded DEF Is
<1>2. \A r \in Procs : /\ Fit(recvbuf[r], N)
                       /\ BlocksFit(aux_buf1[r], Chunk) /\ Fit(aux_buf1[r], N)
                       /\ Fit(aux_buf2[r], Chunk)
  BY <1>1, Names, BlockRoom, PaddedRooms
<1>3. Within(CopyIn({Root}, recvbuf)) BY <1>1, <1>2, LocalWithin DEF CopyIn
<1>4. Within(Scatter(aux_buf1, aux_buf2, Chunk, Root)) BY <1>1, <1>2, ScatterWithin
<1>5. Within(Allgather(aux_buf2, aux_buf1, Chunk)) BY <1>2, AllgatherWithin
<1>6. Within(memcpy(Procs \ {Root}, recvbuf, aux_buf1, N)) BY <1>2, LocalWithin
<1> QED BY <1>3, <1>4, <1>5, <1>6, Steady4 DEF Bcast_as_Scatter_Allgather

(* The receive buffer of the root, and scratch buffers of the same size.   *)
LEMMA RecvAtRootIs ==
  ASSUME NEW r \in Procs
  PROVE  RecvAtRoot[r] = IF r = Root THEN recvbuf[r] ELSE aux_buf1[r]
BY DEF RecvAtRoot

LEMMA GatherAllgatherSteady ==
  ASSUME call \in Calls, Is("Gather", 1) PROVE Steady(Gather_as_Allgather)
<1>1. /\ N \in Nat /\ Root \in Procs
      /\ \A r \in Procs : /\ Room(r, "send") = N /\ Room(r, "msg1") = call.p * N
                          /\ r = Root => Room(r, "recv") = call.p * N
  BY CallTypes, UserRooms, RoomsAll DEF Is
<1>2. \A r \in Procs : /\ Fit(sendbuf[r], N) /\ BlocksFit(aux_buf1[r], N)
                       /\ r = Root => BlocksFit(recvbuf[r], N)
  BY <1>1, Names, BlockRoom, WholeRoom
<1>3. \A r \in Procs : Fit(sendbuf[r], N) /\ BlocksFit(RecvAtRoot[r], N)
  BY <1>2, RecvAtRootIs
<1>4. Within(Allgather(sendbuf, RecvAtRoot, N)) BY <1>3, AllgatherWithin
<1> QED BY <1>4, Steady1 DEF Gather_as_Allgather

LEMMA GathervSteady ==
  ASSUME call \in Calls, Is("Gather", 2) PROVE Steady(Gather_as_Gatherv)
<1>1. /\ N \in Nat /\ Root \in Procs
      /\ \A r \in Procs : Room(r, "send") = N
      /\ Room(Root, "recv") = call.p * N
  BY CallTypes, UserRooms DEF Is
<1>2. \A r \in Procs : Fit(sendbuf[r], N) BY <1>1, Names, BlockRoom
<1>3. BlocksFit(recvbuf[Root], N) BY <1>1, Names, WholeRoom
<1>4. Within(Gatherv(sendbuf, recvbuf, Blocks(N), Strided(N), Root))
  BY <1>2, <1>3, GatherWithin
<1> QED BY <1>4, Steady1 DEF Gather_as_Gatherv

LEMMA GatherReduceSteady ==
  ASSUME call \in Calls, Is("Gather", 3) PROVE Steady(Gather_as_Reduce)
<1>1. /\ N \in Nat /\ Root \in Procs
      /\ \A r \in Procs : Room(r, "send") = N /\ Room(r, "msg1") = call.p * N
      /\ Room(Root, "recv") = call.p * N
  BY CallTypes, UserRooms, RoomsAll DEF Is
<1>2. Fit(recvbuf[Root], call.p * N) BY <1>1, Names, WholeRoom
<1>3. Steady(OwnBlock) /\ \A r \in Procs : Fit(aux_buf1[r], call.p * N)
  BY <1>1, OwnBlockSteady
<1>4. Within(Reduce(aux_buf1, recvbuf, call.p * N, Root)) BY <1>2, <1>3, ReduceWithin
<1>5. Steady(<< Reduce(aux_buf1, recvbuf, call.p * N, Root) >>) BY <1>4, Steady1
<1> QED BY <1>3, <1>5, SteadyConcat DEF Gather_as_Reduce

LEMMA ReduceAllreduceSteady ==
  ASSUME call \in Calls, Is("Reduce", 1) PROVE Steady(Reduce_as_Allreduce)
<1>1. /\ N \in Nat /\ Root \in Procs
      /\ \A r \in Procs : /\ Room(r, "send") = N /\ Room(r, "msg1") = N
                          /\ r = Root => Room(r, "recv") = N
  BY CallTypes, UserRooms, RoomsReduce DEF Is
<1>2. \A r \in Procs : /\ Fit(sendbuf[r], N) /\ Fit(aux_buf1[r], N)
                       /\ r = Root => Fit(recvbuf[r], N)
  BY <1>1, Names, BlockRoom
<1>3. \A r \in Procs : Fit(sendbuf[r], N) /\ Fit(RecvAtRoot[r], N)
  BY <1>2, RecvAtRootIs
<1>4. Within(Allreduce(sendbuf, RecvAtRoot, N)) BY <1>3, AllreduceWithin
<1> QED BY <1>4, Steady1 DEF Reduce_as_Allreduce

LEMMA ReducePaddedSteady ==
  ASSUME call \in Calls, Is("Reduce", 2)
  PROVE  Steady(Reduce_as_Reduce_scatter_block_Gather)
<1>1. /\ N \in Nat /\ Chunk \in Nat /\ Root \in Procs
      /\ \A r \in Procs : /\ Room(r, "send") = N
                          /\ Room(r, "msg1") = Padded /\ Room(r, "msg2") = Chunk
      /\ Room(Root, "recv") = N
  BY CallTypes, ChunksFill, UserRooms, RoomsPadded DEF Is
<1>2. \A r \in Procs : /\ Fit(sendbuf[r], N)
                       /\ BlocksFit(aux_buf1[r], Chunk) /\ Fit(aux_buf1[r], N)
                       /\ Fit(aux_buf2[r], Chunk)
  BY <1>1, Names, BlockRoom, PaddedRooms
<1>3. Fit(recvbuf[Root], N) BY <1>1, Names, BlockRoom
<1>4. Within(CopyIn(Procs, sendbuf)) BY <1>2, LocalWithin DEF CopyIn
<1>5. Within(FillPadding) BY <1>1, PaddingWithin
<1>6. Within(Reduce_scatter_block(aux_buf1, aux_buf2, Chunk))
  BY <1>1, <1>2, ReduceScatterBlockWithin
<1>7. Within(Gather(aux_buf2, aux_buf1, Chunk, Root)) BY <1>1, <1>2, GatherWithin
<1>8. Within(memcpy({Root}, recvbuf, aux_buf1, N)) BY <1>1, <1>2, <1>3, LocalWithin
<1> QED BY <1>4, <1>5, <1>6, <1>7, <1>8, Steady5
        DEF Reduce_as_Reduce_scatter_block_Gather

LEMMA ReducePartsSteady ==
  ASSUME call \in Calls, Is("Reduce", 3)
  PROVE  Steady(Reduce_as_Reduce_scatter_Gatherv)
<1> DEFINE first == Scripts!RecvCount(N, call.p, 0)
<1>1. /\ N \in Nat /\ Root \in Procs /\ first \in Nat
      /\ \A r \in Procs : Room(r, "send") = N /\ Room(r, "msg1") = first
      /\ Room(Root, "recv") = N
      /\ \A r \in Procs : /\ recvcounts[r] \in Nat /\ displs[r] \in Nat
                          /\ displs[r] + recvcounts[r] <= N /\ recvcounts[r] <= first
                          /\ displs[r] = Before(recvcounts, r)
  BY CallTypes, UserRooms, DealtOut, RoomsParts DEF Is
<1> HIDE DEF first
<1>2. \A q, r \in Procs : Fit(Plus(sendbuf[q], displs[r]), recvcounts[r])
  BY <1>1, Names, Further
<1>3. \A r \in Procs : Fit(Plus(recvbuf[Root], displs[r]), recvcounts[r])
  BY <1>1, Names, Further
<1>4. \A r \in Procs : Fit(aux_buf1[r], recvcounts[r]) BY <1>1, Names, AtStart
<1>5. \A q, r \in Procs : Fit(Plus(sendbuf[q], Before(recvcounts, r)), recvcounts[r])
  BY <1>1, <1>2
<1>6. Within(Reduce_scatter(sendbuf, aux_buf1, recvcounts))
  BY <1>4, <1>5, ReduceScatterWithin
<1>7. MovesFit(GathervMoves(aux_buf1, recvbuf, recvcounts, displs, Root))
  BY <1>3, <1>4, GathervFits
<1>8. Within(Gatherv(aux_buf1, recvbuf, recvcounts, displs, Root))
  BY <1>7, WithinByMoves DEF Gatherv
<1> QED BY <1>6, <1>8, Steady2 DEF Reduce_as_Reduce_scatter_Gatherv

LEMMA ReduceOneSteady ==
  ASSUME call \in Calls, Is("Reduce", 4) PROVE Steady(Reduce_as_Reduce_scatter)
<1>1. /\ N \in Nat /\ Root \in Procs
      /\ \A r \in Procs : /\ Room(r, "send") = N
                          /\ Room(r, "recv") = IF r = Root THEN N ELSE 0
  BY CallTypes, UserRooms DEF Is, Room, RecvLen, Rooted
<1> DEFINE counts == [r \in Procs |-> IF r = Root THEN N ELSE 0]
<1>2. \A r \in Procs : counts[r] = IF r = Root THEN N ELSE 0 OBVIOUS
<1>3. \A r \in Procs : Before(counts, r) = IF r > Root THEN N ELSE 0 BY <1>1, BeforeOne
<1>4. Reduce_as_Reduce_scatter = << Reduce_scatter(sendbuf, recvbuf, counts) >>
  BY DEF Reduce_as_Reduce_scatter
<1> HIDE DEF counts
<1>5. \A r \in Procs : Before(counts, r) \in Int /\ Before(counts, r) + counts[r] <= N
  <2>1. Procs \subseteq Nat BY CallTypes
  <2> QED BY <1>1, <1>2, <1>3, <2>1
<1>6. \A q, r \in Procs : Fit(Plus(sendbuf[q], Before(counts, r)), counts[r])
  BY <1>1, <1>5, Names, Further
<1>7. \A r \in Procs : counts[r] \in Int /\ counts[r] <= Room(r, "recv") BY <1>1, <1>2
<1>8. \A r \in Procs : Fit(recvbuf[r], counts[r]) BY <1>7, Names, AtStart
<1>9. Within(Reduce_scatter(sendbuf, recvbuf, counts)) BY <1>6, <1>8, ReduceScatterWithin
<1> QED BY <1>4, <1>9, Steady1

LEMMA ReduceScatterRooms ==
  ASSUME call \in Calls, call.coll = "Reduce_scatter_block"
  PROVE  \A r \in Procs : /\ Fit(sendbuf[r], call.p * N) /\ BlocksFit(sendbuf[r], N)
                          /\ Fit(recvbuf[r], N)
<1>1. /\ N \in Nat
      /\ \A r \in Procs : Room(r, "send") = call.p * N /\ Room(r, "recv") = N
  BY CallTypes, UserRooms
<1> QED BY <1>1, Names, BlockRoom, WholeRoom

LEMMA ReduceScatterSteady ==
  ASSUME call \in Calls, Is("Reduce_scatter_block", 1)
  PROVE  Steady(Reduce_scatter_block_as_Reduce_Scatter)
<1>1. /\ N \in Nat /\ call.coll = "Reduce_scatter_block"
      /\ \A r \in Procs : Room(r, "msg1") = call.p * N
  BY CallTypes, UserRooms, RoomsAll DEF Is
<1>2. \A r \in Procs : /\ Fit(sendbuf[r], call.p * N) /\ Fit(recvbuf[r], N)
                       /\ Fit(aux_buf1[r], call.p * N) /\ BlocksFit(aux_buf1[r], N)
  BY <1>1, Names, WholeRoom, ReduceScatterRooms
<1>3. Within(Reduce(sendbuf, aux_buf1, call.p * N, mockup_root_rank))
  BY <1>2, RootType, ReduceWithin
<1>4. Within(Scatter(aux_buf1, recvbuf, N, mockup_root_rank))
  BY <1>2, RootType, ScatterWithin
<1> QED BY <1>3, <1>4, Steady2 DEF Reduce_scatter_block_as_Reduce_Scatter

LEMMA ReduceScattervSteady ==
  ASSUME call \in Calls, Is("Reduce_scatter_block", 2)
  PROVE  Steady(Reduce_scatter_block_as_Reduce_scatter)
<1>1. N \in Nat /\ call.coll = "Reduce_scatter_block" BY CallTypes DEF Is
<1>2. Within(Reduce_scatter(sendbuf, recvbuf, Blocks(N)))
  BY <1>1, ReduceScatterRooms, ReduceScatterBlockWithin
<1> QED BY <1>2, Steady1 DEF Reduce_scatter_block_as_Reduce_scatter

LEMMA ReduceScatterAllreduceSteady ==
  ASSUME call \in Calls, Is("Reduce_scatter_block", 3)
  PROVE  Steady(Reduce_scatter_block_as_Allreduce)
<1>1. /\ N \in Nat /\ call.coll = "Reduce_scatter_block"
      /\ \A r \in Procs : Room(r, "msg1") = call.p * N
  BY CallTypes, UserRooms, RoomsAll DEF Is
<1>2. \A r \in Procs : /\ Fit(sendbuf[r], call.p * N) /\ Fit(recvbuf[r], N)
                       /\ Fit(aux_buf1[r], call.p * N) /\ BlocksFit(aux_buf1[r], N)
  BY <1>1, Names, WholeRoom, ReduceScatterRooms
<1> DEFINE own == [r \in Procs |-> Plus(aux_buf1[r], r * N)]
<1>3. \A r \in Procs : Fit(own[r], N) BY <1>2 DEF BlocksFit
<1>4. Reduce_scatter_block_as_Allreduce
        = << Allreduce(sendbuf, aux_buf1, call.p * N), memcpy(Procs, recvbuf, own, N) >>
  BY DEF Reduce_scatter_block_as_Allreduce, Shifted
<1> HIDE DEF own
<1>5. Within(Allreduce(sendbuf, aux_buf1, call.p * N)) BY <1>2, AllreduceWithin
<1>6. Within(memcpy(Procs, recvbuf, own, N)) BY <1>2, <1>3, LocalWithin
<1> QED BY <1>4, <1>5, <1>6, Steady2

LEMMA ScanSteady ==
  ASSUME call \in Calls, Is("Scan", 1) PROVE Steady(Scan_as_Exscan_Reduce_local)
<1>1. /\ N \in Nat /\ 0 \in Procs
      /\ \A r \in Procs : Room(r, "send") = N /\ Room(r, "recv") = N
  BY CallTypes, UserRooms DEF Is
<1>2. \A r \in Procs : Fit(sendbuf[r], N) /\ Fit(recvbuf[r], N) BY <1>1, Names, BlockRoom
<1>3. Within(Exscan(sendbuf, recvbuf, N)) BY <1>2, ExscanWithin
<1>4. Within(memcpy({0}, recvbuf, sendbuf, N)) BY <1>1, <1>2, LocalWithin
<1>5. Within(Reduce_local(Procs \ {0}, sendbuf, recvbuf, N)) BY <1>2, LocalWithin
<1> QED BY <1>3, <1>4, <1>5, Steady3 DEF Scan_as_Exscan_Reduce_local

LEMMA ScatterBcastSteady ==
  ASSUME call \in Calls, Is("Scatter", 1) PROVE Steady(Scatter_as_Bcast)
<1>1. /\ N \in Nat /\ Root \in Procs
      /\ \A r \in Procs : /\ Room(r, "recv") = N /\ Room(r, "msg1") = call.p * N
                          /\ r = Root => Room(r, "send") = call.p * N
  BY CallTypes, UserRooms, RoomsAll DEF Is
<1> DEFINE bcast_buf == [r \in Procs |-> IF r = Root THEN sendbuf[r] ELSE aux_buf1[r]]
           own == [r \in Procs |-> Plus(bcast_buf[r], r * N)]
<1>2. \A r \in Procs : own[r] = Plus(bcast_buf[r], r * N) OBVIOUS
<1>3. \A r \in Procs : bcast_buf[r] = IF r = Root THEN sendbuf[r] ELSE aux_buf1[r] OBVIOUS
<1>4. Scatter_as_Bcast
        = << Bcast(bcast_buf, call.p * N, Root), memcpy(Procs, recvbuf, own, N) >>
  BY DEF Scatter_as_Bcast, Shifted
<1> HIDE DEF own, bcast_buf
<1>5. \A r \in Procs : /\ Fit(recvbuf[r], N)
                       /\ Fit(aux_buf1[r], call.p * N) /\ BlocksFit(aux_buf1[r], N)
                       /\ r = Root => /\ Fit(sendbuf[r], call.p * N)
                                      /\ BlocksFit(sendbuf[r], N)
  BY <1>1, Names, BlockRoom, WholeRoom
<1>6. \A r \in Procs : Fit(bcast_buf[r], call.p * N) /\ BlocksFit(bcast_buf[r], N)
  BY <1>3, <1>5
<1>7. \A r \in Procs : Fit(own[r], N) BY <1>2, <1>6 DEF BlocksFit
<1>8. Within(Bcast(bcast_buf, call.p * N, Root)) BY <1>1, <1>6, BcastWithin
<1>9. Within(memcpy(Procs, recvbuf, own, N)) BY <1>5, <1>7, LocalWithin
<1> QED BY <1>4, <1>8, <1>9, Steady2

LEMMA ScattervSteady ==
  ASSUME call \in Calls, Is("Scatter", 2) PROVE Steady(Scatter_as_Scatterv)
<1>1. /\ N \in Nat /\ Root \in Procs /\ \A r \in Procs : Room(r, "recv") = N
      /\ Room(Root, "send") = call.p * N
  BY CallTypes, UserRooms DEF Is
<1>2. \A r \in Procs : Fit(recvbuf[r], N) BY <1>1, Names, BlockRoom
<1>3. BlocksFit(sendbuf[Root], N) BY <1>1, Names, WholeRoom
<1>4. Within(Scatterv(sendbuf, recvbuf, Blocks(N), Strided(N), Root))
  BY <1>2, <1>3, ScatterWithin
<1> QED BY <1>4, Steady1 DEF Scatter_as_Scatterv

(* Every mock-up, at every step.                                           *)
LEMMA StepsSteady == ASSUME call \in Calls PROVE Steady(Steps)
<1>1. CASE Is("Allgather", 1)
  <2>1. Steps = Allgather_as_Allgatherv BY <1>1 DEF Is, Steps
  <2> QED BY <1>1, <2>1, AllgathervSteady
<1>2. CASE Is("Allgather", 2)
  <2>1. Steps = Allgather_as_Allreduce BY <1>2 DEF Is, Steps
  <2> QED BY <1>2, <2>1, AllgatherAllreduceSteady
<1>3. CASE Is("Allgather", 3)
  <2>1. Steps = Allgather_as_Alltoall BY <1>3 DEF Is, Steps
  <2> QED BY <1>3, <2>1, AllgatherAlltoallSteady
<1>4. CASE Is("Allgather", 4)
  <2>1. Steps = Allgather_as_GatherBcast BY <1>4 DEF Is, Steps
  <2> QED BY <1>4, <2>1, GatherBcastSteady
<1>5. CASE Is("Allreduce", 1)
  <2>1. Steps = Allreduce_as_Reduce_Bcast BY <1>5 DEF Is, Steps
  <2> QED BY <1>5, <2>1, ReduceBcastSteady
<1>6. CASE Is("Allreduce", 2)
  <2>1. Steps = Allreduce_as_Reduce_scatter_block_Allgather BY <1>6 DEF Is, Steps
  <2> QED BY <1>6, <2>1, AllreducePaddedSteady
<1>7. CASE Is("Allreduce", 3)
  <2>1. Steps = Allreduce_as_Reduce_scatter_Allgatherv BY <1>7 DEF Is, Steps
  <2> QED BY <1>7, <2>1, AllreducePartsSteady
<1>8. CASE Is("Alltoall", 1)
  <2>1. Steps = Alltoall_as_Alltoallv BY <1>8 DEF Is, Steps
  <2> QED BY <1>8, <2>1, AlltoallvSteady
<1>9. CASE Is("Bcast", 1)
  <2>1. Steps = Bcast_as_Allgatherv BY <1>9 DEF Is, Steps
  <2> QED BY <1>9, <2>1, BcastAllgathervSteady
<1>10. CASE Is("Bcast", 2)
  <2>1. Steps = Bcast_as_Scatter_Allgather BY <1>10 DEF Is, Steps
  <2> QED BY <1>10, <2>1, BcastPaddedSteady
<1>11. CASE Is("Gather", 1)
  <2>1. Steps = Gather_as_Allgather BY <1>11 DEF Is, Steps
  <2> QED BY <1>11, <2>1, GatherAllgatherSteady
<1>12. CASE Is("Gather", 2)
  <2>1. Steps = Gather_as_Gatherv BY <1>12 DEF Is, Steps
  <2> QED BY <1>12, <2>1, GathervSteady
<1>13. CASE Is("Gather", 3)
  <2>1. Steps = Gather_as_Reduce BY <1>13 DEF Is, Steps
  <2> QED BY <1>13, <2>1, GatherReduceSteady
<1>14. CASE Is("Reduce", 1)
  <2>1. Steps = Reduce_as_Allreduce BY <1>14 DEF Is, Steps
  <2> QED BY <1>14, <2>1, ReduceAllreduceSteady
<1>15. CASE Is("Reduce", 2)
  <2>1. Steps = Reduce_as_Reduce_scatter_block_Gather BY <1>15 DEF Is, Steps
  <2> QED BY <1>15, <2>1, ReducePaddedSteady
<1>16. CASE Is("Reduce", 3)
  <2>1. Steps = Reduce_as_Reduce_scatter_Gatherv BY <1>16 DEF Is, Steps
  <2> QED BY <1>16, <2>1, ReducePartsSteady
<1>17. CASE Is("Reduce", 4)
  <2>1. Steps = Reduce_as_Reduce_scatter BY <1>17 DEF Is, Steps
  <2> QED BY <1>17, <2>1, ReduceOneSteady
<1>18. CASE Is("Reduce_scatter_block", 1)
  <2>1. Steps = Reduce_scatter_block_as_Reduce_Scatter BY <1>18 DEF Is, Steps
  <2> QED BY <1>18, <2>1, ReduceScatterSteady
<1>19. CASE Is("Reduce_scatter_block", 2)
  <2>1. Steps = Reduce_scatter_block_as_Reduce_scatter BY <1>19 DEF Is, Steps
  <2> QED BY <1>19, <2>1, ReduceScattervSteady
<1>20. CASE Is("Reduce_scatter_block", 3)
  <2>1. Steps = Reduce_scatter_block_as_Allreduce BY <1>20 DEF Is, Steps
  <2> QED BY <1>20, <2>1, ReduceScatterAllreduceSteady
<1>21. CASE Is("Scan", 1)
  <2>1. Steps = Scan_as_Exscan_Reduce_local BY <1>21 DEF Is, Steps
  <2> QED BY <1>21, <2>1, ScanSteady
<1>22. CASE Is("Scatter", 1)
  <2>1. Steps = Scatter_as_Bcast BY <1>22 DEF Is, Steps
  <2> QED BY <1>22, <2>1, ScatterBcastSteady
<1>23. CASE Is("Scatter", 2)
  <2>1. Steps = Scatter_as_Scatterv BY <1>23 DEF Is, Steps
  <2> QED BY <1>23, <2>1, ScattervSteady
<1> QED BY Selections, <1>1, <1>2, <1>3, <1>4, <1>5, <1>6, <1>7, <1>8, <1>9, <1>10, <1>11,
           <1>12, <1>13, <1>14,
        <1>15, <1>16, <1>17, <1>18, <1>19, <1>20, <1>21, <1>22, <1>23

-------------------------------------------------------------------------------
(* Buffers keep their length.                                              *)

LEMMA MsgLenNat == ASSUME call \in Calls PROVE MsgLen(1) \in Nat /\ MsgLen(2) \in Nat
<1>1. /\ call.p * N \in Nat /\ N \in Nat /\ Padded \in Nat /\ Chunk \in Nat
      /\ Scripts!RecvCount(N, call.p, 0) \in Nat
  BY Elements, ChunksFill, DealtOut
<1> QED BY <1>1, Selections, RoomsNone, RoomsAll, RoomsPadded, RoomsReduce, RoomsParts

LEMMA RoomNat ==
  ASSUME call \in Calls, NEW r \in Procs, NEW b \in Buffers PROVE Room(r, b) \in Nat
<1>1. call.p * N \in Nat /\ N \in Nat BY Elements
<1>2. call.coll \in Scripts!Collectives BY CallTypes
<1>3. SendLen(r) \in Nat BY <1>1, <1>2 DEF SendLen, Scripts!Collectives
<1>4. RecvLen(r) \in Nat BY <1>1, <1>2 DEF RecvLen, Scripts!Collectives
<1> QED BY <1>3, <1>4, MsgLenNat DEF Room, Buffers

LEMMA Length ==
  ASSUME NEW n \in Nat, NEW f, f = [k \in 1..n |-> f[k]] PROVE Len(f) = n
<1> DEFINE T == {f[k] : k \in 1..n}
<1>1. f \in [1..n -> T] OBVIOUS
<1> HIDE DEF T
<1> QED BY <1>1

Sized(b, n) == b = [k \in 1..n |-> b[k]]

IInv == /\ call \in Calls
        /\ step \in Nat
        /\ \A r \in Procs, b \in Buffers : Sized(mem[r][b], Room(r, b))

LEMMA InitSized == Init => IInv
<1> SUFFICES ASSUME Init PROVE IInv
  OBVIOUS
<1>1. call \in Calls /\ step \in Nat BY DEF Init
<1>2. ASSUME NEW r \in Procs PROVE mem[r] = Initial(r) BY DEF Init
<1>3. \A r, n : Sized(Inputs(r, n), n) BY DEF Sized, Inputs
<1>4. \A n : Sized(Unwritten(n), n) BY DEF Sized, Unwritten
<1>5. ASSUME NEW r \in Procs
      PROVE  /\ Sized(mem[r]["send"], Room(r, "send"))
             /\ Sized(mem[r]["recv"], Room(r, "recv"))
             /\ Sized(mem[r]["msg1"], Room(r, "msg1"))
             /\ Sized(mem[r]["msg2"], Room(r, "msg2"))
  <2> DEFINE recv == IF call.coll = "Bcast" /\ Rooted(r) THEN Inputs(r, N)
                     ELSE Unwritten(RecvLen(r))
  <2>1. mem[r] = [send |-> Inputs(r, SendLen(r)), recv |-> recv,
                  msg1 |-> Unwritten(MsgLen(1)), msg2 |-> Unwritten(MsgLen(2))]
    BY <1>2, Zenon DEF Initial
  <2>2. call.coll = "Bcast" => RecvLen(r) = N BY DEF RecvLen
  <2>3. Sized(recv, RecvLen(r)) BY <1>3, <1>4, <2>2
  <2> HIDE DEF recv
  <2>4. /\ mem[r]["send"] = Inputs(r, SendLen(r)) /\ mem[r]["recv"] = recv
        /\ mem[r]["msg1"] = Unwritten(MsgLen(1)) /\ mem[r]["msg2"] = Unwritten(MsgLen(2))
    BY <2>1
  <2> QED BY <1>3, <1>4, <2>3, <2>4 DEF Room
<1> QED BY <1>1, <1>5 DEF IInv, Buffers

LEMMA NextSized == IInv /\ [Next]_vars => IInv'
<1> SUFFICES ASSUME IInv, [Next]_vars PROVE IInv'
  OBVIOUS
<1>1. call' = call /\ (step' = step \/ step' = step + 1) BY DEF Next, Proceed, vars
<1>2. call \in Calls /\ step \in Nat
      /\ \A r \in Procs, b \in Buffers : Sized(mem[r][b], Room(r, b))
  BY DEF IInv
<1>3. Procs' = Procs BY <1>1 DEF Procs
<1>4. \A r, b : Room(r, b)' = Room(r, b)
  BY <1>1 DEF Room, SendLen, RecvLen, MsgLen, Rooted, N, Root
<1>5. ASSUME NEW r \in Procs, NEW b \in Buffers PROVE Sized(mem'[r][b], Room(r, b))
  <2>1. CASE mem' = mem BY <1>2, <2>1
  <2>2. ASSUME NEW moves, mem' = Done(mem, moves) PROVE Sized(mem'[r][b], Room(r, b))
    <3> DEFINE here == {v \in moves : v.to.rank = r /\ v.to.buf = b}
               on(k) == {v \in here : k - v.to.at \in 1 .. v.n}
               new(k) == IF on(k) = {} THEN mem[r][b][k]
                         ELSE LET v == CHOOSE v \in on(k) : TRUE
                              IN  Reduction(mem, v.of, k - v.to.at)
    <3>1. mem'[r][b] = IF here = {} THEN mem[r][b]
                       ELSE [k \in DOMAIN mem[r][b] |-> new(k)]
      BY <2>2 DEF Done
    <3> HIDE DEF here, new
    <3>2. DOMAIN mem[r][b] = 1 .. Room(r, b) BY <1>2 DEF Sized
    <3> QED BY <1>2, <3>1, <3>2 DEF Sized
  <2> QED BY <2>1, <2>2 DEF Next, Proceed, vars
<1>6. call' \in Calls /\ step' \in Nat BY <1>1, <1>2
<1> QED BY <1>3, <1>4, <1>5, <1>6 DEF IInv

LEMMA SizedInBounds == IInv => InBounds
<1> SUFFICES ASSUME IInv, step < Len(Steps) PROVE
      \A v \in Steps[step + 1].moves :
        \A place \in {v.to} \cup Range(v.of) :
          place.at + v.n <= Len(mem[place.rank][place.buf])
  BY DEF InBounds
<1>1. call \in Calls /\ step \in Nat
      /\ \A r \in Procs, b \in Buffers : Sized(mem[r][b], Room(r, b))
  BY DEF IInv
<1>2. PICK S : Steps \in Seq(S) /\ \A x \in S : Within(x) BY <1>1, StepsSteady DEF Steady
<1>3. Within(Steps[step + 1])
  <2>1. step + 1 \in 1 .. Len(Steps) BY <1>1, <1>2
  <2> QED BY <1>2, <2>1
<1>4. ASSUME NEW place, NEW n, Fit(place, n)
      PROVE  place.at + n <= Len(mem[place.rank][place.buf])
  <2>1. place.rank \in Procs /\ place.buf \in Buffers BY <1>4 DEF Fit, Places
  <2>2. Len(mem[place.rank][place.buf]) = Room(place.rank, place.buf)
    BY <1>1, <2>1, RoomNat, Length DEF Sized
  <2> QED BY <1>4, <2>2 DEF Fit
<1> QED BY <1>3, <1>4 DEF Within

(* No mock-up reads or writes past the end of a buffer, whatever the       *)
(* number of processes, the count and the root: neither of one that the    *)
(* user passes, which may not be there on every process, nor of one that   *)
(* it has asked the buffer manager for, in the sizes of the grab_*_buffer  *)
(* calls in src/src/collectives.                                           *)
THEOREM NeverOutOfBounds == Spec => []InBounds
<1>1. IInv => InBounds BY SizedInBounds
<1>2. Init => IInv BY InitSized
<1>3. IInv /\ [Next]_vars => IInv' BY NextSized
<1> QED BY <1>1, <1>2, <1>3, PTL DEF Spec

================================================================================
