-------------------------- MODULE InterceptionProofs --------------------------
(***************************************************************************)
(* Every mock-up keeps the discipline that the buffer manager relies on.   *)
(* So the scratch buffers of a mock-up are its own, for any number of      *)
(* processes, any program, any profiles and any limits. And what becomes   *)
(* of the algorithm that a wrapper has chosen: the trace of the CLI        *)
(* library names what ran; where the limits let a mock-up have all its     *)
(* buffers or none, one that gives up leaves nothing in use, and the       *)
(* default implementation replaces only what needs too much.  And what the *)
(* mock-ups are of the buffer manager, its lawful users, and what it is to *)
(* them: the scratch bytes of a mock-up are its own.                       *)
(***************************************************************************)
EXTENDS Lending, FiniteSetTheorems, SequenceTheorems, TLAPS

(* A script takes the first buffer of an area before the second, and gives *)
(* an area back only while it holds the first buffer.  It takes a buffer   *)
(* once, its first one before anything else, holds nothing in the end,     *)
(* calls MPI in between, and comes to an end.                              *)
Disciplined(s) ==
  /\ s \in Seq(Instructions)
  /\ Len(s) \in 1..LongestScript
  /\ \A i, j \in 1..Len(s) :
       s[i].op = "grab" /\ s[j].op = "grab" /\ s[i].buf = s[j].buf => i = j
  /\ \A i \in 1..Len(s) : s[i].op = "grab" => s[1].op = "grab"
  /\ HeldAfter(s, Len(s)) = {}
  /\ \E i \in 1..Len(s) : s[i].op \in {"call", "mpi"}
  /\ \A i \in 1..Len(s) :
       s[i].op = "grab" /\ Slot(s[i].buf) = 2
         => First(Kind(s[i].buf)) \in HeldAfter(s, i - 1)
  /\ \A i \in 1..Len(s) :
       s[i].op = "release" => First(s[i].kind) \in HeldAfter(s, i - 1)

(* Instructions that leave the scratch memory alone. *)
Work == {i \in Instructions : i.op \in {"call", "mpi"}}

-------------------------------------------------------------------------------
(* How the buffers held change from one instruction to the next.           *)

LEMMA BufFacts ==
  \A k \in Kinds : /\ First(k) \in Bufs /\ Second(k) \in Bufs
                   /\ Kind(First(k)) = k /\ Kind(Second(k)) = k
                   /\ Slot(First(k)) = 1 /\ Slot(Second(k)) = 2
                   /\ \A b \in Bufs : Kind(b) = k => b = First(k) \/ b = Second(k)
BY DEF Bufs, Kinds, Slots, First, Second, Kind, Slot

LEMMA BufKinds == \A b \in Bufs : Kind(b) \in Kinds /\ Slot(b) \in {1, 2}
BY DEF Bufs, Slots, Kind, Slot

(* Nothing is held before the first instruction. *)
LEMMA HeldAtStart == \A s : HeldAfter(s, 0) = {}
BY DEF HeldAfter

(* A grab adds its buffer. *)
LEMMA HeldAfterGrab ==
  ASSUME NEW s, NEW n \in Nat \ {0}, s[n].op = "grab", s[n].buf \in Bufs
  PROVE  HeldAfter(s, n) = HeldAfter(s, n - 1) \cup {s[n].buf}
BY DEF HeldAfter

(* A release takes away the buffers of its area. *)
LEMMA HeldAfterRelease ==
  ASSUME NEW s, NEW n \in Nat \ {0}, s[n].op = "release"
  PROVE  HeldAfter(s, n) = {b \in HeldAfter(s, n - 1) : Kind(b) # s[n].kind}
BY DEF HeldAfter

(* Any other instruction changes nothing. *)
LEMMA HeldAfterWork ==
  ASSUME NEW s, NEW n \in Nat \ {0}, s[n].op \notin {"grab", "release"}
  PROVE  HeldAfter(s, n) = HeldAfter(s, n - 1)
BY DEF HeldAfter

-------------------------------------------------------------------------------
(* Constructors.                                                           *)

LEMMA GrabType ==
  ASSUME NEW b \in Bufs, NEW size \in Nat
  PROVE  Grab(b, size) \in Instructions /\ Grab(b, size).op = "grab" /\ Grab(b, size).buf = b
BY DEF Grab, Instructions

LEMMA ReleaseType ==
  ASSUME NEW k \in Kinds
  PROVE  /\ Release(k) \in Instructions /\ Release(k).op = "release"
         /\ Release(k).kind = k
BY DEF Release, Instructions

LEMMA CallType ==
  ASSUME NEW coll \in Collectives, NEW n \in Nat, NEW e \in Nat \ {0}
  PROVE  Call(coll, n, e) \in Work
BY DEF Call, Work, Instructions

LEMMA MpiType ==
  ASSUME NEW name \in Collectives \cup Helpers, NEW bytes \in Nat
  PROVE  Mpi(name, bytes) \in Work
BY DEF Mpi, Work, Instructions

-------------------------------------------------------------------------------
(* The shapes a script can have.                                           *)

LEMMA Shape1 ==
  ASSUME NEW w \in Work
  PROVE  Disciplined(<<w>>)
<1> DEFINE s == <<w>>
<1>1. Len(s) = 1 /\ s[1] = w OBVIOUS
<1>2. s \in Seq(Instructions) BY DEF Work
<1> HIDE DEF s
<1>3. w.op \in {"call", "mpi"} BY DEF Work
<1>4. HeldAfter(s, 1) = {} BY <1>1, <1>3, HeldAfterWork, HeldAtStart
<1>5. Disciplined(s) BY <1>1, <1>2, <1>3, <1>4 DEF Disciplined, LongestScript
<1> QED BY <1>5 DEF s

LEMMA Shape2 ==
  ASSUME NEW w \in Work, NEW x \in Work
  PROVE  Disciplined(<<w, x>>)
<1> DEFINE s == <<w, x>>
<1>1. Len(s) = 2 /\ s[1] = w /\ s[2] = x OBVIOUS
<1>2. s \in Seq(Instructions) BY DEF Work
<1> HIDE DEF s
<1>3. w.op \in {"call", "mpi"} /\ x.op \in {"call", "mpi"} BY DEF Work
<1>4. HeldAfter(s, 1) = {} BY <1>1, <1>3, HeldAfterWork, HeldAtStart
<1>5. HeldAfter(s, 2) = {} BY <1>1, <1>3, <1>4, HeldAfterWork
<1>6. \A i \in 1..Len(s) : s[i].op \in {"call", "mpi"} BY <1>1, <1>3
<1>7. Disciplined(s) BY <1>1, <1>2, <1>5, <1>6 DEF Disciplined, LongestScript
<1> QED BY <1>7 DEF s

LEMMA Shape3 ==
  ASSUME NEW k \in Kinds, NEW a \in Nat, NEW w \in Work
  PROVE  Disciplined(<<Grab(First(k), a), w, Release(k)>>)
<1> DEFINE g == Grab(First(k), a)
<1> DEFINE rel == Release(k)
<1>1. /\ g \in Instructions /\ g.op = "grab" /\ g.buf = First(k)
      /\ rel \in Instructions /\ rel.op = "release" /\ rel.kind = k
      /\ w \in Instructions /\ w.op \in {"call", "mpi"}
  BY GrabType, ReleaseType, BufFacts DEF Work
<1> HIDE DEF g, rel
<1> DEFINE s == <<g, w, rel>>
<1>2. Len(s) = 3 /\ s[1] = g /\ s[2] = w /\ s[3] = rel OBVIOUS
<1>3. s \in Seq(Instructions) BY <1>1
<1> HIDE DEF s
<1>4. HeldAfter(s, 1) = {First(k)}
  BY <1>1, <1>2, HeldAfterGrab, HeldAtStart, BufFacts
<1>5. HeldAfter(s, 2) = {First(k)} BY <1>1, <1>2, <1>4, HeldAfterWork
<1>6. \A i \in 1..Len(s) : i = 1 \/ i = 2 \/ i = 3 BY <1>2
<1>7. HeldAfter(s, 3) = {} BY <1>1, <1>2, <1>5, HeldAfterRelease, BufFacts
<1>8. Disciplined(s)
  BY <1>1, <1>2, <1>3, <1>5, <1>6, <1>7, BufFacts DEF Disciplined, LongestScript
<1> QED BY <1>8 DEF s, g, rel

LEMMA Shape4 ==
  ASSUME NEW k \in Kinds, NEW a \in Nat, NEW w \in Work, NEW x \in Work
  PROVE  Disciplined(<<Grab(First(k), a), w, x, Release(k)>>)
<1> DEFINE g == Grab(First(k), a)
<1> DEFINE rel == Release(k)
<1>1. /\ g \in Instructions /\ g.op = "grab" /\ g.buf = First(k)
      /\ rel \in Instructions /\ rel.op = "release" /\ rel.kind = k
      /\ w \in Instructions /\ w.op \in {"call", "mpi"}
      /\ x \in Instructions /\ x.op \in {"call", "mpi"}
  BY GrabType, ReleaseType, BufFacts DEF Work
<1> HIDE DEF g, rel
<1> DEFINE s == <<g, w, x, rel>>
<1>2. Len(s) = 4 /\ s[1] = g /\ s[2] = w /\ s[3] = x /\ s[4] = rel OBVIOUS
<1>3. s \in Seq(Instructions) BY <1>1
<1> HIDE DEF s
<1>4. HeldAfter(s, 1) = {First(k)}
  BY <1>1, <1>2, HeldAfterGrab, HeldAtStart, BufFacts
<1>5. HeldAfter(s, 2) = {First(k)} BY <1>1, <1>2, <1>4, HeldAfterWork
<1>6. HeldAfter(s, 3) = {First(k)} BY <1>1, <1>2, <1>5, HeldAfterWork
<1>7. \A i \in 1..Len(s) : i = 1 \/ i = 2 \/ i = 3 \/ i = 4 BY <1>2
<1>8. HeldAfter(s, 4) = {} BY <1>1, <1>2, <1>6, HeldAfterRelease, BufFacts
<1>9. Disciplined(s)
  BY <1>1, <1>2, <1>3, <1>6, <1>7, <1>8, BufFacts DEF Disciplined, LongestScript
<1> QED BY <1>9 DEF s, g, rel

LEMMA Shape5 ==
  ASSUME NEW k \in Kinds, NEW a \in Nat, NEW c \in Nat, NEW w \in Work
  PROVE  Disciplined(<<Grab(First(k), a), Grab(Second(k), c), w, Release(k)>>)
<1> DEFINE g == Grab(First(k), a)
<1> DEFINE h == Grab(Second(k), c)
<1> DEFINE rel == Release(k)
<1>1. /\ g \in Instructions /\ g.op = "grab" /\ g.buf = First(k)
      /\ h \in Instructions /\ h.op = "grab" /\ h.buf = Second(k)
      /\ rel \in Instructions /\ rel.op = "release" /\ rel.kind = k
      /\ w \in Instructions /\ w.op \in {"call", "mpi"}
  BY GrabType, ReleaseType, BufFacts DEF Work
<1> HIDE DEF g, h, rel
<1> DEFINE s == <<g, h, w, rel>>
<1>2. Len(s) = 4 /\ s[1] = g /\ s[2] = h /\ s[3] = w /\ s[4] = rel OBVIOUS
<1>3. s \in Seq(Instructions) BY <1>1
<1> HIDE DEF s
<1>4. HeldAfter(s, 1) = {First(k)}
  BY <1>1, <1>2, HeldAfterGrab, HeldAtStart, BufFacts
<1>5. HeldAfter(s, 2) = {First(k), Second(k)}
  BY <1>1, <1>2, <1>4, HeldAfterGrab, BufFacts
<1>6. HeldAfter(s, 3) = {First(k), Second(k)} BY <1>1, <1>2, <1>5, HeldAfterWork
<1>7. \A i \in 1..Len(s) : i = 1 \/ i = 2 \/ i = 3 \/ i = 4 BY <1>2
<1>8. HeldAfter(s, 4) = {} BY <1>1, <1>2, <1>6, HeldAfterRelease, BufFacts
<1>9. Disciplined(s)
  BY <1>1, <1>2, <1>3, <1>4, <1>6, <1>7, <1>8, BufFacts DEF Disciplined, LongestScript
<1> QED BY <1>9 DEF s, g, h, rel

LEMMA Shape6 ==
  ASSUME NEW k \in Kinds, NEW a \in Nat, NEW c \in Nat, NEW w \in Work, NEW x \in Work
  PROVE  Disciplined(<<Grab(First(k), a), Grab(Second(k), c), w, x, Release(k)>>)
<1> DEFINE g == Grab(First(k), a)
<1> DEFINE h == Grab(Second(k), c)
<1> DEFINE rel == Release(k)
<1>1. /\ g \in Instructions /\ g.op = "grab" /\ g.buf = First(k)
      /\ h \in Instructions /\ h.op = "grab" /\ h.buf = Second(k)
      /\ rel \in Instructions /\ rel.op = "release" /\ rel.kind = k
      /\ w \in Instructions /\ w.op \in {"call", "mpi"}
      /\ x \in Instructions /\ x.op \in {"call", "mpi"}
  BY GrabType, ReleaseType, BufFacts DEF Work
<1> HIDE DEF g, h, rel
<1> DEFINE s == <<g, h, w, x, rel>>
<1>2. Len(s) = 5 /\ s[1] = g /\ s[2] = h /\ s[3] = w /\ s[4] = x /\ s[5] = rel OBVIOUS
<1>3. s \in Seq(Instructions) BY <1>1
<1> HIDE DEF s
<1>4. HeldAfter(s, 1) = {First(k)}
  BY <1>1, <1>2, HeldAfterGrab, HeldAtStart, BufFacts
<1>5. HeldAfter(s, 2) = {First(k), Second(k)}
  BY <1>1, <1>2, <1>4, HeldAfterGrab, BufFacts
<1>6. HeldAfter(s, 3) = {First(k), Second(k)} BY <1>1, <1>2, <1>5, HeldAfterWork
<1>7. HeldAfter(s, 4) = {First(k), Second(k)} BY <1>1, <1>2, <1>6, HeldAfterWork
<1>8. \A i \in 1..Len(s) : i = 1 \/ i = 2 \/ i = 3 \/ i = 4 \/ i = 5 BY <1>2
<1>9. HeldAfter(s, 5) = {} BY <1>1, <1>2, <1>7, HeldAfterRelease, BufFacts
<1>10. Disciplined(s)
  BY <1>1, <1>2, <1>3, <1>4, <1>7, <1>8, <1>9, BufFacts DEF Disciplined, LongestScript
<1> QED BY <1>10 DEF s, g, h, rel

(* The one mock-up that takes buffers of both areas. *)
LEMMA Shape7 ==
  ASSUME NEW a \in Nat, NEW c \in Nat, NEW d \in Nat, NEW w \in Work, NEW x \in Work
  PROVE  Disciplined(<<Grab(First("int"), a), Grab(Second("int"), c),
                       Grab(First("msg"), d), w, x, Release("msg"), Release("int")>>)
<1> DEFINE g == Grab(First("int"), a)
<1> DEFINE h == Grab(Second("int"), c)
<1> DEFINE m == Grab(First("msg"), d)
<1> DEFINE rm == Release("msg")
<1> DEFINE ri == Release("int")
<1>0. "int" \in Kinds /\ "msg" \in Kinds BY DEF Kinds
<1>1. /\ g \in Instructions /\ g.op = "grab" /\ g.buf = First("int")
      /\ h \in Instructions /\ h.op = "grab" /\ h.buf = Second("int")
      /\ m \in Instructions /\ m.op = "grab" /\ m.buf = First("msg")
      /\ rm \in Instructions /\ rm.op = "release" /\ rm.kind = "msg"
      /\ ri \in Instructions /\ ri.op = "release" /\ ri.kind = "int"
      /\ w \in Instructions /\ w.op \in {"call", "mpi"}
      /\ x \in Instructions /\ x.op \in {"call", "mpi"}
  BY <1>0, GrabType, ReleaseType, BufFacts DEF Work
<1> HIDE DEF g, h, m, rm, ri
<1> DEFINE s == <<g, h, m, w, x, rm, ri>>
<1>2. /\ Len(s) = 7 /\ s[1] = g /\ s[2] = h /\ s[3] = m /\ s[4] = w
      /\ s[5] = x /\ s[6] = rm /\ s[7] = ri
  OBVIOUS
<1>3. s \in Seq(Instructions) BY <1>1
<1> HIDE DEF s
<1>4. HeldAfter(s, 1) = {First("int")}
  BY <1>0, <1>1, <1>2, HeldAfterGrab, HeldAtStart, BufFacts
<1>5. HeldAfter(s, 2) = {First("int"), Second("int")}
  BY <1>0, <1>1, <1>2, <1>4, HeldAfterGrab, BufFacts
<1>6. HeldAfter(s, 3) = {First("int"), Second("int"), First("msg")}
  BY <1>0, <1>1, <1>2, <1>5, HeldAfterGrab, BufFacts
<1>7. HeldAfter(s, 4) = {First("int"), Second("int"), First("msg")}
  BY <1>1, <1>2, <1>6, HeldAfterWork
<1>8. HeldAfter(s, 5) = {First("int"), Second("int"), First("msg")}
  BY <1>1, <1>2, <1>7, HeldAfterWork
<1>9. HeldAfter(s, 6) = {First("int"), Second("int")}
  BY <1>0, <1>1, <1>2, <1>8, HeldAfterRelease, BufFacts
<1>10. HeldAfter(s, 7) = {}
  BY <1>0, <1>1, <1>2, <1>9, HeldAfterRelease, BufFacts
<1>11. \A i \in 1..Len(s) : i = 1 \/ i = 2 \/ i = 3 \/ i = 4 \/ i = 5 \/ i = 6 \/ i = 7
  BY <1>2
<1>12. \A i \in 1..Len(s) : s[i].op = "grab" /\ Slot(s[i].buf) = 2
          => First(Kind(s[i].buf)) \in HeldAfter(s, i - 1)
  BY <1>0, <1>1, <1>2, <1>4, <1>11, BufFacts
<1>13. \A i \in 1..Len(s) : s[i].op = "release"
          => First(s[i].kind) \in HeldAfter(s, i - 1)
  BY <1>1, <1>2, <1>8, <1>9, <1>11
<1>14. First("int") # First("msg") /\ Second("int") # First("msg")
       /\ First("int") # Second("int")
  BY <1>0, BufFacts
<1>15. \A i, j \in 1..Len(s) :
         s[i].op = "grab" /\ s[j].op = "grab" /\ s[i].buf = s[j].buf => i = j
  BY <1>1, <1>2, <1>11, <1>14
<1>16. \E i \in 1..Len(s) : s[i].op \in {"call", "mpi"} BY <1>1, <1>2
<1>17. Disciplined(s)
  BY <1>1, <1>2, <1>3, <1>10, <1>12, <1>13, <1>15, <1>16 DEF Disciplined, LongestScript
<1> QED BY <1>17 DEF s, g, h, m, rm, ri

-------------------------------------------------------------------------------
(* Every size and count in a script is a natural number.                   *)

LEMMA ProductNat == ASSUME NEW a \in Nat, NEW b \in Nat PROVE a * b \in Nat
OBVIOUS

LEMMA PaddedNat ==
  ASSUME NEW n \in Nat, NEW p \in Nat \ {0}
  PROVE  Padded(n, p) \in Nat /\ Padded(n, p) \div p \in Nat
<1>1. n % p \in 0..p - 1 OBVIOUS
<1>2. Padded(n, p) \in Nat BY <1>1 DEF Padded
<1> QED BY <1>2

LEMMA RecvCountNat ==
  ASSUME NEW n \in Nat, NEW p \in Nat \ {0}, NEW i \in Nat
  PROVE  RecvCount(n, p, i) \in Nat
<1> DEFINE nchunks == n \div 4
<1>1. nchunks \in Nat /\ n % 4 \in Nat OBVIOUS
<1> HIDE DEF nchunks
<1>2. nchunks \div p \in Nat /\ nchunks % p \in Nat BY <1>1
<1> QED BY <1>1, <1>2 DEF RecvCount, MIN_SCATTER_CHUNK_SIZE, nchunks

(* No process reduces more elements than the first one.  Every process     *)
(* asks for memory for this many (reduce_impl.c:210), so that all of them  *)
(* get it or none, and none of them needs more.                            *)
THEOREM FirstRecvCountLargest ==
  ASSUME NEW n \in Nat, NEW p \in Nat \ {0}, NEW i \in 0 .. p - 1
  PROVE  RecvCount(n, p, i) <= RecvCount(n, p, 0)
<1> DEFINE nchunks == n \div 4
           rest == n % 4
           share == nchunks \div p
           extra == nchunks % p
<1>1. nchunks \in Nat /\ rest \in 0..3 OBVIOUS
<1> HIDE DEF nchunks, rest
<1>2. share \in Nat /\ extra \in Nat BY <1>1
<1>3. \A j \in Nat : RecvCount(n, p, j) =
        4 * share + IF j < extra THEN 4 ELSE IF j = extra THEN rest ELSE 0
  BY DEF RecvCount, MIN_SCATTER_CHUNK_SIZE, nchunks, rest
<1> HIDE DEF share, extra
<1>4. i \in Nat /\ 0 \in Nat OBVIOUS
<1> QED BY <1>1, <1>2, <1>3, <1>4

(* Every mock-up, on any data, keeps to the buffer discipline, and so does  *)
(* the default implementation, which takes no buffer at all.               *)
LEMMA ScriptsDisciplined ==
  ASSUME NEW n \in Nat, NEW e \in Nat \ {0}, NEW p \in Nat \ {0}
  PROVE  /\ \A coll \in Collectives : Disciplined(Plain(coll, n, e))
         /\ \A coll \in Collectives, alg \in Nat \ {DEFAULT} :
              alg \in AlgIds(coll) => Disciplined(Mockups(coll, n, e, p)[alg])
<1> DEFINE k == Padded(n, p) \div p
<1>0. n \in Nat /\ e \in Nat /\ p \in Nat OBVIOUS
<1>1. /\ n * e \in Nat /\ p * (n * e) \in Nat /\ p * n \in Nat /\ n * p \in Nat
      /\ Padded(n, p) * e \in Nat /\ k \in Nat /\ k * e \in Nat
      /\ RecvCount(n, p, 0) * e \in Nat /\ p * SizeofInt \in Nat
      /\ 1 \in Nat \ {0} /\ 0 \in Nat /\ e \in Nat
  <2>1. /\ Padded(n, p) \in Nat /\ k \in Nat /\ RecvCount(n, p, 0) \in Nat
        /\ SizeofInt \in Nat
    BY <1>0, PaddedNat, RecvCountNat DEF SizeofInt
  <2> HIDE DEF k
  <2>2. /\ n * e \in Nat /\ p * n \in Nat /\ n * p \in Nat
        /\ Padded(n, p) * e \in Nat /\ k * e \in Nat
        /\ RecvCount(n, p, 0) * e \in Nat /\ p * SizeofInt \in Nat
    BY <1>0, <2>1, ProductNat
  <2>3. p * (n * e) \in Nat BY <1>0, <2>2, ProductNat
  <2> QED BY <1>0, <2>1, <2>2, <2>3
<1>2. "int" \in Kinds /\ "msg" \in Kinds BY DEF Kinds
<1>3. \A c \in Collectives, x \in Nat, y \in Nat \ {0} : Call(c, x, y) \in Work BY CallType
<1>4. \A c \in Collectives \cup Helpers, x \in Nat : Mpi(c, x) \in Work BY MpiType
<1>5. /\ {"Allgather", "Allreduce", "Alltoall", "Bcast", "Gather", "Reduce",
          "Reduce_scatter_block", "Scan", "Scatter"} = Collectives
      /\ {"Allgatherv", "Alltoallv", "Exscan", "Gatherv", "Reduce_scatter",
          "Scatterv"} = Helpers
  BY DEF Collectives, Helpers
<1>10. Disciplined(Allgather_as_Allgatherv(n, e, p))
  BY <1>1, <1>2, <1>3, <1>4, <1>5, Shape5 DEF Allgather_as_Allgatherv, GrabInt, GrabInt2
<1>11. Disciplined(Allgather_as_Allreduce(n, e, p))
  BY <1>1, <1>2, <1>3, <1>4, <1>5, Shape3 DEF Allgather_as_Allreduce, GrabMsg
<1>12. Disciplined(Allgather_as_Alltoall(n, e, p))
  BY <1>1, <1>2, <1>3, <1>4, <1>5, Shape3 DEF Allgather_as_Alltoall, GrabMsg
<1>13. Disciplined(Allgather_as_GatherBcast(n, e, p))
  BY <1>1, <1>2, <1>3, <1>4, <1>5, Shape2 DEF Allgather_as_GatherBcast
<1>14. Disciplined(Allreduce_as_Reduce_Bcast(n, e, p))
  BY <1>1, <1>2, <1>3, <1>4, <1>5, Shape2 DEF Allreduce_as_Reduce_Bcast
<1>15. Disciplined(Allreduce_as_Reduce_scatter_block_Allgather(n, e, p))
  BY <1>1, <1>2, <1>3, <1>4, <1>5, Shape6 DEF Allreduce_as_Reduce_scatter_block_Allgather,
                                              GrabMsg, GrabMsg2
<1>16. Disciplined(Allreduce_as_Reduce_scatter_Allgatherv(n, e, p))
  BY <1>1, <1>2, <1>3, <1>4, <1>5, Shape6 DEF Allreduce_as_Reduce_scatter_Allgatherv,
                                              GrabInt, GrabInt2
<1>17. Disciplined(Alltoall_as_Alltoallv(n, e, p))
  BY <1>1, <1>2, <1>3, <1>4, <1>5, Shape5 DEF Alltoall_as_Alltoallv, GrabInt, GrabInt2
<1>18. Disciplined(Bcast_as_Allgatherv(n, e, p))
  BY <1>1, <1>2, <1>3, <1>4, <1>5, Shape5 DEF Bcast_as_Allgatherv, GrabInt, GrabInt2
<1>19. Disciplined(Bcast_as_Scatter_Allgather(n, e, p))
  BY <1>1, <1>2, <1>3, <1>4, <1>5, Shape6 DEF Bcast_as_Scatter_Allgather, GrabMsg, GrabMsg2
<1>20. Disciplined(Gather_as_Allgather(n, e, p))
  BY <1>1, <1>2, <1>3, <1>4, <1>5, Shape3 DEF Gather_as_Allgather, GrabMsg
<1>21. Disciplined(Gather_as_Gatherv(n, e, p))
  BY <1>1, <1>2, <1>3, <1>4, <1>5, Shape5 DEF Gather_as_Gatherv, GrabInt, GrabInt2
<1>22. Disciplined(Gather_as_Reduce(n, e, p))
  BY <1>1, <1>2, <1>3, <1>4, <1>5, Shape3 DEF Gather_as_Reduce, GrabMsg
<1>23. Disciplined(Reduce_as_Allreduce(n, e, p))
  BY <1>1, <1>2, <1>3, <1>4, <1>5, Shape3 DEF Reduce_as_Allreduce, GrabMsg
<1>24. Disciplined(Reduce_as_Reduce_scatter_block_Gather(n, e, p))
  BY <1>1, <1>2, <1>3, <1>4, <1>5, Shape6 DEF Reduce_as_Reduce_scatter_block_Gather,
                                              GrabMsg, GrabMsg2
<1>25. Disciplined(Reduce_as_Reduce_scatter_Gatherv(n, e, p))
  BY <1>1, <1>2, <1>3, <1>4, <1>5, Shape7 DEF Reduce_as_Reduce_scatter_Gatherv, GrabInt,
                                              GrabInt2, GrabMsg
<1>26. Disciplined(Reduce_as_Reduce_scatter(n, e, p))
  BY <1>1, <1>2, <1>3, <1>4, <1>5, Shape3 DEF Reduce_as_Reduce_scatter, GrabInt
<1>27. Disciplined(Reduce_scatter_block_as_Reduce_Scatter(n, e, p))
  BY <1>1, <1>2, <1>3, <1>4, <1>5, Shape4 DEF Reduce_scatter_block_as_Reduce_Scatter, GrabMsg
<1>28. Disciplined(Reduce_scatter_block_as_Reduce_scatter(n, e, p))
  BY <1>1, <1>2, <1>3, <1>4, <1>5, Shape3 DEF Reduce_scatter_block_as_Reduce_scatter, GrabInt
<1>29. Disciplined(Reduce_scatter_block_as_Allreduce(n, e, p))
  BY <1>1, <1>2, <1>3, <1>4, <1>5, Shape3 DEF Reduce_scatter_block_as_Allreduce, GrabMsg
<1>30. Disciplined(Scan_as_Exscan_Reduce_local(n, e, p))
  BY <1>1, <1>2, <1>3, <1>4, <1>5, Shape1 DEF Scan_as_Exscan_Reduce_local
<1>31. Disciplined(Scatter_as_Bcast(n, e, p))
  BY <1>1, <1>2, <1>3, <1>4, <1>5, Shape3 DEF Scatter_as_Bcast, GrabMsg
<1>32. Disciplined(Scatter_as_Scatterv(n, e, p))
  BY <1>1, <1>2, <1>3, <1>4, <1>5, Shape5 DEF Scatter_as_Scatterv, GrabInt, GrabInt2
<1>40. \A coll \in Collectives : Disciplined(Plain(coll, n, e))
  BY <1>1, <1>4, Shape1 DEF Plain
<1>41. ASSUME NEW coll \in Collectives, NEW alg \in Nat \ {DEFAULT}, alg \in AlgIds(coll)
       PROVE  Disciplined(Mockups(coll, n, e, p)[alg])
  <2>1. CASE coll = "Allgather"
    <3>1. alg \in 1..4 BY <1>41, <2>1 DEF AlgIds, DEFAULT
    <3>2. Mockups(coll, n, e, p) = Allgather(n, e, p) BY <2>1 DEF Mockups
    <3> QED BY <3>1, <3>2, <1>10, <1>11, <1>12, <1>13 DEF Allgather
  <2>2. CASE coll = "Allreduce"
    <3>1. alg \in 1..3 BY <1>41, <2>2 DEF AlgIds, DEFAULT
    <3>2. Mockups(coll, n, e, p) = Allreduce(n, e, p) BY <2>2 DEF Mockups
    <3> QED BY <3>1, <3>2, <1>14, <1>15, <1>16 DEF Allreduce
  <2>3. CASE coll = "Alltoall"
    <3>1. alg \in 1..1 BY <1>41, <2>3 DEF AlgIds, DEFAULT
    <3>2. Mockups(coll, n, e, p) = Alltoall(n, e, p) BY <2>3 DEF Mockups
    <3> QED BY <3>1, <3>2, <1>17 DEF Alltoall
  <2>4. CASE coll = "Bcast"
    <3>1. alg \in 1..2 BY <1>41, <2>4 DEF AlgIds, DEFAULT
    <3>2. Mockups(coll, n, e, p) = Bcast(n, e, p) BY <2>4 DEF Mockups
    <3> QED BY <3>1, <3>2, <1>18, <1>19 DEF Bcast
  <2>5. CASE coll = "Gather"
    <3>1. alg \in 1..3 BY <1>41, <2>5 DEF AlgIds, DEFAULT
    <3>2. Mockups(coll, n, e, p) = Gather(n, e, p) BY <2>5 DEF Mockups
    <3> QED BY <3>1, <3>2, <1>20, <1>21, <1>22 DEF Gather
  <2>6. CASE coll = "Reduce"
    <3>1. alg \in 1..4 BY <1>41, <2>6 DEF AlgIds, DEFAULT
    <3>2. Mockups(coll, n, e, p) = Reduce(n, e, p) BY <2>6 DEF Mockups
    <3> QED BY <3>1, <3>2, <1>23, <1>24, <1>25, <1>26 DEF Reduce
  <2>7. CASE coll = "Reduce_scatter_block"
    <3>1. alg \in 1..3 BY <1>41, <2>7 DEF AlgIds, DEFAULT
    <3>2. Mockups(coll, n, e, p) = Reduce_scatter_block(n, e, p) BY <2>7 DEF Mockups
    <3> QED BY <3>1, <3>2, <1>27, <1>28, <1>29 DEF Reduce_scatter_block
  <2>8. CASE coll = "Scan"
    <3>1. alg \in 1..1 BY <1>41, <2>8 DEF AlgIds, DEFAULT
    <3>2. Mockups(coll, n, e, p) = Scan(n, e, p) BY <2>8 DEF Mockups
    <3> QED BY <3>1, <3>2, <1>30 DEF Scan
  <2>9. CASE coll = "Scatter"
    <3>1. alg \in 1..2 BY <1>41, <2>9 DEF AlgIds, DEFAULT
    <3>2. Mockups(coll, n, e, p) = Scatter(n, e, p) BY <2>9 DEF Mockups
    <3> QED BY <3>1, <3>2, <1>31, <1>32 DEF Scatter
  <2> QED BY <2>1, <2>2, <2>3, <2>4, <2>5, <2>6, <2>7, <2>8, <2>9 DEF Collectives
<1> QED BY <1>40, <1>41
-------------------------------------------------------------------------------
(* Calling with and without scratch memory.                                *)

(* A mock-up that takes the first message buffer and keeps it over all     *)
(* calls it makes, if it makes any.                                        *)
CallsHolding(s) ==
  \A i \in 1..Len(s) : s[i].op = "call" =>
    /\ s[1].op = "grab" /\ s[1].buf = First("msg")
    /\ \A j \in 1..i : s[j].op # "release"

(* A mock-up that takes nothing, and what it calls does not do the same.   *)
CallsRooted(s) ==
  \A i \in 1..Len(s) : s[i].op = "call" => s[i].coll \in {"Gather", "Bcast", "Reduce"}

LEMMA NoCalls ==
  ASSUME NEW s, \A i \in 1..Len(s) : s[i].op # "call"
  PROVE  CallsHolding(s)
BY DEF CallsHolding

LEMMA NoneOfFive ==
  ASSUME NEW a, NEW b, NEW c, NEW d, NEW f,
         "call" \notin {a.op, b.op, c.op, d.op, f.op}
  PROVE  CallsHolding(<<a, b, c, d, f>>)
BY DEF CallsHolding

LEMMA NoneOfSeven ==
  ASSUME NEW a, NEW b, NEW c, NEW d, NEW f, NEW g, NEW h,
         "call" \notin {a.op, b.op, c.op, d.op, f.op, g.op, h.op}
  PROVE  CallsHolding(<<a, b, c, d, f, g, h>>)
BY DEF CallsHolding

LEMMA OneCall ==
  ASSUME NEW a, NEW w, w.op \in {"call", "mpi"}
  PROVE  CallsHolding(<<GrabMsg(a), w, Release("msg")>>)
<1> DEFINE g == GrabMsg(a)
           rel == Release("msg")
<1>1. g.op = "grab" /\ g.buf = First("msg") /\ rel.op = "release"
  BY DEF GrabMsg, Grab, Release
<1> HIDE DEF g, rel
<1>2. CallsHolding(<<g, w, rel>>) BY <1>1 DEF CallsHolding
<1> QED BY <1>2 DEF g, rel

LEMMA TwoCalls ==
  ASSUME NEW a, NEW w, NEW x, w.op \in {"call", "mpi"}, x.op \in {"call", "mpi"}
  PROVE  CallsHolding(<<GrabMsg(a), w, x, Release("msg")>>)
<1> DEFINE g == GrabMsg(a)
           rel == Release("msg")
<1>1. g.op = "grab" /\ g.buf = First("msg") /\ rel.op = "release"
  BY DEF GrabMsg, Grab, Release
<1> HIDE DEF g, rel
<1>2. CallsHolding(<<g, w, x, rel>>) BY <1>1 DEF CallsHolding
<1> QED BY <1>2 DEF g, rel

LEMMA TwoCallsTwoBuffers ==
  ASSUME NEW a, NEW c, NEW w, NEW x, w.op \in {"call", "mpi"}, x.op \in {"call", "mpi"}
  PROVE  CallsHolding(<<GrabMsg(a), GrabMsg2(c), w, x, Release("msg")>>)
<1> DEFINE g == GrabMsg(a)
           h == GrabMsg2(c)
           rel == Release("msg")
<1>1. /\ g.op = "grab" /\ g.buf = First("msg") /\ h.op = "grab"
      /\ rel.op = "release"
  BY DEF GrabMsg, GrabMsg2, Grab, Release
<1> HIDE DEF g, h, rel
<1>2. CallsHolding(<<g, h, w, x, rel>>) BY <1>1 DEF CallsHolding
<1> QED BY <1>2 DEF g, h, rel

LEMMA CallOps ==
  /\ \A c, x, y : Call(c, x, y).op = "call" /\ Call(c, x, y).coll = c
  /\ \A c, x : Mpi(c, x).op = "mpi"
  /\ \A b, x : Grab(b, x).op = "grab"
  /\ \A k : Release(k).op = "release"
BY DEF Call, Mpi, Grab, Release

(* Only Allgather and Allreduce have a mock-up that calls without holding  *)
(* the first message buffer, and it calls others than these two.           *)
LEMMA CallsHold ==
  ASSUME NEW n, NEW e, NEW p, NEW coll \in Collectives,
         NEW alg \in Nat \ {DEFAULT}, alg \in AlgIds(coll)
  PROVE  \/ CallsHolding(Mockups(coll, n, e, p)[alg])
         \/ coll \in {"Allgather", "Allreduce"} /\ CallsRooted(Mockups(coll, n, e, p)[alg])
<1>10. CallsHolding(Allgather_as_Allgatherv(n, e, p))
  BY NoCalls, CallOps DEF Allgather_as_Allgatherv, GrabInt, GrabInt2
<1>11. CallsHolding(Allgather_as_Allreduce(n, e, p))
  BY OneCall, CallOps DEF Allgather_as_Allreduce
<1>12. CallsHolding(Allgather_as_Alltoall(n, e, p))
  BY OneCall, CallOps DEF Allgather_as_Alltoall
<1>13. CallsRooted(Allgather_as_GatherBcast(n, e, p))
  BY CallOps DEF Allgather_as_GatherBcast, CallsRooted
<1>14. CallsRooted(Allreduce_as_Reduce_Bcast(n, e, p))
  BY CallOps DEF Allreduce_as_Reduce_Bcast, CallsRooted
<1>15. CallsHolding(Allreduce_as_Reduce_scatter_block_Allgather(n, e, p))
  BY TwoCallsTwoBuffers, CallOps DEF Allreduce_as_Reduce_scatter_block_Allgather
<1>16. CallsHolding(Allreduce_as_Reduce_scatter_Allgatherv(n, e, p))
  BY NoneOfFive, CallOps DEF Allreduce_as_Reduce_scatter_Allgatherv, GrabInt, GrabInt2
<1>17. CallsHolding(Alltoall_as_Alltoallv(n, e, p))
  BY NoCalls, CallOps DEF Alltoall_as_Alltoallv, GrabInt, GrabInt2
<1>18. CallsHolding(Bcast_as_Allgatherv(n, e, p))
  BY NoCalls, CallOps DEF Bcast_as_Allgatherv, GrabInt, GrabInt2
<1>19. CallsHolding(Bcast_as_Scatter_Allgather(n, e, p))
  BY TwoCallsTwoBuffers, CallOps DEF Bcast_as_Scatter_Allgather
<1>20. CallsHolding(Gather_as_Allgather(n, e, p))
  BY OneCall, CallOps DEF Gather_as_Allgather
<1>21. CallsHolding(Gather_as_Gatherv(n, e, p))
  BY NoCalls, CallOps DEF Gather_as_Gatherv, GrabInt, GrabInt2
<1>22. CallsHolding(Gather_as_Reduce(n, e, p))
  BY OneCall, CallOps DEF Gather_as_Reduce
<1>23. CallsHolding(Reduce_as_Allreduce(n, e, p))
  BY OneCall, CallOps DEF Reduce_as_Allreduce
<1>24. CallsHolding(Reduce_as_Reduce_scatter_block_Gather(n, e, p))
  BY TwoCallsTwoBuffers, CallOps DEF Reduce_as_Reduce_scatter_block_Gather
<1>25. CallsHolding(Reduce_as_Reduce_scatter_Gatherv(n, e, p))
  BY NoneOfSeven, CallOps DEF Reduce_as_Reduce_scatter_Gatherv, GrabInt, GrabInt2, GrabMsg
<1>26. CallsHolding(Reduce_as_Reduce_scatter(n, e, p))
  BY NoCalls, CallOps DEF Reduce_as_Reduce_scatter, GrabInt
<1>27. CallsHolding(Reduce_scatter_block_as_Reduce_Scatter(n, e, p))
  BY TwoCalls, CallOps DEF Reduce_scatter_block_as_Reduce_Scatter
<1>28. CallsHolding(Reduce_scatter_block_as_Reduce_scatter(n, e, p))
  BY NoCalls, CallOps DEF Reduce_scatter_block_as_Reduce_scatter, GrabInt
<1>29. CallsHolding(Reduce_scatter_block_as_Allreduce(n, e, p))
  BY OneCall, CallOps DEF Reduce_scatter_block_as_Allreduce
<1>30. CallsHolding(Scan_as_Exscan_Reduce_local(n, e, p))
  BY NoCalls, CallOps DEF Scan_as_Exscan_Reduce_local
<1>31. CallsHolding(Scatter_as_Bcast(n, e, p))
  BY OneCall, CallOps DEF Scatter_as_Bcast
<1>32. CallsHolding(Scatter_as_Scatterv(n, e, p))
  BY NoCalls, CallOps DEF Scatter_as_Scatterv, GrabInt, GrabInt2
<1>41. CASE coll = "Allgather"
  <2>1. alg \in 1..4 BY <1>41 DEF AlgIds, DEFAULT
  <2>2. Mockups(coll, n, e, p) = Allgather(n, e, p) BY <1>41 DEF Mockups
  <2> QED BY <1>41, <2>1, <2>2, <1>10, <1>11, <1>12, <1>13 DEF Allgather
<1>42. CASE coll = "Allreduce"
  <2>1. alg \in 1..3 BY <1>42 DEF AlgIds, DEFAULT
  <2>2. Mockups(coll, n, e, p) = Allreduce(n, e, p) BY <1>42 DEF Mockups
  <2> QED BY <1>42, <2>1, <2>2, <1>14, <1>15, <1>16 DEF Allreduce
<1>43. CASE coll = "Alltoall"
  <2>1. alg \in 1..1 BY <1>43 DEF AlgIds, DEFAULT
  <2>2. Mockups(coll, n, e, p) = Alltoall(n, e, p) BY <1>43 DEF Mockups
  <2>3. alg = 1 BY <2>1
  <2> QED BY <2>2, <2>3, <1>17 DEF Alltoall
<1>44. CASE coll = "Bcast"
  <2>1. alg \in 1..2 BY <1>44 DEF AlgIds, DEFAULT
  <2>2. Mockups(coll, n, e, p) = Bcast(n, e, p) BY <1>44 DEF Mockups
  <2> QED BY <2>1, <2>2, <1>18, <1>19 DEF Bcast
<1>45. CASE coll = "Gather"
  <2>1. alg \in 1..3 BY <1>45 DEF AlgIds, DEFAULT
  <2>2. Mockups(coll, n, e, p) = Gather(n, e, p) BY <1>45 DEF Mockups
  <2> QED BY <2>1, <2>2, <1>20, <1>21, <1>22 DEF Gather
<1>46. CASE coll = "Reduce"
  <2>1. alg \in 1..4 BY <1>46 DEF AlgIds, DEFAULT
  <2>2. Mockups(coll, n, e, p) = Reduce(n, e, p) BY <1>46 DEF Mockups
  <2> QED BY <2>1, <2>2, <1>23, <1>24, <1>25, <1>26 DEF Reduce
<1>47. CASE coll = "Reduce_scatter_block"
  <2>1. alg \in 1..3 BY <1>47 DEF AlgIds, DEFAULT
  <2>2. Mockups(coll, n, e, p) = Reduce_scatter_block(n, e, p) BY <1>47 DEF Mockups
  <2> QED BY <2>1, <2>2, <1>27, <1>28, <1>29 DEF Reduce_scatter_block
<1>48. CASE coll = "Scan"
  <2>1. alg \in 1..1 BY <1>48 DEF AlgIds, DEFAULT
  <2>2. Mockups(coll, n, e, p) = Scan(n, e, p) BY <1>48 DEF Mockups
  <2>3. alg = 1 BY <2>1
  <2> QED BY <2>2, <2>3, <1>30 DEF Scan
<1>49. CASE coll = "Scatter"
  <2>1. alg \in 1..2 BY <1>49 DEF AlgIds, DEFAULT
  <2>2. Mockups(coll, n, e, p) = Scatter(n, e, p) BY <1>49 DEF Mockups
  <2> QED BY <2>1, <2>2, <1>31, <1>32 DEF Scatter
<1> QED BY <1>41, <1>42, <1>43, <1>44, <1>45, <1>46, <1>47, <1>48, <1>49 DEF Collectives

-------------------------------------------------------------------------------
(* What the frames on a stack hold.                                        *)

(* A frame that its wrapper can have built and its script can have reached.*)
GoodFrame(f) ==
  /\ f \in Frame
  /\ f.alg \in AlgIds(f.coll)
  /\ ~f.default => f.alg # DEFAULT
  /\ f.ip \in 1..Len(Script(f)) + 1

(* A wrapper that waits for the wrapper it has called. *)
Suspended(f) == f.ip <= Len(Script(f)) /\ Script(f)[f.ip].op = "call"

Apart(f, g) == \A b \in Held(f), c \in Held(g) : Kind(b) # Kind(c)

(* The stack of one process, given the buffers marked in use.              *)
Clean(s, used) ==
  /\ s \in Seq(Frame)
  /\ \A i \in 1..Len(s) : GoodFrame(s[i])
  /\ \A i \in 1..Len(s) : i < Len(s) => Suspended(s[i])
  /\ \A i \in 1..Len(s) : Held(s[i]) \subseteq used
  /\ \A i, j \in 1..Len(s) : i # j => Apart(s[i], s[j])

(* A process that has posted an operation is at that operation.            *)
Pending(s) == s # <<>> /\ ~AtEnd(s[Len(s)]) /\ Instr(s[Len(s)]).op = "mpi"

(* The inductive invariant.  Exclusive alone is not inductive: a return    *)
(* leaves the buffers of the caller as they are only because the caller is *)
(* at a call, and a grab or release disturbs no other frame only because   *)
(* every script that is running is disciplined, which takes algorithms     *)
(* that exist.                                                             *)
IInv ==
  /\ TypeOK
  /\ Len(program) <= MaxItems
  /\ \A r \in Ranks : step[r] <= Len(program)
  /\ \A r \in Ranks, coll \in Collectives : algid[r][coll] \in AlgIds(coll)
  /\ \A t \in profile : t[3] \in AlgIds(t[1])
  /\ \A r \in Ranks : Clean(stack[r], pool[r].used)
  /\ \A r \in Ranks : waiting[r] => Pending(stack[r])

-------------------------------------------------------------------------------
(* Frames.                                                                 *)

LEMMA AlgIdsNat ==
  \A coll \in Collectives : AlgIds(coll) \subseteq Nat /\ DEFAULT \in AlgIds(coll)
<1> SUFFICES ASSUME NEW coll \in Collectives
             PROVE  AlgIds(coll) \subseteq Nat /\ DEFAULT \in AlgIds(coll)
  OBVIOUS
<1>1. CASE coll \in {"Alltoall", "Scan"} BY <1>1 DEF AlgIds, DEFAULT
<1>2. CASE coll \in {"Bcast", "Scatter"} BY <1>2 DEF AlgIds, DEFAULT
<1>3. CASE coll \in {"Allreduce", "Gather", "Reduce_scatter_block"}
  BY <1>3 DEF AlgIds, DEFAULT
<1>4. CASE coll \in {"Allgather", "Reduce"} BY <1>4 DEF AlgIds, DEFAULT
<1> QED BY <1>1, <1>2, <1>3, <1>4 DEF Collectives

LEMMA CommSize == \A comm \in Comms : Cardinality(comm) \in Nat \ {0}
<1> SUFFICES ASSUME NEW comm \in Comms PROVE Cardinality(comm) \in Nat \ {0}
  OBVIOUS
<1>1. IsFiniteSet(comm) BY RanksAssumption, FS_Subset DEF Comms
<1> QED BY <1>1, FS_CardinalityType, FS_EmptySet DEF Comms

(* What a good frame executes keeps the buffer discipline. *)
LEMMA ScriptDisciplined ==
  ASSUME NEW f, GoodFrame(f)
  PROVE  Disciplined(Script(f))
<1>1. /\ f.coll \in Collectives /\ f.n \in Nat /\ f.e \in Nat \ {0} /\ f.comm \in Comms
      /\ f.alg \in Nat
  BY DEF GoodFrame, Frame
<1>2. Cardinality(f.comm) \in Nat \ {0} BY <1>1, CommSize
<1>3. CASE f.default
  BY <1>1, <1>2, <1>3, ScriptsDisciplined DEF Script
<1>4. CASE ~f.default
  <2>1. f.alg \in Nat \ {DEFAULT} /\ f.alg \in AlgIds(f.coll)
    BY <1>1, <1>4 DEF GoodFrame
  <2> QED BY <1>1, <1>2, <1>4, <2>1, ScriptsDisciplined DEF Script
<1> QED BY <1>3, <1>4

(* Who holds the second buffer of an area holds the first. *)
LEMMA SecondNeedsFirst ==
  ASSUME NEW f, GoodFrame(f), NEW b \in Held(f)
  PROVE  b \in Bufs /\ First(Kind(b)) \in Held(f)
<1> DEFINE s == Script(f)
           n == f.ip - 1
<1>1. Disciplined(s) BY ScriptDisciplined
<1>2. n \in 0..Len(s) /\ Len(s) \in Nat
  BY <1>1 DEF GoodFrame, Disciplined
<1>3. Held(f) = HeldAfter(s, n) BY DEF Held
<1> HIDE DEF s, n
<1>4. b \in Bufs BY <1>3 DEF HeldAfter
<1>5. PICK i \in 1..n : /\ s[i].op = "grab" /\ s[i].buf = b
                        /\ \A j \in i..n : s[j].op = "release" => s[j].kind # Kind(b)
  BY <1>3 DEF HeldAfter
<1>6. CASE Slot(b) = 2
  <2>1. First(Kind(b)) \in HeldAfter(s, i - 1)
    BY <1>1, <1>2, <1>5, <1>6 DEF Disciplined
  <2>2. PICK h \in 1..(i - 1) :
          /\ s[h].op = "grab" /\ s[h].buf = First(Kind(b))
          /\ \A j \in h..(i - 1) :
               s[j].op = "release" => s[j].kind # Kind(First(Kind(b)))
    BY <2>1 DEF HeldAfter
  <2>3. Kind(First(Kind(b))) = Kind(b) /\ First(Kind(b)) \in Bufs
    BY <1>4, BufFacts, BufKinds
  <2>4. h \in 1..n BY <1>2, <1>5, <2>2
  <2>5. \A j \in h..n : j \in h..(i - 1) \/ j \in i..n BY <1>2, <1>5, <2>2
  <2>6. \A j \in h..n : s[j].op = "release" => s[j].kind # Kind(b)
    BY <1>5, <2>2, <2>3, <2>5
  <2> QED BY <1>3, <1>4, <2>2, <2>3, <2>4, <2>6 DEF HeldAfter
<1>7. CASE Slot(b) = 1
  <2>1. b = First(Kind(b)) BY <1>4, <1>7, BufFacts, BufKinds
  <2> QED BY <1>4, <2>1
<1> QED BY <1>4, <1>6, <1>7, BufKinds

(* The next instruction, with and without interception of inner calls. *)
LEMMA InstrFacts ==
  ASSUME NEW f, GoodFrame(f), ~AtEnd(f)
  PROVE  /\ f.ip \in 1..Len(Script(f))
         /\ Script(f)[f.ip] \in Instructions
         /\ Instr(f).op # "mpi" => Instr(f) = Script(f)[f.ip]
         /\ Instr(f).op = "mpi" => Script(f)[f.ip].op \in {"call", "mpi"}
<1>1. Script(f) \in Seq(Instructions) BY ScriptDisciplined DEF Disciplined
<1>2. f.ip \in 1..Len(Script(f)) BY <1>1 DEF GoodFrame, AtEnd
<1>3. Script(f)[f.ip] \in Instructions BY <1>1, <1>2
<1>4. \A coll, n, e : Plain(coll, n, e)[1].op = "mpi" BY DEF Plain, Mpi
<1> QED BY <1>2, <1>3, <1>4 DEF Instr

(* A frame after its next instruction. *)
Next1(f) == [f EXCEPT !.ip = @ + 1]

LEMMA SteppedFrame ==
  ASSUME NEW f, GoodFrame(f), ~AtEnd(f)
  PROVE  /\ GoodFrame(Next1(f))
         /\ Script(Next1(f)) = Script(f)
         /\ Held(Next1(f)) = HeldAfter(Script(f), f.ip)
<1>1. f \in Frame BY DEF GoodFrame
<1>2. Next1(f) \in Frame BY <1>1 DEF Next1, Frame
<1>3. /\ Next1(f).coll = f.coll /\ Next1(f).n = f.n /\ Next1(f).e = f.e
      /\ Next1(f).comm = f.comm /\ Next1(f).alg = f.alg
      /\ Next1(f).default = f.default /\ Next1(f).ip = f.ip + 1
  BY <1>1 DEF Next1, Frame
<1>4. Script(Next1(f)) = Script(f) BY <1>3 DEF Script
<1>5. f.ip \in 1..Len(Script(f)) BY InstrFacts
<1>6. Len(Script(f)) \in Nat BY ScriptDisciplined DEF Disciplined
<1>7. GoodFrame(Next1(f))
  BY <1>2, <1>3, <1>4, <1>5, <1>6 DEF GoodFrame
<1>8. Next1(f).ip - 1 = f.ip BY <1>3, <1>5
<1> QED BY <1>4, <1>7, <1>8 DEF Held

(* A frame that gives up executes the default implementation, and holds    *)
(* nothing.                                                                *)
LEMMA HeldAtFirst ==
  ASSUME NEW f, f.ip = 1
  PROVE  Held(f) = {}
BY HeldAtStart DEF Held

LEMMA GivenUpFrame ==
  ASSUME NEW f, GoodFrame(f)
  PROVE  GoodFrame(GivenUp(f)) /\ Held(GivenUp(f)) = {}
<1>1. f \in Frame BY DEF GoodFrame
<1>2. GivenUp(f) \in Frame
  <2> DEFINE g == [f EXCEPT !.default = TRUE]
  <2>1. g \in Frame BY <1>1 DEF Frame
  <2>2. GivenUp(f) = [g EXCEPT !.ip = 1] BY DEF GivenUp
  <2> HIDE DEF g
  <2>3. [g EXCEPT !.ip = 1] \in Frame BY <2>1 DEF Frame
  <2> QED BY <2>2, <2>3
<1>3. /\ GivenUp(f).coll = f.coll /\ GivenUp(f).n = f.n /\ GivenUp(f).e = f.e
      /\ GivenUp(f).comm = f.comm /\ GivenUp(f).alg = f.alg
      /\ GivenUp(f).default = TRUE /\ GivenUp(f).ip = 1
  BY <1>1 DEF GivenUp, Frame
<1>4. Script(GivenUp(f)) = Plain(f.coll, f.n, f.e) BY <1>3 DEF Script
<1>5. Len(Script(GivenUp(f))) = 1 BY <1>4 DEF Plain
<1>6. GoodFrame(GivenUp(f)) BY <1>2, <1>3, <1>5 DEF GoodFrame
<1> QED BY <1>3, <1>6, HeldAtFirst

(* A frame that a wrapper has just built. *)
LEMMA NewFrame ==
  ASSUME NEW coll \in Collectives, NEW n \in Nat, NEW e \in Nat \ {0}, NEW comm \in Comms,
         NEW alg \in AlgIds(coll)
  PROVE  LET f == [coll |-> coll, n |-> n, e |-> e, comm |-> comm, alg |-> alg,
                   default |-> alg = DEFAULT, ip |-> 1]
         IN  GoodFrame(f) /\ Held(f) = {}
<1> DEFINE f == [coll |-> coll, n |-> n, e |-> e, comm |-> comm, alg |-> alg,
                 default |-> alg = DEFAULT, ip |-> 1]
<1>1. alg \in Nat BY AlgIdsNat
<1>2. f \in Frame BY <1>1 DEF Frame
<1>3. /\ f.coll = coll /\ f.n = n /\ f.e = e /\ f.comm = comm /\ f.alg = alg
      /\ f.default = (alg = DEFAULT) /\ f.ip = 1
  OBVIOUS
<1> HIDE DEF f
<1>4. Cardinality(comm) \in Nat \ {0} BY CommSize
<1>5. Disciplined(Script(f))
  <2>1. CASE f.default BY <1>3, <1>4, <2>1, ScriptsDisciplined DEF Script
  <2>2. CASE ~f.default
    <3>1. alg \in Nat \ {DEFAULT} BY <1>1, <1>3, <2>2
    <3> QED BY <1>3, <1>4, <2>2, <3>1, ScriptsDisciplined DEF Script
  <2> QED BY <2>1, <2>2
<1>6. Len(Script(f)) \in Nat BY <1>5 DEF Disciplined
<1>7. ~f.default => f.alg # DEFAULT BY <1>3, Zenon
<1>8. f.ip \in 1..Len(Script(f)) + 1 BY <1>3, <1>6
<1>9. f.alg \in AlgIds(f.coll) BY <1>3
<1>10. GoodFrame(f) BY <1>2, <1>7, <1>8, <1>9 DEF GoodFrame
<1> QED BY <1>3, <1>10, HeldAtFirst DEF f

-------------------------------------------------------------------------------
(* Stacks.                                                                 *)

LEMMA CleanHolds ==
  ASSUME NEW s, NEW used, Clean(s, used), NEW i \in 1..Len(s)
  PROVE  Held(s[i]) \subseteq used
BY DEF Clean

(* A wrapper is entered from the application or from a suspended wrapper.  *)
LEMMA PushClean ==
  ASSUME NEW s, NEW used, Clean(s, used),
         NEW f, GoodFrame(f), Held(f) = {},
         s # <<>> => Suspended(s[Len(s)])
  PROVE  Clean(Append(s, f), used)
<1> DEFINE t == Append(s, f)
<1>1. s \in Seq(Frame) /\ f \in Frame BY DEF Clean, GoodFrame
<1>2. /\ t \in Seq(Frame) /\ Len(t) = Len(s) + 1 /\ Len(s) \in Nat
      /\ t[Len(s) + 1] = f
      /\ \A i \in 1..Len(s) : t[i] = s[i]
  BY <1>1
<1>3. s = <<>> <=> Len(s) = 0 BY <1>1, EmptySeq
<1> HIDE DEF t
<1>4. \A i \in 1..Len(t) : i \in 1..Len(s) \/ i = Len(t) BY <1>2
<1>5. \A i \in 1..Len(t) : GoodFrame(t[i]) BY <1>2, <1>4 DEF Clean
<1>6. \A i \in 1..Len(t) : i < Len(t) => Suspended(t[i])
  <2> SUFFICES ASSUME NEW i \in 1..Len(t), i < Len(t) PROVE Suspended(t[i])
    OBVIOUS
  <2>1. i \in 1..Len(s) /\ t[i] = s[i] BY <1>2
  <2>2. CASE i = Len(s) BY <1>2, <1>3, <2>1, <2>2
  <2>3. CASE i < Len(s) BY <2>1, <2>3 DEF Clean
  <2> QED BY <1>2, <2>1, <2>2, <2>3
<1>7. \A i \in 1..Len(t) : Held(t[i]) \subseteq used BY <1>2, <1>4 DEF Clean
<1>8. \A i, j \in 1..Len(t) : i # j => Apart(t[i], t[j])
  <2> SUFFICES ASSUME NEW i \in 1..Len(t), NEW j \in 1..Len(t), i # j
               PROVE  Apart(t[i], t[j])
    OBVIOUS
  <2>1. CASE i = Len(t) \/ j = Len(t) BY <1>2, <2>1 DEF Apart
  <2>2. CASE i # Len(t) /\ j # Len(t) BY <1>2, <1>4, <2>2 DEF Clean
  <2> QED BY <2>1, <2>2
<1>9. Clean(t, used) BY <1>2, <1>5, <1>6, <1>7, <1>8 DEF Clean
<1> QED BY <1>9 DEF t

(* The innermost wrapper goes on: it becomes f, and the flags become now.  *)
LEMMA ReplaceTopClean ==
  ASSUME NEW s, NEW used, NEW now, Clean(s, used), s # <<>>,
         NEW f, GoodFrame(f), Held(f) \subseteq now,
         \A i \in 1..Len(s) : i # Len(s) =>
           Held(s[i]) \subseteq now /\ Apart(s[i], f)
  PROVE  Clean([s EXCEPT ![Len(s)] = f], now)
<1> DEFINE t == [s EXCEPT ![Len(s)] = f]
<1>1. s \in Seq(Frame) /\ f \in Frame /\ Len(s) \in Nat \ {0}
  BY EmptySeq DEF Clean, GoodFrame
<1>2. /\ t \in Seq(Frame) /\ Len(t) = Len(s) /\ t[Len(s)] = f
      /\ \A i \in 1..Len(s) : i # Len(s) => t[i] = s[i]
  BY <1>1
<1> HIDE DEF t
<1>3. \A i \in 1..Len(t) : GoodFrame(t[i]) BY <1>2 DEF Clean
<1>4. \A i \in 1..Len(t) : i < Len(t) => Suspended(t[i]) BY <1>1, <1>2 DEF Clean
<1>5. \A i \in 1..Len(t) : Held(t[i]) \subseteq now BY <1>2
<1>6. \A i, j \in 1..Len(t) : i # j => Apart(t[i], t[j])
  BY <1>2 DEF Clean, Apart
<1>7. Clean(t, now) BY <1>2, <1>3, <1>4, <1>5, <1>6 DEF Clean
<1> QED BY <1>7 DEF t

(* The innermost wrapper returns. *)
LEMMA PopClean ==
  ASSUME NEW s, NEW used, Clean(s, used), s # <<>>, Len(s) # 1
  PROVE  LET t == SubSeq(s, 1, Len(s) - 1)
         IN  /\ Clean(t, used) /\ t # <<>>
             /\ Len(t) = Len(s) - 1 /\ \A i \in 1..Len(t) : t[i] = s[i]
             /\ Suspended(t[Len(t)])
<1> DEFINE t == SubSeq(s, 1, Len(s) - 1)
<1>1. s \in Seq(Frame) /\ Len(s) \in Nat \ {0, 1} BY EmptySeq DEF Clean
<1>2. /\ t \in Seq(Frame) /\ Len(t) = Len(s) - 1
      /\ \A i \in 1..Len(t) : t[i] = s[i]
  <2>1. PICK m \in Int : m = Len(s) - 1 BY <1>1
  <2>2. \A i \in 1..m : s[i] \in Frame BY <1>1, <2>1
  <2>3. /\ SubSeq(s, 1, m) \in Seq(Frame)
        /\ Len(SubSeq(s, 1, m)) = IF 1 <= m THEN m - 1 + 1 ELSE 0
        /\ \A i \in 1..(m - 1 + 1) : SubSeq(s, 1, m)[i] = s[1 + i - 1]
    BY <2>2, SubSeqProperties
  <2> QED BY <1>1, <2>1, <2>3
<1> HIDE DEF t
<1>3. t # <<>> BY <1>1, <1>2
<1>4. \A i \in 1..Len(t) : i \in 1..Len(s) /\ i < Len(s) BY <1>1, <1>2
<1>5. Clean(t, used)
  <2>1. \A i \in 1..Len(t) : GoodFrame(t[i]) /\ Suspended(t[i]) /\ Held(t[i]) \subseteq used
    BY <1>2, <1>4 DEF Clean
  <2>2. \A i, j \in 1..Len(t) : i # j => Apart(t[i], t[j])
    BY <1>2, <1>4 DEF Clean
  <2> QED BY <1>2, <2>1, <2>2 DEF Clean
<1>6. Suspended(t[Len(t)]) BY <1>1, <1>2, <1>4 DEF Clean
<1> QED BY <1>2, <1>3, <1>5, <1>6 DEF t

(* Stepped replaces the innermost frame by the one after its instruction.  *)
LEMMA SteppedTop ==
  ASSUME NEW s, NEW used, Clean(s, used), s # <<>>
  PROVE  Stepped(s) = [s EXCEPT ![Len(s)] = Next1(s[Len(s)])]
BY DEF Stepped, Next1

-------------------------------------------------------------------------------
(* Steps of one process.                                                   *)

(* A step of process r that leaves it with stack s and scratch memory p.   *)
LEMMA OneProcess ==
  ASSUME IInv, NEW r \in Ranks,
         NEW s, NEW p \in Pools, Clean(s, p.used),
         stack' = [stack EXCEPT ![r] = s], pool' = [pool EXCEPT ![r] = p],
         ~waiting[r], waiting' = waiting,
         program' \in Seq(Items), Len(program') <= MaxItems,
         step' \in [Ranks -> 0..MaxItems], \A q \in Ranks : step'[q] <= Len(program'),
         algid' \in [Ranks -> [Collectives -> Nat]],
         \A q \in Ranks, coll \in Collectives : algid'[q][coll] \in AlgIds(coll),
         profile' \subseteq Collectives \X Nat \X Nat,
         \A t \in profile' : t[3] \in AlgIds(t[1]),
         store' \subseteq Collectives \X Nat \X Nat,
         ran' \subseteq Collectives \X Nat \X Nat
  PROVE  IInv'
<1>1. stack \in [Ranks -> Seq(Frame)] /\ pool \in [Ranks -> Pools]
  BY DEF IInv, TypeOK
<1>2. s \in Seq(Frame) BY DEF Clean
<1>3. stack' \in [Ranks -> Seq(Frame)] /\ pool' \in [Ranks -> Pools] BY <1>1, <1>2
<1>4. \A q \in Ranks : Clean(stack'[q], pool'[q].used)
  <2> SUFFICES ASSUME NEW q \in Ranks PROVE Clean(stack'[q], pool'[q].used)
    OBVIOUS
  <2>1. CASE q = r
    <3>1. stack'[q] = s /\ pool'[q] = p BY <1>1, <2>1
    <3> QED BY <3>1
  <2>2. CASE q # r
    <3>1. stack'[q] = stack[q] /\ pool'[q] = pool[q] BY <1>1, <2>2
    <3> QED BY <3>1 DEF IInv
  <2> QED BY <2>1, <2>2
<1>5. TypeOK' BY <1>3 DEF TypeOK, IInv
<1>6. \A q \in Ranks : waiting'[q] => Pending(stack'[q])
  <2> SUFFICES ASSUME NEW q \in Ranks, waiting'[q] PROVE Pending(stack'[q])
    OBVIOUS
  <2>1. q # r OBVIOUS
  <2>2. stack'[q] = stack[q] BY <1>1, <2>1
  <2> QED BY <2>2 DEF IInv
<1> QED BY <1>4, <1>5, <1>6 DEF IInv

(* The same, when only the stack and the scratch memory change. *)
LEMMA InsideCall ==
  ASSUME IInv, NEW r \in Ranks,
         NEW s, NEW p \in Pools, Clean(s, p.used),
         stack' = [stack EXCEPT ![r] = s], pool' = [pool EXCEPT ![r] = p], ~waiting[r],
         UNCHANGED <<program, step, waiting, algid, profile, store, ran>>
  PROVE  IInv'
BY OneProcess DEF IInv, TypeOK

(* What process r is about to do. *)
LEMMA AtFacts ==
  ASSUME IInv, NEW r \in Ranks, NEW op \in {"grab", "call", "mpi", "release"}, At(r, op)
  PROVE  /\ stack[r] \in Seq(Frame) /\ stack[r] # <<>> /\ Len(stack[r]) \in Nat \ {0}
         /\ Clean(stack[r], pool[r].used)
         /\ Top(r) = stack[r][Len(stack[r])] /\ Len(stack[r]) \in 1..Len(stack[r])
         /\ GoodFrame(Top(r)) /\ ~AtEnd(Top(r))
         /\ Top(r).ip \in 1..Len(Script(Top(r)))
         /\ Script(Top(r))[Top(r).ip] \in Instructions
         /\ op # "mpi" => Instr(Top(r)) = Script(Top(r))[Top(r).ip]
         /\ Instr(Top(r)).op = op
         /\ pool[r] \in Pools
         /\ ~waiting[r]
<1>1. Clean(stack[r], pool[r].used) /\ pool[r] \in Pools BY DEF IInv, TypeOK
<1>2. stack[r] \in Seq(Frame) /\ stack[r] # <<>> /\ ~AtEnd(Top(r))
      /\ Instr(Top(r)).op = op /\ ~waiting[r]
  BY <1>1 DEF At, Clean
<1>3. Len(stack[r]) \in Nat \ {0} /\ Len(stack[r]) \in 1..Len(stack[r])
  BY <1>2, EmptySeq
<1>4. Top(r) = stack[r][Len(stack[r])] BY DEF Top
<1>5. GoodFrame(Top(r)) BY <1>1, <1>3, <1>4 DEF Clean
<1> QED BY <1>1, <1>2, <1>3, <1>4, <1>5, InstrFacts

LEMMA TakeBufferIInv ==
  ASSUME IInv, NEW r \in Ranks, TakeBuffer(r)
  PROVE  IInv'
<1> DEFINE s == stack[r]
           f == Top(r)
           g == Instr(f)
           p == Grabbed(pool[r], g.buf, g.size)
<1>1. At(r, "grab") BY DEF TakeBuffer
<1>2. /\ s \in Seq(Frame) /\ s # <<>> /\ Len(s) \in Nat \ {0}
      /\ Clean(s, pool[r].used)
      /\ f = s[Len(s)] /\ Len(s) \in 1..Len(s)
      /\ GoodFrame(f) /\ ~AtEnd(f) /\ f.ip \in 1..Len(Script(f))
      /\ Script(f)[f.ip] \in Instructions /\ g = Script(f)[f.ip]
      /\ g.op = "grab" /\ pool[r] \in Pools /\ ~waiting[r]
  BY <1>1, AtFacts
<1>3. g.buf \in Bufs /\ g.size \in Nat BY <1>2 DEF Instructions
<1>4. /\ g.buf \notin pool[r].used
      /\ pool' = [pool EXCEPT ![r] = p]
      /\ stack' = [stack EXCEPT ![r] = Stepped(s)]
      /\ UNCHANGED <<program, step, waiting, algid, profile, store, ran>>
  BY DEF TakeBuffer, Fits
<1>5. p \in Pools /\ p.used = pool[r].used \cup {g.buf}
  <2>1. pool[r].used \subseteq Bufs /\ pool[r].offset \in [Kinds -> Nat]
    BY <1>2 DEF Pools
  <2>2. g.size \div Unit(Kind(g.buf)) \in Nat BY <1>3 DEF Unit, SizeofInt
  <2> QED BY <1>3, <2>1, <2>2 DEF Grabbed, Pools
<1>6. Disciplined(Script(f)) BY <1>2, ScriptDisciplined
<1>7. Held(f) = HeldAfter(Script(f), f.ip - 1) BY DEF Held
<1>8. /\ GoodFrame(Next1(f)) /\ Held(Next1(f)) = Held(f) \cup {g.buf}
  <2>1. GoodFrame(Next1(f)) /\ Held(Next1(f)) = HeldAfter(Script(f), f.ip)
    BY <1>2, SteppedFrame
  <2>2. f.ip \in Nat \ {0} BY <1>2, <1>6 DEF Disciplined
  <2> QED BY <1>2, <1>3, <1>7, <2>1, <2>2, HeldAfterGrab
<1>9. ASSUME NEW i \in 1..Len(s), i # Len(s)
      PROVE  Held(s[i]) \subseteq p.used /\ Apart(s[i], Next1(f))
  <2>1. /\ GoodFrame(s[i]) /\ Held(s[i]) \subseteq pool[r].used
        /\ Apart(s[i], f)
    BY <1>2, <1>9 DEF Clean
  <2>2. ASSUME NEW b \in Held(s[i]), Kind(b) = Kind(g.buf) PROVE FALSE
    <3>1. b \in Bufs /\ First(Kind(b)) \in Held(s[i]) BY <2>1, SecondNeedsFirst
    <3>2. CASE Slot(g.buf) = 1
      <4>1. g.buf = First(Kind(g.buf)) BY <1>3, <3>2, BufFacts, BufKinds
      <4> QED BY <1>4, <2>1, <2>2, <3>1, <4>1
    <3>3. CASE Slot(g.buf) = 2
      <4>1. First(Kind(g.buf)) \in Held(f)
        BY <1>2, <1>6, <1>7, <3>3 DEF Disciplined
      <4>2. Kind(First(Kind(g.buf))) = Kind(g.buf) BY <1>3, BufFacts, BufKinds
      <4> QED BY <2>1, <2>2, <4>1, <4>2 DEF Apart
    <3> QED BY <1>3, <3>2, <3>3, BufKinds
  <2> QED BY <1>5, <1>8, <2>1, <2>2 DEF Apart
<1>10. Held(Next1(f)) \subseteq p.used
  <2>1. Held(f) \subseteq pool[r].used BY <1>2, CleanHolds
  <2> QED BY <1>5, <1>8, <2>1
<1>11. Stepped(s) = [s EXCEPT ![Len(s)] = Next1(f)] BY <1>2, SteppedTop
<1> HIDE DEF s, f, g, p
<1>12. Clean([s EXCEPT ![Len(s)] = Next1(f)], p.used)
  BY <1>2, <1>8, <1>9, <1>10, ReplaceTopClean
<1>13. Clean(Stepped(s), p.used) BY <1>11, <1>12
<1> QED BY <1>2, <1>4, <1>5, <1>13, InsideCall

LEMMA GiveUpIInv ==
  ASSUME IInv, NEW r \in Ranks, GiveUp(r)
  PROVE  IInv'
<1> DEFINE s == stack[r]
           f == Top(r)
           t == [s EXCEPT ![Len(s)] = GivenUp(f)]
<1>1. At(r, "grab") BY DEF GiveUp
<1>2. /\ s \in Seq(Frame) /\ s # <<>> /\ Len(s) \in Nat \ {0}
      /\ Clean(s, pool[r].used)
      /\ f = s[Len(s)] /\ GoodFrame(f) /\ pool[r] \in Pools /\ ~waiting[r]
  BY <1>1, AtFacts
<1>3. GoodFrame(GivenUp(f)) /\ Held(GivenUp(f)) = {} BY <1>2, GivenUpFrame
<1>4. Clean(t, pool[r].used)
  <2>1. \A i \in 1..Len(s) : i # Len(s) =>
          Held(s[i]) \subseteq pool[r].used /\ Apart(s[i], GivenUp(f))
    BY <1>2, <1>3 DEF Clean, Apart
  <2> QED BY <1>2, <1>3, <2>1, ReplaceTopClean
<1>5. stack' = [stack EXCEPT ![r] = t] BY DEF GiveUp
<1>6. pool' = [pool EXCEPT ![r] = pool[r]] BY DEF GiveUp, IInv, TypeOK
<1>7. UNCHANGED <<program, step, waiting, algid, profile, store, ran>> BY DEF GiveUp
<1> HIDE DEF t
<1> QED BY <1>2, <1>4, <1>5, <1>6, <1>7, InsideCall

LEMMA GiveBackIInv ==
  ASSUME IInv, NEW r \in Ranks, GiveBack(r)
  PROVE  IInv'
<1> DEFINE s == stack[r]
           f == Top(r)
           k == Instr(f).kind
           p == Released(pool[r], k)
<1>1. At(r, "release") BY DEF GiveBack
<1>2. /\ s \in Seq(Frame) /\ s # <<>> /\ Len(s) \in Nat \ {0}
      /\ Clean(s, pool[r].used)
      /\ f = s[Len(s)] /\ Len(s) \in 1..Len(s)
      /\ GoodFrame(f) /\ ~AtEnd(f) /\ f.ip \in 1..Len(Script(f))
      /\ Script(f)[f.ip] \in Instructions /\ Instr(f) = Script(f)[f.ip]
      /\ Instr(f).op = "release" /\ pool[r] \in Pools /\ ~waiting[r]
  BY <1>1, AtFacts
<1>3. k \in Kinds BY <1>2 DEF Instructions
<1>4. /\ pool' = [pool EXCEPT ![r] = p]
      /\ stack' = [stack EXCEPT ![r] = Stepped(s)]
      /\ UNCHANGED <<program, step, waiting, algid, profile, store, ran>>
  BY DEF GiveBack
<1>5. p \in Pools /\ p.used = {b \in pool[r].used : Kind(b) # k}
  BY <1>2 DEF Released, Pools
<1>6. Disciplined(Script(f)) BY <1>2, ScriptDisciplined
<1>7. Held(f) = HeldAfter(Script(f), f.ip - 1) BY DEF Held
<1>8. /\ GoodFrame(Next1(f)) /\ Held(Next1(f)) = {b \in Held(f) : Kind(b) # k}
  <2>1. GoodFrame(Next1(f)) /\ Held(Next1(f)) = HeldAfter(Script(f), f.ip)
    BY <1>2, SteppedFrame
  <2>2. f.ip \in Nat \ {0} BY <1>2, <1>6 DEF Disciplined
  <2> QED BY <1>2, <1>7, <2>1, <2>2, HeldAfterRelease
<1>9. First(k) \in Held(f) /\ Kind(First(k)) = k
  BY <1>2, <1>3, <1>6, <1>7, BufFacts DEF Disciplined
<1>10. ASSUME NEW i \in 1..Len(s), i # Len(s)
       PROVE  Held(s[i]) \subseteq p.used /\ Apart(s[i], Next1(f))
  <2>1. Held(s[i]) \subseteq pool[r].used /\ Apart(s[i], f)
    BY <1>2, <1>10 DEF Clean
  <2> QED BY <1>5, <1>8, <1>9, <2>1 DEF Apart
<1>11. Held(Next1(f)) \subseteq p.used
  <2>1. Held(f) \subseteq pool[r].used BY <1>2, CleanHolds
  <2> QED BY <1>5, <1>8, <2>1
<1>12. Stepped(s) = [s EXCEPT ![Len(s)] = Next1(f)] BY <1>2, SteppedTop
<1> HIDE DEF s, f, k, p
<1>13. Clean([s EXCEPT ![Len(s)] = Next1(f)], p.used)
  BY <1>2, <1>8, <1>10, <1>11, ReplaceTopClean
<1>14. Clean(Stepped(s), p.used) BY <1>12, <1>13
<1> QED BY <1>2, <1>4, <1>5, <1>14, InsideCall

(* Whatever is looked up, a wrapper selects an algorithm that exists.      *)
LEMMA AnswersExist ==
  ASSUME IInv, NEW coll \in Collectives, NEW bytes, NEW comm,
         NEW alg \in Answers(coll, bytes, comm)
  PROVE  alg \in AlgIds(coll)
<1>1. \A t \in Known(coll, bytes) : t[3] \in AlgIds(coll) BY DEF IInv, Known
<1>2. Candidates[coll] \subseteq AlgIds(coll) BY CandidatesAssumption
<1> QED BY <1>1, <1>2, AlgIdsNat DEF Answers

LEMMA InterceptFacts ==
  ASSUME IInv, NEW r \in Ranks, NEW coll \in Collectives, NEW n \in Nat, NEW e \in Nat \ {0},
         NEW comm \in Comms, Intercept(r, coll, n, e, comm),
         stack[r] # <<>> => Suspended(Top(r))
  PROVE  /\ \E s : Clean(s, pool[r].used) /\ stack' = [stack EXCEPT ![r] = s]
         /\ algid' \in [Ranks -> [Collectives -> Nat]]
         /\ \A q \in Ranks, c \in Collectives : algid'[q][c] \in AlgIds(c)
         /\ profile' \subseteq Collectives \X Nat \X Nat
         /\ \A t \in profile' : t[3] \in AlgIds(t[1])
<1>1. /\ algid \in [Ranks -> [Collectives -> Nat]]
      /\ \A q \in Ranks, c \in Collectives : algid[q][c] \in AlgIds(c)
      /\ profile \subseteq Collectives \X Nat \X Nat
      /\ \A t \in profile : t[3] \in AlgIds(t[1])
      /\ Clean(stack[r], pool[r].used)
      /\ stack \in [Ranks -> Seq(Frame)]
  BY DEF IInv, TypeOK
<1>2. /\ algid' \in [Ranks -> [Collectives -> Nat]]
      /\ \A q \in Ranks, c \in Collectives : algid'[q][c] \in AlgIds(c)
      /\ profile' \subseteq Collectives \X Nat \X Nat
      /\ \A t \in profile' : t[3] \in AlgIds(t[1])
  <2>1. CASE Tuned
    <3>1. PICK alg \in Answers(coll, n * e, comm) :
            /\ algid' = [algid EXCEPT ![r][coll] = alg]
            /\ profile' = IF Consults(coll, n * e, comm)
                          THEN profile \cup {<<coll, n * e, alg>>} ELSE profile
      BY <2>1 DEF Intercept
    <3>2. alg \in AlgIds(coll) /\ alg \in Nat BY AnswersExist, AlgIdsNat
    <3>3. /\ algid' \in [Ranks -> [Collectives -> Nat]]
          /\ \A q \in Ranks, c \in Collectives : algid'[q][c] \in AlgIds(c)
      BY <1>1, <3>1, <3>2
    <3>4. n * e \in Nat BY ProductNat
    <3>5. /\ <<coll, n * e, alg>> \in Collectives \X Nat \X Nat
          /\ <<coll, n * e, alg>>[1] = coll /\ <<coll, n * e, alg>>[3] = alg
      BY <3>2, <3>4
    <3>6. \A t \in profile' : t \in profile \/ t = <<coll, n * e, alg>> BY <3>1
    <3>7. /\ profile' \subseteq Collectives \X Nat \X Nat
          /\ \A t \in profile' : t[3] \in AlgIds(t[1])
      BY <1>1, <3>2, <3>5, <3>6
    <3> QED BY <3>3, <3>7
  <2>2. CASE ~Tuned BY <1>1, <2>2 DEF Intercept
  <2> QED BY <2>1, <2>2
<1>3. \E s : Clean(s, pool[r].used) /\ stack' = [stack EXCEPT ![r] = s]
  <2> DEFINE a == algid'[r][coll]
             f == [coll |-> coll, n |-> n, e |-> e, comm |-> comm, alg |-> a,
                   default |-> a = DEFAULT, ip |-> 1]
  <2>1. GoodFrame(f) /\ Held(f) = {} BY <1>2, NewFrame
  <2>2. stack' = [stack EXCEPT ![r] = Append(stack[r], f)] BY DEF Intercept
  <2> HIDE DEF f
  <2>3. stack[r] # <<>> => Suspended(stack[r][Len(stack[r])]) BY DEF Top
  <2>4. Clean(Append(stack[r], f), pool[r].used) BY <1>1, <2>1, <2>3, PushClean
  <2> QED BY <2>2, <2>4
<1> QED BY <1>2, <1>3

LEMMA CallInnerIInv ==
  ASSUME IInv, NEW r \in Ranks, CallInner(r)
  PROVE  IInv'
<1> DEFINE f == Top(r)
           i == Instr(f)
<1>1. At(r, "call") BY DEF CallInner
<1>2. /\ GoodFrame(f) /\ ~AtEnd(f) /\ f.ip \in 1..Len(Script(f))
      /\ Script(f)[f.ip] \in Instructions /\ i = Script(f)[f.ip] /\ i.op = "call"
      /\ pool[r] \in Pools /\ ~waiting[r]
  BY <1>1, AtFacts
<1>3. i.coll \in Collectives /\ i.n \in Nat /\ i.e \in Nat \ {0} /\ f.comm \in Comms
  BY <1>2 DEF Instructions, GoodFrame, Frame
<1>4. Suspended(f)
  <2>1. Len(Script(f)) \in Nat BY <1>2, ScriptDisciplined DEF Disciplined
  <2> QED BY <1>2, <2>1 DEF Suspended
<1>5. /\ Intercept(r, i.coll, i.n, i.e, f.comm)
      /\ UNCHANGED <<program, step, waiting, pool, store, ran>>
  BY DEF CallInner
<1>6. pool' = [pool EXCEPT ![r] = pool[r]] BY <1>5 DEF IInv, TypeOK
<1> HIDE DEF f, i
<1>7. /\ \E s : Clean(s, pool[r].used) /\ stack' = [stack EXCEPT ![r] = s]
      /\ algid' \in [Ranks -> [Collectives -> Nat]]
      /\ \A q \in Ranks, c \in Collectives : algid'[q][c] \in AlgIds(c)
      /\ profile' \subseteq Collectives \X Nat \X Nat
      /\ \A t \in profile' : t[3] \in AlgIds(t[1])
  BY <1>3, <1>4, <1>5, InterceptFacts DEF f
<1>8. PICK s : Clean(s, pool[r].used) /\ stack' = [stack EXCEPT ![r] = s] BY <1>7
<1>9. /\ waiting' = waiting
      /\ program' \in Seq(Items) /\ Len(program') <= MaxItems
      /\ step' \in [Ranks -> 0..MaxItems] /\ \A q \in Ranks : step'[q] <= Len(program')
      /\ store' \subseteq Collectives \X Nat \X Nat
      /\ ran' \subseteq Collectives \X Nat \X Nat
  BY <1>5 DEF IInv, TypeOK
<1> QED BY <1>2, <1>6, <1>7, <1>8, <1>9, OneProcess

LEMMA PostIInv ==
  ASSUME IInv, NEW r \in Ranks, Post(r)
  PROVE  IInv'
<1>1. /\ waiting' = [waiting EXCEPT ![r] = TRUE]
      /\ UNCHANGED <<program, step, stack, pool, algid, profile, store, ran>>
  BY DEF Post
<1>2. waiting' \in [Ranks -> BOOLEAN]
  <2>1. waiting \in [Ranks -> BOOLEAN] BY DEF IInv, TypeOK
  <2> QED BY <1>1, <2>1
<1>3. TypeOK' BY <1>1, <1>2 DEF IInv, TypeOK
<1>4. At(r, "mpi") BY DEF Post
<1>5. Pending(stack[r]) BY <1>4, AtFacts DEF Pending
<1>6. waiting \in [Ranks -> BOOLEAN] BY DEF IInv, TypeOK
<1>7. \A q \in Ranks : waiting'[q] => Pending(stack'[q])
  BY <1>1, <1>5, <1>6 DEF IInv
<1> QED BY <1>1, <1>3, <1>7 DEF IInv

(* A call that has returned was at a call instruction: what the caller     *)
(* holds is the same after it.                                             *)
LEMMA ReturnIInv ==
  ASSUME IInv, NEW r \in Ranks, Return(r)
  PROVE  IInv'
<1> DEFINE s == stack[r]
           f == Top(r)
           t == SubSeq(s, 1, Len(s) - 1)
           g == t[Len(t)]
<1>1. s # <<>> BY DEF Return
<1>2. s \in Seq(Frame) /\ Clean(s, pool[r].used) /\ pool[r] \in Pools
  BY DEF IInv, TypeOK
<1>3. Len(s) \in Nat \ {0} BY <1>1, <1>2, EmptySeq
<1>4. f \in Frame /\ f.coll \in Collectives /\ f.alg \in Nat /\ Bytes(f) \in Nat
  <2>1. f \in Frame BY <1>2, <1>3 DEF Top
  <2> QED BY <2>1, ProductNat DEF Frame, Bytes
<1>5. /\ store' \subseteq Collectives \X Nat \X Nat
      /\ ran' \subseteq Collectives \X Nat \X Nat
  <2>1. /\ store \subseteq Collectives \X Nat \X Nat
        /\ ran \subseteq Collectives \X Nat \X Nat
        /\ algid[r][f.coll] \in Nat
    BY <1>4 DEF IInv, TypeOK
  <2>2. DEFAULT \in Nat BY DEF DEFAULT
  <2>3. \A map \in SUBSET (Collectives \X Nat \X Nat), alg \in Nat :
          Saved(map, f.coll, Bytes(f), alg) \subseteq Collectives \X Nat \X Nat
    BY <1>4 DEF Saved
  <2>4. CASE Storing /\ r = 0
    <3> DEFINE a == IF f.default THEN DEFAULT ELSE algid[r][f.coll]
               b == IF f.default THEN DEFAULT ELSE f.alg
    <3>1. a \in Nat /\ b \in Nat BY <1>4, <2>1, <2>2
    <3>2. /\ store' = Saved(store, f.coll, Bytes(f), a)
          /\ ran' = Saved(ran, f.coll, Bytes(f), b)
      BY <2>4 DEF Return, Traced
    <3> HIDE DEF a, b
    <3> QED BY <2>1, <2>3, <3>1, <3>2
  <2>5. CASE ~(Storing /\ r = 0) BY <2>1, <2>5 DEF Return
  <2> QED BY <2>4, <2>5
<1>6. stack' = [stack EXCEPT ![r] = IF Len(s) = 1 THEN <<>> ELSE Stepped(t)]
  BY DEF Return
<1>7. /\ pool' = [pool EXCEPT ![r] = pool[r]]
      /\ UNCHANGED <<program, step, waiting, algid, profile>> /\ ~waiting[r]
  BY DEF Return, IInv, TypeOK
<1> HIDE DEF s, f, t
<1>8. Clean(IF Len(s) = 1 THEN <<>> ELSE Stepped(t), pool[r].used)
  <2>1. CASE Len(s) = 1
    <3>1. Clean(<<>>, pool[r].used) BY EmptySeq DEF Clean
    <3> QED BY <2>1, <3>1
  <2>2. CASE Len(s) # 1
    <3>1. /\ Clean(t, pool[r].used) /\ t # <<>> /\ Suspended(g)
      BY <1>1, <1>2, <2>2, PopClean DEF t
    <3>2. Len(t) \in Nat \ {0} /\ Len(t) \in 1..Len(t) BY <3>1, EmptySeq DEF Clean
    <3>3. GoodFrame(g) BY <3>1, <3>2 DEF Clean
    <3>4. Len(Script(g)) \in Nat BY <3>3, ScriptDisciplined DEF Disciplined
    <3>5. ~AtEnd(g) /\ Script(g)[g.ip].op \notin {"grab", "release"}
      BY <3>1, <3>3, <3>4 DEF Suspended, AtEnd, GoodFrame
    <3>6. GoodFrame(Next1(g)) /\ Held(Next1(g)) = HeldAfter(Script(g), g.ip)
      BY <3>3, <3>5, SteppedFrame
    <3>7. g.ip \in Nat \ {0} BY <3>3, <3>4 DEF GoodFrame
    <3>8. Held(Next1(g)) = Held(g) BY <3>5, <3>6, <3>7, HeldAfterWork DEF Held
    <3>9. /\ Held(Next1(g)) \subseteq pool[r].used
          /\ \A i \in 1..Len(t) : i # Len(t) =>
               Held(t[i]) \subseteq pool[r].used /\ Apart(t[i], Next1(g))
      BY <3>1, <3>2, <3>8 DEF Clean, Apart
    <3>10. Clean([t EXCEPT ![Len(t)] = Next1(g)], pool[r].used)
      BY <3>1, <3>6, <3>9, ReplaceTopClean
    <3>11. Stepped(t) = [t EXCEPT ![Len(t)] = Next1(g)] BY <3>1, SteppedTop
    <3> QED BY <2>2, <3>10, <3>11
  <2> QED BY <2>1, <2>2
<1>9. /\ waiting' = waiting
      /\ program' \in Seq(Items) /\ Len(program') <= MaxItems
      /\ step' \in [Ranks -> 0..MaxItems] /\ \A q \in Ranks : step'[q] <= Len(program')
      /\ algid' \in [Ranks -> [Collectives -> Nat]]
      /\ \A q \in Ranks, c \in Collectives : algid'[q][c] \in AlgIds(c)
      /\ profile' \subseteq Collectives \X Nat \X Nat
      /\ \A x \in profile' : x[3] \in AlgIds(x[1])
  BY <1>7 DEF IInv, TypeOK
<1> QED BY <1>2, <1>5, <1>6, <1>7, <1>8, <1>9, OneProcess

-------------------------------------------------------------------------------
(* Steps of the application, and of MPI.                                   *)

LEMMA BeginFacts ==
  ASSUME IInv, NEW r \in Ranks, NEW item \in Upcoming(r), Begin(r, item)
  PROVE  /\ item \in Items /\ stack[r] = <<>> /\ ~waiting[r]
         /\ program' \in Seq(Items) /\ Len(program') <= MaxItems
         /\ step' \in [Ranks -> 0..MaxItems]
         /\ \A q \in Ranks : step'[q] <= Len(program')
<1>1. /\ program \in Seq(Items) /\ Len(program) <= MaxItems /\ Len(program) \in Nat
      /\ step \in [Ranks -> 0..MaxItems] /\ \A q \in Ranks : step[q] <= Len(program)
      /\ MaxItems \in Nat
  BY SizesAssumption DEF IInv, TypeOK
<1>2. stack[r] = <<>> /\ ~waiting[r] BY DEF Begin, IInv, Pending
<1>3. /\ program' = IF step[r] < Len(program) THEN program ELSE Append(program, item)
      /\ step' = [step EXCEPT ![r] = @ + 1]
  BY DEF Begin
<1>4. CASE step[r] < Len(program)
  <2>1. item = program[step[r] + 1] BY <1>4 DEF Upcoming
  <2>2. item \in Items BY <1>1, <1>4, <2>1
  <2>3. program' = program BY <1>3, <1>4
  <2>4. step' \in [Ranks -> 0..MaxItems] BY <1>1, <1>3, <1>4
  <2>5. \A q \in Ranks : step'[q] <= Len(program') BY <1>1, <1>3, <1>4, <2>3
  <2> QED BY <1>1, <1>2, <2>2, <2>3, <2>4, <2>5
<1>5. CASE ~(step[r] < Len(program))
  <2>1. item \in Items /\ Len(program) < MaxItems BY <1>5 DEF Upcoming
  <2>2. program' = Append(program, item) BY <1>3, <1>5
  <2>3. program' \in Seq(Items) /\ Len(program') = Len(program) + 1
    BY <1>1, <2>1, <2>2
  <2>4. step' \in [Ranks -> 0..MaxItems] BY <1>1, <1>3, <1>5, <2>1
  <2>5. \A q \in Ranks : step'[q] <= Len(program') BY <1>1, <1>3, <1>5, <2>3
  <2> QED BY <1>1, <1>2, <2>1, <2>3, <2>4, <2>5
<1> QED BY <1>4, <1>5

LEMMA BeginCallIInv ==
  ASSUME IInv, NEW r \in Ranks, BeginCall(r)
  PROVE  IInv'
<1>1. PICK item \in Upcoming(r) :
        /\ item.what = "call" /\ r \in item.comm
        /\ Begin(r, item)
        /\ Intercept(r, item.coll, PassedCount(item, r), item.e, item.comm)
        /\ UNCHANGED <<waiting, pool, store, ran>>
  BY DEF BeginCall
<1>2. /\ item \in Items /\ stack[r] = <<>> /\ ~waiting[r]
      /\ program' \in Seq(Items) /\ Len(program') <= MaxItems
      /\ step' \in [Ranks -> 0..MaxItems]
      /\ \A q \in Ranks : step'[q] <= Len(program')
  BY <1>1, BeginFacts
<1>3. item \in CallItem BY <1>1, <1>2, ItemsAssumption DEF SetItem
<1>4. /\ item.coll \in Collectives /\ item.e \in Nat \ {0} /\ item.comm \in Comms
      /\ PassedCount(item, r) \in Nat
  BY <1>3 DEF CallItem, PassedCount
<1>5. /\ \E s : Clean(s, pool[r].used) /\ stack' = [stack EXCEPT ![r] = s]
      /\ algid' \in [Ranks -> [Collectives -> Nat]]
      /\ \A q \in Ranks, c \in Collectives : algid'[q][c] \in AlgIds(c)
      /\ profile' \subseteq Collectives \X Nat \X Nat
      /\ \A t \in profile' : t[3] \in AlgIds(t[1])
  BY <1>1, <1>2, <1>4, InterceptFacts
<1>6. PICK s : Clean(s, pool[r].used) /\ stack' = [stack EXCEPT ![r] = s] BY <1>5
<1>7. /\ pool[r] \in Pools /\ pool' = [pool EXCEPT ![r] = pool[r]]
      /\ waiting' = waiting
      /\ store' \subseteq Collectives \X Nat \X Nat
      /\ ran' \subseteq Collectives \X Nat \X Nat
  BY <1>1 DEF IInv, TypeOK
<1> QED BY <1>2, <1>5, <1>6, <1>7, OneProcess

LEMMA SkipCallIInv ==
  ASSUME IInv, NEW r \in Ranks, SkipCall(r)
  PROVE  IInv'
<1>1. PICK item \in Upcoming(r) :
        /\ Begin(r, item)
        /\ UNCHANGED <<stack, waiting, pool, algid, profile, store, ran>>
  BY DEF SkipCall
<1>2. /\ program' \in Seq(Items) /\ Len(program') <= MaxItems
      /\ step' \in [Ranks -> 0..MaxItems]
      /\ \A q \in Ranks : step'[q] <= Len(program')
  BY <1>1, BeginFacts
<1>3. TypeOK' BY <1>1, <1>2 DEF IInv, TypeOK
<1> QED BY <1>1, <1>2, <1>3 DEF IInv

LEMMA SetAlgIdIInv ==
  ASSUME IInv, NEW r \in Ranks, SetAlgId(r)
  PROVE  IInv'
<1>1. PICK item \in Upcoming(r) :
        /\ item.what = "set" /\ Begin(r, item)
        /\ algid' = [algid EXCEPT ![r][item.coll] = item.alg]
        /\ UNCHANGED <<stack, waiting, pool, profile, store, ran>>
  BY DEF SetAlgId
<1>2. /\ item \in Items
      /\ program' \in Seq(Items) /\ Len(program') <= MaxItems
      /\ step' \in [Ranks -> 0..MaxItems]
      /\ \A q \in Ranks : step'[q] <= Len(program')
  BY <1>1, BeginFacts
<1>3. item \in SetItem BY <1>1, <1>2, ItemsAssumption DEF CallItem
<1>4. item.coll \in Collectives /\ item.alg \in Nat /\ item.alg \in AlgIds(item.coll)
  BY <1>3 DEF SetItem
<1>5. /\ algid \in [Ranks -> [Collectives -> Nat]]
      /\ \A q \in Ranks, c \in Collectives : algid[q][c] \in AlgIds(c)
  BY DEF IInv, TypeOK
<1>6. /\ algid' \in [Ranks -> [Collectives -> Nat]]
      /\ \A q \in Ranks, c \in Collectives : algid'[q][c] \in AlgIds(c)
  BY <1>1, <1>4, <1>5
<1>7. TypeOK' BY <1>1, <1>2, <1>6 DEF IInv, TypeOK
<1> QED BY <1>1, <1>2, <1>6, <1>7 DEF IInv

(* MPI moves every member past the operation it has posted; what the       *)
(* members hold stays the same.                                            *)
LEMMA MeetIInv ==
  ASSUME IInv, NEW comm \in Comms, Meet(comm)
  PROVE  IInv'
<1>1. /\ waiting' = [r \in Ranks |-> waiting[r] /\ r \notin comm]
      /\ stack' = [r \in Ranks |-> IF r \in comm THEN Stepped(stack[r]) ELSE stack[r]]
      /\ UNCHANGED <<program, step, pool, algid, profile, store, ran>>
      /\ \A r \in comm : waiting[r]
  BY DEF Meet, Ready
<1>2. \A r \in Ranks : Clean(stack'[r], pool[r].used)
  <2> SUFFICES ASSUME NEW r \in Ranks PROVE Clean(stack'[r], pool[r].used)
    OBVIOUS
  <2>1. CASE r \notin comm
    <3>1. stack'[r] = stack[r] BY <1>1, <2>1
    <3> QED BY <3>1 DEF IInv
  <2>2. CASE r \in comm
    <3> DEFINE s == stack[r]
               f == s[Len(s)]
    <3>1. Clean(s, pool[r].used) /\ Pending(s) BY <1>1, <2>2 DEF IInv
    <3>2. stack'[r] = Stepped(s) BY <1>1, <2>2
    <3> HIDE DEF s
    <3>3. s # <<>> /\ Len(s) \in Nat \ {0} /\ Len(s) \in 1..Len(s)
      BY <3>1, EmptySeq DEF Clean, Pending
    <3>4. GoodFrame(f) /\ ~AtEnd(f) /\ Instr(f).op = "mpi"
      BY <3>1, <3>3 DEF Clean, Pending
    <3>5. f.ip \in 1..Len(Script(f)) /\ Script(f)[f.ip].op \notin {"grab", "release"}
      BY <3>4, InstrFacts
    <3>6. GoodFrame(Next1(f)) /\ Held(Next1(f)) = HeldAfter(Script(f), f.ip)
      BY <3>4, SteppedFrame
    <3>7. f.ip \in Nat \ {0} BY <3>4 DEF GoodFrame, Frame
    <3>8. Held(Next1(f)) = Held(f) BY <3>5, <3>6, <3>7, HeldAfterWork DEF Held
    <3>9. /\ Held(Next1(f)) \subseteq pool[r].used
          /\ \A i \in 1..Len(s) : i # Len(s) =>
               Held(s[i]) \subseteq pool[r].used /\ Apart(s[i], Next1(f))
      BY <3>1, <3>3, <3>8 DEF Clean, Apart
    <3>10. Clean([s EXCEPT ![Len(s)] = Next1(f)], pool[r].used)
      BY <3>1, <3>3, <3>6, <3>9, ReplaceTopClean
    <3>11. Stepped(s) = [s EXCEPT ![Len(s)] = Next1(f)] BY <3>1, <3>3, SteppedTop
    <3> QED BY <3>2, <3>10, <3>11
  <2> QED BY <2>1, <2>2
<1>3. waiting \in [Ranks -> BOOLEAN] BY DEF IInv, TypeOK
<1>4. waiting' \in [Ranks -> BOOLEAN] BY <1>1, <1>3
<1>5. \A r \in Ranks : waiting'[r] => Pending(stack'[r])
  <2> SUFFICES ASSUME NEW r \in Ranks, waiting'[r] PROVE Pending(stack'[r])
    OBVIOUS
  <2>1. waiting[r] /\ r \notin comm BY <1>1
  <2>2. stack'[r] = stack[r] BY <1>1, <2>1
  <2> QED BY <2>1, <2>2 DEF IInv
<1>6. stack' \in [Ranks -> Seq(Frame)]
  <2>1. \A r \in Ranks : stack'[r] \in Seq(Frame) BY <1>2 DEF Clean
  <2> QED BY <1>1, <2>1
<1>7. TypeOK' BY <1>1, <1>4, <1>6 DEF IInv, TypeOK
<1> QED BY <1>1, <1>2, <1>5, <1>7 DEF IInv

-------------------------------------------------------------------------------
(* Theorems.                                                               *)

LEMMA InitIInv == Init => IInv
<1> SUFFICES ASSUME Init PROVE IInv
  OBVIOUS
<1>1. EmptyPool \in Pools BY DEF EmptyPool, Pools
<1>2. <<>> \in Seq(Frame) /\ <<>> \in Seq(Items) /\ Len(<<>>) = 0 BY EmptySeq
<1>3. DEFAULT \in Nat /\ 0 \in 0..MaxItems BY SizesAssumption DEF DEFAULT
<1>4. TypeOK BY <1>1, <1>2, <1>3 DEF Init, TypeOK
<1>5. \A r \in Ranks : Clean(stack[r], pool[r].used)
  BY <1>2 DEF Init, Clean
<1>6. \A r \in Ranks, coll \in Collectives : algid[r][coll] \in AlgIds(coll)
  BY AlgIdsNat DEF Init
<1>7. Len(program) <= MaxItems /\ \A r \in Ranks : step[r] <= Len(program)
  BY <1>2, SizesAssumption DEF Init
<1> QED BY <1>4, <1>5, <1>6, <1>7 DEF Init, IInv

LEMMA NextIInv == IInv /\ [Next]_vars => IInv'
<1> SUFFICES ASSUME IInv, [Next]_vars PROVE IInv'
  OBVIOUS
<1>1. ASSUME NEW r \in Ranks, BeginCall(r) PROVE IInv' BY <1>1, BeginCallIInv
<1>2. ASSUME NEW r \in Ranks, SkipCall(r) PROVE IInv' BY <1>2, SkipCallIInv
<1>3. ASSUME NEW r \in Ranks, SetAlgId(r) PROVE IInv' BY <1>3, SetAlgIdIInv
<1>4. ASSUME NEW r \in Ranks, TakeBuffer(r) PROVE IInv' BY <1>4, TakeBufferIInv
<1>5. ASSUME NEW r \in Ranks, GiveUp(r) PROVE IInv' BY <1>5, GiveUpIInv
<1>6. ASSUME NEW r \in Ranks, CallInner(r) PROVE IInv' BY <1>6, CallInnerIInv
<1>7. ASSUME NEW r \in Ranks, Post(r) PROVE IInv' BY <1>7, PostIInv
<1>8. ASSUME NEW r \in Ranks, GiveBack(r) PROVE IInv' BY <1>8, GiveBackIInv
<1>9. ASSUME NEW r \in Ranks, Return(r) PROVE IInv' BY <1>9, ReturnIInv
<1>10. ASSUME NEW comm \in Comms, Meet(comm) PROVE IInv' BY <1>10, MeetIInv
<1>11. CASE UNCHANGED vars
  <2>1. /\ UNCHANGED <<program, step, stack, waiting, pool>>
        /\ UNCHANGED <<algid, profile, store, ran>>
    BY <1>11 DEF vars
  <2>2. TypeOK' BY <2>1 DEF IInv, TypeOK
  <2> QED BY <2>1, <2>2 DEF IInv
<1> QED BY <1>1, <1>2, <1>3, <1>4, <1>5, <1>6, <1>7, <1>8, <1>9, <1>10, <1>11
        DEF Next, Proceed, Finished

LEMMA Inductive == Spec => []IInv
BY InitIInv, NextIInv, PTL DEF Spec

(* Every variable keeps its type: in particular a frame never runs an      *)
(* algorithm its collective does not have, and step never overruns the     *)
(* program.                                                                *)
THEOREM TypeCorrect == Spec => []TypeOK
<1>1. IInv => TypeOK BY DEF IInv
<1> QED BY Inductive, <1>1, PTL

(* The scratch buffers of a mock-up stay marked in use and stay its own    *)
(* while further mock-ups run inside it: pgmpi_buf.c's release functions,  *)
(* which clear whatever flags are set, never take a buffer from another    *)
(* mock-up's hands.                                                        *)
THEOREM ExclusiveBuffers == Spec => []Exclusive
<1>1. IInv => Exclusive BY DEF IInv, Clean, Apart, Exclusive
<1> QED BY Inductive, <1>1, PTL

-------------------------------------------------------------------------------
(* The depth of the recursion.                                             *)

(* Each wrapper on a stack is the one its caller has called. *)
Linked(s) ==
  \A i \in 1..Len(s) : i < Len(s) => Script(s[i])[s[i].ip].coll = s[i + 1].coll

AllLinked == \A r \in Ranks : Linked(stack[r])

HasMessageBuffer(f) == First("msg") \in Held(f)

(* A wrapper that waits for another has the first message buffer, or the   *)
(* other one is of a kind that always has it when it waits.                *)
LEMMA SuspendedHolds ==
  ASSUME NEW f, GoodFrame(f), Suspended(f)
  PROVE  \/ HasMessageBuffer(f)
         \/ /\ f.coll \in {"Allgather", "Allreduce"}
            /\ Script(f)[f.ip].coll \in {"Gather", "Bcast", "Reduce"}
<1> DEFINE s == Script(f)
           p == Cardinality(f.comm)
<1>1. /\ f.coll \in Collectives /\ f.alg \in Nat /\ f.alg \in AlgIds(f.coll)
      /\ f.ip \in 1..Len(s) /\ s[f.ip].op = "call"
  <2>1. Len(s) \in Nat BY ScriptDisciplined DEF Disciplined
  <2> QED BY <2>1 DEF GoodFrame, Frame, Suspended
<1>2. ~f.default
  <2>1. ASSUME f.default PROVE FALSE
    <3>1. s = Plain(f.coll, f.n, f.e) BY <2>1 DEF Script
    <3>2. Len(s) = 1 /\ s[1].op = "mpi" BY <3>1 DEF Plain, Mpi
    <3> QED BY <1>1, <3>2
  <2> QED BY <2>1
<1>3. s = Mockups(f.coll, f.n, f.e, p)[f.alg] BY <1>2 DEF Script
<1>4. f.alg \in Nat \ {DEFAULT} BY <1>1, <1>2 DEF GoodFrame
<1>5. \/ CallsHolding(s)
      \/ f.coll \in {"Allgather", "Allreduce"} /\ CallsRooted(s)
  BY <1>1, <1>3, <1>4, CallsHold
<1> HIDE DEF s
<1>6. CASE CallsHolding(s)
  <2>1. /\ s[1].op = "grab" /\ s[1].buf = First("msg")
        /\ \A j \in 1..f.ip : s[j].op # "release"
    BY <1>1, <1>6 DEF CallsHolding
  <2>2. f.ip \in Nat /\ f.ip > 1
    <3>1. f.ip \in Nat \ {0} BY DEF GoodFrame, Frame
    <3>2. f.ip # 1 BY <1>1, <2>1
    <3> QED BY <3>1, <3>2
  <2>3. 1 \in 1..(f.ip - 1) /\ \A j \in 1..(f.ip - 1) : s[j].op # "release"
    BY <2>1, <2>2
  <2>4. First("msg") \in Bufs BY BufFacts DEF Kinds
  <2> QED BY <2>1, <2>3, <2>4 DEF HasMessageBuffer, Held, HeldAfter, s
<1>7. CASE f.coll \in {"Allgather", "Allreduce"} /\ CallsRooted(s)
  BY <1>1, <1>7 DEF CallsRooted, s
<1> QED BY <1>5, <1>6, <1>7

(* Of two wrappers in a row that wait, one has the first message buffer;   *)
(* no two wrappers of a process have it.                                   *)
LEMMA AtMostFour ==
  ASSUME NEW s, NEW used, Clean(s, used), Linked(s)
  PROVE  Len(s) <= 4
<1> SUFFICES ASSUME ~(Len(s) <= 4) PROVE FALSE
  OBVIOUS
<1>1. Len(s) \in Nat /\ Len(s) > 4 BY DEF Clean
<1>2. \A i \in 1..4 : i \in 1..Len(s) /\ i < Len(s) BY <1>1
<1>3. \A i \in 1..4 : GoodFrame(s[i]) /\ Suspended(s[i]) BY <1>2 DEF Clean
<1>4. \A i \in 1..4 : Script(s[i])[s[i].ip].coll = s[i + 1].coll BY <1>2 DEF Linked
<1>5. \A i \in 1..3 : HasMessageBuffer(s[i]) \/ HasMessageBuffer(s[i + 1])
  <2> SUFFICES ASSUME NEW i \in 1..3, ~HasMessageBuffer(s[i])
               PROVE  HasMessageBuffer(s[i + 1])
    OBVIOUS
  <2>1. i \in 1..4 /\ i + 1 \in 1..4 OBVIOUS
  <2>2. s[i + 1].coll \in {"Gather", "Bcast", "Reduce"}
    BY <1>3, <1>4, <2>1, SuspendedHolds
  <2> QED BY <1>3, <2>1, <2>2, SuspendedHolds
<1>6. \E i \in {1, 2}, j \in {3, 4} : HasMessageBuffer(s[i]) /\ HasMessageBuffer(s[j])
  <2>1. HasMessageBuffer(s[1]) \/ HasMessageBuffer(s[2]) BY <1>5
  <2>2. HasMessageBuffer(s[3]) \/ HasMessageBuffer(s[4]) BY <1>5
  <2> QED BY <2>1, <2>2
<1>7. PICK i \in {1, 2}, j \in {3, 4} : HasMessageBuffer(s[i]) /\ HasMessageBuffer(s[j])
  BY <1>6
<1>8. i \in 1..Len(s) /\ j \in 1..Len(s) /\ i # j BY <1>2
<1>9. Apart(s[i], s[j]) BY <1>8 DEF Clean
<1> QED BY <1>7, <1>9 DEF Apart, HasMessageBuffer

(* The innermost wrapper may go on, it stays the one that was called.      *)
LEMMA LinkedTop ==
  ASSUME NEW s \in Seq(Frame), s # <<>>, Linked(s),
         NEW f \in Frame, f.coll = s[Len(s)].coll
  PROVE  Linked([s EXCEPT ![Len(s)] = f])
<1> DEFINE t == [s EXCEPT ![Len(s)] = f]
<1>1. Len(s) \in Nat \ {0} BY EmptySeq
<1>2. /\ Len(t) = Len(s) /\ t[Len(s)] = f
      /\ \A i \in 1..Len(s) : i # Len(s) => t[i] = s[i]
  BY <1>1
<1> HIDE DEF t
<1>3. \A i \in 1..Len(t) : t[i].coll = s[i].coll BY <1>2
<1>4. ASSUME NEW i \in 1..Len(t), i < Len(t)
      PROVE  Script(t[i])[t[i].ip].coll = t[i + 1].coll
  <2>1. i \in 1..Len(s) /\ i < Len(s) /\ i + 1 \in 1..Len(t) BY <1>1, <1>2, <1>4
  <2>2. t[i] = s[i] BY <1>1, <1>2, <2>1
  <2>3. Script(s[i])[s[i].ip].coll = s[i + 1].coll BY <2>1 DEF Linked
  <2> QED BY <1>3, <2>1, <2>2, <2>3
<1> QED BY <1>4 DEF Linked, t

LEMMA LinkedPush ==
  ASSUME NEW s \in Seq(Frame), Linked(s), NEW f \in Frame,
         s # <<>> => Script(s[Len(s)])[s[Len(s)].ip].coll = f.coll
  PROVE  Linked(Append(s, f))
<1> DEFINE t == Append(s, f)
<1>1. /\ Len(t) = Len(s) + 1 /\ Len(s) \in Nat /\ t[Len(s) + 1] = f
      /\ \A i \in 1..Len(s) : t[i] = s[i]
  OBVIOUS
<1>2. s = <<>> <=> Len(s) = 0 BY EmptySeq
<1> HIDE DEF t
<1>3. ASSUME NEW i \in 1..Len(t), i < Len(t)
      PROVE  Script(t[i])[t[i].ip].coll = t[i + 1].coll
  <2>1. i \in 1..Len(s) /\ t[i] = s[i] BY <1>1, <1>3
  <2>2. CASE i = Len(s) BY <1>1, <1>2, <2>1, <2>2
  <2>3. CASE i < Len(s)
    <3>1. i + 1 \in 1..Len(s) /\ t[i + 1] = s[i + 1] BY <1>1, <2>1, <2>3
    <3> QED BY <2>1, <2>3, <3>1 DEF Linked
  <2> QED BY <1>1, <2>1, <2>2, <2>3
<1> QED BY <1>3 DEF Linked, t

LEMMA LinkedStepped ==
  ASSUME NEW s, NEW used, Clean(s, used), s # <<>>, Linked(s),
         ~AtEnd(s[Len(s)])
  PROVE  Linked(Stepped(s))
<1> DEFINE f == s[Len(s)]
<1>1. s \in Seq(Frame) /\ Len(s) \in Nat \ {0} BY EmptySeq DEF Clean
<1>2. GoodFrame(f) /\ f \in Frame BY <1>1 DEF Clean
<1>3. Next1(f) \in Frame BY <1>2, SteppedFrame DEF GoodFrame
<1>4. Next1(f).coll = f.coll BY <1>2 DEF Next1, Frame
<1>5. Stepped(s) = [s EXCEPT ![Len(s)] = Next1(f)] BY SteppedTop
<1> HIDE DEF f
<1> QED BY <1>1, <1>3, <1>4, <1>5, LinkedTop DEF f

(* A step that gives one process a linked stack keeps all linked. *)
LEMMA OneLinked ==
  ASSUME IInv, AllLinked, NEW r \in Ranks, NEW s, Linked(s),
         stack' = [stack EXCEPT ![r] = s]
  PROVE  AllLinked'
<1>1. stack \in [Ranks -> Seq(Frame)] BY DEF IInv, TypeOK
<1> SUFFICES ASSUME NEW q \in Ranks PROVE Linked(stack'[q])
  BY DEF AllLinked
<1>2. CASE q = r
  <2>1. stack'[q] = s BY <1>1, <1>2
  <2> QED BY <2>1
<1>3. CASE q # r
  <2>1. stack'[q] = stack[q] BY <1>1, <1>3
  <2> QED BY <2>1 DEF AllLinked
<1> QED BY <1>2, <1>3

LEMMA InterceptLinked ==
  ASSUME IInv, IInv', AllLinked, NEW r \in Ranks, NEW coll, NEW n, NEW e, NEW comm,
         Intercept(r, coll, n, e, comm),
         stack[r] # <<>> => Script(Top(r))[Top(r).ip].coll = coll
  PROVE  AllLinked'
<1> DEFINE s == stack[r]
           f == [coll |-> coll, n |-> n, e |-> e, comm |-> comm,
                 alg |-> algid'[r][coll], default |-> algid'[r][coll] = DEFAULT,
                 ip |-> 1]
<1>1. stack' = [stack EXCEPT ![r] = Append(s, f)] BY DEF Intercept
<1>2. stack \in [Ranks -> Seq(Frame)] /\ stack' \in [Ranks -> Seq(Frame)]
  BY DEF IInv, TypeOK
<1>3. s \in Seq(Frame) /\ Linked(s) BY <1>2 DEF AllLinked
<1>4. f.coll = coll OBVIOUS
<1> HIDE DEF f
<1>5. f \in Frame
  <2>1. stack'[r] = Append(s, f) BY <1>1, <1>2
  <2>2. Append(s, f) \in Seq(Frame) BY <1>2, <2>1
  <2>3. /\ Len(Append(s, f)) = Len(s) + 1 /\ Len(s) \in Nat
        /\ Append(s, f)[Len(s) + 1] = f
    BY <1>3
  <2>4. Len(s) + 1 \in 1..Len(Append(s, f)) BY <2>3
  <2> QED BY <2>2, <2>3, <2>4
<1>6. Linked(Append(s, f)) BY <1>3, <1>4, <1>5, LinkedPush DEF Top
<1> HIDE DEF s
<1> QED BY <1>1, <1>6, OneLinked

LEMMA NextLinked ==
  ASSUME IInv, IInv', AllLinked, [Next]_vars
  PROVE  AllLinked'
<1>1. ASSUME NEW r \in Ranks, BeginCall(r) PROVE AllLinked'
  <2>1. PICK item \in Upcoming(r) :
          /\ Begin(r, item)
          /\ Intercept(r, item.coll, PassedCount(item, r), item.e, item.comm)
    BY <1>1 DEF BeginCall
  <2>2. stack[r] = <<>> BY <2>1 DEF Begin
  <2> QED BY <2>1, <2>2, InterceptLinked
<1>2. ASSUME NEW r \in Ranks, SkipCall(r) \/ SetAlgId(r) \/ Post(r) PROVE AllLinked'
  <2>1. stack' = stack BY <1>2 DEF SkipCall, SetAlgId, Post
  <2> QED BY <2>1 DEF AllLinked
<1>3. ASSUME NEW r \in Ranks, TakeBuffer(r) \/ GiveBack(r) PROVE AllLinked'
  <2>1. stack' = [stack EXCEPT ![r] = Stepped(stack[r])] BY <1>3 DEF TakeBuffer, GiveBack
  <2>2. At(r, "grab") \/ At(r, "release") BY <1>3 DEF TakeBuffer, GiveBack
  <2>3. Clean(stack[r], pool[r].used) /\ stack[r] # <<>> /\ ~AtEnd(stack[r][Len(stack[r])])
    BY <2>2, AtFacts DEF Top
  <2>4. Linked(Stepped(stack[r])) BY <2>3, LinkedStepped DEF AllLinked
  <2> QED BY <2>1, <2>4, OneLinked
<1>4. ASSUME NEW r \in Ranks, GiveUp(r) PROVE AllLinked'
  <2> DEFINE s == stack[r]
             f == Top(r)
  <2>1. At(r, "grab") /\ stack' = [stack EXCEPT ![r] = [s EXCEPT ![Len(s)] = GivenUp(f)]]
    BY <1>4 DEF GiveUp
  <2>2. s \in Seq(Frame) /\ s # <<>> /\ f = s[Len(s)] /\ GoodFrame(f)
    BY <2>1, AtFacts
  <2>3. f \in Frame /\ GivenUp(f) \in Frame BY <2>2, GivenUpFrame DEF GoodFrame
  <2>4. GivenUp(f).coll = f.coll BY <2>3 DEF GivenUp, Frame
  <2>5. Linked(s) BY DEF AllLinked
  <2> HIDE DEF s, f
  <2>6. Linked([s EXCEPT ![Len(s)] = GivenUp(f)]) BY <2>2, <2>3, <2>4, <2>5, LinkedTop
  <2> QED BY <2>1, <2>6, OneLinked
<1>5. ASSUME NEW r \in Ranks, CallInner(r) PROVE AllLinked'
  <2> DEFINE i == Instr(Top(r))
  <2>1. At(r, "call") /\ Intercept(r, i.coll, i.n, i.e, Top(r).comm)
    BY <1>5 DEF CallInner
  <2>2. i = Script(Top(r))[Top(r).ip] BY <2>1, AtFacts
  <2> HIDE DEF i
  <2> QED BY <2>1, <2>2, InterceptLinked
<1>6. ASSUME NEW r \in Ranks, Return(r) PROVE AllLinked'
  <2> DEFINE s == stack[r]
             t == SubSeq(s, 1, Len(s) - 1)
  <2>1. /\ s # <<>> /\ Clean(s, pool[r].used) /\ Linked(s)
        /\ stack' = [stack EXCEPT ![r] = IF Len(s) = 1 THEN <<>> ELSE Stepped(t)]
    BY <1>6 DEF Return, IInv, AllLinked
  <2>2. Linked(IF Len(s) = 1 THEN <<>> ELSE Stepped(t))
    <3>1. CASE Len(s) = 1
      <4>1. Linked(<<>>) BY EmptySeq DEF Linked
      <4> QED BY <3>1, <4>1
    <3>2. CASE Len(s) # 1
      <4> HIDE DEF s
      <4>1. /\ Clean(t, pool[r].used) /\ t # <<>>
            /\ Len(t) = Len(s) - 1 /\ \A i \in 1..Len(t) : t[i] = s[i]
            /\ Suspended(t[Len(t)])
        BY <2>1, <3>2, PopClean
      <4> HIDE DEF t
      <4>2. Len(s) \in Nat /\ Len(t) \in Nat \ {0} BY <2>1, <4>1, EmptySeq DEF Clean
      <4>3. Linked(t)
        <5>1. ASSUME NEW i \in 1..Len(t), i < Len(t)
              PROVE  Script(t[i])[t[i].ip].coll = t[i + 1].coll
          <6>1. Len(t) = Len(s) - 1 /\ \A j \in 1..Len(t) : t[j] = s[j] BY <4>1
          <6>2. i \in 1..Len(s) /\ i < Len(s) /\ i + 1 \in 1..Len(t)
            BY <4>2, <5>1, <6>1
          <6>3. t[i] = s[i] /\ t[i + 1] = s[i + 1] BY <6>1, <6>2
          <6> QED BY <2>1, <6>2, <6>3 DEF Linked
        <5> QED BY <5>1 DEF Linked
      <4>4. ~AtEnd(t[Len(t)])
        <5>1. GoodFrame(t[Len(t)]) BY <4>1, <4>2 DEF Clean
        <5>2. Len(Script(t[Len(t)])) \in Nat BY <5>1, ScriptDisciplined DEF Disciplined
        <5> QED BY <4>1, <5>1, <5>2 DEF Suspended, AtEnd, GoodFrame
      <4>5. Linked(Stepped(t)) BY <4>1, <4>3, <4>4, LinkedStepped
      <4> QED BY <3>2, <4>5
    <3> QED BY <3>1, <3>2
  <2> HIDE DEF s, t
  <2> QED BY <2>1, <2>2, OneLinked
<1>7. ASSUME NEW comm \in Comms, Meet(comm) PROVE AllLinked'
  <2> SUFFICES ASSUME NEW r \in Ranks PROVE Linked(stack'[r])
    BY DEF AllLinked
  <2>1. /\ stack'[r] = IF r \in comm THEN Stepped(stack[r]) ELSE stack[r]
        /\ r \in comm => waiting[r]
    BY <1>7 DEF Meet, Ready
  <2>2. Linked(stack[r]) BY DEF AllLinked
  <2>3. CASE r \in comm
    <3>1. Clean(stack[r], pool[r].used) /\ Pending(stack[r]) BY <2>1, <2>3 DEF IInv
    <3> QED BY <2>1, <2>2, <2>3, <3>1, LinkedStepped DEF Pending
  <2> QED BY <2>1, <2>2, <2>3
<1>8. CASE UNCHANGED vars
  <2>1. stack' = stack BY <1>8 DEF vars
  <2> QED BY <2>1 DEF AllLinked
<1> QED BY <1>1, <1>2, <1>3, <1>4, <1>5, <1>6, <1>7, <1>8 DEF Next, Proceed, Finished

(* Profiles can send Allgather to Bcast and Bcast to Allgather without end, *)
(* and no wrapper counts (PGMPI(call), pgmpi_tune.h:99); still no process   *)
(* is ever inside more than four, whatever the profiles, counts and limits. *)
THEOREM NestingAlwaysBounded == Spec => []NestingBounded
<1>1. Init => AllLinked
  <2>1. Linked(<<>>) BY EmptySeq DEF Linked
  <2> QED BY <2>1 DEF Init, AllLinked
<1>2. IInv /\ IInv' /\ AllLinked /\ [Next]_vars => AllLinked' BY NextLinked
<1>3. IInv /\ AllLinked => NestingBounded BY AtMostFour DEF IInv, AllLinked, NestingBounded
<1> QED BY Inductive, <1>1, <1>2, <1>3, PTL DEF Spec

-------------------------------------------------------------------------------
(* What is left to do in a call.                                           *)

LEMMA UpToFour == \A k \in Nat \ {0} : k <= 4 => k \in 1..4 /\ (k # 1 => k \in 2..4)
OBVIOUS

LEMMA Remaining ==
  \A k \in 1..7, i \in Nat \ {0} :
    i \in 1..k + 1 => k + 4 - i \in 1..10 /\ (~(i > k) => k + 4 - i >= 4)
OBVIOUS

(* A fall back has less left than a mock-up that has not returned.         *)
LEMMA LeftRange ==
  ASSUME NEW f, GoodFrame(f)
  PROVE  /\ ToRun(f) \in 1..10
         /\ ~AtEnd(f) => ToRun(f) >= 2
         /\ f.default => ToRun(f) <= 2
         /\ ~f.default /\ ~AtEnd(f) => ToRun(f) >= 4
<1>1. f.ip \in Nat \ {0} /\ f.ip \in 1..Len(Script(f)) + 1 /\ f.default \in BOOLEAN
  BY DEF GoodFrame, Frame
<1>2. Len(Script(f)) \in 1..7 BY ScriptDisciplined DEF Disciplined, LongestScript
<1>3. AtEnd(f) <=> f.ip > Len(Script(f)) BY DEF AtEnd
<1>4. CASE f.default
  <2>1. Len(Script(f)) = 1 BY <1>4 DEF Script, Plain
  <2>2. ToRun(f) = 3 - f.ip BY <1>4 DEF ToRun
  <2> QED BY <1>1, <1>3, <1>4, <2>1, <2>2
<1>5. CASE ~f.default
  <2>1. ToRun(f) = Len(Script(f)) + 4 - f.ip BY <1>1, <1>5 DEF ToRun
  <2>2. ToRun(f) \in 1..10 /\ (~AtEnd(f) => ToRun(f) >= 4)
    BY ONLY <1>1, <1>2, <1>3, <2>1, Remaining
  <2> QED BY <1>5, <2>2
<1> QED BY <1>4, <1>5

LEMMA LeftStepped ==
  ASSUME NEW f, GoodFrame(f), ~AtEnd(f)
  PROVE  ToRun(Next1(f)) = ToRun(f) - 1
<1>1. f \in Frame /\ f.ip \in Nat /\ Len(Script(f)) \in Nat /\ f.default \in BOOLEAN
  BY ScriptDisciplined DEF GoodFrame, Frame, Disciplined
<1>2. Next1(f).default = f.default /\ Next1(f).ip = f.ip + 1
  BY <1>1 DEF Next1, Frame
<1>3. Script(Next1(f)) = Script(f) BY SteppedFrame
<1> QED BY <1>1, <1>2, <1>3 DEF ToRun

(* A mock-up that gives up has less left than before. *)
LEMMA LeftGivenUp ==
  ASSUME NEW f, GoodFrame(f), ~AtEnd(f), Instr(f).op = "grab"
  PROVE  ToRun(GivenUp(f)) < ToRun(f)
<1>1. ~f.default
  <2> SUFFICES ASSUME f.default PROVE FALSE
    OBVIOUS
  <2>1. Script(f) = Plain(f.coll, f.n, f.e) BY DEF Script
  <2>2. f.ip \in 1..Len(Script(f)) /\ Instr(f) = Script(f)[f.ip] BY InstrFacts
  <2>3. Len(Script(f)) = 1 /\ Script(f)[1].op = "mpi" BY <2>1 DEF Plain, Mpi
  <2> QED BY <2>2, <2>3
<1>2. f \in Frame BY DEF GoodFrame
<1>3. GivenUp(f).default = TRUE /\ GivenUp(f).ip = 1 BY <1>2 DEF GivenUp, Frame
<1>4. ToRun(GivenUp(f)) = 2 BY <1>3 DEF ToRun
<1> QED BY <1>1, <1>4, LeftRange

(* The digits of a stack that a process can have. *)
LEMMA DigitRange ==
  ASSUME NEW s, NEW used, Clean(s, used), NEW i \in 1..4
  PROVE  Digit(s, i) \in 0..10
<1>1. Len(s) \in Nat BY DEF Clean
<1>2. CASE i > Len(s) BY <1>2 DEF Digit
<1>3. CASE ~(i > Len(s))
  <2>1. i \in 1..Len(s) BY <1>1, <1>3
  <2>2. ToRun(s[i]) \in 1..10 BY <2>1, LeftRange DEF Clean
  <2> QED BY <1>3, <2>2 DEF Digit
<1> QED BY <1>2, <1>3

(* The outermost wrapper whose digit changes decides. *)
LEMMA Lowered ==
  ASSUME NEW s, NEW t, NEW used, NEW now, Clean(s, used), Clean(t, now),
         NEW k \in 1..4, Digit(t, k) < Digit(s, k),
         \A i \in 1..4 : i < k => Digit(t, i) = Digit(s, i)
  PROVE  LeftToDo(t) < LeftToDo(s)
<1>1. \A i \in 1..4 : Digit(s, i) \in 0..10 /\ Digit(t, i) \in 0..10 BY DigitRange
<1> DEFINE V(a, b, c, d) == ((a * 11 + b) * 11 + c) * 11 + d
<1>2. /\ LeftToDo(s) = V(Digit(s, 1), Digit(s, 2), Digit(s, 3), Digit(s, 4))
      /\ LeftToDo(t) = V(Digit(t, 1), Digit(t, 2), Digit(t, 3), Digit(t, 4))
  BY DEF LeftToDo, LongestScript
<1> HIDE DEF V
<1> DEFINE a == Digit(s, 1)
           b == Digit(s, 2)
           c == Digit(s, 3)
           d == Digit(s, 4)
           w == Digit(t, 1)
           x == Digit(t, 2)
           y == Digit(t, 3)
           z == Digit(t, 4)
<1>3. /\ a \in 0..10 /\ b \in 0..10 /\ c \in 0..10 /\ d \in 0..10
      /\ w \in 0..10 /\ x \in 0..10 /\ y \in 0..10 /\ z \in 0..10
  BY <1>1
<1>4. \/ w < a
      \/ w = a /\ x < b
      \/ w = a /\ x = b /\ y < c
      \/ w = a /\ x = b /\ y = c /\ z < d
  <2>1. k = 1 \/ k = 2 \/ k = 3 \/ k = 4 OBVIOUS
  <2> QED BY <2>1
<1> HIDE DEF a, b, c, d, w, x, y, z
<1>5. V(w, x, y, z) < V(a, b, c, d) BY ONLY <1>3, <1>4 DEF V
<1> QED BY <1>2, <1>5 DEF a, b, c, d, w, x, y, z

(* The innermost wrapper has gone on. *)
LEMMA LoweredTop ==
  ASSUME NEW s, NEW used, NEW now, Clean(s, used), s # <<>>, Len(s) <= 4,
         NEW f, ToRun(f) < ToRun(s[Len(s)]),
         Clean([s EXCEPT ![Len(s)] = f], now)
  PROVE  LeftToDo([s EXCEPT ![Len(s)] = f]) < LeftToDo(s)
<1> DEFINE t == [s EXCEPT ![Len(s)] = f]
<1>0. s \in Seq(Frame) /\ Len(s) \in Nat \ {0} BY EmptySeq DEF Clean
<1>1. s \in Seq(Frame) /\ Len(s) \in 1..4 BY <1>0, UpToFour
<1>2. /\ Len(t) = Len(s) /\ t[Len(s)] = f
      /\ \A i \in 1..Len(s) : i # Len(s) => t[i] = s[i]
  BY <1>1
<1>3. Clean(t, now) OBVIOUS
<1> HIDE DEF t
<1>4. Digit(t, Len(s)) < Digit(s, Len(s)) BY <1>1, <1>2 DEF Digit
<1>5. \A i \in 1..4 : i < Len(s) => Digit(t, i) = Digit(s, i) BY <1>1, <1>2 DEF Digit
<1>6. LeftToDo(t) < LeftToDo(s) BY <1>1, <1>3, <1>4, <1>5, Lowered
<1> QED BY <1>6 DEF t

LEMMA LoweredStepped ==
  ASSUME NEW s, NEW used, NEW now, Clean(s, used), s # <<>>, Len(s) <= 4,
         ~AtEnd(s[Len(s)]), Clean(Stepped(s), now)
  PROVE  LeftToDo(Stepped(s)) < LeftToDo(s)
<1> DEFINE f == s[Len(s)]
<1>1. Stepped(s) = [s EXCEPT ![Len(s)] = Next1(f)] BY SteppedTop
<1>2. Len(s) \in 1..Len(s) BY EmptySeq DEF Clean
<1>3. GoodFrame(f) BY <1>2 DEF Clean
<1>4. ToRun(Next1(f)) < ToRun(f) BY <1>3, LeftStepped, LeftRange
<1> HIDE DEF f
<1> QED BY <1>1, <1>4, LoweredTop DEF f

(* The innermost wrapper has called another one. *)
LEMMA LoweredPush ==
  ASSUME NEW s, NEW used, Clean(s, used), s # <<>>,
         NEW f, Clean(Append(s, f), used), Len(Append(s, f)) <= 4
  PROVE  LeftToDo(Append(s, f)) < LeftToDo(s)
<1> DEFINE t == Append(s, f)
<1>1. s \in Seq(Frame) /\ Len(s) \in Nat \ {0} BY EmptySeq DEF Clean
<1>2. Len(t) = Len(s) + 1 /\ \A i \in 1..Len(s) : t[i] = s[i] BY <1>1
<1>3. Clean(t, used) /\ Len(t) <= 4 OBVIOUS
<1> HIDE DEF t
<1>4. Len(s) \in 1..4
  <2>1. Len(s) <= 4 BY <1>1, <1>2, <1>3
  <2> QED BY <1>1, <2>1, UpToFour
<1>5. Digit(t, Len(s)) < Digit(s, Len(s))
  <2>1. GoodFrame(s[Len(s)]) BY <1>1 DEF Clean
  <2>2. ToRun(s[Len(s)]) \in 1..10 BY <2>1, LeftRange
  <2>3. Digit(s, Len(s)) = ToRun(s[Len(s)]) BY <1>1 DEF Digit
  <2>4. Digit(t, Len(s)) = ToRun(s[Len(s)]) - 1 BY <1>1, <1>2 DEF Digit
  <2> QED BY <2>2, <2>3, <2>4
<1>6. \A i \in 1..4 : i < Len(s) => Digit(t, i) = Digit(s, i) BY <1>1, <1>2 DEF Digit
<1>7. LeftToDo(t) < LeftToDo(s) BY <1>3, <1>4, <1>5, <1>6, Lowered
<1> QED BY <1>7 DEF t

(* The innermost wrapper has returned to the one that had called it. *)
LEMMA LoweredPop ==
  ASSUME NEW s, NEW used, Clean(s, used), s # <<>>, Len(s) # 1, Len(s) <= 4,
         Clean(Stepped(SubSeq(s, 1, Len(s) - 1)), used)
  PROVE  LeftToDo(Stepped(SubSeq(s, 1, Len(s) - 1))) < LeftToDo(s)
<1> DEFINE t == SubSeq(s, 1, Len(s) - 1)
           g == t[Len(t)]
           u == Stepped(t)
<1>0. s \in Seq(Frame) /\ Len(s) \in Nat \ {0} BY EmptySeq DEF Clean
<1>1. s \in Seq(Frame) /\ Len(s) \in 2..4 BY <1>0, UpToFour
<1>2. /\ Clean(t, used) /\ t # <<>>
      /\ Len(t) = Len(s) - 1 /\ \A i \in 1..Len(t) : t[i] = s[i]
      /\ Suspended(g)
  BY PopClean
<1>3. Clean(u, used) OBVIOUS
<1>4. u = [t EXCEPT ![Len(t)] = Next1(g)] BY <1>2, SteppedTop
<1> HIDE DEF t, u
<1>5. /\ Len(u) = Len(t) /\ u[Len(t)] = Next1(g)
      /\ \A i \in 1..Len(t) : i # Len(t) => u[i] = t[i]
  <2>1. t \in Seq(Frame) /\ Len(t) \in 1..Len(t) BY <1>1, <1>2 DEF Clean
  <2> QED BY <1>4, <2>1
<1>6. GoodFrame(g) /\ ~AtEnd(g) /\ g = s[Len(s) - 1]
  <2>1. Len(t) \in 1..Len(t) BY <1>1, <1>2
  <2>2. GoodFrame(g) BY <1>2, <2>1 DEF Clean
  <2>3. Len(Script(g)) \in Nat /\ g.ip \in Nat
    BY <2>2, ScriptDisciplined DEF Disciplined, GoodFrame, Frame
  <2> QED BY <1>2, <2>1, <2>2, <2>3 DEF Suspended, AtEnd
<1>7. ToRun(g) \in 1..10 /\ ToRun(Next1(g)) = ToRun(g) - 1
  BY <1>6, LeftStepped, LeftRange
<1>8. ToRun(s[Len(s)]) \in 1..10 BY <1>1, LeftRange DEF Clean
<1>9. Len(t) = Len(s) - 1 /\ Len(u) = Len(s) - 1 BY <1>2, <1>5
<1>10. \A i \in 1..4 : i < Len(s) => Digit(u, i) = Digit(s, i)
  <2> SUFFICES ASSUME NEW i \in 1..4, i < Len(s) PROVE Digit(u, i) = Digit(s, i)
    OBVIOUS
  <2>1. CASE i = Len(s) - 1
    <3>1. Digit(u, i) = ToRun(Next1(g)) BY <1>1, <1>5, <1>9, <2>1 DEF Digit
    <3>2. Digit(s, i) = ToRun(g) - 1 BY <1>1, <1>6, <2>1 DEF Digit
    <3> QED BY <1>7, <3>1, <3>2
  <2>2. CASE i < Len(s) - 1
    <3>1. i \in 1..Len(t) /\ i # Len(t) BY <1>1, <1>9, <2>2
    <3>2. u[i] = s[i] BY <1>2, <1>5, <3>1
    <3> QED BY <1>1, <1>9, <2>2, <3>2 DEF Digit
  <2> QED BY <1>1, <2>1, <2>2
<1>11. Digit(u, Len(s)) < Digit(s, Len(s))
  <2>1. Digit(u, Len(s)) = 0 BY <1>1, <1>9 DEF Digit
  <2>2. Digit(s, Len(s)) = ToRun(s[Len(s)]) BY <1>1 DEF Digit
  <2> QED BY <1>8, <2>1, <2>2
<1>12. Len(s) \in 1..4 BY <1>1
<1>13. LeftToDo(u) < LeftToDo(s) BY <1>3, <1>10, <1>11, <1>12, Lowered
<1> QED BY <1>13 DEF t, u

(* The call is over. *)
LEMMA LoweredOut ==
  ASSUME NEW s, NEW used, Clean(s, used), Len(s) = 1
  PROVE  LeftToDo(<<>>) < LeftToDo(s)
<1>1. \A i \in 1..4 : Digit(s, i) \in 0..10 BY DigitRange
<1>2. ToRun(s[1]) \in 1..10 BY LeftRange DEF Clean
<1>3. Digit(s, 1) \in 1..10 BY <1>2 DEF Digit
<1>4. Len(<<>>) = 0 BY EmptySeq
<1>5. \A i \in 1..4 : Digit(<<>>, i) = 0 BY <1>4 DEF Digit
<1>6. LeftToDo(<<>>) = 0 BY <1>5 DEF LeftToDo, LongestScript
<1>7. /\ Digit(s, 1) \in 1..10 /\ Digit(s, 2) \in 0..10
      /\ Digit(s, 3) \in 0..10 /\ Digit(s, 4) \in 0..10
  BY <1>1, <1>3
<1>8. LeftToDo(s) > 0
  <2> DEFINE a == Digit(s, 1)
             b == Digit(s, 2)
             c == Digit(s, 3)
             d == Digit(s, 4)
  <2>1. a \in 1..10 /\ b \in 0..10 /\ c \in 0..10 /\ d \in 0..10 BY <1>7
  <2>2. LeftToDo(s) = ((a * 11 + b) * 11 + c) * 11 + d BY DEF LeftToDo, LongestScript
  <2> HIDE DEF a, b, c, d
  <2> QED BY ONLY <2>1, <2>2
<1> QED BY <1>6, <1>8

(* A step leaves every process where it is, or with less to do. *)
LEMMA StepGetsOn ==
  ASSUME IInv, IInv', AllLinked, AllLinked', [Next]_vars,
         NEW r \in Ranks, stack[r] # <<>>, stack'[r] # stack[r]
  PROVE  LeftToDo(stack'[r]) < LeftToDo(stack[r])
<1> DEFINE s == stack[r]
           used == pool[r].used
<1>1. stack \in [Ranks -> Seq(Frame)] /\ s \in Seq(Frame) BY DEF IInv, TypeOK
<1>2. Clean(s, used) /\ Len(s) <= 4 BY AtMostFour DEF IInv, AllLinked
<1>3. Clean(stack'[r], pool'[r].used) /\ Len(stack'[r]) <= 4
  <2>1. Clean(stack'[r], pool'[r].used) /\ Linked(stack'[r]) BY DEF IInv, AllLinked
  <2> QED BY <2>1, AtMostFour
<1>4. \A q \in Ranks : \A x : stack' = [stack EXCEPT ![q] = x] => q = r /\ stack'[r] = x
  BY <1>1
<1>5. ASSUME NEW q \in Ranks, BeginCall(q) PROVE FALSE
  <2>1. stack[q] = <<>> /\ \E x : stack' = [stack EXCEPT ![q] = x]
    BY <1>5 DEF BeginCall, Begin, Intercept
  <2> QED BY <1>4, <2>1
<1>6. ASSUME NEW q \in Ranks, SkipCall(q) \/ SetAlgId(q) \/ Post(q) PROVE FALSE
  BY <1>6 DEF SkipCall, SetAlgId, Post
<1>7. ASSUME NEW q \in Ranks, TakeBuffer(q) \/ GiveBack(q)
      PROVE  LeftToDo(stack'[r]) < LeftToDo(s)
  <2>1. stack' = [stack EXCEPT ![q] = Stepped(stack[q])] BY <1>7 DEF TakeBuffer, GiveBack
  <2>2. q = r /\ stack'[r] = Stepped(s) BY <1>4, <2>1
  <2>3. ~AtEnd(s[Len(s)]) BY <1>7, <2>2 DEF TakeBuffer, GiveBack, At, Top
  <2> HIDE DEF s, used
  <2>4. Clean(Stepped(s), pool'[r].used) BY <1>3, <2>2
  <2>5. s # <<>> BY DEF s
  <2> QED BY <1>2, <2>2, <2>3, <2>4, <2>5, LoweredStepped
<1>8. ASSUME NEW q \in Ranks, GiveUp(q) PROVE LeftToDo(stack'[r]) < LeftToDo(s)
  <2>1. /\ stack' = [stack EXCEPT ![q] =
                       [stack[q] EXCEPT ![Len(stack[q])] = GivenUp(Top(q))]]
        /\ At(q, "grab")
    BY <1>8 DEF GiveUp
  <2>2. q = r /\ stack'[r] = [s EXCEPT ![Len(s)] = GivenUp(Top(r))] BY <1>4, <2>1
  <2>3. /\ Top(r) = s[Len(s)] /\ GoodFrame(Top(r)) /\ ~AtEnd(Top(r))
        /\ Instr(Top(r)).op = "grab"
    BY <2>1, <2>2, AtFacts
  <2>4. ToRun(GivenUp(Top(r))) < ToRun(s[Len(s)]) BY <2>3, LeftGivenUp
  <2>5. s # <<>> OBVIOUS
  <2> HIDE DEF s, used
  <2>6. Clean([s EXCEPT ![Len(s)] = GivenUp(Top(r))], pool'[r].used) BY <1>3, <2>2
  <2> QED BY <1>2, <2>2, <2>4, <2>5, <2>6, LoweredTop
<1>9. ASSUME NEW q \in Ranks, CallInner(q) PROVE LeftToDo(stack'[r]) < LeftToDo(s)
  <2>1. /\ \E f : stack' = [stack EXCEPT ![q] = Append(stack[q], f)]
        /\ pool' = pool
    BY <1>9 DEF CallInner, Intercept
  <2>2. PICK f : stack' = [stack EXCEPT ![q] = Append(stack[q], f)] BY <2>1
  <2>3. stack'[r] = Append(s, f) BY <1>4, <2>2
  <2>4. s # <<>> OBVIOUS
  <2> HIDE DEF s
  <2>5. Clean(Append(s, f), used) /\ Len(Append(s, f)) <= 4 BY <1>3, <2>1, <2>3
  <2> HIDE DEF used
  <2> QED BY <1>2, <2>3, <2>4, <2>5, LoweredPush
<1>10. ASSUME NEW q \in Ranks, Return(q) PROVE LeftToDo(stack'[r]) < LeftToDo(s)
  <2>1. /\ stack' = [stack EXCEPT ![q] =
              IF Len(stack[q]) = 1 THEN <<>>
              ELSE Stepped(SubSeq(stack[q], 1, Len(stack[q]) - 1))]
        /\ pool' = pool
    BY <1>10 DEF Return
  <2>2. stack'[r] = IF Len(s) = 1 THEN <<>> ELSE Stepped(SubSeq(s, 1, Len(s) - 1))
    BY <1>4, <2>1
  <2>3. s # <<>> OBVIOUS
  <2> HIDE DEF s
  <2>4. Clean(stack'[r], used) BY <1>3, <2>1
  <2> HIDE DEF used
  <2>5. CASE Len(s) = 1 BY <1>2, <2>2, <2>5, LoweredOut
  <2>6. CASE Len(s) # 1
    <3>1. stack'[r] = Stepped(SubSeq(s, 1, Len(s) - 1)) BY <2>2, <2>6
    <3>2. Clean(Stepped(SubSeq(s, 1, Len(s) - 1)), used) BY <2>4, <3>1
    <3> QED BY <1>2, <2>3, <2>6, <3>1, <3>2, LoweredPop
  <2> QED BY <2>5, <2>6
<1>11. ASSUME NEW comm \in Comms, Meet(comm) PROVE LeftToDo(stack'[r]) < LeftToDo(s)
  <2>1. /\ stack'[r] = IF r \in comm THEN Stepped(s) ELSE s
        /\ r \in comm => waiting[r]
    BY <1>11 DEF Meet, Ready
  <2>2. stack'[r] = Stepped(s) /\ waiting[r] BY <2>1
  <2>3. s # <<>> /\ ~AtEnd(s[Len(s)]) BY <2>2 DEF IInv, Pending
  <2> HIDE DEF s, used
  <2>4. Clean(Stepped(s), pool'[r].used) BY <1>3, <2>2
  <2> QED BY <1>2, <2>2, <2>3, <2>4, LoweredStepped
<1>12. CASE UNCHANGED vars BY <1>12 DEF vars
<1> QED BY <1>5, <1>6, <1>7, <1>8, <1>9, <1>10, <1>11, <1>12 DEF Next, Proceed, Finished

(* Mock-ups call mock-ups in circles (allgather_impl.c:149) and start over *)
(* as the default when scratch memory runs out (allreduce_impl.c:22), yet  *)
(* whatever a process does in a call brings it nearer to the end of it,    *)
(* for any profiles, counts and limits: less than 11 to the power of 4     *)
(* instructions.                                                           *)
THEOREM CallsEnd == Spec => GetsOn
<1>1. Init => AllLinked
  <2>1. Linked(<<>>) BY EmptySeq DEF Linked
  <2> QED BY <2>1 DEF Init, AllLinked
<1>2. IInv /\ IInv' /\ AllLinked /\ [Next]_vars => AllLinked' BY NextLinked
<1>3. IInv /\ IInv' /\ AllLinked /\ AllLinked' /\ [Next]_vars
        => [\A r \in Ranks : stack[r] # <<>> /\ stack'[r] # stack[r]
              => LeftToDo(stack'[r]) < LeftToDo(stack[r])]_vars
  BY StepGetsOn
<1> QED BY Inductive, <1>1, <1>2, <1>3, PTL DEF Spec, GetsOn

-------------------------------------------------------------------------------
(* The trace of the CLI library.                                           *)

(* A stack of at most one wrapper, whose static alg_id is still the one    *)
(* its switch has read.                                                    *)
Unnested(s, ids) ==
  /\ Len(s) <= 1
  /\ s # <<>> => s[Len(s)].alg = ids[s[Len(s)].coll]

(* What TraceTruth rests on.  With nested wrappers it is lost: the inner   *)
(* one may overwrite the alg_id that the outer one is going to trace.      *)
CliInv ==
  /\ TraceTruth
  /\ \A r \in Ranks : Unnested(stack[r], algid[r])

-------------------------------------------------------------------------------

LEMMA OneWrapper ==
  ASSUME NEW s \in Seq(Frame), s # <<>>, NEW ids, Unnested(s, ids)
  PROVE  Len(s) = 1
<1>1. Len(s) \in Nat /\ Len(s) # 0 BY EmptySeq
<1>2. Len(s) <= 1 BY DEF Unnested
<1>3. \A k \in Nat : k # 0 /\ k <= 1 => k = 1 OBVIOUS
<1> QED BY <1>1, <1>2, <1>3

(* A step of process r alone. *)
LEMMA OneUnnested ==
  ASSUME IInv, CliInv, NEW r \in Ranks, NEW s, NEW ids, Unnested(s, ids),
         stack' = [stack EXCEPT ![r] = s], algid' = [algid EXCEPT ![r] = ids]
  PROVE  \A q \in Ranks : Unnested(stack'[q], algid'[q])
<1> SUFFICES ASSUME NEW q \in Ranks PROVE Unnested(stack'[q], algid'[q])
  OBVIOUS
<1>1. stack \in [Ranks -> Seq(Frame)] /\ algid \in [Ranks -> [Collectives -> Nat]]
  BY DEF IInv, TypeOK
<1>2. CASE q = r BY <1>1, <1>2
<1>3. CASE q # r
  <2>1. stack'[q] = stack[q] /\ algid'[q] = algid[q] BY <1>1, <1>3
  <2> QED BY <2>1 DEF CliInv
<1> QED BY <1>2, <1>3

(* The stack of a process that is inside a wrapper, stepped.               *)
LEMMA StepUnnested ==
  ASSUME NEW s \in Seq(Frame), s # <<>>, NEW ids, Unnested(s, ids)
  PROVE  Unnested(Stepped(s), ids)
<1>1. Len(s) = 1 BY OneWrapper
<1>2. s[1] \in Frame BY <1>1
<1>3. Stepped(s) = [s EXCEPT ![1] = Next1(s[1])] BY <1>1 DEF Stepped, Next1
<1>4. Len(Stepped(s)) = 1 /\ Stepped(s)[1] = Next1(s[1]) BY <1>1, <1>3
<1>5. Next1(s[1]).alg = s[1].alg /\ Next1(s[1]).coll = s[1].coll
  BY <1>2 DEF Next1, Frame
<1> QED BY <1>1, <1>4, <1>5 DEF Unnested

LEMMA CliInit == Init => CliInv
BY EmptySeq DEF Init, CliInv, Unnested, TraceTruth

(* Buffers taken and given back. *)
LEMMA StepCli ==
  ASSUME IInv, CliInv, NEW r \in Ranks, stack[r] # <<>>,
         stack' = [stack EXCEPT ![r] = Stepped(@)],
         UNCHANGED <<algid, store, ran>>
  PROVE  CliInv'
<1>1. stack[r] \in Seq(Frame) /\ algid \in [Ranks -> [Collectives -> Nat]]
  BY DEF IInv, TypeOK
<1>2. Unnested(Stepped(stack[r]), algid[r]) BY <1>1, StepUnnested DEF CliInv
<1>3. algid' = [algid EXCEPT ![r] = algid[r]] BY <1>1
<1>4. \A q \in Ranks : Unnested(stack'[q], algid'[q])
  BY <1>2, <1>3, OneUnnested
<1> QED BY <1>4 DEF CliInv, TraceTruth

LEMMA GiveUpCli ==
  ASSUME IInv, CliInv, NEW r \in Ranks, GiveUp(r)
  PROVE  CliInv'
<1> DEFINE s == stack[r]
           f == s[Len(s)]
           u == [s EXCEPT ![Len(s)] = GivenUp(f)]
<1>1. /\ s \in Seq(Frame) /\ s # <<>> /\ Unnested(s, algid[r])
      /\ stack \in [Ranks -> Seq(Frame)] /\ algid \in [Ranks -> [Collectives -> Nat]]
  BY DEF GiveUp, At, IInv, TypeOK, CliInv
<1>2. stack' = [stack EXCEPT ![r] = u] BY <1>1 DEF GiveUp, Top
<1>3. UNCHANGED <<algid, store, ran>> BY DEF GiveUp
<1> HIDE DEF s
<1>4. Len(s) = 1 BY <1>1, OneWrapper
<1>5. f \in Frame BY <1>1, <1>4
<1>6. GivenUp(f).alg = f.alg /\ GivenUp(f).coll = f.coll
  BY <1>5 DEF GivenUp, Frame
<1>7. Len(u) = 1 /\ u[1] = GivenUp(f) BY <1>1, <1>4
<1>8. Unnested(u, algid[r]) BY <1>1, <1>4, <1>6, <1>7 DEF Unnested
<1>9. algid' = [algid EXCEPT ![r] = algid[r]] BY <1>1, <1>3
<1>10. \A q \in Ranks : Unnested(stack'[q], algid'[q])
  BY <1>2, <1>8, <1>9, OneUnnested
<1> QED BY <1>3, <1>10 DEF CliInv, TraceTruth

(* Inner calls expand to PMPI functions: no wrapper is entered for them.   *)
LEMMA NoInnerWrapper ==
  ASSUME IInv, ~Tuned, NEW r \in Ranks
  PROVE  ~CallInner(r)
<1> SUFFICES ASSUME At(r, "call") PROVE FALSE
  BY DEF CallInner
<1>1. Instr(Top(r)).op = "call" BY DEF At
<1>2. \A coll, n, e : Plain(coll, n, e)[1].op = "mpi" BY DEF Plain, Mpi
<1> QED BY <1>1, <1>2 DEF Instr

(* The wrapper traces the algorithm it ran. *)
LEMMA ReturnCli ==
  ASSUME IInv, CliInv, NEW r \in Ranks, Return(r)
  PROVE  CliInv'
<1>1. /\ stack[r] \in Seq(Frame) /\ stack[r] # <<>> /\ Unnested(stack[r], algid[r])
      /\ algid \in [Ranks -> [Collectives -> Nat]]
  BY DEF Return, IInv, TypeOK, CliInv
<1>2. Len(stack[r]) = 1 BY <1>1, OneWrapper
<1>3. stack' = [stack EXCEPT ![r] = <<>>] BY <1>2 DEF Return
<1>4. algid' = algid BY DEF Return
<1>5. algid' = [algid EXCEPT ![r] = algid[r]] BY <1>1, <1>4
<1>6. Unnested(<<>>, algid[r]) BY EmptySeq DEF Unnested
<1>7. \A q \in Ranks : Unnested(stack'[q], algid'[q])
  BY <1>3, <1>5, <1>6, OneUnnested
<1>8. store' = ran'
  <2>1. Top(r).alg = algid[r][Top(r).coll] BY <1>1 DEF Unnested, Top
  <2>2. store = ran BY DEF CliInv, TraceTruth
  <2>3. CASE Storing /\ r = 0 BY <2>1, <2>2, <2>3 DEF Return, Traced
  <2>4. CASE ~(Storing /\ r = 0) BY <2>2, <2>4 DEF Return
  <2> QED BY <2>3, <2>4
<1> QED BY <1>7, <1>8 DEF CliInv, TraceTruth

LEMMA BeginCallCli ==
  ASSUME IInv, CliInv, ~Tuned, NEW r \in Ranks, BeginCall(r)
  PROVE  CliInv'
<1>1. PICK item \in Upcoming(r) :
        /\ Begin(r, item)
        /\ Intercept(r, item.coll, PassedCount(item, r), item.e, item.comm)
        /\ UNCHANGED <<store, ran>>
  BY DEF BeginCall
<1>2. algid' = algid BY <1>1 DEF Intercept
<1> DEFINE f == [coll |-> item.coll, n |-> PassedCount(item, r), e |-> item.e,
                 comm |-> item.comm, alg |-> algid'[r][item.coll],
                 default |-> algid'[r][item.coll] = DEFAULT, ip |-> 1]
<1>3. /\ stack \in [Ranks -> Seq(Frame)] /\ stack[r] = <<>>
      /\ algid \in [Ranks -> [Collectives -> Nat]]
  BY <1>1 DEF Begin, IInv, TypeOK
<1>4. stack' = [stack EXCEPT ![r] = Append(stack[r], f)]
  BY <1>1, <1>3 DEF Intercept
<1>5. f.coll = item.coll /\ f.alg = algid[r][item.coll] BY <1>2
<1> HIDE DEF f
<1>6. Append(<<>>, f) = <<f>> /\ Len(<<f>>) = 1 /\ <<f>>[1] = f OBVIOUS
<1>7. Unnested(<<f>>, algid[r]) BY <1>5, <1>6 DEF Unnested
<1>8. stack' = [stack EXCEPT ![r] = <<f>>] BY <1>3, <1>4, <1>6
<1>9. algid' = [algid EXCEPT ![r] = algid[r]] BY <1>2, <1>3
<1>10. \A q \in Ranks : Unnested(stack'[q], algid'[q])
  BY <1>7, <1>8, <1>9, OneUnnested
<1> QED BY <1>1, <1>10 DEF CliInv, TraceTruth

(* An algorithm is changed between calls only. *)
LEMMA SetAlgIdCli ==
  ASSUME IInv, CliInv, NEW r \in Ranks, SetAlgId(r)
  PROVE  CliInv'
<1>1. PICK item \in Upcoming(r) :
        /\ Begin(r, item) /\ algid' = [algid EXCEPT ![r][item.coll] = item.alg]
        /\ UNCHANGED <<stack, store, ran>>
  BY DEF SetAlgId
<1> DEFINE ids == [algid[r] EXCEPT ![item.coll] = item.alg]
<1>2. stack[r] = <<>> /\ stack \in [Ranks -> Seq(Frame)]
  BY <1>1 DEF Begin, IInv, TypeOK
<1>3. algid' = [algid EXCEPT ![r] = ids] BY <1>1
<1>4. stack' = [stack EXCEPT ![r] = <<>>] BY <1>1, <1>2
<1> HIDE DEF ids
<1>5. Unnested(<<>>, ids) BY EmptySeq DEF Unnested
<1>6. \A q \in Ranks : Unnested(stack'[q], algid'[q])
  BY <1>3, <1>4, <1>5, OneUnnested
<1> QED BY <1>1, <1>6 DEF CliInv, TraceTruth

LEMMA MeetCli ==
  ASSUME IInv, CliInv, NEW comm \in Comms, Meet(comm)
  PROVE  CliInv'
<1>1. /\ \A r \in comm : waiting[r]
      /\ stack' = [r \in Ranks |-> IF r \in comm THEN Stepped(stack[r]) ELSE stack[r]]
      /\ UNCHANGED <<algid, store, ran>>
  BY DEF Meet, Ready
<1>2. \A r \in Ranks : Unnested(stack'[r], algid'[r])
  <2> SUFFICES ASSUME NEW r \in Ranks PROVE Unnested(stack'[r], algid'[r])
    OBVIOUS
  <2>1. stack[r] \in Seq(Frame) /\ Unnested(stack[r], algid[r])
    BY DEF IInv, TypeOK, CliInv
  <2>2. CASE r \in comm
    <3>1. stack[r] # <<>> BY <1>1, <2>2 DEF IInv, Pending
    <3>2. Unnested(Stepped(stack[r]), algid[r]) BY <2>1, <3>1, StepUnnested
    <3> QED BY <1>1, <2>2, <3>2
  <2>3. CASE r \notin comm BY <1>1, <2>1, <2>3
  <2> QED BY <2>2, <2>3
<1> QED BY <1>1, <1>2 DEF CliInv, TraceTruth

LEMMA CliNext == ~Tuned /\ IInv /\ CliInv /\ [Next]_vars => CliInv'
<1> SUFFICES ASSUME ~Tuned, IInv, CliInv, [Next]_vars PROVE CliInv'
  OBVIOUS
<1>1. ASSUME NEW r \in Ranks, BeginCall(r) PROVE CliInv' BY <1>1, BeginCallCli
<1>2. ASSUME NEW r \in Ranks, SkipCall(r) PROVE CliInv'
  BY <1>2 DEF SkipCall, CliInv, TraceTruth
<1>3. ASSUME NEW r \in Ranks, SetAlgId(r) PROVE CliInv' BY <1>3, SetAlgIdCli
<1>4. ASSUME NEW r \in Ranks, TakeBuffer(r) PROVE CliInv'
  BY <1>4, StepCli DEF TakeBuffer, At
<1>5. ASSUME NEW r \in Ranks, GiveUp(r) PROVE CliInv' BY <1>5, GiveUpCli
<1>6. ASSUME NEW r \in Ranks, CallInner(r) PROVE CliInv' BY <1>6, NoInnerWrapper
<1>7. ASSUME NEW r \in Ranks, Post(r) PROVE CliInv'
  BY <1>7 DEF Post, CliInv, TraceTruth
<1>8. ASSUME NEW r \in Ranks, GiveBack(r) PROVE CliInv'
  BY <1>8, StepCli DEF GiveBack, At
<1>9. ASSUME NEW r \in Ranks, Return(r) PROVE CliInv' BY <1>9, ReturnCli
<1>10. ASSUME NEW comm \in Comms, Meet(comm) PROVE CliInv' BY <1>10, MeetCli
<1>11. CASE UNCHANGED vars
  <2>1. UNCHANGED <<stack, algid, store, ran>> BY <1>11 DEF vars
  <2> QED BY <2>1 DEF CliInv, TraceTruth
<1> QED BY <1>1, <1>2, <1>3, <1>4, <1>5, <1>6, <1>7, <1>8, <1>9, <1>10, <1>11
        DEF Next, Proceed, Finished

-------------------------------------------------------------------------------

(* In the CLI library the trace that pgmpi_algid_store.c keeps names, for  *)
(* each collective and message size, the algorithm that the last such call *)
(* really ran, also when the call fell back to the default for lack of     *)
(* memory and whatever algorithms were set in between.                     *)
THEOREM CliTraceTruth ==
  ASSUME ~Tuned
  PROVE  Spec => []TraceTruth
<1>1. IInv /\ CliInv /\ [Next]_vars => CliInv' BY CliNext
<1>2. CliInv => TraceTruth BY DEF CliInv
<1> QED BY Inductive, CliInit, <1>1, <1>2, PTL DEF Spec

-------------------------------------------------------------------------------
(* Room in the scratch areas.                                              *)

(* What a wrapper has taken fits by itself, and the offset of an area is   *)
(* where the first buffer that it holds ends.                              *)
Fitted(f, offset) ==
  \A i \in 1..(f.ip - 1) :
    LET g == Script(f)[i]
    IN  g.op = "grab" =>
          /\ g.size <= Limit[Kind(g.buf)]
          /\ \A k \in Kinds : g.buf = First(k) /\ g.buf \in Held(f)
               => offset[k] = g.size \div Unit(k)

Requested(f, requests) ==
  /\ <<f.coll, f.n, f.e, f.comm>> \in requests
  /\ f.alg \in Selectable(f.coll) \cup {DEFAULT}

(* The scratch memory of a process that is in the wrappers s. *)
Roomed(s, p, requests) ==
  /\ \A b \in p.used : \E i \in 1..Len(s) : b \in Held(s[i])
  /\ \A i \in 1..Len(s) : Fitted(s[i], p.offset) /\ Requested(s[i], requests)

(* What NoOrphans rests on.  A mock-up that gives up leaves nothing behind *)
(* because it is at its first instruction: later ones cannot fail when     *)
(* what it has taken is known, and what it has taken is known from the     *)
(* offset.                                                                 *)
RoomInv(requests) ==
  /\ ~Tuned => CliInv
  /\ \A r \in Ranks, coll \in Collectives :
       ~Tuned => algid[r][coll] \in Selectable(coll) \cup {DEFAULT}
  /\ \A t \in profile : t[3] \in Selectable(t[1]) \cup {DEFAULT}
  /\ \A r \in Ranks : Roomed(stack[r], pool[r], requests)

-------------------------------------------------------------------------------
(* Frames.                                                                 *)

(* What is held has been taken, and only once. *)
LEMMA HeldTaken ==
  ASSUME NEW f, GoodFrame(f), NEW b \in Held(f)
  PROVE  \E i \in 1..(f.ip - 1) : /\ i \in 1..Len(Script(f))
                                  /\ Script(f)[i].op = "grab" /\ Script(f)[i].buf = b
<1>1. Len(Script(f)) \in Nat BY ScriptDisciplined DEF Disciplined
<1> QED BY <1>1 DEF GoodFrame, Held, HeldAfter

LEMMA TakenOnce ==
  ASSUME NEW f, GoodFrame(f), ~AtEnd(f), Script(f)[f.ip].op = "grab"
  PROVE  Script(f)[f.ip].buf \notin Held(f)
<1> SUFFICES ASSUME Script(f)[f.ip].buf \in Held(f) PROVE FALSE
  OBVIOUS
<1>1. PICK i \in 1..(f.ip - 1) : /\ i \in 1..Len(Script(f))
                                 /\ Script(f)[i].op = "grab"
                                 /\ Script(f)[i].buf = Script(f)[f.ip].buf
  BY HeldTaken
<1>2. f.ip \in 1..Len(Script(f)) BY InstrFacts
<1>3. i = f.ip BY <1>1, <1>2, ScriptDisciplined DEF Disciplined
<1>4. f.ip \in Nat BY DEF GoodFrame, Frame
<1> QED BY <1>1, <1>3, <1>4

(* A wrapper that has not taken anything. *)
LEMMA FittedAtFirst == ASSUME NEW f, f.ip = 1, NEW offset PROVE Fitted(f, offset)
BY DEF Fitted

(* A wrapper is not disturbed by changes of offsets it does not rely on.   *)
LEMMA FittedElsewhere ==
  ASSUME NEW f, NEW o, NEW p, Fitted(f, o),
         \A k \in Kinds : First(k) \in Held(f) => p[k] = o[k]
  PROVE  Fitted(f, p)
BY DEF Fitted

(* It goes on past an instruction that takes nothing. *)
LEMMA FittedNext ==
  ASSUME NEW f, GoodFrame(f), ~AtEnd(f), NEW o, Fitted(f, o),
         Script(f)[f.ip].op # "grab",
         Held(Next1(f)) \subseteq Held(f)
  PROVE  Fitted(Next1(f), o)
<1>1. Next1(f).ip = f.ip + 1 /\ f.ip \in Nat \ {0}
  BY DEF Next1, GoodFrame, Frame
<1>2. Script(Next1(f)) = Script(f) BY SteppedFrame
<1>3. \A i \in 1..(Next1(f).ip - 1) : i \in 1..(f.ip - 1) \/ i = f.ip BY <1>1
<1> QED BY <1>2, <1>3 DEF Fitted

LEMMA RequestedNext ==
  ASSUME NEW f \in Frame, NEW requests, Requested(f, requests)
  PROVE  Requested(Next1(f), requests) /\ Requested(GivenUp(f), requests)
<1>1. /\ Next1(f).coll = f.coll /\ Next1(f).n = f.n /\ Next1(f).e = f.e
      /\ Next1(f).comm = f.comm /\ Next1(f).alg = f.alg
  BY DEF Next1, Frame
<1>2. /\ GivenUp(f).coll = f.coll /\ GivenUp(f).n = f.n /\ GivenUp(f).e = f.e
      /\ GivenUp(f).comm = f.comm /\ GivenUp(f).alg = f.alg
  BY DEF GivenUp, Frame
<1> QED BY <1>1, <1>2 DEF Requested

(* A wrapper that runs a mock-up has been told to. *)
LEMMA RequestedScript ==
  ASSUME NEW f, GoodFrame(f), NEW requests, Requested(f, requests), Roomy(requests),
         ~f.default
  PROVE  /\ AllOrNothing(Script(f))
         /\ \A j \in 1..Len(Script(f)) : Tuned /\ Script(f)[j].op = "call"
              => <<Script(f)[j].coll, Script(f)[j].n, Script(f)[j].e, f.comm>> \in requests
<1>1. f.alg \in Selectable(f.coll) BY DEF Requested, GoodFrame
<1>2. Script(f) = Mockups(f.coll, f.n, f.e, Cardinality(f.comm))[f.alg] BY DEF Script
<1> DEFINE q == <<f.coll, f.n, f.e, f.comm>>
<1>3. q \in requests /\ q[1] = f.coll /\ q[2] = f.n /\ q[3] = f.e /\ q[4] = f.comm
  BY DEF Requested
<1> HIDE DEF q
<1> DEFINE s == Mockups(q[1], q[2], q[3], Cardinality(q[4]))[f.alg]
<1>4. f.alg \in Selectable(q[1]) BY <1>1, <1>3
<1>5. /\ AllOrNothing(s)
      /\ \A j \in 1..Len(s) : Tuned /\ s[j].op = "call"
           => <<s[j].coll, s[j].n, s[j].e, q[4]>> \in requests
  BY <1>3, <1>4, Zenon DEF Roomy
<1>6. s = Script(f) BY <1>2, <1>3
<1> HIDE DEF s
<1> QED BY <1>3, <1>5, <1>6

(* The default implementation takes nothing. *)
LEMMA PlainScript ==
  ASSUME NEW f, f.default
  PROVE  Len(Script(f)) = 1 /\ Script(f)[1].op = "mpi"
BY DEF Script, Plain, Mpi

-------------------------------------------------------------------------------
(* Stacks.                                                                 *)

LEMMA RoomedTop ==
  ASSUME NEW s \in Seq(Frame), s # <<>>, NEW p, NEW q, NEW requests,
         Roomed(s, p, requests),
         NEW f \in Frame, Fitted(f, q.offset), Requested(f, requests),
         \A i \in 1..Len(s) : i # Len(s) => Fitted(s[i], q.offset),
         \A b \in q.used : b \in Held(f) \/ \E i \in 1..Len(s) : i # Len(s) /\ b \in Held(s[i])
  PROVE  Roomed([s EXCEPT ![Len(s)] = f], q, requests)
<1> DEFINE t == [s EXCEPT ![Len(s)] = f]
<1>1. Len(s) \in Nat \ {0} BY EmptySeq
<1>2. /\ Len(t) = Len(s) /\ t[Len(s)] = f /\ Len(s) \in 1..Len(s)
      /\ \A i \in 1..Len(s) : i # Len(s) => t[i] = s[i]
  BY <1>1
<1> HIDE DEF t
<1>3. \A b \in q.used : \E i \in 1..Len(t) : b \in Held(t[i]) BY <1>2
<1>4. \A i \in 1..Len(t) : Fitted(t[i], q.offset) /\ Requested(t[i], requests)
  BY <1>2 DEF Roomed
<1> QED BY <1>3, <1>4 DEF Roomed, t

(* The innermost wrapper goes past an instruction that leaves the scratch  *)
(* memory alone.                                                           *)
LEMMA RoomedWork ==
  ASSUME NEW s, NEW p, NEW requests, Clean(s, p.used), s # <<>>, ~AtEnd(s[Len(s)]),
         Roomed(s, p, requests), Script(s[Len(s)])[s[Len(s)].ip].op \notin {"grab", "release"}
  PROVE  Roomed(Stepped(s), p, requests)
<1> DEFINE f == s[Len(s)]
<1>1. s \in Seq(Frame) /\ Len(s) \in Nat \ {0} /\ Len(s) \in 1..Len(s)
  BY EmptySeq DEF Clean
<1>2. GoodFrame(f) BY <1>1 DEF Clean
<1>3. /\ GoodFrame(Next1(f)) /\ Held(Next1(f)) = HeldAfter(Script(f), f.ip)
  BY <1>2, SteppedFrame
<1>4. f \in Frame /\ Next1(f) \in Frame /\ f.ip \in Nat \ {0}
  BY <1>2, <1>3 DEF GoodFrame, Frame
<1>5. Held(Next1(f)) = Held(f) BY <1>3, <1>4, HeldAfterWork DEF Held
<1>6. Stepped(s) = [s EXCEPT ![Len(s)] = Next1(f)] BY SteppedTop
<1>7. Fitted(f, p.offset) /\ Requested(f, requests) BY <1>1 DEF Roomed
<1> HIDE DEF f
<1>8. Fitted(Next1(f), p.offset) BY <1>2, <1>5, <1>7, FittedNext DEF f
<1>9. Requested(Next1(f), requests) BY <1>4, <1>7, RequestedNext
<1>10. \A b \in p.used : \/ b \in Held(Next1(f))
                         \/ \E i \in 1..Len(s) : i # Len(s) /\ b \in Held(s[i])
  BY <1>5 DEF Roomed, f
<1>11. \A i \in 1..Len(s) : i # Len(s) => Fitted(s[i], p.offset) BY DEF Roomed
<1>12. Roomed([s EXCEPT ![Len(s)] = Next1(f)], p, requests)
  BY <1>1, <1>4, <1>8, <1>9, <1>10, <1>11, RoomedTop
<1> QED BY <1>6, <1>12

(* A wrapper is entered. *)
LEMMA RoomedPush ==
  ASSUME NEW s \in Seq(Frame), NEW p, NEW requests, Roomed(s, p, requests),
         NEW f \in Frame, f.ip = 1, Requested(f, requests)
  PROVE  Roomed(Append(s, f), p, requests)
<1> DEFINE t == Append(s, f)
<1>1. /\ Len(t) = Len(s) + 1 /\ Len(s) \in Nat /\ t[Len(s) + 1] = f
      /\ \A i \in 1..Len(s) : t[i] = s[i]
  OBVIOUS
<1> HIDE DEF t
<1>2. \A i \in 1..Len(t) : i \in 1..Len(s) \/ i = Len(s) + 1 BY <1>1
<1>3. \A i \in 1..Len(s) : i \in 1..Len(t) BY <1>1
<1>4. Fitted(f, p.offset) BY FittedAtFirst
<1>5. \A b \in p.used : \E i \in 1..Len(t) : b \in Held(t[i])
  BY <1>1, <1>3 DEF Roomed
<1>6. \A i \in 1..Len(t) : Fitted(t[i], p.offset) /\ Requested(t[i], requests)
  BY <1>1, <1>2, <1>4 DEF Roomed
<1> QED BY <1>5, <1>6 DEF Roomed, t

(* A mock-up has nothing left when it ends. *)
LEMMA HeldAtEnd ==
  ASSUME NEW f, GoodFrame(f), AtEnd(f)
  PROVE  Held(f) = {}
<1>1. Len(Script(f)) \in Nat /\ HeldAfter(Script(f), Len(Script(f))) = {}
  BY ScriptDisciplined DEF Disciplined
<1>2. f.ip - 1 = Len(Script(f)) BY <1>1 DEF GoodFrame, AtEnd
<1> QED BY <1>1, <1>2 DEF Held

(* The innermost wrapper returns. *)
LEMMA RoomedPop ==
  ASSUME NEW s, NEW p, NEW requests, Clean(s, p.used), s # <<>>, AtEnd(s[Len(s)]),
         Roomed(s, p, requests)
  PROVE  Roomed(IF Len(s) = 1 THEN <<>> ELSE Stepped(SubSeq(s, 1, Len(s) - 1)), p, requests)
<1>1. Len(s) \in Nat \ {0} /\ Len(s) \in 1..Len(s) BY EmptySeq DEF Clean
<1>2. Held(s[Len(s)]) = {} BY <1>1, HeldAtEnd DEF Clean
<1>3. CASE Len(s) = 1
  <2>1. p.used = {} BY <1>2, <1>3 DEF Roomed
  <2>2. Roomed(<<>>, p, requests) BY <2>1 DEF Roomed
  <2> QED BY <1>3, <2>2
<1>4. CASE Len(s) # 1
  <2> DEFINE t == SubSeq(s, 1, Len(s) - 1)
             g == t[Len(t)]
  <2>1. /\ Clean(t, p.used) /\ t # <<>> /\ Suspended(g)
        /\ Len(t) = Len(s) - 1 /\ \A i \in 1..Len(t) : t[i] = s[i]
    BY <1>4, PopClean
  <2> HIDE DEF t
  <2>2. Len(t) \in 1..Len(t) BY <2>1, EmptySeq DEF Clean
  <2>3. GoodFrame(g) BY <2>1, <2>2 DEF Clean
  <2>4. Len(Script(g)) \in Nat BY <2>3, ScriptDisciplined DEF Disciplined
  <2>5. ~AtEnd(g) /\ Script(g)[g.ip].op \notin {"grab", "release"}
    BY <2>1, <2>3, <2>4 DEF Suspended, AtEnd, GoodFrame
  <2>6. Roomed(t, p, requests)
    <3>1. \A i \in 1..Len(t) : i \in 1..Len(s) BY <1>1, <2>1
    <3>2. \A i \in 1..Len(s) : i \in 1..Len(t) \/ i = Len(s) BY <1>1, <2>1
    <3> QED BY <1>2, <2>1, <3>1, <3>2 DEF Roomed
  <2>7. Roomed(Stepped(t), p, requests) BY <2>1, <2>5, <2>6, RoomedWork
  <2> QED BY <1>4, <2>7 DEF t
<1> QED BY <1>3, <1>4

-------------------------------------------------------------------------------
(* Steps.                                                                  *)

(* A step of process r that leaves it with stack s and scratch memory p,   *)
(* and the choice of algorithms as it is.                                  *)
LEMMA OneRoomed ==
  ASSUME IInv, NEW requests, RoomInv(requests), NEW r \in Ranks,
         NEW s, NEW p, Roomed(s, p, requests), ~Tuned => CliInv',
         stack' = [stack EXCEPT ![r] = s], pool' = [pool EXCEPT ![r] = p],
         UNCHANGED <<algid, profile>>
  PROVE  RoomInv(requests)'
<1>1. stack \in [Ranks -> Seq(Frame)] /\ pool \in [Ranks -> Pools]
  BY DEF IInv, TypeOK
<1>2. ASSUME NEW q \in Ranks PROVE Roomed(stack'[q], pool'[q], requests)
  <2>1. CASE q = r
    <3>1. stack'[q] = s /\ pool'[q] = p BY <1>1, <2>1
    <3> QED BY <3>1
  <2>2. CASE q # r
    <3>1. stack'[q] = stack[q] /\ pool'[q] = pool[q] BY <1>1, <2>2
    <3> QED BY <3>1 DEF RoomInv
  <2> QED BY <2>1, <2>2
<1> QED BY <1>2 DEF RoomInv

LEMMA TakeBufferRoom ==
  ASSUME IInv, NEW requests, RoomInv(requests), ~Tuned => CliInv',
         NEW r \in Ranks, TakeBuffer(r)
  PROVE  RoomInv(requests)'
<1> DEFINE s == stack[r]
           f == Top(r)
           g == Instr(f)
           p == Grabbed(pool[r], g.buf, g.size)
<1>1. At(r, "grab") BY DEF TakeBuffer
<1>2. /\ s \in Seq(Frame) /\ s # <<>> /\ Len(s) \in Nat \ {0}
      /\ Clean(s, pool[r].used)
      /\ f = s[Len(s)] /\ Len(s) \in 1..Len(s)
      /\ GoodFrame(f) /\ ~AtEnd(f) /\ f.ip \in 1..Len(Script(f))
      /\ Script(f)[f.ip] \in Instructions /\ g = Script(f)[f.ip]
      /\ g.op = "grab" /\ pool[r] \in Pools
  BY <1>1, AtFacts
<1>3. g.buf \in Bufs /\ g.size \in Nat BY <1>2 DEF Instructions
<1>4. /\ Fits(pool[r], Limit, g.buf, g.size)
      /\ pool' = [pool EXCEPT ![r] = p]
      /\ stack' = [stack EXCEPT ![r] = Stepped(s)]
      /\ UNCHANGED <<algid, profile>>
  BY DEF TakeBuffer
<1>5. pool[r].offset \in [Kinds -> Nat] BY <1>2 DEF Pools
<1>6. /\ p.used = pool[r].used \cup {g.buf}
      /\ \A k \in Kinds : p.offset[k] = IF g.buf = First(k) THEN g.size \div Unit(k)
                                         ELSE pool[r].offset[k]
  <2>1. Slot(g.buf) = 1 => g.buf = First(Kind(g.buf)) BY <1>3, BufFacts, BufKinds
  <2>2. \A k \in Kinds : g.buf = First(k) => Slot(g.buf) = 1 /\ Kind(g.buf) = k
    BY BufFacts
  <2>3. \A k \in Kinds : p.offset[k] = IF g.buf = First(k) THEN g.size \div Unit(k)
                                       ELSE pool[r].offset[k]
    <3>1. CASE Slot(g.buf) = 1
      <4>1. Kind(g.buf) \in Kinds BY <1>3, BufKinds
      <4>2. p.offset = [pool[r].offset EXCEPT ![Kind(g.buf)] = g.size \div Unit(Kind(g.buf))]
        BY <3>1 DEF Grabbed
      <4> HIDE DEF p, g
      <4> QED BY <1>5, <2>1, <2>2, <3>1, <4>1, <4>2
    <3>2. CASE Slot(g.buf) # 1
      <4>1. p.offset = pool[r].offset BY <3>2 DEF Grabbed
      <4> QED BY <2>2, <3>2, <4>1
    <3> QED BY <3>1, <3>2
  <2> QED BY <2>3 DEF Grabbed
<1>7. g.size <= Limit[Kind(g.buf)]
  <2>1. StartOf(pool[r], g.buf) + g.size <= Limit[Kind(g.buf)] BY <1>4 DEF Fits
  <2>2. Kind(g.buf) \in Kinds BY <1>3, BufKinds
  <2>3. Limit[Kind(g.buf)] \in Nat BY <2>2, SizesAssumption DEF Limits
  <2>4. StartOf(pool[r], g.buf) \in Nat
    BY <1>5, <2>2, ProductNat DEF StartOf, Unit, SizeofInt
  <2> QED BY <1>3, <2>1, <2>3, <2>4
<1>8. /\ GoodFrame(Next1(f)) /\ Script(Next1(f)) = Script(f)
      /\ Held(Next1(f)) = Held(f) \cup {g.buf}
  <2>1. /\ GoodFrame(Next1(f)) /\ Held(Next1(f)) = HeldAfter(Script(f), f.ip)
        /\ Script(Next1(f)) = Script(f)
    BY <1>2, SteppedFrame
  <2>2. f.ip \in Nat \ {0} BY <1>2, ScriptDisciplined DEF Disciplined
  <2> QED BY <1>2, <1>3, <2>1, <2>2, HeldAfterGrab DEF Held
<1>9. Roomed(s, pool[r], requests) BY DEF RoomInv
<1>10. \A i \in 1..Len(s) : Held(s[i]) \subseteq pool[r].used BY <1>2 DEF Clean
<1>11. g.buf \notin pool[r].used BY <1>4 DEF Fits
<1>12. Next1(f).ip = f.ip + 1 /\ f.ip \in Nat \ {0} /\ f \in Frame /\ Next1(f) \in Frame
  BY <1>2, <1>8 DEF Next1, GoodFrame, Frame
<1>13. Stepped(s) = [s EXCEPT ![Len(s)] = Next1(f)] BY <1>2, SteppedTop
<1> HIDE DEF s, f, g, p
<1>14. Fitted(Next1(f), p.offset)
  <2> SUFFICES ASSUME NEW i \in 1..(Next1(f).ip - 1), Script(f)[i].op = "grab"
               PROVE  /\ Script(f)[i].size <= Limit[Kind(Script(f)[i].buf)]
                      /\ \A k \in Kinds :
                           Script(f)[i].buf = First(k) /\ Script(f)[i].buf \in Held(Next1(f))
                             => p.offset[k] = Script(f)[i].size \div Unit(k)
    BY <1>8 DEF Fitted
  <2>1. CASE i = f.ip BY <1>2, <1>6, <1>7, <2>1
  <2>2. CASE i # f.ip
    <3>1. i \in 1..(f.ip - 1) /\ i \in 1..Len(Script(f)) BY <1>2, <1>12, <2>2
    <3>2. Fitted(f, pool[r].offset) BY <1>2, <1>9 DEF Roomed
    <3>3. Script(f)[i].buf # g.buf
      BY <1>2, <2>2, <3>1, ScriptDisciplined DEF Disciplined
    <3> QED BY <1>6, <1>8, <3>1, <3>2, <3>3 DEF Fitted
  <2> QED BY <2>1, <2>2
<1>15. ASSUME NEW i \in 1..Len(s), i # Len(s) PROVE Fitted(s[i], p.offset)
  <2>1. Fitted(s[i], pool[r].offset) BY <1>9 DEF Roomed
  <2>2. \A k \in Kinds : First(k) \in Held(s[i]) => p.offset[k] = pool[r].offset[k]
    BY <1>6, <1>10, <1>11
  <2> QED BY <2>1, <2>2, FittedElsewhere
<1>16. Requested(Next1(f), requests)
  <2>1. Requested(f, requests) BY <1>2, <1>9 DEF Roomed
  <2> QED BY <1>12, <2>1, RequestedNext
<1>17. \A b \in p.used : \/ b \in Held(Next1(f))
                         \/ \E i \in 1..Len(s) : i # Len(s) /\ b \in Held(s[i])
  BY <1>2, <1>6, <1>8, <1>9 DEF Roomed
<1>18. Roomed([s EXCEPT ![Len(s)] = Next1(f)], p, requests)
  BY <1>2, <1>9, <1>12, <1>14, <1>15, <1>16, <1>17, RoomedTop
<1>19. Roomed(Stepped(s), p, requests) BY <1>13, <1>18
<1> QED BY <1>4, <1>19, OneRoomed

LEMMA GiveBackRoom ==
  ASSUME IInv, NEW requests, RoomInv(requests), ~Tuned => CliInv',
         NEW r \in Ranks, GiveBack(r)
  PROVE  RoomInv(requests)'
<1> DEFINE s == stack[r]
           f == Top(r)
           k == Instr(f).kind
           p == Released(pool[r], k)
<1>1. At(r, "release") BY DEF GiveBack
<1>2. /\ s \in Seq(Frame) /\ s # <<>> /\ Len(s) \in Nat \ {0}
      /\ Clean(s, pool[r].used)
      /\ f = s[Len(s)] /\ Len(s) \in 1..Len(s)
      /\ GoodFrame(f) /\ ~AtEnd(f)
      /\ Instr(f) = Script(f)[f.ip] /\ Instr(f).op = "release" /\ pool[r] \in Pools
  BY <1>1, AtFacts
<1>3. /\ pool' = [pool EXCEPT ![r] = p]
      /\ stack' = [stack EXCEPT ![r] = Stepped(s)]
      /\ UNCHANGED <<algid, profile>>
  BY DEF GiveBack
<1>4. p.offset = pool[r].offset /\ p.used = {b \in pool[r].used : Kind(b) # k}
  BY <1>2 DEF Released, Pools
<1>5. GoodFrame(Next1(f)) /\ Held(Next1(f)) = {b \in Held(f) : Kind(b) # k}
  <2>1. GoodFrame(Next1(f)) /\ Held(Next1(f)) = HeldAfter(Script(f), f.ip)
    BY <1>2, SteppedFrame
  <2>2. f.ip \in Nat \ {0} BY <1>2 DEF GoodFrame, Frame
  <2> QED BY <1>2, <2>1, <2>2, HeldAfterRelease DEF Held
<1>6. Roomed(s, pool[r], requests) BY DEF RoomInv
<1>7. Stepped(s) = [s EXCEPT ![Len(s)] = Next1(f)] BY <1>2, SteppedTop
<1>8. f \in Frame /\ Next1(f) \in Frame BY <1>2, <1>5 DEF GoodFrame
<1> HIDE DEF s, f, k, p
<1>9. Fitted(f, p.offset) /\ Requested(f, requests) BY <1>2, <1>4, <1>6 DEF Roomed
<1>10. Fitted(Next1(f), p.offset) BY <1>2, <1>5, <1>9, FittedNext
<1>11. Requested(Next1(f), requests) BY <1>8, <1>9, RequestedNext
<1>12. \A i \in 1..Len(s) : i # Len(s) => Fitted(s[i], p.offset)
  BY <1>4, <1>6 DEF Roomed
<1>13. \A b \in p.used : \/ b \in Held(Next1(f))
                         \/ \E i \in 1..Len(s) : i # Len(s) /\ b \in Held(s[i])
  BY <1>2, <1>4, <1>5, <1>6 DEF Roomed
<1>14. Roomed([s EXCEPT ![Len(s)] = Next1(f)], p, requests)
  BY <1>2, <1>6, <1>8, <1>10, <1>11, <1>12, <1>13, RoomedTop
<1>15. Roomed(Stepped(s), p, requests) BY <1>7, <1>14
<1> QED BY <1>3, <1>15, OneRoomed

LEMMA AfterFirst ==
  \A n \in Nat : \A i \in 1..n : i # 1 => i \in 2..n /\ 1 \in 1..(i - 1) /\ 1 \in 1..n
OBVIOUS

(* A mock-up that gives up is at its first instruction. *)
LEMMA GivesUpAtFirst ==
  ASSUME IInv, NEW requests, Roomy(requests), RoomInv(requests),
         NEW r \in Ranks, GiveUp(r)
  PROVE  Top(r).ip = 1
<1> DEFINE s == stack[r]
           f == Top(r)
           g == Script(f)[f.ip]
           k == Kind(g.buf)
<1>1. At(r, "grab") BY DEF GiveUp
<1>2. /\ s \in Seq(Frame) /\ Len(s) \in Nat \ {0}
      /\ Clean(s, pool[r].used)
      /\ f = s[Len(s)] /\ Len(s) \in 1..Len(s)
      /\ GoodFrame(f) /\ ~AtEnd(f) /\ f.ip \in 1..Len(Script(f))
      /\ g \in Instructions /\ Instr(f) = g
      /\ g.op = "grab" /\ pool[r] \in Pools
  BY <1>1, AtFacts
<1>3. g.buf \in Bufs /\ g.size \in Nat BY <1>2 DEF Instructions
<1>4. k \in Kinds /\ Slot(g.buf) \in {1, 2} BY <1>3, BufKinds
<1>5. Limit[k] \in Nat BY <1>4, SizesAssumption DEF Limits
<1>6. ~Fits(pool[r], Limit, g.buf, g.size) BY <1>2 DEF GiveUp
<1>7. Roomed(s, pool[r], requests) BY DEF RoomInv
<1>8. Fitted(f, pool[r].offset) /\ Requested(f, requests) BY <1>2, <1>7 DEF Roomed
<1>9. ~f.default
  <2>1. ASSUME f.default PROVE FALSE
    <3>1. Len(Script(f)) = 1 /\ Script(f)[1].op = "mpi" BY <2>1, PlainScript
    <3> QED BY <1>2, <3>1
  <2> QED BY <2>1
<1>10. AllOrNothing(Script(f)) BY <1>2, <1>8, <1>9, RequestedScript
<1>11. Disciplined(Script(f)) BY <1>2, ScriptDisciplined
<1>12. g.buf \notin Held(f) BY <1>2, TakenOnce
<1> SUFFICES ASSUME f.ip # 1 PROVE FALSE
  OBVIOUS
<1>13. f.ip \in 2..Len(Script(f)) /\ 1 \in 1..(f.ip - 1) /\ 1 \in 1..Len(Script(f))
  <2>1. Len(Script(f)) \in Nat BY <1>11 DEF Disciplined
  <2> QED BY ONLY <1>2, <2>1, f.ip # 1, AfterFirst
<1>14. Script(f)[1].op = "grab" BY <1>2, <1>11 DEF Disciplined
<1>15. Script(f)[1].size <= Limit[Kind(Script(f)[1].buf)]
  BY <1>8, <1>13, <1>14 DEF Fitted
<1> HIDE DEF s, f
<1>16. CASE Slot(g.buf) = 1
  <2>1. ~Tuned /\ g.size <= Limit[k]
    BY <1>2, <1>10, <1>13, <1>14, <1>15, <1>16 DEF AllOrNothing
  <2>2. StartOf(pool[r], g.buf) = 0 BY <1>16 DEF StartOf
  <2>3. g.buf \in pool[r].used BY <1>3, <1>5, <1>6, <2>1, <2>2 DEF Fits
  <2>4. Len(s) = 1 BY <1>2, <2>1, EmptySeq, OneWrapper DEF RoomInv, CliInv, s
  <2>5. g.buf \in Held(f) BY <1>2, <1>7, <2>3, <2>4 DEF Roomed
  <2> QED BY <1>12, <2>5
<1>17. CASE Slot(g.buf) = 2
  <2>1. First(k) \in Held(f) BY <1>2, <1>11, <1>17 DEF Disciplined, Held
  <2>2. PICK i \in 1..(f.ip - 1) : /\ i \in 1..Len(Script(f))
                                   /\ Script(f)[i].op = "grab" /\ Script(f)[i].buf = First(k)
    BY <1>2, <2>1, HeldTaken
  <2> DEFINE size == Script(f)[i].size
  <2>3. size + g.size <= Limit[k]
    <3>1. Slot(g.buf) # 1 BY <1>17
    <3> QED BY <1>2, <1>10, <1>13, <1>14, <1>15, <2>2, <3>1 DEF AllOrNothing
  <2>4. size \in Nat
    <3>1. Script(f)[i] \in Instructions BY <1>11, <2>2 DEF Disciplined
    <3> QED BY <2>2, <3>1 DEF Instructions
  <2>5. pool[r].offset[k] = size \div Unit(k) BY <1>4, <1>8, <2>1, <2>2 DEF Fitted
  <2> HIDE DEF size
  <2>6. StartOf(pool[r], g.buf) = (size \div Unit(k)) * Unit(k)
    BY <1>17, <2>5 DEF StartOf
  <2>7. (size \div Unit(k)) * Unit(k) \in Nat /\ (size \div Unit(k)) * Unit(k) <= size
    BY <2>4 DEF Unit, SizeofInt
  <2>8. g.buf \in pool[r].used
    <3> HIDE DEF g, k
    <3> QED BY <1>3, <1>5, <1>6, <2>3, <2>4, <2>6, <2>7 DEF Fits, k
  <2>9. PICK j \in 1..Len(s) : g.buf \in Held(s[j]) BY <1>7, <2>8 DEF Roomed
  <2>10. j # Len(s) BY <1>2, <1>12, <2>9
  <2>11. Apart(s[j], f) BY <1>2, <2>10 DEF Clean
  <2>12. Kind(First(k)) = k BY <1>4, BufFacts
  <2> QED BY <2>1, <2>9, <2>11, <2>12 DEF Apart
<1> QED BY <1>4, <1>16, <1>17

LEMMA GiveUpRoom ==
  ASSUME IInv, NEW requests, Roomy(requests), RoomInv(requests), ~Tuned => CliInv',
         NEW r \in Ranks, GiveUp(r)
  PROVE  RoomInv(requests)'
<1> DEFINE s == stack[r]
           f == Top(r)
           p == pool[r]
<1>1. At(r, "grab") BY DEF GiveUp
<1>2. /\ s \in Seq(Frame) /\ s # <<>> /\ Len(s) \in 1..Len(s)
      /\ Clean(s, p.used)
      /\ f = s[Len(s)] /\ GoodFrame(f) /\ p \in Pools
  BY <1>1, AtFacts
<1>3. /\ stack' = [stack EXCEPT ![r] = [s EXCEPT ![Len(s)] = GivenUp(f)]]
      /\ pool' = [pool EXCEPT ![r] = p]
      /\ UNCHANGED <<algid, profile>>
  BY DEF GiveUp, IInv, TypeOK
<1>4. Held(f) = {} BY GivesUpAtFirst, HeldAtFirst
<1>5. Roomed(s, p, requests) BY DEF RoomInv
<1>6. f \in Frame /\ GivenUp(f) \in Frame /\ GivenUp(f).ip = 1
  <2>1. GoodFrame(GivenUp(f)) BY <1>2, GivenUpFrame
  <2>2. f \in Frame /\ GivenUp(f) \in Frame BY <1>2, <2>1 DEF GoodFrame
  <2> QED BY <2>2 DEF GivenUp, Frame
<1> HIDE DEF s, f, p
<1>7. Fitted(GivenUp(f), p.offset) BY <1>6, FittedAtFirst
<1>8. Requested(GivenUp(f), requests)
  <2>1. Requested(f, requests) BY <1>2, <1>5 DEF Roomed
  <2> QED BY <1>6, <2>1, RequestedNext
<1>9. \A i \in 1..Len(s) : i # Len(s) => Fitted(s[i], p.offset) BY <1>5 DEF Roomed
<1>10. \A b \in p.used :
         b \in Held(GivenUp(f)) \/ \E i \in 1..Len(s) : i # Len(s) /\ b \in Held(s[i])
  BY <1>2, <1>4, <1>5 DEF Roomed
<1>11. Roomed([s EXCEPT ![Len(s)] = GivenUp(f)], p, requests)
  BY <1>2, <1>5, <1>6, <1>7, <1>8, <1>9, <1>10, RoomedTop
<1> QED BY <1>3, <1>11, OneRoomed

(* Wrappers run what they may be told to run. *)
LEMMA InterceptRoom ==
  ASSUME IInv, IInv', NEW requests, RoomInv(requests), ~Tuned => CliInv',
         NEW r \in Ranks, NEW coll \in Collectives, NEW n \in Nat, NEW e \in Nat \ {0},
         NEW comm \in Comms, Intercept(r, coll, n, e, comm),
         <<coll, n, e, comm>> \in requests, pool' = pool
  PROVE  RoomInv(requests)'
<1> DEFINE s == stack[r]
           a == algid'[r][coll]
           f == [coll |-> coll, n |-> n, e |-> e, comm |-> comm, alg |-> a,
                 default |-> a = DEFAULT, ip |-> 1]
<1>1. /\ stack' = [stack EXCEPT ![r] = Append(s, f)]
      /\ stack \in [Ranks -> Seq(Frame)] /\ stack' \in [Ranks -> Seq(Frame)]
      /\ algid \in [Ranks -> [Collectives -> Nat]]
  BY DEF Intercept, IInv, TypeOK
<1>2. /\ a \in Selectable(coll) \cup {DEFAULT}
      /\ \A q \in Ranks, c \in Collectives :
           ~Tuned => algid'[q][c] \in Selectable(c) \cup {DEFAULT}
      /\ \A t \in profile' : t[3] \in Selectable(t[1]) \cup {DEFAULT}
  <2>1. CASE Tuned
    <3>1. PICK alg \in Answers(coll, n * e, comm) :
            /\ algid' = [algid EXCEPT ![r][coll] = alg]
            /\ profile' = IF Consults(coll, n * e, comm)
                          THEN profile \cup {<<coll, n * e, alg>>} ELSE profile
      BY <2>1 DEF Intercept
    <3>2. alg \in Selectable(coll) \cup {DEFAULT}
      BY <2>1, <3>1 DEF Answers, Known, Selectable, RoomInv
    <3>3. a = alg BY <1>1, <3>1
    <3>4. <<coll, n * e, alg>>[1] = coll /\ <<coll, n * e, alg>>[3] = alg OBVIOUS
    <3>5. \A t \in profile' : t \in profile \/ t = <<coll, n * e, alg>> BY <3>1
    <3>6. \A t \in profile' : t[3] \in Selectable(t[1]) \cup {DEFAULT}
      BY <3>2, <3>4, <3>5 DEF RoomInv
    <3> QED BY <2>1, <3>2, <3>3, <3>6
  <2>2. CASE ~Tuned
    <3>1. UNCHANGED <<algid, profile>> BY <2>2 DEF Intercept
    <3> QED BY <2>2, <3>1 DEF RoomInv
  <2> QED BY <2>1, <2>2
<1>3. f.coll = coll /\ f.n = n /\ f.e = e /\ f.comm = comm /\ f.alg = a /\ f.ip = 1
  OBVIOUS
<1>4. a \in Nat BY <1>2, AlgIdsNat DEF IInv, TypeOK
<1>5. f \in Frame BY <1>4 DEF Frame
<1> HIDE DEF f, a
<1>6. Requested(f, requests) BY <1>2, <1>3 DEF Requested
<1>7. Roomed(s, pool[r], requests) BY DEF RoomInv
<1>8. s \in Seq(Frame) BY <1>1
<1> HIDE DEF s
<1>9. Roomed(Append(s, f), pool[r], requests) BY <1>3, <1>5, <1>6, <1>7, <1>8, RoomedPush
<1>10. ASSUME NEW q \in Ranks PROVE Roomed(stack'[q], pool'[q], requests)
  <2>1. CASE q = r BY <1>1, <1>9, <2>1
  <2>2. CASE q # r BY <1>1, <2>2 DEF RoomInv
  <2> QED BY <2>1, <2>2
<1> QED BY <1>2, <1>10 DEF RoomInv

LEMMA CallInnerRoom ==
  ASSUME IInv, IInv', NEW requests, Roomy(requests), RoomInv(requests), ~Tuned => CliInv',
         NEW r \in Ranks, CallInner(r)
  PROVE  RoomInv(requests)'
<1> DEFINE f == Top(r)
           i == Instr(f)
<1>1. At(r, "call") /\ Tuned BY NoInnerWrapper DEF CallInner
<1>2. /\ GoodFrame(f) /\ f.ip \in 1..Len(Script(f))
      /\ Script(f)[f.ip] \in Instructions /\ i = Script(f)[f.ip] /\ i.op = "call"
      /\ f = stack[r][Len(stack[r])] /\ Len(stack[r]) \in 1..Len(stack[r])
  BY <1>1, AtFacts
<1>3. i.coll \in Collectives /\ i.n \in Nat /\ i.e \in Nat \ {0} /\ f.comm \in Comms
  BY <1>2 DEF Instructions, GoodFrame, Frame
<1>4. Intercept(r, i.coll, i.n, i.e, f.comm) /\ pool' = pool BY DEF CallInner
<1>5. Requested(f, requests) BY <1>2 DEF RoomInv, Roomed
<1> HIDE DEF f
<1>6. ~f.default
  <2>1. ASSUME f.default PROVE FALSE
    <3>1. Len(Script(f)) = 1 /\ Script(f)[1].op = "mpi" BY <2>1, PlainScript
    <3> QED BY <1>2, <3>1
  <2> QED BY <2>1
<1>7. <<i.coll, i.n, i.e, f.comm>> \in requests
  BY <1>1, <1>2, <1>5, <1>6, RequestedScript
<1> HIDE DEF i
<1> QED BY <1>3, <1>4, <1>7, InterceptRoom

LEMMA BeginCallRoom ==
  ASSUME IInv, IInv', NEW requests, Roomy(requests), RoomInv(requests), ~Tuned => CliInv',
         NEW r \in Ranks, BeginCall(r)
  PROVE  RoomInv(requests)'
<1>1. PICK item \in Upcoming(r) :
        /\ item.what = "call" /\ r \in item.comm
        /\ Begin(r, item)
        /\ Intercept(r, item.coll, PassedCount(item, r), item.e, item.comm)
        /\ pool' = pool
  BY DEF BeginCall
<1>2. item \in Items BY <1>1, BeginFacts
<1>3. item \in CallItem BY <1>1, <1>2, ItemsAssumption DEF SetItem
<1>4. /\ item.coll \in Collectives /\ item.e \in Nat \ {0} /\ item.comm \in Comms
      /\ PassedCount(item, r) \in Nat
  BY <1>3 DEF CallItem, PassedCount
<1>5. <<item.coll, PassedCount(item, r), item.e, item.comm>> \in requests
  BY <1>1, <1>2 DEF Roomy
<1> QED BY <1>1, <1>4, <1>5, InterceptRoom

LEMMA SetAlgIdRoom ==
  ASSUME IInv, NEW requests, RoomInv(requests), ~Tuned => CliInv',
         NEW r \in Ranks, SetAlgId(r)
  PROVE  RoomInv(requests)'
<1>1. PICK item \in Upcoming(r) :
        /\ item.what = "set" /\ Begin(r, item)
        /\ algid' = [algid EXCEPT ![r][item.coll] = item.alg]
        /\ UNCHANGED <<stack, pool, profile>>
  BY DEF SetAlgId
<1>2. item \in Items BY <1>1, BeginFacts
<1>3. item \in SetItem BY <1>1, <1>2, ItemsAssumption DEF CallItem
<1>4. ~Tuned => item.alg \in Selectable(item.coll) \cup {DEFAULT}
  BY <1>1, <1>2 DEF Selectable
<1>5. algid \in [Ranks -> [Collectives -> Nat]] BY DEF IInv, TypeOK
<1>6. \A q \in Ranks, coll \in Collectives :
        ~Tuned => algid'[q][coll] \in Selectable(coll) \cup {DEFAULT}
  BY <1>1, <1>3, <1>4, <1>5 DEF SetItem, RoomInv
<1> QED BY <1>1, <1>6 DEF RoomInv

LEMMA MeetRoom ==
  ASSUME IInv, NEW requests, RoomInv(requests), ~Tuned => CliInv',
         NEW comm \in Comms, Meet(comm)
  PROVE  RoomInv(requests)'
<1>1. /\ \A r \in comm : waiting[r]
      /\ stack' = [r \in Ranks |-> IF r \in comm THEN Stepped(stack[r]) ELSE stack[r]]
      /\ UNCHANGED <<pool, algid, profile>>
  BY DEF Meet, Ready
<1>2. ASSUME NEW r \in Ranks PROVE Roomed(stack'[r], pool'[r], requests)
  <2> DEFINE s == stack[r]
             f == s[Len(s)]
  <2>1. CASE r \in comm
    <3>1. /\ Clean(s, pool[r].used) /\ s # <<>> /\ ~AtEnd(f) /\ Instr(f).op = "mpi"
          /\ stack'[r] = Stepped(s)
      BY <1>1, <2>1 DEF IInv, Pending
    <3>2. GoodFrame(f)
      <4>1. Len(s) \in 1..Len(s) BY <3>1, EmptySeq DEF Clean
      <4> QED BY <3>1, <4>1 DEF Clean
    <3>3. Script(f)[f.ip].op \notin {"grab", "release"} BY <3>1, <3>2, InstrFacts
    <3>4. Roomed(s, pool[r], requests) BY DEF RoomInv
    <3> HIDE DEF s
    <3>5. Roomed(Stepped(s), pool[r], requests) BY <3>1, <3>3, <3>4, RoomedWork
    <3> QED BY <1>1, <3>1, <3>5
  <2>2. CASE r \notin comm BY <1>1, <2>2 DEF RoomInv
  <2> QED BY <2>1, <2>2
<1> QED BY <1>1, <1>2 DEF RoomInv

LEMMA ReturnRoom ==
  ASSUME IInv, NEW requests, RoomInv(requests), ~Tuned => CliInv',
         NEW r \in Ranks, Return(r)
  PROVE  RoomInv(requests)'
<1> DEFINE s == stack[r]
           t == IF Len(s) = 1 THEN <<>> ELSE Stepped(SubSeq(s, 1, Len(s) - 1))
<1>1. /\ s # <<>> /\ AtEnd(s[Len(s)])
      /\ stack' = [stack EXCEPT ![r] = t]
      /\ pool' = [pool EXCEPT ![r] = pool[r]]
      /\ UNCHANGED <<algid, profile>>
  BY DEF Return, Top, IInv, TypeOK
<1>2. Clean(s, pool[r].used) /\ Roomed(s, pool[r], requests) BY DEF IInv, RoomInv
<1> HIDE DEF s
<1>3. Roomed(t, pool[r], requests) BY <1>1, <1>2, RoomedPop
<1> HIDE DEF t
<1> QED BY <1>1, <1>3, OneRoomed

-------------------------------------------------------------------------------

LEMMA InitRoom == \A requests : Init => RoomInv(requests)
<1> SUFFICES ASSUME NEW requests, Init PROVE RoomInv(requests)
  OBVIOUS
<1>1. \A r \in Ranks : Roomed(stack[r], pool[r], requests)
  BY DEF Init, Roomed, EmptyPool
<1> QED BY <1>1, CliInit DEF Init, RoomInv

LEMMA NextRoom ==
  ASSUME IInv, IInv', NEW requests, Roomy(requests), RoomInv(requests), [Next]_vars
  PROVE  RoomInv(requests)'
<1>1. ~Tuned => CliInv' BY CliNext DEF RoomInv
<1>2. ASSUME NEW r \in Ranks, BeginCall(r) PROVE RoomInv(requests)'
  BY <1>1, <1>2, BeginCallRoom
<1>3. ASSUME NEW r \in Ranks, SkipCall(r) \/ Post(r) PROVE RoomInv(requests)'
  <2>1. UNCHANGED <<stack, pool, algid, profile>> BY <1>3 DEF SkipCall, Post
  <2> QED BY <1>1, <2>1 DEF RoomInv
<1>4. ASSUME NEW r \in Ranks, SetAlgId(r) PROVE RoomInv(requests)'
  BY <1>1, <1>4, SetAlgIdRoom
<1>5. ASSUME NEW r \in Ranks, TakeBuffer(r) PROVE RoomInv(requests)'
  BY <1>1, <1>5, TakeBufferRoom
<1>6. ASSUME NEW r \in Ranks, GiveUp(r) PROVE RoomInv(requests)'
  BY <1>1, <1>6, GiveUpRoom
<1>7. ASSUME NEW r \in Ranks, CallInner(r) PROVE RoomInv(requests)'
  BY <1>1, <1>7, CallInnerRoom
<1>8. ASSUME NEW r \in Ranks, GiveBack(r) PROVE RoomInv(requests)'
  BY <1>1, <1>8, GiveBackRoom
<1>9. ASSUME NEW r \in Ranks, Return(r) PROVE RoomInv(requests)'
  BY <1>1, <1>9, ReturnRoom
<1>10. ASSUME NEW comm \in Comms, Meet(comm) PROVE RoomInv(requests)'
  BY <1>1, <1>10, MeetRoom
<1>11. CASE UNCHANGED vars
  <2>1. UNCHANGED <<stack, pool, algid, profile>> BY <1>11 DEF vars
  <2> QED BY <1>1, <2>1 DEF RoomInv
<1> QED BY <1>2, <1>3, <1>4, <1>5, <1>6, <1>7, <1>8, <1>9, <1>10, <1>11
        DEF Next, Proceed, Finished

(* When every mock-up gets all its buffers or none, pgmpi_buf.c never      *)
(* keeps a flag that nobody clears: the early return on MPI_ERR_NO_MEM,    *)
(* which releases nothing, has nothing to release.                         *)
THEOREM NoOrphansWhenRoomy ==
  ASSUME NEW CONSTANT requests, Roomy(requests)
  PROVE  Spec => []NoOrphans
<1>1. Init => RoomInv(requests) BY InitRoom
<1>2. IInv /\ IInv' /\ RoomInv(requests) /\ [Next]_vars => RoomInv(requests)' BY NextRoom
<1>3. RoomInv(requests) => NoOrphans BY DEF RoomInv, Roomed, NoOrphans, Active
<1> QED BY Inductive, <1>1, <1>2, <1>3, PTL DEF Spec

-------------------------------------------------------------------------------
(* Why a wrapper of the CLI library runs the default implementation.       *)

OverLimit(f) ==
  \E k \in Kinds : Need(f.coll, f.n, f.e, f.comm, f.alg, First(k))
                    + Need(f.coll, f.n, f.e, f.comm, f.alg, Second(k)) > Limit[k]

Excused(f) == f.default /\ f.alg # DEFAULT => OverLimit(f)

(* What a good frame's mock-up needs of an area.                           *)
LEMMA NeedIs ==
  ASSUME NEW f, GoodFrame(f), ~f.default, NEW b
  PROVE  /\ Need(f.coll, f.n, f.e, f.comm, f.alg, b) \in Nat
         /\ \A i \in 1..Len(Script(f)) :
              Script(f)[i].op = "grab" /\ Script(f)[i].buf = b
                => Need(f.coll, f.n, f.e, f.comm, f.alg, b) = Script(f)[i].size
<1> DEFINE s == Script(f)
           takes == {i \in 1..Len(s) : s[i].op = "grab" /\ s[i].buf = b}
           need == IF takes = {} THEN 0 ELSE s[CHOOSE i \in takes : TRUE].size
<1>1. s = Mockups(f.coll, f.n, f.e, Cardinality(f.comm))[f.alg] BY DEF Script
<1>2. Need(f.coll, f.n, f.e, f.comm, f.alg, b) = need BY <1>1 DEF Need
<1>3. Disciplined(s) BY ScriptDisciplined
<1>4. takes # {} => (CHOOSE i \in takes : TRUE) \in takes OBVIOUS
<1> HIDE DEF s
<1>5. \A i \in takes : s[i].size \in Nat BY <1>3 DEF Disciplined, Instructions
<1>6. \A i, j \in takes : i = j BY <1>3 DEF Disciplined
<1> HIDE DEF takes
<1>7. need \in Nat BY <1>4, <1>5
<1>8. \A i \in takes : need = s[i].size BY <1>4, <1>6
<1> QED BY <1>2, <1>7, <1>8 DEF takes, s

(* In the CLI library a mock-up gives up because what it asks for first is *)
(* more than there is: nothing is in use.                                  *)
LEMMA GivesUpOverLimit ==
  ASSUME IInv, ~Tuned, NEW requests, Roomy(requests), RoomInv(requests),
         NEW r \in Ranks, GiveUp(r)
  PROVE  Excused(GivenUp(Top(r)))
<1> DEFINE s == stack[r]
           f == Top(r)
           g == Script(f)[f.ip]
           k == Kind(g.buf)
<1>1. At(r, "grab") BY DEF GiveUp
<1>2. /\ s \in Seq(Frame) /\ s # <<>> /\ Len(s) \in 1..Len(s)
      /\ f = s[Len(s)] /\ GoodFrame(f) /\ f.ip \in 1..Len(Script(f))
      /\ g \in Instructions /\ Instr(f) = g /\ g.op = "grab"
  BY <1>1, AtFacts
<1>3. g.buf \in Bufs /\ g.size \in Nat BY <1>2 DEF Instructions
<1>4. k \in Kinds /\ Slot(g.buf) \in {1, 2} BY <1>3, BufKinds
<1>5. Limit[k] \in Nat BY <1>4, SizesAssumption DEF Limits
<1>6. ~Fits(pool[r], Limit, g.buf, g.size) BY <1>2 DEF GiveUp
<1>7. f.ip = 1 BY GivesUpAtFirst
<1>8. Held(f) = {} BY <1>7, HeldAtFirst
<1>9. pool[r].used = {}
  <2>1. Len(s) = 1 BY <1>2, OneWrapper DEF RoomInv, CliInv
  <2>2. Roomed(s, pool[r], requests) BY DEF RoomInv
  <2> QED BY <1>2, <1>8, <2>1, <2>2 DEF Roomed
<1>10. Slot(g.buf) = 1 /\ g.buf = First(k)
  <2>1. Slot(g.buf) # 2 BY <1>2, <1>8, ScriptDisciplined DEF Disciplined, Held
  <2> QED BY <1>3, <1>4, <2>1, BufFacts
<1>11. g.size > Limit[k]
  <2>1. StartOf(pool[r], g.buf) = 0 BY <1>10 DEF StartOf
  <2> HIDE DEF g
  <2> QED BY <1>3, <1>5, <1>6, <1>9, <2>1 DEF Fits
<1>12. ~f.default
  <2>1. ASSUME f.default PROVE FALSE
    <3>1. Len(Script(f)) = 1 /\ Script(f)[1].op = "mpi" BY <2>1, PlainScript
    <3> QED BY <1>2, <3>1
  <2> QED BY <2>1
<1> HIDE DEF f
<1>13. Need(f.coll, f.n, f.e, f.comm, f.alg, First(k)) = g.size
  BY <1>2, <1>10, <1>12, NeedIs
<1>14. Need(f.coll, f.n, f.e, f.comm, f.alg, Second(k)) \in Nat BY <1>2, <1>12, NeedIs
<1> HIDE DEF g, k
<1>15. OverLimit(f) BY <1>3, <1>4, <1>5, <1>11, <1>13, <1>14 DEF OverLimit
<1>16. f \in Frame BY <1>2 DEF GoodFrame
<1>17. /\ GivenUp(f).coll = f.coll /\ GivenUp(f).n = f.n /\ GivenUp(f).e = f.e
       /\ GivenUp(f).comm = f.comm /\ GivenUp(f).alg = f.alg
  BY <1>16 DEF GivenUp, Frame
<1>18. OverLimit(GivenUp(f)) BY <1>15, <1>17 DEF OverLimit
<1> QED BY <1>18 DEF Excused, f

AllExcused == \A r \in Ranks : \A i \in 1..Len(stack[r]) : Excused(stack[r][i])

LEMMA ExcusedNext ==
  ASSUME NEW f \in Frame, Excused(f)
  PROVE  Excused(Next1(f))
<1>1. /\ Next1(f).coll = f.coll /\ Next1(f).n = f.n /\ Next1(f).e = f.e
      /\ Next1(f).comm = f.comm /\ Next1(f).alg = f.alg /\ Next1(f).default = f.default
  BY DEF Next1, Frame
<1> QED BY <1>1 DEF Excused, OverLimit

LEMMA ExcusedStepped ==
  ASSUME NEW s \in Seq(Frame), s # <<>>, \A i \in 1..Len(s) : Excused(s[i])
  PROVE  \A i \in 1..Len(Stepped(s)) : Excused(Stepped(s)[i])
<1> DEFINE g == Next1(s[Len(s)])
           t == [s EXCEPT ![Len(s)] = g]
<1>1. Len(s) \in 1..Len(s) BY EmptySeq
<1>2. Stepped(s) = t BY DEF Stepped, Next1
<1>3. Excused(g) BY <1>1, ExcusedNext
<1> HIDE DEF g
<1>4. Len(t) = Len(s) /\ \A i \in 1..Len(s) : t[i] = IF i = Len(s) THEN g ELSE s[i]
  OBVIOUS
<1> HIDE DEF t
<1> QED BY <1>2, <1>3, <1>4

(* A step of process r alone. *)
LEMMA OneExcused ==
  ASSUME IInv, AllExcused, NEW r \in Ranks, NEW s, \A i \in 1..Len(s) : Excused(s[i]),
         stack' = [stack EXCEPT ![r] = s]
  PROVE  AllExcused'
<1>1. stack \in [Ranks -> Seq(Frame)] BY DEF IInv, TypeOK
<1> SUFFICES ASSUME NEW q \in Ranks PROVE \A i \in 1..Len(stack'[q]) : Excused(stack'[q][i])
  BY DEF AllExcused
<1>2. CASE q = r
  <2>1. stack'[q] = s BY <1>1, <1>2
  <2> QED BY <2>1
<1>3. CASE q # r
  <2>1. stack'[q] = stack[q] BY <1>1, <1>3
  <2> QED BY <2>1 DEF AllExcused
<1> QED BY <1>2, <1>3

LEMMA NextExcused ==
  ASSUME IInv, ~Tuned, NEW requests, Roomy(requests), RoomInv(requests),
         AllExcused, [Next]_vars
  PROVE  AllExcused'
<1>1. stack \in [Ranks -> Seq(Frame)] BY DEF IInv, TypeOK
<1>2. ASSUME NEW r \in Ranks, BeginCall(r) PROVE AllExcused'
  <2>1. PICK item \in Upcoming(r) :
          /\ Begin(r, item)
          /\ Intercept(r, item.coll, PassedCount(item, r), item.e, item.comm)
    BY <1>2 DEF BeginCall
  <2> DEFINE f == [coll |-> item.coll, n |-> PassedCount(item, r), e |-> item.e,
                   comm |-> item.comm, alg |-> algid'[r][item.coll],
                   default |-> algid'[r][item.coll] = DEFAULT, ip |-> 1]
  <2>2. stack[r] = <<>> /\ stack' = [stack EXCEPT ![r] = Append(stack[r], f)]
    BY <2>1 DEF Begin, Intercept
  <2>3. f.default => f.alg = DEFAULT OBVIOUS
  <2> HIDE DEF f
  <2>4. Append(<<>>, f) = <<f>> /\ Len(<<f>>) = 1 /\ <<f>>[1] = f OBVIOUS
  <2>5. \A i \in 1..Len(<<f>>) : Excused(<<f>>[i]) BY <2>3, <2>4 DEF Excused
  <2>6. stack' = [stack EXCEPT ![r] = <<f>>] BY <2>2, <2>4
  <2> QED BY <2>5, <2>6, OneExcused
<1>3. ASSUME NEW r \in Ranks, SkipCall(r) \/ SetAlgId(r) \/ Post(r) PROVE AllExcused'
  <2>1. stack' = stack BY <1>3 DEF SkipCall, SetAlgId, Post
  <2> QED BY <2>1 DEF AllExcused
<1>4. ASSUME NEW r \in Ranks, TakeBuffer(r) \/ GiveBack(r) PROVE AllExcused'
  <2>1. stack' = [stack EXCEPT ![r] = Stepped(stack[r])] /\ stack[r] # <<>>
    BY <1>4 DEF TakeBuffer, GiveBack, At
  <2>2. \A i \in 1..Len(Stepped(stack[r])) : Excused(Stepped(stack[r])[i])
    BY <1>1, <2>1, ExcusedStepped DEF AllExcused
  <2> QED BY <2>1, <2>2, OneExcused
<1>5. ASSUME NEW r \in Ranks, GiveUp(r) PROVE AllExcused'
  <2> DEFINE s == stack[r]
             g == GivenUp(Top(r))
             t == [s EXCEPT ![Len(s)] = g]
  <2>1. stack' = [stack EXCEPT ![r] = t] BY <1>5 DEF GiveUp
  <2>2. Excused(g) BY <1>5, GivesUpOverLimit
  <2>3. s \in Seq(Frame) /\ \A i \in 1..Len(s) : Excused(s[i]) BY <1>1 DEF AllExcused
  <2> HIDE DEF s, g
  <2>4. Len(t) = Len(s) /\ \A i \in 1..Len(s) : t[i] = IF i = Len(s) THEN g ELSE s[i]
    BY <2>3
  <2> HIDE DEF t
  <2>5. \A i \in 1..Len(t) : Excused(t[i]) BY <2>2, <2>3, <2>4
  <2> QED BY <2>1, <2>5, OneExcused
<1>6. ASSUME NEW r \in Ranks, CallInner(r) PROVE AllExcused' BY <1>6, NoInnerWrapper
<1>7. ASSUME NEW r \in Ranks, Return(r) PROVE AllExcused'
  <2>1. Len(stack[r]) = 1 BY <1>1, <1>7, OneWrapper DEF Return, RoomInv, CliInv
  <2>2. stack' = [stack EXCEPT ![r] = <<>>] BY <1>7, <2>1 DEF Return
  <2>3. \A i \in 1..Len(<<>>) : Excused(<<>>[i]) OBVIOUS
  <2> QED BY <2>2, <2>3, OneExcused
<1>8. ASSUME NEW comm \in Comms, Meet(comm) PROVE AllExcused'
  <2> SUFFICES ASSUME NEW r \in Ranks
               PROVE  \A i \in 1..Len(stack'[r]) : Excused(stack'[r][i])
    BY DEF AllExcused
  <2>1. /\ stack'[r] = IF r \in comm THEN Stepped(stack[r]) ELSE stack[r]
        /\ r \in comm => stack[r] # <<>>
    BY <1>8 DEF Meet, Ready, IInv, Pending
  <2> QED BY <1>1, <2>1, ExcusedStepped DEF AllExcused
<1>9. CASE UNCHANGED vars
  <2>1. stack' = stack BY <1>9 DEF vars
  <2> QED BY <2>1 DEF AllExcused
<1> QED BY <1>2, <1>3, <1>4, <1>5, <1>6, <1>7, <1>8, <1>9 DEF Next, Proceed, Finished

(* In the CLI library, and when every mock-up gets all its buffers or      *)
(* none, the default implementation replaces a selected mock-up only if    *)
(* that one requires more memory than configured (README.md:127-128).      *)
THEOREM FallsBackWhenRoomy ==
  ASSUME NEW CONSTANT requests, Roomy(requests), ~Tuned
  PROVE  Spec => []FallsBackOnlyOverLimit
<1>1. Init => RoomInv(requests) BY InitRoom
<1>2. IInv /\ IInv' /\ RoomInv(requests) /\ [Next]_vars => RoomInv(requests)' BY NextRoom
<1>3. Init => AllExcused BY DEF Init, AllExcused
<1>4. IInv /\ RoomInv(requests) /\ AllExcused /\ [Next]_vars => AllExcused' BY NextExcused
<1>5. AllExcused => FallsBackOnlyOverLimit
  BY DEF AllExcused, Excused, OverLimit, FallsBackOnlyOverLimit, Active
<1> QED BY Inductive, <1>1, <1>2, <1>3, <1>4, <1>5, PTL DEF Spec

-------------------------------------------------------------------------------
(* The mock-ups as users of the buffer manager.                            *)

(* A request for ints is one for whole ints. *)
Whole(i) == i.op = "grab" /\ Kind(i.buf) = "int" => i.size % SizeofInt = 0
AllWhole(s) == \A i \in 1..Len(s) : Whole(s[i])

LEMMA WholeParts ==
  /\ \A a : Whole(GrabMsg(a)) /\ Whole(GrabMsg2(a))
  /\ \A p \in Nat : Whole(GrabInt(p)) /\ Whole(GrabInt2(p))
  /\ \A c, x, y : Whole(Call(c, x, y))
  /\ \A c, x : Whole(Mpi(c, x))
  /\ \A k : Whole(Release(k))
<1>1. \A a : Whole(GrabMsg(a)) /\ Whole(GrabMsg2(a))
  BY DEF Whole, GrabMsg, GrabMsg2, Grab, Kind, First, Second
<1>2. ASSUME NEW p \in Nat PROVE Whole(GrabInt(p)) /\ Whole(GrabInt2(p))
  <2>1. (p * SizeofInt) % SizeofInt = 0 BY DEF SizeofInt
  <2> QED BY <2>1 DEF Whole, GrabInt, GrabInt2, Grab
<1>3. \A c, x, y : Whole(Call(c, x, y)) BY DEF Whole, Call
<1>4. \A c, x : Whole(Mpi(c, x)) BY DEF Whole, Mpi
<1>5. \A k : Whole(Release(k)) BY DEF Whole, Release
<1> QED BY <1>1, <1>2, <1>3, <1>4, <1>5

LEMMA WholeShort ==
  ASSUME NEW a, NEW b, NEW c, NEW d, Whole(a), Whole(b), Whole(c), Whole(d)
  PROVE  AllWhole(<<a>>) /\ AllWhole(<<a, b>>) /\ AllWhole(<<a, b, c>>)
           /\ AllWhole(<<a, b, c, d>>)
<1>1. AllWhole(<<a>>) BY DEF AllWhole
<1>2. AllWhole(<<a, b>>) BY DEF AllWhole
<1>3. AllWhole(<<a, b, c>>) BY DEF AllWhole
<1>4. AllWhole(<<a, b, c, d>>) BY DEF AllWhole
<1> QED BY <1>1, <1>2, <1>3, <1>4

LEMMA WholeFive ==
  ASSUME NEW a, NEW b, NEW c, NEW d, NEW f,
         Whole(a), Whole(b), Whole(c), Whole(d), Whole(f)
  PROVE  AllWhole(<<a, b, c, d, f>>)
BY DEF AllWhole

LEMMA WholeSeven ==
  ASSUME NEW a, NEW b, NEW c, NEW d, NEW f, NEW g, NEW h,
         Whole(a), Whole(b), Whole(c), Whole(d), Whole(f), Whole(g), Whole(h)
  PROVE  AllWhole(<<a, b, c, d, f, g, h>>)
BY DEF AllWhole

(* Every mock-up asks for size * sizeof(int) bytes of the int area. *)
LEMMA ScriptsWhole ==
  ASSUME NEW n, NEW e, NEW p \in Nat
  PROVE  /\ \A coll : AllWhole(Plain(coll, n, e))
         /\ \A coll \in Collectives, alg \in Nat \ {DEFAULT} :
              alg \in AlgIds(coll) => AllWhole(Mockups(coll, n, e, p)[alg])
<1>10. AllWhole(Allgather_as_Allgatherv(n, e, p))
  BY WholeParts, WholeShort DEF Allgather_as_Allgatherv
<1>11. AllWhole(Allgather_as_Allreduce(n, e, p))
  BY WholeParts, WholeShort DEF Allgather_as_Allreduce
<1>12. AllWhole(Allgather_as_Alltoall(n, e, p))
  BY WholeParts, WholeShort DEF Allgather_as_Alltoall
<1>13. AllWhole(Allgather_as_GatherBcast(n, e, p))
  BY WholeParts, WholeShort DEF Allgather_as_GatherBcast
<1>14. AllWhole(Allreduce_as_Reduce_Bcast(n, e, p))
  BY WholeParts, WholeShort DEF Allreduce_as_Reduce_Bcast
<1>15. AllWhole(Allreduce_as_Reduce_scatter_block_Allgather(n, e, p))
  BY WholeParts, WholeFive DEF Allreduce_as_Reduce_scatter_block_Allgather
<1>16. AllWhole(Allreduce_as_Reduce_scatter_Allgatherv(n, e, p))
  BY WholeParts, WholeFive DEF Allreduce_as_Reduce_scatter_Allgatherv
<1>17. AllWhole(Alltoall_as_Alltoallv(n, e, p))
  BY WholeParts, WholeShort DEF Alltoall_as_Alltoallv
<1>18. AllWhole(Bcast_as_Allgatherv(n, e, p))
  BY WholeParts, WholeShort DEF Bcast_as_Allgatherv
<1>19. AllWhole(Bcast_as_Scatter_Allgather(n, e, p))
  BY WholeParts, WholeFive DEF Bcast_as_Scatter_Allgather
<1>20. AllWhole(Gather_as_Allgather(n, e, p))
  BY WholeParts, WholeShort DEF Gather_as_Allgather
<1>21. AllWhole(Gather_as_Gatherv(n, e, p))
  BY WholeParts, WholeShort DEF Gather_as_Gatherv
<1>22. AllWhole(Gather_as_Reduce(n, e, p))
  BY WholeParts, WholeShort DEF Gather_as_Reduce
<1>23. AllWhole(Reduce_as_Allreduce(n, e, p))
  BY WholeParts, WholeShort DEF Reduce_as_Allreduce
<1>24. AllWhole(Reduce_as_Reduce_scatter_block_Gather(n, e, p))
  BY WholeParts, WholeFive DEF Reduce_as_Reduce_scatter_block_Gather
<1>25. AllWhole(Reduce_as_Reduce_scatter_Gatherv(n, e, p))
  BY WholeParts, WholeSeven DEF Reduce_as_Reduce_scatter_Gatherv
<1>26. AllWhole(Reduce_as_Reduce_scatter(n, e, p))
  BY WholeParts, WholeShort DEF Reduce_as_Reduce_scatter
<1>27. AllWhole(Reduce_scatter_block_as_Reduce_Scatter(n, e, p))
  BY WholeParts, WholeShort DEF Reduce_scatter_block_as_Reduce_Scatter
<1>28. AllWhole(Reduce_scatter_block_as_Reduce_scatter(n, e, p))
  BY WholeParts, WholeShort DEF Reduce_scatter_block_as_Reduce_scatter
<1>29. AllWhole(Reduce_scatter_block_as_Allreduce(n, e, p))
  BY WholeParts, WholeShort DEF Reduce_scatter_block_as_Allreduce
<1>30. AllWhole(Scan_as_Exscan_Reduce_local(n, e, p))
  BY WholeParts, WholeShort DEF Scan_as_Exscan_Reduce_local
<1>31. AllWhole(Scatter_as_Bcast(n, e, p))
  BY WholeParts, WholeShort DEF Scatter_as_Bcast
<1>32. AllWhole(Scatter_as_Scatterv(n, e, p))
  BY WholeParts, WholeShort DEF Scatter_as_Scatterv
<1>40. \A coll : AllWhole(Plain(coll, n, e)) BY WholeParts, WholeShort DEF Plain
<1>41. ASSUME NEW coll \in Collectives, NEW alg \in Nat \ {DEFAULT}, alg \in AlgIds(coll)
       PROVE  AllWhole(Mockups(coll, n, e, p)[alg])
  <2>1. CASE coll = "Allgather"
    <3>1. alg \in 1..4 BY <1>41, <2>1 DEF AlgIds, DEFAULT
    <3>2. Mockups(coll, n, e, p) = Allgather(n, e, p) BY <2>1 DEF Mockups
    <3> QED BY <3>1, <3>2, <1>10, <1>11, <1>12, <1>13 DEF Allgather
  <2>2. CASE coll = "Allreduce"
    <3>1. alg \in 1..3 BY <1>41, <2>2 DEF AlgIds, DEFAULT
    <3>2. Mockups(coll, n, e, p) = Allreduce(n, e, p) BY <2>2 DEF Mockups
    <3> QED BY <3>1, <3>2, <1>14, <1>15, <1>16 DEF Allreduce
  <2>3. CASE coll = "Alltoall"
    <3>1. alg \in 1..1 BY <1>41, <2>3 DEF AlgIds, DEFAULT
    <3>2. Mockups(coll, n, e, p) = Alltoall(n, e, p) BY <2>3 DEF Mockups
    <3> QED BY <3>1, <3>2, <1>17 DEF Alltoall
  <2>4. CASE coll = "Bcast"
    <3>1. alg \in 1..2 BY <1>41, <2>4 DEF AlgIds, DEFAULT
    <3>2. Mockups(coll, n, e, p) = Bcast(n, e, p) BY <2>4 DEF Mockups
    <3> QED BY <3>1, <3>2, <1>18, <1>19 DEF Bcast
  <2>5. CASE coll = "Gather"
    <3>1. alg \in 1..3 BY <1>41, <2>5 DEF AlgIds, DEFAULT
    <3>2. Mockups(coll, n, e, p) = Gather(n, e, p) BY <2>5 DEF Mockups
    <3> QED BY <3>1, <3>2, <1>20, <1>21, <1>22 DEF Gather
  <2>6. CASE coll = "Reduce"
    <3>1. alg \in 1..4 BY <1>41, <2>6 DEF AlgIds, DEFAULT
    <3>2. Mockups(coll, n, e, p) = Reduce(n, e, p) BY <2>6 DEF Mockups
    <3> QED BY <3>1, <3>2, <1>23, <1>24, <1>25, <1>26 DEF Reduce
  <2>7. CASE coll = "Reduce_scatter_block"
    <3>1. alg \in 1..3 BY <1>41, <2>7 DEF AlgIds, DEFAULT
    <3>2. Mockups(coll, n, e, p) = Reduce_scatter_block(n, e, p) BY <2>7 DEF Mockups
    <3> QED BY <3>1, <3>2, <1>27, <1>28, <1>29 DEF Reduce_scatter_block
  <2>8. CASE coll = "Scan"
    <3>1. alg \in 1..1 BY <1>41, <2>8 DEF AlgIds, DEFAULT
    <3>2. Mockups(coll, n, e, p) = Scan(n, e, p) BY <2>8 DEF Mockups
    <3> QED BY <3>1, <3>2, <1>30 DEF Scan
  <2>9. CASE coll = "Scatter"
    <3>1. alg \in 1..2 BY <1>41, <2>9 DEF AlgIds, DEFAULT
    <3>2. Mockups(coll, n, e, p) = Scatter(n, e, p) BY <2>9 DEF Mockups
    <3> QED BY <3>1, <3>2, <1>31, <1>32 DEF Scatter
  <2> QED BY <2>1, <2>2, <2>3, <2>4, <2>5, <2>6, <2>7, <2>8, <2>9 DEF Collectives
<1> QED BY <1>40, <1>41

LEMMA ScriptWhole ==
  ASSUME NEW f, GoodFrame(f), NEW i \in 1..Len(Script(f)), Script(f)[i].op = "grab"
  PROVE  Script(f)[i].size % Unit(Kind(Script(f)[i].buf)) = 0
<1>1. f.coll \in Collectives /\ f.alg \in AlgIds(f.coll) /\ f.comm \in Comms
  BY DEF GoodFrame, Frame
<1>2. Cardinality(f.comm) \in Nat BY <1>1, CommSize
<1>3. AllWhole(Script(f))
  <2>1. CASE f.default BY <1>2, <2>1, ScriptsWhole DEF Script
  <2>2. CASE ~f.default
    <3>1. f.alg \in Nat \ {DEFAULT} BY <1>1, <2>2, AlgIdsNat DEF GoodFrame
    <3> QED BY <1>1, <1>2, <2>2, <3>1, ScriptsWhole DEF Script
  <2> QED BY <2>1, <2>2
<1>4. Script(f)[i] \in Instructions BY ScriptDisciplined DEF Disciplined
<1>5. Script(f)[i].size \in Nat /\ Kind(Script(f)[i].buf) \in Kinds
  BY <1>4, BufKinds DEF Instructions
<1>6. CASE Kind(Script(f)[i].buf) = "int"
  BY <1>3, <1>6 DEF AllWhole, Whole, Unit
<1>7. CASE Kind(Script(f)[i].buf) # "int"
  <2>1. \A x \in Nat : x % 1 = 0 OBVIOUS
  <2> QED BY <1>5, <1>7, <2>1 DEF Unit
<1> QED BY <1>6, <1>7

(* What a process has been lent, l, given its scratch memory p: of each    *)
(* buffer in use a stretch within the limit, of whole units; that of a     *)
(* second buffer begins where that of the first ends.                      *)
Stretch(x, k) == /\ x.from \in Nat /\ x.to \in Nat
                 /\ x.to <= Limit[k] /\ x.to % Unit(k) = 0

Managed(p, l) ==
  /\ l = [b \in p.used |-> l[b]]
  /\ \A b \in p.used : Stretch(l[b], Kind(b))
  /\ \A k \in Kinds :
       /\ First(k) \in p.used => l[First(k)].to = p.offset[k] * Unit(k)
       /\ Second(k) \in p.used => /\ First(k) \in p.used
                                  /\ l[Second(k)].from = p.offset[k] * Unit(k)

(* What a wrapper holds is as long as it has asked for. *)
Given(f, l) ==
  \A b \in Held(f) : \A k \in 1..(f.ip - 1) :
    LET g == Script(f)[k]
    IN  g.op = "grab" /\ g.buf = b => l[b].to = l[b].from + g.size

AllGiven(s, l) == \A i \in 1..Len(s) : Given(s[i], l)

(* The invariant behind OwnBytes. *)
LentInv == \A r \in Ranks : Managed(pool[r], lent[r]) /\ AllGiven(stack[r], lent[r])

LEMMA GivenNothing == ASSUME NEW f, Held(f) = {}, NEW l PROVE Given(f, l)
BY DEF Given

(* It goes on past an instruction that takes nothing. *)
LEMMA GivenNext ==
  ASSUME NEW f, GoodFrame(f), ~AtEnd(f), Script(f)[f.ip].op # "grab",
         NEW l, NEW m, Given(f, l), Held(Next1(f)) \subseteq Held(f),
         \A b \in Held(Next1(f)) : m[b] = l[b]
  PROVE  Given(Next1(f), m)
<1>1. Next1(f).ip = f.ip + 1 /\ f.ip \in Nat \ {0}
  BY DEF Next1, GoodFrame, Frame
<1>2. Script(Next1(f)) = Script(f) BY SteppedFrame
<1>3. \A i \in 1..(Next1(f).ip - 1) : i \in 1..(f.ip - 1) \/ i = f.ip BY <1>1
<1> QED BY <1>2, <1>3 DEF Given

LEMMA GivenWork ==
  ASSUME NEW f, GoodFrame(f), ~AtEnd(f), Script(f)[f.ip].op \notin {"grab", "release"},
         NEW l, Given(f, l)
  PROVE  Given(Next1(f), l)
<1>1. f.ip \in Nat \ {0} BY DEF GoodFrame, Frame
<1>2. Held(Next1(f)) = Held(f) BY <1>1, SteppedFrame, HeldAfterWork DEF Held
<1> QED BY <1>2, GivenNext

(* Others are not disturbed when what they hold stays as it is. *)
LEMMA GivenElsewhere ==
  ASSUME NEW f, NEW l, NEW m, Given(f, l), \A b \in Held(f) : m[b] = l[b]
  PROVE  Given(f, m)
BY DEF Given

(* A wrapper is entered. *)
LEMMA GivenPush ==
  ASSUME NEW s \in Seq(Frame), NEW f \in Frame, Held(f) = {}, NEW l, AllGiven(s, l)
  PROVE  AllGiven(Append(s, f), l)
<1>1. /\ Len(Append(s, f)) = Len(s) + 1 /\ Len(s) \in Nat
      /\ Append(s, f)[Len(s) + 1] = f
      /\ \A i \in 1..Len(s) : Append(s, f)[i] = s[i]
  OBVIOUS
<1>2. \A i \in 1..Len(Append(s, f)) : i \in 1..Len(s) \/ i = Len(s) + 1 BY <1>1
<1> QED BY <1>1, <1>2, GivenNothing DEF AllGiven

(* The innermost wrapper goes on: it becomes f. *)
LEMMA GivenTop ==
  ASSUME NEW s \in Seq(Frame), s # <<>>, NEW f \in Frame, NEW l, Given(f, l),
         \A i \in 1..Len(s) : i # Len(s) => Given(s[i], l)
  PROVE  AllGiven([s EXCEPT ![Len(s)] = f], l)
<1> DEFINE t == [s EXCEPT ![Len(s)] = f]
<1>1. Len(s) \in Nat \ {0} BY EmptySeq
<1>2. /\ Len(t) = Len(s) /\ t[Len(s)] = f
      /\ \A i \in 1..Len(s) : i # Len(s) => t[i] = s[i]
  BY <1>1
<1> HIDE DEF t
<1>3. AllGiven(t, l) BY <1>2 DEF AllGiven
<1> QED BY <1>3 DEF t

LEMMA GivenStepped ==
  ASSUME NEW s, NEW used, Clean(s, used), s # <<>>, NEW l, AllGiven(s, l),
         ~AtEnd(s[Len(s)]), Script(s[Len(s)])[s[Len(s)].ip].op \notin {"grab", "release"}
  PROVE  AllGiven(Stepped(s), l)
<1> DEFINE f == s[Len(s)]
<1>1. s \in Seq(Frame) /\ Len(s) \in Nat \ {0} BY EmptySeq DEF Clean
<1>2. GoodFrame(f) /\ Given(f, l) BY <1>1 DEF Clean, AllGiven
<1>3. Given(Next1(f), l) BY <1>2, GivenWork
<1>4. Next1(f) \in Frame BY <1>2, SteppedFrame DEF GoodFrame
<1>5. Stepped(s) = [s EXCEPT ![Len(s)] = Next1(f)] BY SteppedTop
<1>6. \A i \in 1..Len(s) : Given(s[i], l) BY DEF AllGiven
<1> HIDE DEF f
<1> QED BY <1>1, <1>3, <1>4, <1>5, <1>6, GivenTop

(* The innermost wrapper returns. *)
LEMMA GivenPop ==
  ASSUME NEW s, NEW used, Clean(s, used), s # <<>>, NEW l, AllGiven(s, l)
  PROVE  AllGiven(IF Len(s) = 1 THEN <<>> ELSE Stepped(SubSeq(s, 1, Len(s) - 1)), l)
<1>1. CASE Len(s) = 1
  <2>1. AllGiven(<<>>, l) BY EmptySeq DEF AllGiven
  <2> QED BY <1>1, <2>1
<1>2. CASE Len(s) # 1
  <2> DEFINE t == SubSeq(s, 1, Len(s) - 1)
             g == t[Len(t)]
  <2>1. /\ Clean(t, used) /\ t # <<>> /\ Suspended(g)
        /\ Len(t) = Len(s) - 1 /\ \A i \in 1..Len(t) : t[i] = s[i]
    BY <1>2, PopClean
  <2> HIDE DEF t
  <2>2. Len(t) \in 1..Len(t) /\ Len(s) \in Nat BY <2>1, EmptySeq DEF Clean
  <2>3. GoodFrame(g) BY <2>1, <2>2 DEF Clean
  <2>4. Len(Script(g)) \in Nat BY <2>3, ScriptDisciplined DEF Disciplined
  <2>5. ~AtEnd(g) /\ Script(g)[g.ip].op \notin {"grab", "release"}
    BY <2>1, <2>3, <2>4 DEF Suspended, AtEnd, GoodFrame
  <2>6. \A i \in 1..Len(t) : i \in 1..Len(s) BY <2>1, <2>2
  <2>7. AllGiven(t, l) BY <2>1, <2>6 DEF AllGiven
  <2>8. AllGiven(Stepped(t), l) BY <2>1, <2>5, <2>7, GivenStepped
  <2> QED BY <1>2, <2>8 DEF t
<1> QED BY <1>1, <1>2

(* A wrapper that has just been entered holds nothing. *)
LEMMA GivenIntercept ==
  ASSUME IInv, IInv', NEW r \in Ranks, NEW coll, NEW n, NEW e, NEW comm,
         Intercept(r, coll, n, e, comm), NEW l, AllGiven(stack[r], l)
  PROVE  AllGiven(stack'[r], l)
<1>1. stack \in [Ranks -> Seq(Frame)] BY DEF IInv, TypeOK
<1>2. PICK f : f.ip = 1 /\ stack' = [stack EXCEPT ![r] = Append(stack[r], f)]
  <2> DEFINE f == [coll |-> coll, n |-> n, e |-> e, comm |-> comm, alg |-> algid'[r][coll],
                   default |-> algid'[r][coll] = DEFAULT, ip |-> 1]
  <2>1. f.ip = 1 /\ stack' = [stack EXCEPT ![r] = Append(stack[r], f)] BY DEF Intercept
  <2> HIDE DEF f
  <2> QED BY <2>1
<1>3. stack'[r] = Append(stack[r], f) BY <1>1, <1>2
<1>4. stack'[r] \in Seq(Frame) BY DEF IInv, TypeOK
<1>5. stack[r] \in Seq(Frame) BY <1>1
<1>6. f \in Frame
  <2> DEFINE s == stack[r]
             t == stack'[r]
  <2>1. Len(t) = Len(s) + 1 /\ t[Len(s) + 1] = f /\ Len(s) \in Nat
    BY <1>3, <1>5
  <2>2. t \in Seq(Frame) BY <1>4
  <2> HIDE DEF s, t
  <2> QED BY <2>1, <2>2
<1> QED BY <1>2, <1>3, <1>5, <1>6, HeldAtFirst, GivenPush

(* What a step does to process q and what it has been lent. *)
LEMMA StepOf ==
  ASSUME IInv, IInv', LentInv, [Next]_vars, NEW q \in Ranks
  PROVE  \/ pool'[q] = pool[q] /\ AllGiven(stack'[q], lent[q])
         \/ TakeBuffer(q)
         \/ GiveBack(q)
<1> DEFINE Quiet == pool'[q] = pool[q] /\ AllGiven(stack'[q], lent[q])
           s == stack[q]
<1>1. /\ stack \in [Ranks -> Seq(Frame)] /\ pool \in [Ranks -> Pools]
      /\ s \in Seq(Frame) /\ Clean(s, pool[q].used) /\ AllGiven(s, lent[q])
  BY DEF IInv, TypeOK, LentInv
<1>2. ASSUME UNCHANGED <<stack, pool>> PROVE Quiet BY <1>1, <1>2
<1>3. ASSUME NEW r \in Ranks, r # q, NEW x, NEW y, stack' = [stack EXCEPT ![r] = x],
             pool' = [pool EXCEPT ![r] = y]
      PROVE  Quiet
  BY <1>1, <1>3
<1>4. ASSUME NEW r \in Ranks, r # q, NEW x, stack' = [stack EXCEPT ![r] = x], pool' = pool
      PROVE  Quiet
  BY <1>1, <1>4
<1>5. ASSUME NEW r \in Ranks, BeginCall(r) PROVE Quiet
  <2>1. PICK item \in Upcoming(r) :
          /\ Intercept(r, item.coll, PassedCount(item, r), item.e, item.comm)
          /\ UNCHANGED pool
    BY <1>5 DEF BeginCall
  <2>2. CASE r = q
    <3>1. AllGiven(stack'[q], lent[q]) BY <1>1, <2>1, <2>2, GivenIntercept
    <3> QED BY <2>1, <3>1
  <2>3. CASE r # q
    <3>1. PICK x : stack' = [stack EXCEPT ![r] = x] BY <2>1 DEF Intercept
    <3> QED BY <1>4, <2>1, <2>3, <3>1
  <2> QED BY <2>2, <2>3
<1>6. ASSUME NEW r \in Ranks, SkipCall(r) \/ SetAlgId(r) \/ Post(r) PROVE Quiet
  <2>1. UNCHANGED <<stack, pool>> BY <1>6 DEF SkipCall, SetAlgId, Post
  <2> QED BY <1>2, <2>1
<1>7. ASSUME NEW r \in Ranks, TakeBuffer(r) \/ GiveBack(r), r # q PROVE Quiet
  <2>1. PICK x : stack' = [stack EXCEPT ![r] = x] BY <1>7 DEF TakeBuffer, GiveBack
  <2>2. PICK y : pool' = [pool EXCEPT ![r] = y] BY <1>7 DEF TakeBuffer, GiveBack
  <2> QED BY <1>3, <1>7, <2>1, <2>2
<1>8. ASSUME NEW r \in Ranks, GiveUp(r) PROVE Quiet
  <2> DEFINE x == [stack[r] EXCEPT ![Len(stack[r])] = GivenUp(Top(r))]
  <2>1. stack' = [stack EXCEPT ![r] = x] /\ pool' = pool /\ At(r, "grab")
    BY <1>8 DEF GiveUp
  <2>2. GoodFrame(Top(r)) /\ stack[r] # <<>> BY <2>1, AtFacts
  <2>3. GoodFrame(GivenUp(Top(r))) /\ Held(GivenUp(Top(r))) = {} BY <2>2, GivenUpFrame
  <2>4. CASE r = q
    <3>1. Given(GivenUp(Top(r)), lent[q]) BY <2>3, GivenNothing
    <3>2. GivenUp(Top(r)) \in Frame BY <2>3 DEF GoodFrame
    <3>3. \A i \in 1..Len(stack[q]) : Given(stack[q][i], lent[q]) BY <1>1 DEF AllGiven
    <3>4. AllGiven(x, lent[q]) BY <1>1, <2>2, <2>4, <3>1, <3>2, <3>3, GivenTop
    <3>5. stack'[q] = x BY <1>1, <2>1, <2>4
    <3> QED BY <2>1, <3>4, <3>5
  <2>5. CASE r # q
    <3> HIDE DEF x
    <3> QED BY <1>4, <2>1, <2>5
  <2> QED BY <2>4, <2>5
<1>9. ASSUME NEW r \in Ranks, CallInner(r) PROVE Quiet
  <2>1. PICK coll, n, e, comm : Intercept(r, coll, n, e, comm) BY <1>9 DEF CallInner
  <2>2. pool' = pool BY <1>9 DEF CallInner
  <2>3. CASE r = q
    <3>1. AllGiven(stack'[q], lent[q]) BY <1>1, <2>1, <2>3, GivenIntercept
    <3> QED BY <2>2, <3>1
  <2>4. CASE r # q
    <3>1. PICK x : stack' = [stack EXCEPT ![r] = x] BY <2>1 DEF Intercept
    <3> QED BY <1>4, <2>2, <2>4, <3>1
  <2> QED BY <2>3, <2>4
<1>10. ASSUME NEW r \in Ranks, Return(r) PROVE Quiet
  <2> DEFINE x == IF Len(stack[r]) = 1 THEN <<>>
                  ELSE Stepped(SubSeq(stack[r], 1, Len(stack[r]) - 1))
  <2>1. stack' = [stack EXCEPT ![r] = x] /\ pool' = pool /\ stack[r] # <<>>
    BY <1>10 DEF Return
  <2>2. CASE r = q
    <3>1. AllGiven(x, lent[q]) BY <1>1, <2>1, <2>2, GivenPop
    <3>2. stack'[q] = x BY <1>1, <2>1, <2>2
    <3> QED BY <2>1, <3>1, <3>2
  <2>3. CASE r # q
    <3> HIDE DEF x
    <3> QED BY <1>4, <2>1, <2>3
  <2> QED BY <2>2, <2>3
<1>11. ASSUME NEW comm \in Comms, Meet(comm) PROVE Quiet
  <2>1. /\ stack'[q] = IF q \in comm THEN Stepped(s) ELSE s
        /\ pool' = pool /\ \A r \in comm : waiting[r]
    BY <1>11 DEF Meet, Ready
  <2>2. CASE q \in comm
    <3>1. Pending(s) BY <2>1, <2>2 DEF IInv
    <3>2. s # <<>> /\ ~AtEnd(s[Len(s)]) /\ Instr(s[Len(s)]).op = "mpi"
      BY <3>1 DEF Pending
    <3>3. GoodFrame(s[Len(s)])
      <4>1. Len(s) \in 1..Len(s) BY <1>1, <3>2, EmptySeq
      <4> QED BY <1>1, <4>1 DEF Clean
    <3>4. Script(s[Len(s)])[s[Len(s)].ip].op \notin {"grab", "release"}
      BY <3>2, <3>3, InstrFacts
    <3>5. AllGiven(Stepped(s), lent[q]) BY <1>1, <3>2, <3>4, GivenStepped
    <3> QED BY <2>1, <2>2, <3>5
  <2>3. CASE q \notin comm BY <1>1, <2>1, <2>3
  <2> QED BY <2>2, <2>3
<1>12. ASSUME UNCHANGED vars PROVE Quiet
  <2>1. UNCHANGED <<stack, pool>> BY <1>12 DEF vars
  <2> QED BY <1>2, <2>1
<1> HIDE DEF Quiet
<1>13. Quiet \/ TakeBuffer(q) \/ GiveBack(q)
  BY <1>5, <1>6, <1>7, <1>8, <1>9, <1>10, <1>11, <1>12 DEF Next, Proceed, Finished
<1> QED BY <1>13 DEF Quiet

(* What is in use stays with whom it was handed to. *)
LEMMA RecordFacts ==
  ASSUME Record, NEW r \in Ranks
  PROVE  lent'[r] = [b \in pool'[r].used |->
                       IF b \in pool[r].used THEN lent[r][b] ELSE Handed(r, b)]
BY DEF Record

LEMMA QuietLent ==
  ASSUME LentInv, Record, NEW r \in Ranks, pool'[r] = pool[r]
  PROVE  lent'[r] = lent[r]
<1>1. lent[r] = [b \in pool[r].used |-> lent[r][b]] BY DEF LentInv, Managed
<1>2. lent'[r] = [b \in pool[r].used |-> lent[r][b]] BY RecordFacts
<1> QED BY <1>1, <1>2

LEMMA UnitFacts ==
  \A k \in Kinds : Unit(k) \in {1, 4} /\ Limit[k] \in Nat
BY SizesAssumption DEF Kinds, Unit, SizeofInt, Limits

(* What a process is about to take. *)
LEMMA TakeFacts ==
  ASSUME IInv, LentInv, NEW r \in Ranks, TakeBuffer(r)
  PROVE  LET b == Instr(Top(r)).buf
             size == Instr(Top(r)).size
             k == Kind(b)
         IN  /\ b \in Bufs /\ k \in Kinds /\ b \notin pool[r].used
             /\ size \in Nat /\ size % Unit(k) = 0
             /\ StartOf(pool[r], b) + size <= Limit[k]
             /\ pool'[r] = Grabbed(pool[r], b, size)
             /\ Slot(b) = 2 => First(k) \in pool[r].used
             /\ pool[r] \in Pools
<1> DEFINE f == Top(r)
           b == Instr(f).buf
           size == Instr(f).size
           k == Kind(b)
<1>1. At(r, "grab") BY DEF TakeBuffer
<1>2. /\ Clean(stack[r], pool[r].used) /\ Len(stack[r]) \in 1..Len(stack[r])
      /\ f = stack[r][Len(stack[r])]
      /\ GoodFrame(f) /\ f.ip \in 1..Len(Script(f))
      /\ Script(f)[f.ip] \in Instructions /\ Instr(f) = Script(f)[f.ip]
      /\ Instr(f).op = "grab" /\ pool[r] \in Pools
  BY <1>1, AtFacts
<1>3. b \in Bufs /\ size \in Nat BY <1>2 DEF Instructions
<1>4. k \in Kinds BY <1>3, BufKinds
<1>5. size % Unit(k) = 0 BY <1>2, ScriptWhole
<1>6. /\ Fits(pool[r], Limit, b, size)
      /\ pool' = [pool EXCEPT ![r] = Grabbed(pool[r], b, size)]
  BY DEF TakeBuffer
<1>7. pool'[r] = Grabbed(pool[r], b, size)
  <2>1. pool \in [Ranks -> Pools] BY DEF IInv, TypeOK
  <2> QED BY <1>6, <2>1
<1>8. Slot(b) = 2 => First(k) \in pool[r].used
  <2>1. Slot(b) = 2 => First(k) \in Held(f)
    BY <1>2, ScriptDisciplined DEF Disciplined, Held
  <2>2. Held(f) \subseteq pool[r].used BY <1>2, CleanHolds
  <2> QED BY <2>1, <2>2
<1>9. pool[r] \in Pools BY <1>2
<1> HIDE DEF f, b, size, k
<1>10. b \notin pool[r].used /\ StartOf(pool[r], b) + size <= Limit[k]
  BY <1>6 DEF Fits, k
<1> QED BY <1>3, <1>4, <1>5, <1>7, <1>8, <1>9, <1>10 DEF f, b, size, k

(* Handing out one more buffer.                                            *)
LEMMA HandManaged ==
  ASSUME NEW p \in Pools, NEW l, Managed(p, l), NEW b \in Bufs, b \notin p.used,
         NEW size \in Nat, size % Unit(Kind(b)) = 0,
         StartOf(p, b) + size <= Limit[Kind(b)],
         Slot(b) = 2 => First(Kind(b)) \in p.used
  PROVE  Managed(Grabbed(p, b, size),
                 [c \in p.used \cup {b} |->
                    IF c \in p.used THEN l[c]
                    ELSE [from |-> StartOf(p, b), to |-> StartOf(p, b) + size]])
<1> DEFINE k == Kind(b)
           start == StartOf(p, b)
           m == [c \in p.used \cup {b} |->
                   IF c \in p.used THEN l[c] ELSE [from |-> start, to |-> start + size]]
           g == Grabbed(p, b, size)
<1>1. /\ k \in Kinds /\ Unit(k) \in {1, 4} /\ Limit[k] \in Nat
      /\ b = First(k) \/ b = Second(k)
      /\ b = First(k) => Slot(b) = 1
      /\ b = Second(k) => Slot(b) = 2
  BY BufKinds, BufFacts, UnitFacts
<1>2. p.offset \in [Kinds -> Nat] /\ p.used \subseteq Bufs BY DEF Pools
<1>3. /\ g.used = p.used \cup {b}
      /\ g.offset = IF b = First(k) THEN [p.offset EXCEPT ![k] = size \div Unit(k)]
                    ELSE p.offset
  BY <1>1 DEF Grabbed
<1>4. start = IF b = First(k) THEN 0 ELSE p.offset[k] * Unit(k)
  BY <1>1 DEF StartOf
<1>5. start \in Nat /\ p.offset[k] \in Nat BY <1>1, <1>2, <1>4
<1>6. (size \div Unit(k)) * Unit(k) = size
  <2>1. CASE Unit(k) = 1 BY <2>1
  <2>2. CASE Unit(k) = 4 BY <2>2
  <2> QED BY <1>1, <2>1, <2>2
<1>7. (start + size) % Unit(k) = 0
  <2>1. CASE Unit(k) = 1 BY <1>5, <2>1
  <2>2. CASE Unit(k) = 4
    <3>1. start % 4 = 0 BY <1>4, <1>5, <2>2
    <3> QED BY <1>5, <2>2, <3>1
  <2> QED BY <1>1, <2>1, <2>2
<1>8. /\ DOMAIN m = g.used /\ m = [c \in g.used |-> m[c]]
      /\ \A c \in p.used : m[c] = l[c]
      /\ m[b].from = start /\ m[b].to = start + size
  BY <1>3
<1> HIDE DEF m, g, start
<1>9. \A c \in g.used : Stretch(m[c], Kind(c))
  <2>1. Stretch(m[b], k) BY <1>5, <1>7, <1>8 DEF Stretch, start
  <2>2. \A c \in p.used : Stretch(m[c], Kind(c)) BY <1>8 DEF Managed
  <2> QED BY <1>3, <2>1, <2>2
<1>10. ASSUME NEW h \in Kinds, First(h) \in g.used
       PROVE  m[First(h)].to = g.offset[h] * Unit(h)
  <2>1. CASE b = First(h)
    <3>1. h = k BY <2>1, BufFacts
    <3>2. g.offset[h] = size \div Unit(k) BY <1>2, <1>3, <2>1, <3>1
    <3>3. m[b].to = size BY <1>4, <1>8, <2>1, <3>1
    <3> QED BY <1>6, <2>1, <3>1, <3>2, <3>3
  <2>2. CASE b # First(h)
    <3>1. First(h) \in p.used BY <1>3, <1>10, <2>2
    <3>2. b = First(k) => h # k BY <2>2
    <3>3. g.offset[h] = p.offset[h] BY <1>2, <1>3, <3>2
    <3> QED BY <1>8, <3>1, <3>3 DEF Managed
  <2> QED BY <2>1, <2>2
<1>11. ASSUME NEW h \in Kinds, Second(h) \in g.used
       PROVE  /\ First(h) \in g.used
              /\ m[Second(h)].from = g.offset[h] * Unit(h)
  <2>1. CASE b = Second(h)
    <3>1. h = k BY <2>1, BufFacts
    <3>2. b # First(k) BY <1>1, <2>1, <3>1, BufFacts
    <3>3. First(h) \in p.used BY <1>1, <2>1, <3>1
    <3>4. m[b].from = p.offset[k] * Unit(k) BY <1>4, <1>8, <3>2
    <3> QED BY <1>3, <2>1, <3>1, <3>2, <3>3, <3>4
  <2>2. CASE b # Second(h)
    <3>1. Second(h) \in p.used BY <1>3, <1>11, <2>2
    <3>2. /\ First(h) \in p.used /\ l[Second(h)].from = p.offset[h] * Unit(h)
      BY <3>1 DEF Managed
    <3>3. b # First(h) BY <3>2
    <3>4. b = First(k) => h # k BY <3>3
    <3>5. g.offset[h] = p.offset[h] BY <1>2, <1>3, <3>4
    <3> QED BY <1>3, <1>8, <3>1, <3>2, <3>5
  <2> QED BY <2>1, <2>2
<1>12. Managed(g, m) BY <1>8, <1>9, <1>10, <1>11 DEF Managed
<1> QED BY <1>12 DEF m, g, start

LEMMA TakeLent ==
  ASSUME IInv, IInv', LentInv, Record, NEW r \in Ranks, TakeBuffer(r)
  PROVE  Managed(pool'[r], lent'[r]) /\ AllGiven(stack'[r], lent'[r])
<1> DEFINE s == stack[r]
           f == Top(r)
           g == Instr(f)
           start == StartOf(pool[r], g.buf)
<1>1. /\ g.buf \in Bufs /\ g.buf \notin pool[r].used
      /\ g.size \in Nat /\ g.size % Unit(Kind(g.buf)) = 0
      /\ start + g.size <= Limit[Kind(g.buf)]
      /\ pool'[r] = Grabbed(pool[r], g.buf, g.size)
      /\ Slot(g.buf) = 2 => First(Kind(g.buf)) \in pool[r].used
      /\ pool[r] \in Pools
  BY TakeFacts
<1>2. pool'[r].used = pool[r].used \cup {g.buf} BY <1>1 DEF Grabbed
<1>3. lent'[r] = [c \in pool[r].used \cup {g.buf} |->
                    IF c \in pool[r].used THEN lent[r][c]
                    ELSE [from |-> start, to |-> start + g.size]]
  <2>1. \A c \in pool[r].used \cup {g.buf} :
          c \notin pool[r].used => Handed(r, c) = [from |-> start, to |-> start + g.size]
    BY DEF Handed
  <2> HIDE DEF g, start, f
  <2>2. lent'[r] = [c \in pool[r].used \cup {g.buf} |->
                      IF c \in pool[r].used THEN lent[r][c] ELSE Handed(r, c)]
    BY <1>2, RecordFacts
  <2> QED BY ONLY <2>1, <2>2
<1>4. Managed(pool[r], lent[r]) /\ AllGiven(s, lent[r]) BY DEF LentInv
<1>5. Managed(pool'[r], lent'[r])
  <2> HIDE DEF g
  <2> QED BY <1>1, <1>3, <1>4, HandManaged
<1>6. At(r, "grab") BY DEF TakeBuffer
<1>7. /\ s \in Seq(Frame) /\ s # <<>> /\ Len(s) \in 1..Len(s)
      /\ Clean(s, pool[r].used) /\ f = s[Len(s)] /\ GoodFrame(f) /\ ~AtEnd(f)
      /\ f.ip \in 1..Len(Script(f)) /\ g = Script(f)[f.ip] /\ g.op = "grab"
  BY <1>6, AtFacts
<1>8. stack'[r] = [s EXCEPT ![Len(s)] = Next1(f)]
  <2>1. stack \in [Ranks -> Seq(Frame)] BY DEF IInv, TypeOK
  <2>2. stack' = [stack EXCEPT ![r] = Stepped(s)] BY DEF TakeBuffer
  <2> QED BY <1>7, <2>1, <2>2, SteppedTop
<1> HIDE DEF s, f, g, start
<1>9. \A c \in pool[r].used : lent'[r][c] = lent[r][c] BY <1>3
<1>10. lent'[r][g.buf] = [from |-> start, to |-> start + g.size] BY <1>1, <1>3
<1>11. ASSUME NEW i \in 1..Len(s) PROVE Given(s[i], lent'[r])
  <2>1. Given(s[i], lent[r]) BY <1>4 DEF AllGiven
  <2>2. Held(s[i]) \subseteq pool[r].used BY <1>7, CleanHolds
  <2> QED BY <1>9, <2>1, <2>2, GivenElsewhere
<1>12. Given(Next1(f), lent'[r])
  <2>1. Given(f, lent'[r]) BY <1>7, <1>11
  <2>2. /\ Script(Next1(f)) = Script(f) /\ GoodFrame(Next1(f))
        /\ Held(Next1(f)) = HeldAfter(Script(f), f.ip)
    BY <1>7, SteppedFrame
  <2>3. f.ip \in Nat \ {0} /\ Next1(f).ip = f.ip + 1
    BY <1>7 DEF Next1, GoodFrame, Frame
  <2>4. Held(Next1(f)) = Held(f) \cup {g.buf}
    BY <1>1, <1>7, <2>2, <2>3, HeldAfterGrab DEF Held
  <2>5. \A j \in 1..(Next1(f).ip - 1) : j \in 1..(f.ip - 1) \/ j = f.ip BY <2>3
  <2>6. ASSUME NEW b \in Held(Next1(f)), NEW j \in 1..(f.ip - 1),
               Script(f)[j].op = "grab", Script(f)[j].buf = b
        PROVE  lent'[r][b].to = lent'[r][b].from + Script(f)[j].size
    <3>1. b # g.buf
      <4>1. j \in 1..Len(Script(f)) /\ j # f.ip
        <5>1. Len(Script(f)) \in Nat BY <1>7, ScriptDisciplined DEF Disciplined
        <5> QED BY <1>7, <2>3, <5>1
      <4> QED BY <1>7, <2>6, <4>1, ScriptDisciplined DEF Disciplined
    <3>2. b \in Held(f) BY <2>4, <3>1
    <3> QED BY <2>1, <2>6, <3>2 DEF Given
  <2>7. lent'[r][g.buf].to = lent'[r][g.buf].from + g.size BY <1>10
  <2> QED BY <1>7, <2>2, <2>5, <2>6, <2>7 DEF Given
<1>13. Next1(f) \in Frame BY <1>7, SteppedFrame DEF GoodFrame
<1>14. AllGiven([s EXCEPT ![Len(s)] = Next1(f)], lent'[r])
  BY <1>7, <1>11, <1>12, <1>13, GivenTop
<1> QED BY <1>5, <1>8, <1>14

(* What a process is about to give back. *)
LEMMA ReleaseFacts ==
  ASSUME IInv, NEW r \in Ranks, GiveBack(r)
  PROVE  LET k == Instr(Top(r)).kind
         IN  /\ k \in Kinds /\ First(k) \in pool[r].used
             /\ pool'[r] = Released(pool[r], k) /\ pool[r] \in Pools
             /\ pool'[r].used = {b \in pool[r].used : Kind(b) # k}
             /\ pool'[r].offset = pool[r].offset
<1> DEFINE f == Top(r)
           k == Instr(f).kind
<1>1. At(r, "release") BY DEF GiveBack
<1>2. /\ Clean(stack[r], pool[r].used) /\ Len(stack[r]) \in 1..Len(stack[r])
      /\ f = stack[r][Len(stack[r])]
      /\ GoodFrame(f) /\ f.ip \in 1..Len(Script(f))
      /\ Script(f)[f.ip] \in Instructions /\ Instr(f) = Script(f)[f.ip]
      /\ Instr(f).op = "release" /\ pool[r] \in Pools
  BY <1>1, AtFacts
<1>3. k \in Kinds BY <1>2 DEF Instructions
<1>4. First(k) \in Held(f) BY <1>2, ScriptDisciplined DEF Disciplined, Held
<1>5. Held(f) \subseteq pool[r].used BY <1>2, CleanHolds
<1>6. pool'[r] = Released(pool[r], k)
  <2>1. pool \in [Ranks -> Pools] BY DEF IInv, TypeOK
  <2> QED BY <2>1 DEF GiveBack
<1>7. pool[r] \in Pools BY <1>2
<1> HIDE DEF f, k
<1>8. /\ pool'[r].used = {b \in pool[r].used : Kind(b) # k}
      /\ pool'[r].offset = pool[r].offset
  BY <1>6, <1>7 DEF Released, Pools
<1> QED BY <1>3, <1>4, <1>5, <1>6, <1>7, <1>8 DEF f, k

LEMMA ReleaseLent ==
  ASSUME IInv, IInv', LentInv, Record, NEW r \in Ranks, GiveBack(r)
  PROVE  Managed(pool'[r], lent'[r]) /\ AllGiven(stack'[r], lent'[r])
<1> DEFINE s == stack[r]
           f == Top(r)
           k == Instr(f).kind
<1>1. /\ k \in Kinds
      /\ pool'[r].used = {b \in pool[r].used : Kind(b) # k}
      /\ pool'[r].offset = pool[r].offset
      /\ pool[r] \in Pools
  BY ReleaseFacts
<1>2. At(r, "release") BY DEF GiveBack
<1>3. /\ s \in Seq(Frame) /\ s # <<>> /\ Len(s) \in 1..Len(s)
      /\ Clean(s, pool[r].used) /\ f = s[Len(s)] /\ GoodFrame(f) /\ ~AtEnd(f)
      /\ f.ip \in 1..Len(Script(f)) /\ Instr(f) = Script(f)[f.ip]
      /\ Instr(f).op = "release"
  BY <1>2, AtFacts
<1>4. stack'[r] = [s EXCEPT ![Len(s)] = Next1(f)]
  <2>1. stack \in [Ranks -> Seq(Frame)] BY DEF IInv, TypeOK
  <2>2. stack' = [stack EXCEPT ![r] = Stepped(s)] BY DEF GiveBack
  <2> QED BY <1>3, <2>1, <2>2, SteppedTop
<1>5. Managed(pool[r], lent[r]) /\ AllGiven(s, lent[r]) BY DEF LentInv
<1>6. lent'[r] = [c \in pool'[r].used |->
                    IF c \in pool[r].used THEN lent[r][c] ELSE Handed(r, c)]
  BY RecordFacts
<1>7. Clean(stack'[r], pool'[r].used) BY DEF IInv
<1> HIDE DEF s, f, k
<1>8. \A c \in pool'[r].used : c \in pool[r].used /\ lent'[r][c] = lent[r][c]
  BY <1>1, <1>6
<1>9. Managed(pool'[r], lent'[r])
  <2>1. lent'[r] = [c \in pool'[r].used |-> lent'[r][c]] BY <1>6
  <2>2. \A c \in pool'[r].used : Stretch(lent'[r][c], Kind(c)) BY <1>5, <1>8 DEF Managed
  <2>3. \A h \in Kinds : /\ First(h) \in pool'[r].used <=> First(h) \in pool[r].used /\ h # k
                         /\ Second(h) \in pool'[r].used <=> Second(h) \in pool[r].used /\ h # k
    BY <1>1, BufFacts
  <2> QED BY <1>1, <1>5, <1>8, <2>1, <2>2, <2>3 DEF Managed
<1>10. ASSUME NEW i \in 1..Len(s), i # Len(s) PROVE Given(s[i], lent'[r])
  <2>1. Given(s[i], lent[r]) BY <1>5 DEF AllGiven
  <2>2. Held(s[i]) \subseteq pool'[r].used
    <3>1. Len(stack'[r]) = Len(s) /\ stack'[r][i] = s[i] BY <1>3, <1>4, <1>10
    <3> QED BY <1>7, <3>1, CleanHolds
  <2> QED BY <1>8, <2>1, <2>2, GivenElsewhere
<1>11. Given(Next1(f), lent'[r])
  <2>1. Given(f, lent[r]) BY <1>3, <1>5 DEF AllGiven
  <2>2. Held(Next1(f)) = HeldAfter(Script(f), f.ip) /\ f.ip \in Nat \ {0}
    BY <1>3, SteppedFrame DEF GoodFrame, Frame
  <2>3. Held(Next1(f)) \subseteq Held(f) BY <1>3, <2>2, HeldAfterRelease DEF Held
  <2>4. Held(Next1(f)) \subseteq pool'[r].used
    <3>1. /\ Len(stack'[r]) = Len(s) /\ stack'[r][Len(s)] = Next1(f)
      BY <1>3, <1>4
    <3> QED BY <1>3, <1>7, <3>1, CleanHolds
  <2> QED BY <1>3, <1>8, <2>1, <2>3, <2>4, GivenNext
<1>12. Next1(f) \in Frame BY <1>3, SteppedFrame DEF GoodFrame
<1>13. AllGiven([s EXCEPT ![Len(s)] = Next1(f)], lent'[r])
  BY <1>3, <1>10, <1>11, <1>12, GivenTop
<1> QED BY <1>4, <1>9, <1>13

LEMMA InitLent == LendingInit => LentInv
<1> SUFFICES ASSUME LendingInit PROVE LentInv
  OBVIOUS
<1> SUFFICES ASSUME NEW r \in Ranks
             PROVE  Managed(pool[r], lent[r]) /\ AllGiven(stack[r], lent[r])
  BY DEF LentInv
<1>1. pool[r] = EmptyPool /\ lent[r] = NothingLent /\ stack[r] = <<>>
  BY DEF LendingInit, Init
<1>2. Managed(EmptyPool, NothingLent) BY DEF Managed, EmptyPool, NothingLent
<1>3. \A l : AllGiven(<<>>, l) BY EmptySeq DEF AllGiven
<1> QED BY <1>1, <1>2, <1>3

LEMMA NextLent == IInv /\ IInv' /\ LentInv /\ [LendingNext]_lendingVars => LentInv'
<1> SUFFICES ASSUME IInv, IInv', LentInv, [LendingNext]_lendingVars PROVE LentInv'
  OBVIOUS
<1>1. CASE LendingNext
  <2> SUFFICES ASSUME NEW q \in Ranks
               PROVE  Managed(pool'[q], lent'[q]) /\ AllGiven(stack'[q], lent'[q])
    BY DEF LentInv
  <2>1. [Next]_vars /\ Record BY <1>1 DEF LendingNext
  <2>2. CASE pool'[q] = pool[q] /\ AllGiven(stack'[q], lent[q])
    <3>1. lent'[q] = lent[q] BY <2>1, <2>2, QuietLent
    <3> QED BY <2>2, <3>1 DEF LentInv
  <2>3. CASE TakeBuffer(q) BY <2>1, <2>3, TakeLent
  <2>4. CASE GiveBack(q) BY <2>1, <2>4, ReleaseLent
  <2> QED BY <2>1, <2>2, <2>3, <2>4, StepOf
<1>2. CASE UNCHANGED lendingVars BY <1>2 DEF lendingVars, LentInv
<1> QED BY <1>1, <1>2

(* Module Lending only observes. *)
LEMMA OnlyObserves == LendingSpec => Spec
<1>1. LendingInit => Init BY DEF LendingInit
<1>2. [LendingNext]_lendingVars => [Next]_vars
  BY DEF LendingNext, lendingVars, vars
<1> QED BY <1>1, <1>2, PTL DEF LendingSpec, Spec

LEMMA LentInductive == LendingSpec => [](IInv /\ LentInv)
<1>1. LendingSpec => []IInv BY OnlyObserves, Inductive, PTL
<1> QED BY <1>1, InitLent, NextLent, PTL DEF LendingSpec

(* The scratch bytes of a mock-up are allocated, as many as it has asked   *)
(* for, and its own, however many mock-ups run inside or outside it: the   *)
(* offsets that pgmpi_buf.c computes serve a mock-up whose first buffer    *)
(* is still the last first buffer taken.                                   *)
THEOREM BytesAreOwn == LendingSpec => []OwnBytes
<1>1. IInv /\ LentInv => OwnBytes
  <2> SUFFICES ASSUME IInv, LentInv, NEW r \in Ranks, NEW i \in 1..Len(stack[r]),
                      NEW b \in Held(stack[r][i])
               PROVE  /\ b \in DOMAIN lent[r]
                      /\ lent[r][b].to <= Unit(Kind(b)) * (Limit[Kind(b)] \div Unit(Kind(b)))
                      /\ \A k \in 1..(stack[r][i].ip - 1) :
                           LET g == Script(stack[r][i])[k]
                           IN  g.op = "grab" /\ g.buf = b
                                 => lent[r][b].to = lent[r][b].from + g.size
                      /\ \A j \in 1..Len(stack[r]) : \A c \in Held(stack[r][j]) :
                           <<i, b>> # <<j, c>> => NoCommonByte(r, b, c)
    BY DEF OwnBytes
  <2>1. /\ Clean(stack[r], pool[r].used) /\ Managed(pool[r], lent[r])
        /\ Given(stack[r][i], lent[r])
    BY DEF IInv, LentInv, AllGiven
  <2>2. b \in pool[r].used /\ b \in Bufs /\ Kind(b) \in Kinds
    <3>1. GoodFrame(stack[r][i]) /\ Held(stack[r][i]) \subseteq pool[r].used
      BY <2>1 DEF Clean
    <3> QED BY <3>1, SecondNeedsFirst, BufKinds
  <2>3. DOMAIN lent[r] = pool[r].used BY <2>1 DEF Managed
  <2>4. lent[r][b].to <= Unit(Kind(b)) * (Limit[Kind(b)] \div Unit(Kind(b)))
    <3> DEFINE x == lent[r][b].to
               k == Kind(b)
    <3>1. x \in Nat /\ x <= Limit[k] /\ x % Unit(k) = 0 BY <2>1, <2>2 DEF Managed, Stretch
    <3>2. Unit(k) \in {1, 4} /\ Limit[k] \in Nat BY <2>2, UnitFacts
    <3> HIDE DEF x, k
    <3>3. x <= Unit(k) * (Limit[k] \div Unit(k))
      <4>1. CASE Unit(k) = 1
        <5>1. 1 * (Limit[k] \div 1) = Limit[k] BY <3>2
        <5> QED BY <3>1, <4>1, <5>1
      <4>2. CASE Unit(k) = 4
        <5>1. \A y, z \in Nat : y <= z /\ y % 4 = 0 => y <= 4 * (z \div 4) OBVIOUS
        <5> QED BY <3>1, <3>2, <4>2, <5>1
      <4> QED BY <3>2, <4>1, <4>2
    <3> QED BY <3>3 DEF x, k
  <2>5. ASSUME NEW j \in 1..Len(stack[r]), NEW c \in Held(stack[r][j]), <<i, b>> # <<j, c>>
        PROVE  NoCommonByte(r, b, c)
    <3>1. CASE i # j
      <4>1. Kind(b) # Kind(c) BY <2>1, <3>1 DEF Clean, Apart
      <4> QED BY <4>1 DEF NoCommonByte
    <3>2. CASE i = j /\ Kind(b) = Kind(c)
      <4>1. c \in pool[r].used /\ c \in Bufs
        <5>1. GoodFrame(stack[r][j]) /\ Held(stack[r][j]) \subseteq pool[r].used
          BY <2>1 DEF Clean
        <5> QED BY <5>1, SecondNeedsFirst
      <4> DEFINE k == Kind(b)
      <4>2. \/ b = First(k) /\ c = Second(k)
            \/ b = Second(k) /\ c = First(k)
        <5>1. b # c BY <2>5, <3>2
        <5> QED BY <2>2, <3>2, <4>1, <5>1, BufFacts
      <4>3. /\ First(k) \in pool[r].used /\ Second(k) \in pool[r].used
        BY <2>2, <4>1, <4>2
      <4>4. lent[r][First(k)].to = lent[r][Second(k)].from
        BY <2>1, <2>2, <4>3 DEF Managed
      <4>5. lent[r][First(k)].to \in Nat BY <2>1, <4>3 DEF Managed, Stretch
      <4>6. lent[r][First(k)].to <= lent[r][Second(k)].from BY <4>4, <4>5
      <4> HIDE DEF k
      <4> QED BY <4>2, <4>6 DEF NoCommonByte
    <3>3. CASE Kind(b) # Kind(c) BY <3>3 DEF NoCommonByte
    <3> QED BY <3>1, <3>2, <3>3
  <2>6. \A k \in 1..(stack[r][i].ip - 1) :
          LET g == Script(stack[r][i])[k]
          IN  g.op = "grab" /\ g.buf = b => lent[r][b].to = lent[r][b].from + g.size
    BY <2>1 DEF Given
  <2> QED BY <2>2, <2>3, <2>4, <2>5, <2>6
<1> QED BY <1>1, LentInductive, PTL

LEMMA ManagerNext ==
  ASSUME NEW r \in Ranks, NEW k \in Kinds,
         Manager(r)!GrabFirst(k) \/ Manager(r)!GrabSecond(k) \/ Manager(r)!Release(k)
  PROVE  Manager(r)!Next
<1>1. k \in Manager(r)!Kinds BY DEF Manager!Kinds, Kinds
<1> QED BY <1>1, Zenon DEF Manager!Next

(* A grab is a grab of the buffer manager by a lawful user. *)
LEMMA TakeIsHand ==
  ASSUME IInv, LentInv, Record, NEW r \in Ranks, TakeBuffer(r)
  PROVE  Manager(r)!Next
<1>0. PICK b \in Bufs, size \in Nat, k \in Kinds :
        b = Instr(Top(r)).buf /\ size = Instr(Top(r)).size /\ k = Kind(b)
  BY TakeFacts
<1> DEFINE start == StartOf(pool[r], b)
<1>1. /\ b \in Bufs /\ k \in Kinds /\ b \notin pool[r].used
      /\ size \in Nat /\ size % Unit(k) = 0
      /\ start + size <= Limit[k]
      /\ pool'[r] = Grabbed(pool[r], b, size)
      /\ Slot(b) = 2 => First(k) \in pool[r].used
      /\ pool[r] \in Pools
  BY <1>0, TakeFacts
<1>2. DOMAIN lent[r] = pool[r].used BY DEF LentInv, Managed
<1>3. \A c : Handed(r, c) = [from |-> StartOf(pool[r], c), to |-> StartOf(pool[r], c) + size]
  BY <1>0 DEF Handed
<1>4. start \in Nat
  <2>1. pool[r].offset[k] \in Nat /\ Unit(k) \in Nat BY <1>1, UnitFacts DEF Pools
  <2> QED BY <1>0, <2>1 DEF StartOf
<1>5. size \in Manager(r)!Requests(k)
  <2>1. Limit["msg"] \in Nat /\ Limit["int"] \in Nat /\ (k = "msg" \/ k = "int")
    BY <1>1, SizesAssumption DEF Limits, Kinds
  <2>2. size <= Limit["msg"] + Limit["int"] BY <1>1, <1>4, <2>1
  <2>3. k = "int" => size % SizeofInt = 0 BY <1>1 DEF Unit
  <2> QED BY <1>1, <2>1, <2>2, <2>3 DEF Manager!Requests, Manager!SizeofInt, SizeofInt
<1>6. Manager(r)!Hand(b, size)
  <2>1. pool'[r].used = pool[r].used \cup {b} BY <1>1 DEF Grabbed
  <2>2. lent'[r] = [c \in pool[r].used \cup {b} |->
                      IF c \in pool[r].used THEN lent[r][c] ELSE Handed(r, c)]
    BY <2>1, RecordFacts
  <2>3. lent'[r] = [c \in DOMAIN lent[r] \cup {b} |->
                      IF c = b THEN [from |-> start, to |-> start + size] ELSE lent[r][c]]
    BY <1>1, <1>2, <1>3, <2>2
  <2>4. Manager(r)!Fits(pool[r], Limit, b, size)
    BY <1>0, <1>1 DEF Manager!Fits, Manager!StartOf, Manager!Slot, Manager!Kind, Manager!Unit,
                Manager!SizeofInt, StartOf, Slot, Kind, Unit, SizeofInt
  <2>5. pool'[r] = Manager(r)!Grabbed(pool[r], b, size)
    BY <1>1 DEF Manager!Grabbed, Manager!Slot, Manager!Kind, Manager!Unit,
                Manager!SizeofInt, Grabbed, Slot, Kind, Unit, SizeofInt
  <2>6. Manager(r)!StartOf(pool[r], b) = start
    BY DEF Manager!StartOf, Manager!Slot, Manager!Kind, Manager!Unit, Manager!SizeofInt,
           StartOf, Slot, Kind, Unit, SizeofInt
  <2> QED BY <2>3, <2>4, <2>5, <2>6 DEF Manager!Hand
<1>7. CASE Slot(b) = 1
  <2> b = First(k) BY <1>0, <1>7, BufFacts
  <2>1. b = Manager(r)!First(k) BY DEF Manager!First, First
  <2>2. Manager(r)!GrabFirst(k) BY <1>5, <1>6, <2>1 DEF Manager!GrabFirst
  <2> QED BY <2>2, ManagerNext
<1>8. CASE Slot(b) = 2
  <2> b = Second(k) BY <1>0, <1>8, BufFacts
  <2>1. b = Manager(r)!Second(k) BY DEF Manager!Second, Second
  <2>2. Manager(r)!First(k) \in DOMAIN lent[r]
    BY <1>1, <1>2, <1>8 DEF Manager!First, First
  <2>3. Manager(r)!GrabSecond(k) BY <1>5, <1>6, <2>1, <2>2 DEF Manager!GrabSecond
  <2> QED BY <2>3, ManagerNext
<1> QED BY <1>1, <1>7, <1>8, BufKinds

LEMMA GiveBackIsRelease ==
  ASSUME IInv, LentInv, Record, NEW r \in Ranks, GiveBack(r)
  PROVE  Manager(r)!Next
<1>0. PICK k \in Kinds : k = Instr(Top(r)).kind BY ReleaseFacts
<1>1. /\ k \in Kinds /\ First(k) \in pool[r].used
      /\ pool'[r] = Released(pool[r], k)
      /\ pool'[r].used = {b \in pool[r].used : Kind(b) # k}
  BY <1>0, ReleaseFacts
<1>2. DOMAIN lent[r] = pool[r].used BY DEF LentInv, Managed
<1>3. lent'[r] = [b \in {c \in DOMAIN lent[r] : Kind(c) # k} |-> lent[r][b]]
  <2>1. lent'[r] = [b \in pool'[r].used |->
                      IF b \in pool[r].used THEN lent[r][b] ELSE Handed(r, b)]
    BY RecordFacts
  <2> QED BY <1>1, <1>2, <2>1
<1>4. Manager(r)!First(k) \in DOMAIN lent[r] BY <1>1, <1>2 DEF Manager!First, First
<1>5. pool'[r] = Manager(r)!Released(pool[r], k)
  BY <1>1 DEF Manager!Released, Manager!Kind, Released, Kind
<1>6. lent'[r] = [b \in {c \in DOMAIN lent[r] : Manager(r)!Kind(c) # k} |-> lent[r][b]]
  BY <1>3 DEF Manager!Kind, Kind
<1>7. Manager(r)!Release(k) BY <1>4, <1>5, <1>6 DEF Manager!Release
<1> QED BY <1>1, <1>7, ManagerNext

(* Interception implements BufManager, as far as its pools and what they   *)
(* lend are concerned: whatever mock-ups run, inside one another or after  *)
(* one another, and give up half way, their grabs and releases are those   *)
(* that BufManager allows its users.                                       *)
THEOREM UseIsLawful == LendingSpec => LawfulUse
<1>1. LendingInit => \A r \in Ranks : pool[r] = EmptyPool /\ lent[r] = NothingLent
  BY DEF LendingInit, Init
<1>2. IInv /\ IInv' /\ LentInv /\ [LendingNext]_lendingVars
        => [\A r \in Ranks : Manager(r)!Next \/ UNCHANGED <<pool[r], lent[r]>>]_<<pool, lent>>
  <2> SUFFICES ASSUME IInv, IInv', LentInv, LendingNext, NEW r \in Ranks
               PROVE  Manager(r)!Next \/ UNCHANGED <<pool[r], lent[r]>>
    BY DEF lendingVars
  <2>1. [Next]_vars /\ Record BY DEF LendingNext
  <2>2. CASE pool'[r] = pool[r]
    <3>1. lent'[r] = lent[r] BY <2>1, <2>2, QuietLent
    <3> QED BY <2>2, <3>1
  <2>3. CASE TakeBuffer(r) BY <2>1, <2>3, TakeIsHand
  <2>4. CASE GiveBack(r) BY <2>1, <2>4, GiveBackIsRelease
  <2> QED BY <2>1, <2>2, <2>3, <2>4, StepOf
<1> QED BY <1>1, <1>2, LentInductive, PTL DEF LendingSpec, LawfulUse
================================================================================
