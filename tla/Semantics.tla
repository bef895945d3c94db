------------------------------ MODULE Semantics ------------------------------
(***************************************************************************)
(* What the mock-ups (src/src/collectives/*_impl.c) do to the contents of  *)
(* buffers.  Mockups says which calls a mock-up makes and which buffers it *)
(* takes; this module says which elements it copies, sends and reduces,    *)
(* from where and to where, and compares the outcome with the definition   *)
(* of the collective operation it stands for.                              *)
(*                                                                         *)
(* An element is a word over the values that processes put in: what a      *)
(* process passes is a word of one value, a reduction concatenates, memset *)
(* writes the empty word.  A reduction of words is associative and not     *)
(* commutative, the least that MPI asks of an operation, and MPI_BOR of    *)
(* zeros and a value is the value.                                         *)
(*                                                                         *)
(* Processes advance in step.  They share no memory, and one that is in a  *)
(* collective leaves its buffers alone until the others have read them, so *)
(* every order of their steps moves the same values.                       *)
(***************************************************************************)
EXTENDS Integers, SequencesExt

CONSTANT Calls  \* the calls an application makes

VARIABLES call,  \* the call the processes are in
          mem,   \* the buffers of every process
          step   \* how many steps of the mock-up they have made

vars == << call, mem, step >>

Scripts == INSTANCE Mockups

(* alg is the alg id in the wrapper of coll, p the size of the             *)
(* communicator, n the count, commutes whether op is commutative.          *)
Arguments == [coll : Scripts!Collectives, alg : Nat \ {0}, p : Nat \ {0}, n : Nat,
              root : Nat, commutes : BOOLEAN]

ASSUME CallsAssumption ==
  \A c \in Calls : c \in Arguments /\ c.root < c.p /\ c.alg \in Scripts!AlgIds(c.coll)

Procs == 0 .. call.p - 1
N     == call.n
Root  == call.root

-------------------------------------------------------------------------------
(* Places and moves.                                                       *)

Buffers == {"send", "recv", "msg1", "msg2"}

(* An argument that points to memory: per process, a buffer and an offset. *)
Pointer(buf) == [r \in Procs |-> [rank |-> r, buf |-> buf, at |-> 0]]
Plus(ptr, off) == [ptr EXCEPT !.at = @ + off]
Shifted(ptr, off(_)) == [r \in Procs |-> Plus(ptr[r], off(r))]

sendbuf  == Pointer("send")
recvbuf  == Pointer("recv")
aux_buf1 == Pointer("msg1")
aux_buf2 == Pointer("msg2")

(* The n elements at "to" become the reduction of those at the places      *)
(* "of", in that order: a copy if there is one, zeros if there is none.    *)
Move(of, to, n) == [of |-> of, to |-> to, n |-> n]
Step(name, moves) == [name |-> name, moves |-> {m \in moves : m.n > 0}]

InOrder(ptr, n) == [i \in 1..n |-> ptr[i - 1]]
Before(counts, i) ==
  LET sum[j \in 0 .. call.p] == IF j = 0 THEN 0 ELSE sum[j - 1] + counts[j - 1]
  IN  sum[i]

-------------------------------------------------------------------------------
(* Local work, on the processes who.                                       *)

memcpy(who, to, from, n) ==
  Step("local", {Move(<< from[r] >>, to[r], n) : r \in who})

memset0(to, n) == Step("local", {Move(<< >>, to[r], n) : r \in Procs})

Reduce_local(who, in, inout, n) ==
  Step("local", {Move(<< in[r], inout[r] >>, inout[r], n) : r \in who})

-------------------------------------------------------------------------------
(* The MPI functions, as the standard defines them.                        *)

Blocks(n)  == [r \in Procs |-> n]
Strided(n) == [r \in Procs |-> r * n]

GathervMoves(in, out, counts, displs, root) ==
  {Move(<< in[q] >>, Plus(out[root], displs[q]), counts[q]) : q \in Procs}

ScattervMoves(in, out, counts, displs, root) ==
  {Move(<< Plus(in[root], displs[q]) >>, out[q], counts[q]) : q \in Procs}

ReduceMoves(in, out, n, root) ==
  {Move(InOrder(in, call.p), out[root], n)}

Gatherv(in, out, counts, displs, root) ==
  Step("Gatherv", GathervMoves(in, out, counts, displs, root))
Gather(in, out, n, root) ==
  Step("Gather", GathervMoves(in, out, Blocks(n), Strided(n), root))

Allgatherv(in, out, counts, displs) ==
  Step("Allgatherv", UNION {GathervMoves(in, out, counts, displs, r) : r \in Procs})
Allgather(in, out, n) ==
  Step("Allgather", UNION {GathervMoves(in, out, Blocks(n), Strided(n), r) : r \in Procs})

(* With MPI_IN_PLACE a process contributes its own part of out.            *)
AllgathervInPlace(out, counts, displs) ==
  Allgatherv(Shifted(out, LAMBDA r : displs[r]), out, counts, displs)

Scatterv(in, out, counts, displs, root) ==
  Step("Scatterv", ScattervMoves(in, out, counts, displs, root))
Scatter(in, out, n, root) ==
  Step("Scatter", ScattervMoves(in, out, Blocks(n), Strided(n), root))

Bcast(buf, n, root) ==
  Step("Bcast", {Move(<< buf[root] >>, buf[r], n) : r \in Procs \ {root}})

AlltoallvMoves(in, out, scounts, sdispls, rdispls) ==
  UNION {{Move(<< Plus(in[q], sdispls[r]) >>, Plus(out[r], rdispls[q]), scounts[r])
            : r \in Procs} : q \in Procs}
Alltoallv(in, out, scounts, sdispls, rdispls) ==
  Step("Alltoallv", AlltoallvMoves(in, out, scounts, sdispls, rdispls))
Alltoall(in, out, n) ==
  Step("Alltoall", AlltoallvMoves(in, out, Blocks(n), Strided(n), Strided(n)))

Reduce(in, out, n, root) == Step("Reduce", ReduceMoves(in, out, n, root))
Allreduce(in, out, n) ==
  Step("Allreduce", UNION {ReduceMoves(in, out, n, r) : r \in Procs})

ReduceScatterMoves(in, out, counts) ==
  UNION {ReduceMoves(Shifted(in, LAMBDA q : Before(counts, r)), out, counts[r], r)
           : r \in Procs}
Reduce_scatter(in, out, counts) ==
  Step("Reduce_scatter", ReduceScatterMoves(in, out, counts))
Reduce_scatter_block(in, out, n) ==
  Step("Reduce_scatter_block", ReduceScatterMoves(in, out, Blocks(n)))

(* The first process receives nothing.                                     *)
Exscan(in, out, n) ==
  Step("Exscan", {Move(InOrder(in, r), out[r], n) : r \in Procs \ {0}})

-------------------------------------------------------------------------------
(* The mock-ups.                                                           *)

mockup_root_rank == 0

Padded == Scripts!Padded(N, call.p)
Chunk  == Padded \div call.p

(* Round-robin chunks, and where each process's part begins.               *)
recvcounts == [r \in Procs |-> Scripts!RecvCount(N, call.p, r)]
displs     == [r \in Procs |-> Before(recvcounts, r)]

(* The send buffer at the beginning of a padded buffer.                    *)
CopyIn(who, from) == memcpy(who, aux_buf1, from, N)

(* A slip they could have: no padding.                                     *)
LeavePadding == Step("local", {})

(* The padding: the first element of the send buffer, over and over.       *)
FillPadding ==
  Step("local", {Move(<< sendbuf[r] >>, Plus(aux_buf1[r], i), 1)
                   : r \in Procs, i \in N .. Padded - 1})

Allgather_as_Allgatherv ==
  << Allgatherv(sendbuf, recvbuf, Blocks(N), Strided(N)) >>

(* A slip they could have: every rank fills the first block.               *)
FirstBlock ==
  << memset0(aux_buf1, call.p * N), memcpy(Procs, aux_buf1, sendbuf, N) >>

(* The block of this rank in a buffer that is zero elsewhere.              *)
OwnBlock ==
  << memset0(aux_buf1, call.p * N),
     memcpy(Procs, Shifted(aux_buf1, LAMBDA r : r * N), sendbuf, N) >>

Allgather_as_Allreduce == OwnBlock \o << Allreduce(aux_buf1, recvbuf, call.p * N) >>

Allgather_as_Alltoall ==
  [i \in 1 .. call.p |->
     memcpy(Procs, Shifted(aux_buf1, LAMBDA r : (i - 1) * N), sendbuf, N)]
  \o << Alltoall(aux_buf1, recvbuf, N) >>

(* A slip it could have: the result stays on the root.                     *)
Allgather_as_Gather == << Gather(sendbuf, recvbuf, N, mockup_root_rank) >>

Allgather_as_GatherBcast ==
  << Gather(sendbuf, recvbuf, N, mockup_root_rank),
     Bcast(recvbuf, N * call.p, mockup_root_rank) >>

Allreduce_as_Reduce_Bcast ==
  << Reduce(sendbuf, recvbuf, N, mockup_root_rank), Bcast(recvbuf, N, mockup_root_rank) >>

Allreduce_as_Reduce_scatter_block_Allgather ==
  << CopyIn(Procs, sendbuf), FillPadding,
     Reduce_scatter_block(aux_buf1, aux_buf2, Chunk),
     Allgather(aux_buf2, aux_buf1, Chunk),
     memcpy(Procs, recvbuf, aux_buf1, N) >>

Allreduce_as_Reduce_scatter_Allgatherv ==
  << Reduce_scatter(sendbuf,
       Shifted(recvbuf, LAMBDA r : IF recvcounts[r] > 0 THEN displs[r] ELSE 0),
       recvcounts),
     AllgathervInPlace(recvbuf, recvcounts, displs) >>

Alltoall_as_Alltoallv ==
  << Alltoallv(sendbuf, recvbuf, Blocks(N), Strided(N), Strided(N)) >>

(* The buffer of a broadcast is recvbuf.                                   *)
Bcast_as_Allgatherv ==
  << AllgathervInPlace(recvbuf,
       [r \in Procs |-> IF r = Root THEN N ELSE 0],
       [r \in Procs |-> IF r > Root THEN N ELSE 0]) >>

Bcast_as_Scatter_Allgather ==
  << CopyIn({Root}, recvbuf),
     Scatter(aux_buf1, aux_buf2, Chunk, Root),
     Allgather(aux_buf2, aux_buf1, Chunk),
     memcpy(Procs \ {Root}, recvbuf, aux_buf1, N) >>

(* A slip they could have: everybody receives into its receive buffer.     *)
RecvEverywhere == recvbuf

(* The receive buffer is only there on the root; others have a scratch one.*)
RecvAtRoot == [r \in Procs |-> IF r = Root THEN recvbuf[r] ELSE aux_buf1[r]]

Gather_as_Allgather == << Allgather(sendbuf, RecvAtRoot, N) >>

Gather_as_Gatherv == << Gatherv(sendbuf, recvbuf, Blocks(N), Strided(N), Root) >>

Gather_as_Reduce == OwnBlock \o << Reduce(aux_buf1, recvbuf, call.p * N, Root) >>

Reduce_as_Allreduce == << Allreduce(sendbuf, RecvAtRoot, N) >>

Reduce_as_Reduce_scatter_block_Gather ==
  << CopyIn(Procs, sendbuf), FillPadding,
     Reduce_scatter_block(aux_buf1, aux_buf2, Chunk),
     Gather(aux_buf2, aux_buf1, Chunk, Root),
     memcpy({Root}, recvbuf, aux_buf1, N) >>

Reduce_as_Reduce_scatter_Gatherv ==
  << Reduce_scatter(sendbuf, aux_buf1, recvcounts),
     Gatherv(aux_buf1, recvbuf, recvcounts, displs, Root) >>

Reduce_as_Reduce_scatter ==
  << Reduce_scatter(sendbuf, recvbuf, [r \in Procs |-> IF r = Root THEN N ELSE 0]) >>

Reduce_scatter_block_as_Reduce_Scatter ==
  << Reduce(sendbuf, aux_buf1, call.p * N, mockup_root_rank),
     Scatter(aux_buf1, recvbuf, N, mockup_root_rank) >>

Reduce_scatter_block_as_Reduce_scatter ==
  << Reduce_scatter(sendbuf, recvbuf, Blocks(N)) >>

Reduce_scatter_block_as_Allreduce ==
  << Allreduce(sendbuf, aux_buf1, call.p * N),
     memcpy(Procs, recvbuf, Shifted(aux_buf1, LAMBDA r : r * N), N) >>

(* The partial result of the processes before this one is the second       *)
(* operand of the local reduction.                                         *)
Scan_as_Exscan_Reduce_local ==
  << Exscan(sendbuf, recvbuf, N),
     memcpy({0}, recvbuf, sendbuf, N),
     Reduce_local(Procs \ {0}, sendbuf, recvbuf, N) >>

(* The send buffer of a scatter is only there on the root.                 *)
Scatter_as_Bcast ==
  LET bcast_buf == [r \in Procs |-> IF r = Root THEN sendbuf[r] ELSE aux_buf1[r]]
  IN  << Bcast(bcast_buf, call.p * N, Root),
         memcpy(Procs, recvbuf, Shifted(bcast_buf, LAMBDA r : r * N), N) >>

Scatter_as_Scatterv ==
  << Scatterv(sendbuf, recvbuf, Blocks(N), Strided(N), Root) >>

(* The steps of the mock-up that the wrapper of the collective selects.    *)
Steps ==
  CASE call.coll = "Allgather" ->
         << Allgather_as_Allgatherv, Allgather_as_Allreduce,
            Allgather_as_Alltoall, Allgather_as_GatherBcast >>[call.alg]
    [] call.coll = "Allreduce" ->
         << Allreduce_as_Reduce_Bcast, Allreduce_as_Reduce_scatter_block_Allgather,
            Allreduce_as_Reduce_scatter_Allgatherv >>[call.alg]
    [] call.coll = "Alltoall" -> << Alltoall_as_Alltoallv >>[call.alg]
    [] call.coll = "Bcast" ->
         << Bcast_as_Allgatherv, Bcast_as_Scatter_Allgather >>[call.alg]
    [] call.coll = "Gather" ->
         << Gather_as_Allgather, Gather_as_Gatherv, Gather_as_Reduce >>[call.alg]
    [] call.coll = "Reduce" ->
         << Reduce_as_Allreduce, Reduce_as_Reduce_scatter_block_Gather,
            Reduce_as_Reduce_scatter_Gatherv, Reduce_as_Reduce_scatter >>[call.alg]
    [] call.coll = "Reduce_scatter_block" ->
         << Reduce_scatter_block_as_Reduce_Scatter,
            Reduce_scatter_block_as_Reduce_scatter,
            Reduce_scatter_block_as_Allreduce >>[call.alg]
    [] call.coll = "Scan" -> << Scan_as_Exscan_Reduce_local >>[call.alg]
    [] call.coll = "Scatter" ->
         << Scatter_as_Bcast, Scatter_as_Scatterv >>[call.alg]

-------------------------------------------------------------------------------
(* Buffers and what happens to them.                                       *)

Value(r, k) == << r, k >>
Garbage     == << Value(-1, 0) >>

(* The elements of the user's buffers, on process r.                       *)
Rooted(r) == r = Root
SendLen(r) ==
  CASE call.coll \in {"Allgather", "Allreduce", "Gather", "Reduce", "Scan"} -> N
    [] call.coll \in {"Alltoall", "Reduce_scatter_block"} -> call.p * N
    [] call.coll = "Scatter" -> IF Rooted(r) THEN call.p * N ELSE 0
    [] call.coll = "Bcast" -> 0
RecvLen(r) ==
  CASE call.coll \in {"Allgather", "Alltoall"} -> call.p * N
    [] call.coll \in {"Allreduce", "Bcast", "Reduce_scatter_block", "Scan", "Scatter"} -> N
    [] call.coll = "Gather" -> IF Rooted(r) THEN call.p * N ELSE 0
    [] call.coll = "Reduce" -> IF Rooted(r) THEN N ELSE 0

(* The mock-up as Mockups describes it.                                    *)
Script == Scripts!Mockups(call.coll, N, 1, call.p)[call.alg]

(* The elements that a mock-up's request makes room for, none if it does   *)
(* not request that buffer.                                                *)
MsgLen(slot) ==
  LET grabs == {i \in DOMAIN Script :
                  Script[i].op = "grab" /\ Script[i].buf = << "msg", slot >>}
  IN  IF grabs = {} THEN 0 ELSE Script[CHOOSE i \in grabs : TRUE].size

Inputs(r, n)  == [k \in 1..n |-> << Value(r, k) >>]
Unwritten(n)  == [k \in 1..n |-> Garbage]

Initial(r) ==
  [send |-> Inputs(r, SendLen(r)),
   recv |-> IF call.coll = "Bcast" /\ Rooted(r) THEN Inputs(r, N)
            ELSE Unwritten(RecvLen(r)),
   msg1 |-> Unwritten(MsgLen(1)),
   msg2 |-> Unwritten(MsgLen(2))]

(* The element k places after a place; anything may be past the end.       *)
Read(m, place, k) ==
  LET b == m[place.rank][place.buf]
  IN  IF place.at + k \in DOMAIN b THEN b[place.at + k] ELSE Garbage

Reduction(m, of, k) == FlattenSeq([i \in DOMAIN of |-> Read(m, of[i], k)])

Done(m, moves) ==
  [r \in Procs |-> [b \in Buffers |->
     LET here == {v \in moves : v.to.rank = r /\ v.to.buf = b}
         on(k) == {v \in here : k - v.to.at \in 1 .. v.n}
     IN  IF here = {} THEN m[r][b]
         ELSE [k \in DOMAIN m[r][b] |->
                 IF on(k) = {} THEN m[r][b][k]
                 ELSE LET v == CHOOSE v \in on(k) : TRUE
                      IN  Reduction(m, v.of, k - v.to.at)]]]

-------------------------------------------------------------------------------
Init == /\ call \in Calls
        /\ step = 0
        /\ mem = [r \in Procs |-> Initial(r)]

Proceed == /\ step < Len(Steps)
           /\ mem' = Done(mem, Steps[step + 1].moves)
           /\ step' = step + 1
           /\ UNCHANGED call

Next == Proceed
Spec == Init /\ [][Next]_vars

-------------------------------------------------------------------------------
(* The two descriptions of a mock-up make the same calls in the same order:*)
(* each step that is no local work is a call of the script in Mockups.     *)
Called      == {i \in DOMAIN Script : Script[i].op \in {"call", "mpi"}}
Function(i) == IF Script[i].op = "call" THEN Script[i].coll ELSE Script[i].name
Collective  == {i \in DOMAIN Steps : Steps[i].name # "local"}

SameCalls ==
  \E at \in [Called -> Collective] :
    /\ \A i \in Called : Steps[at[i]].name = Function(i)
    /\ \A i, j \in Called : i < j => at[i] < at[j]
    /\ \A k \in Collective : \E i \in Called : at[i] = k

(* Type invariant, and that the descriptions fit together.                 *)
TypeOK == /\ call \in Calls
          /\ step \in 0 .. Len(Steps)
          /\ mem \in [Procs -> [Buffers -> Seq(Seq(Int \X Int))]]
          /\ SameCalls

(* What the collective operation leaves in the receive buffer of process r.*)
Everyone(n, k) == [i \in 1..n |-> Value(i - 1, k)]
Expected(r) ==
  LET block(k) == (k - 1) \div N
      elem(k)  == ((k - 1) % N) + 1
  IN  [k \in 1 .. RecvLen(r) |->
         CASE call.coll \in {"Allgather", "Gather"} -> << Value(block(k), elem(k)) >>
           [] call.coll \in {"Allreduce", "Reduce"} -> Everyone(call.p, k)
           [] call.coll = "Alltoall" -> << Value(block(k), r * N + elem(k)) >>
           [] call.coll = "Bcast" -> << Value(Root, k) >>
           [] call.coll = "Reduce_scatter_block" -> Everyone(call.p, r * N + k)
           [] call.coll = "Scan" -> Everyone(r + 1, k)
           [] call.coll = "Scatter" -> << Value(Root, r * N + k) >>]

(* A commutative operation gives the same for its operands in any order.   *)
SameValue(v, w) ==
  IF call.commutes THEN Len(v) = Len(w) /\ Range(v) = Range(w) ELSE v = w

(* A mock-up leaves in the receive buffer of every process what the MPI    *)
(* function it replaces would, whatever the number of processes, the count *)
(* and the root, and its send buffer as it was.                            *)
Equivalent ==
  step = Len(Steps) =>
    \A r \in Procs :
      /\ mem[r].send = Inputs(r, SendLen(r))
      /\ Len(mem[r].recv) = RecvLen(r)
      /\ \A k \in 1 .. RecvLen(r) : SameValue(mem[r].recv[k], Expected(r)[k])

(* No mock-up reads or writes past the end of a buffer: neither of one the *)
(* user passes, which is not there on every process, nor of what it asked  *)
(* the buffer manager for.                                                 *)
InBounds ==
  step < Len(Steps) =>
    \A v \in Steps[step + 1].moves :
      \A place \in {v.to} \cup Range(v.of) :
        place.at + v.n <= Len(mem[place.rank][place.buf])

(* Only values of the user are reduced, the padding included: an operation *)
(* of the user's never sees a value that nobody passed.                    *)
UserDataOnly ==
  step < Len(Steps) =>
    \A v \in Steps[step + 1].moves :
      Len(v.of) > 1 =>
        \A place \in Range(v.of), k \in 1 .. v.n :
          Value(-1, 0) \notin Range(Read(mem, place, k))
================================================================================
