------------------------------- MODULE Mockups -------------------------------
(***************************************************************************)
(* The mock-ups (src/src/collectives/*_impl.c) as scripts, and the switch  *)
(* of each wrapper (src/src/collectives/<collective>.c).                   *)
(*                                                                         *)
(* A mock-up of a collective on n elements of e > 0 bytes each (several    *)
(* divide by the extent of the data type), over p processes, is the        *)
(* sequence of what it does that others can observe:                       *)
(*   Grab     take a scratch buffer; on failure the mock-up returns        *)
(*            MPI_ERR_NO_MEM at once;                                      *)
(*   Call     call an MPI function that the library also intercepts;       *)
(*   Mpi      call an MPI function that it does not intercept;             *)
(*   Release  give the buffers of an area back.                            *)
(* Copies between buffers and local reductions are left out here.          *)
(***************************************************************************)
EXTENDS BufferPool, Integers, Sequences

(* One per collective the library intercepts; CID_MPI_* in the code.       *)
Collectives == {"Allgather", "Allreduce", "Alltoall", "Bcast", "Gather",
                "Reduce", "Reduce_scatter_block", "Scan", "Scatter"}

(* The MPI functions that only mock-ups call and nobody intercepts.        *)
Helpers == {"Allgatherv", "Alltoallv", "Exscan", "Gatherv",
            "Reduce_scatter", "Scatterv"}

Grab(b, size)    == [op |-> "grab", buf |-> b, size |-> size]
Call(coll, n, e) == [op |-> "call", coll |-> coll, n |-> n, e |-> e]
Mpi(name, bytes) == [op |-> "mpi", name |-> name, bytes |-> bytes]
Release(k)       == [op |-> "release", kind |-> k]

Instructions ==
  [op : {"grab"}, buf : Bufs, size : Nat]
    \cup [op : {"call"}, coll : Collectives, n : Nat, e : Nat \ {0}]
    \cup [op : {"mpi"}, name : Collectives \cup Helpers, bytes : Nat]
    \cup [op : {"release"}, kind : Kinds]

(* The buffers that a script has taken, and not given back, after its      *)
(* first n instructions.                                                   *)
HeldAfter(s, n) ==
  {b \in Bufs :
     \E i \in 1..n :
       /\ s[i].op = "grab" /\ s[i].buf = b
       /\ \A j \in i..n : s[j].op = "release" => s[j].kind # Kind(b)}

-------------------------------------------------------------------------------
(* Sizes.                                                                  *)

(* n rounded up to a multiple of the number of processes.                  *)
Padded(n, p) == IF n % p = 0 THEN n ELSE n + (p - (n % p))

MIN_SCATTER_CHUNK_SIZE == 4

(* recvcounts[i]: elements of a vector of n that process i reduces, whole  *)
(* chunks dealt out round robin and the remainder to the next in turn.     *)
RecvCount(n, p, i) ==
  LET nchunks == n \div MIN_SCATTER_CHUNK_SIZE
  IN  MIN_SCATTER_CHUNK_SIZE * (nchunks \div p)
        + IF i < nchunks % p THEN MIN_SCATTER_CHUNK_SIZE
          ELSE IF i = nchunks % p THEN n % MIN_SCATTER_CHUNK_SIZE
          ELSE 0

GrabMsg(size)  == Grab(First("msg"), size)
GrabMsg2(size) == Grab(Second("msg"), size)
GrabInt(p)     == Grab(First("int"), p * SizeofInt)
GrabInt2(p)    == Grab(Second("int"), p * SizeofInt)

-------------------------------------------------------------------------------
(* The mock-ups.                                                           *)

Allgather_as_Allgatherv(n, e, p) ==
  << GrabInt(p), GrabInt2(p), Mpi("Allgatherv", n * e), Release("int") >>

Allgather_as_Allreduce(n, e, p) ==
  << GrabMsg(p * (n * e)), Call("Allreduce", p * (n * e), 1), Release("msg") >>

Allgather_as_Alltoall(n, e, p) ==
  << GrabMsg(p * (n * e)), Call("Alltoall", n, e), Release("msg") >>

Allgather_as_GatherBcast(n, e, p) ==
  << Call("Gather", n, e), Call("Bcast", n * p, e) >>

Allreduce_as_Reduce_Bcast(n, e, p) ==
  << Call("Reduce", n, e), Call("Bcast", n, e) >>

Allreduce_as_Reduce_scatter_block_Allgather(n, e, p) ==
  LET k == Padded(n, p) \div p
  IN  << GrabMsg(Padded(n, p) * e), GrabMsg2(k * e),
         Call("Reduce_scatter_block", k, e), Call("Allgather", k, e),
         Release("msg") >>

Allreduce_as_Reduce_scatter_Allgatherv(n, e, p) ==
  << GrabInt(p), GrabInt2(p),
     Mpi("Reduce_scatter", n * e), Mpi("Allgatherv", n * e), Release("int") >>

(* A slip it could have: taking the displacements before the counts.       *)
Alltoall_second_first(n, e, p) ==
  << GrabInt2(p), GrabInt(p), Mpi("Alltoallv", n * e), Release("int") >>

Alltoall_as_Alltoallv(n, e, p) ==
  << GrabInt(p), GrabInt2(p), Mpi("Alltoallv", n * e), Release("int") >>

Bcast_as_Allgatherv(n, e, p) ==
  << GrabInt(p), GrabInt2(p), Mpi("Allgatherv", n * e), Release("int") >>

(* A slip it could have: giving the buffers back one call too early.       *)
Bcast_releasing_early(n, e, p) ==
  LET k == Padded(n, p) \div p
  IN  << GrabMsg(Padded(n, p) * e), GrabMsg2(k * e),
         Call("Scatter", k, e), Release("msg"), Call("Allgather", k, e) >>

Bcast_as_Scatter_Allgather(n, e, p) ==
  LET k == Padded(n, p) \div p
  IN  << GrabMsg(Padded(n, p) * e), GrabMsg2(k * e),
         Call("Scatter", k, e), Call("Allgather", k, e), Release("msg") >>

Gather_as_Allgather(n, e, p) ==
  << GrabMsg(p * (n * e)), Call("Allgather", n, e), Release("msg") >>

Gather_as_Gatherv(n, e, p) ==
  << GrabInt(p), GrabInt2(p), Mpi("Gatherv", n * e), Release("int") >>

(* A slip it could have: not giving its buffer back.                       *)
Gather_keeping(n, e, p) ==
  << GrabMsg(p * (n * e)), Call("Reduce", p * (n * e), 1) >>

Gather_as_Reduce(n, e, p) ==
  << GrabMsg(p * (n * e)), Call("Reduce", p * (n * e), 1), Release("msg") >>

(* A slip it could have: not giving its buffer back.                       *)
Reduce_keeping(n, e, p) ==
  << GrabMsg(n * e), Call("Allreduce", n, e) >>

Reduce_as_Allreduce(n, e, p) ==
  << GrabMsg(n * e), Call("Allreduce", n, e), Release("msg") >>

Reduce_as_Reduce_scatter_block_Gather(n, e, p) ==
  LET k == Padded(n, p) \div p
  IN  << GrabMsg(Padded(n, p) * e), GrabMsg2(k * e),
         Call("Reduce_scatter_block", k, e), Call("Gather", k, e),
         Release("msg") >>

(* Every process asks for recvcounts[0] elements, the most anyone needs.   *)
Reduce_as_Reduce_scatter_Gatherv(n, e, p) ==
  << GrabInt(p), GrabInt2(p), GrabMsg(RecvCount(n, p, 0) * e),
     Mpi("Reduce_scatter", n * e), Mpi("Gatherv", n * e),
     Release("msg"), Release("int") >>

Reduce_as_Reduce_scatter(n, e, p) ==
  << GrabInt(p), Mpi("Reduce_scatter", n * e), Release("int") >>

Reduce_scatter_block_as_Reduce_Scatter(n, e, p) ==
  << GrabMsg(p * (n * e)), Call("Reduce", p * n, e), Call("Scatter", n, e),
     Release("msg") >>

Reduce_scatter_block_as_Reduce_scatter(n, e, p) ==
  << GrabInt(p), Mpi("Reduce_scatter", p * (n * e)), Release("int") >>

Reduce_scatter_block_as_Allreduce(n, e, p) ==
  << GrabMsg(p * (n * e)), Call("Allreduce", p * n, e), Release("msg") >>

Scan_as_Exscan_Reduce_local(n, e, p) ==
  << Mpi("Exscan", n * e) >>

Scatter_as_Bcast(n, e, p) ==
  << GrabMsg(p * (n * e)), Call("Bcast", p * n, e), Release("msg") >>

Scatter_as_Scatterv(n, e, p) ==
  << GrabInt(p), GrabInt2(p), Mpi("Scatterv", 0), Release("int") >>

-------------------------------------------------------------------------------
(* The wrappers: what alg ids 1, 2, ... select in the switch of each.  The *)
(* look-up before the switch, and the default call and the trace after it, *)
(* are the same in all nine; they are the actions of Interception.         *)

Allgather(n, e, p) ==
  << Allgather_as_Allgatherv(n, e, p), Allgather_as_Allreduce(n, e, p),
     Allgather_as_Alltoall(n, e, p), Allgather_as_GatherBcast(n, e, p) >>

Allreduce(n, e, p) ==
  << Allreduce_as_Reduce_Bcast(n, e, p),
     Allreduce_as_Reduce_scatter_block_Allgather(n, e, p),
     Allreduce_as_Reduce_scatter_Allgatherv(n, e, p) >>

Alltoall(n, e, p) == << Alltoall_as_Alltoallv(n, e, p) >>

Bcast(n, e, p) ==
  << Bcast_as_Allgatherv(n, e, p), Bcast_as_Scatter_Allgather(n, e, p) >>

Gather(n, e, p) ==
  << Gather_as_Allgather(n, e, p), Gather_as_Gatherv(n, e, p),
     Gather_as_Reduce(n, e, p) >>

Reduce(n, e, p) ==
  << Reduce_as_Allreduce(n, e, p), Reduce_as_Reduce_scatter_block_Gather(n, e, p),
     Reduce_as_Reduce_scatter_Gatherv(n, e, p), Reduce_as_Reduce_scatter(n, e, p) >>

Reduce_scatter_block(n, e, p) ==
  << Reduce_scatter_block_as_Reduce_Scatter(n, e, p),
     Reduce_scatter_block_as_Reduce_scatter(n, e, p),
     Reduce_scatter_block_as_Allreduce(n, e, p) >>

Scan(n, e, p) == << Scan_as_Exscan_Reduce_local(n, e, p) >>

Scatter(n, e, p) ==
  << Scatter_as_Bcast(n, e, p), Scatter_as_Scatterv(n, e, p) >>

Mockups(coll, n, e, p) ==
  CASE coll = "Allgather" -> Allgather(n, e, p)
    [] coll = "Allreduce" -> Allreduce(n, e, p)
    [] coll = "Alltoall"  -> Alltoall(n, e, p)
    [] coll = "Bcast"     -> Bcast(n, e, p)
    [] coll = "Gather"    -> Gather(n, e, p)
    [] coll = "Reduce"    -> Reduce(n, e, p)
    [] coll = "Reduce_scatter_block" -> Reduce_scatter_block(n, e, p)
    [] coll = "Scan"      -> Scan(n, e, p)
    [] coll = "Scatter"   -> Scatter(n, e, p)

(* Alg id 0 is the MPI library's own implementation.                       *)
DEFAULT == 0
AlgIds(coll) ==
  CASE coll \in {"Alltoall", "Scan"} -> 0..1
    [] coll \in {"Bcast", "Scatter"} -> 0..2
    [] coll \in {"Allreduce", "Gather", "Reduce_scatter_block"} -> 0..3
    [] coll \in {"Allgather", "Reduce"} -> 0..4

(* A slip a wrapper could have: a mock-up that gives up is followed by     *)
(* nothing, the default case of the switch being missed.                   *)
PlainOmitted(coll, n, e) == << >>

(* The bytes a process passes to PMPI_<collective>.  The receive counts of *)
(* a scatter agree whatever a process passed for its send count.           *)
Plain(coll, n, e) == << Mpi(coll, IF coll = "Scatter" THEN 0 ELSE n * e) >>
================================================================================
