----------------------------- MODULE MCSemantics -----------------------------
EXTENDS Semantics

(* Every mock-up on up to MaxP processes, from every root.  The reductions *)
(* are of an operation that does not commute, except for the scan.         *)
CONSTANTS MaxP, MaxN, MaxChunked, ScanCommutes

Rootless == {"Allgather", "Allreduce", "Alltoall", "Reduce_scatter_block", "Scan"}

(* The mock-ups that deal out chunks of four elements need longer vectors  *)
(* before every process has a chunk and a shorter one is left.             *)
Chunked == {<< "Allreduce", 3 >>, << "Reduce", 3 >>}

MCCalls ==
  {c \in [coll : Scripts!Collectives, alg : 1..4, p : 1..MaxP, n : 0..MaxChunked,
          root : 0 .. MaxP - 1, commutes : BOOLEAN] :
     /\ c.alg \in Scripts!AlgIds(c.coll)
     /\ c.root < c.p
     /\ c.coll \in Rootless => c.root = 0
     /\ << c.coll, c.alg >> \notin Chunked => c.n <= MaxN
     /\ c.commutes = (c.coll = "Scan" /\ ScanCommutes)}

MCScans == {c \in MCCalls : c.coll = "Scan"}
================================================================================
