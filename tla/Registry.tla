------------------------------- MODULE Registry -------------------------------
(***************************************************************************)
(* What the collectives register (register_module_* and module_algs in     *)
(* src/src/collectives/<collective>.c): the prefix of their parameters and *)
(* the names of their algorithms, in the order of their alg ids from 0.    *)
(* src/src/collectives/collective_modules.c looks them up.  The parse and  *)
(* set_algid functions, which all nine write alike, are AlgIdFrom of       *)
(* CommandLine and ValidId.                                                *)
(***************************************************************************)
EXTENDS Integers, Sequences

allgather ==
  [cli_prefix |-> "allgather",
   algs |-> << "default", "allgather_as_allgatherv", "allgather_as_allreduce",
               "allgather_as_alltoall", "allgather_as_gather_bcast" >>]
allreduce ==
  [cli_prefix |-> "allreduce",
   algs |-> << "default", "allreduce_as_reduce_bcast",
               "allreduce_as_reducescatterblock_allgather",
               "allreduce_as_reducescatter_allgatherv" >>]
alltoall ==
  [cli_prefix |-> "alltoall", algs |-> << "default", "alltoall_as_alltoallv" >>]
bcast ==
  [cli_prefix |-> "bcast",
   algs |-> << "default", "bcast_as_allgatherv", "bcast_as_scatter_allgather" >>]
gather ==
  [cli_prefix |-> "gather",
   algs |-> << "default", "gather_as_allgather", "gather_as_gatherv",
               "gather_as_reduce" >>]
reduce ==
  [cli_prefix |-> "reduce",
   algs |-> << "default", "reduce_as_allreduce",
               "reduce_as_reducescatterblock_gather",
               "reduce_as_reducescatter_gatherv", "reduce_as_reducescatter" >>]
reduce_scatter_block ==
  [cli_prefix |-> "reduce_scatter_block",
   algs |-> << "default", "reducescatterblock_as_reduce_scatter",
               "reducescatterblock_as_reducescatter",
               "reducescatterblock_as_allreduce" >>]
scan ==
  [cli_prefix |-> "scan", algs |-> << "default", "scan_as_exscan_reducelocal" >>]
scatter ==
  [cli_prefix |-> "scatter",
   algs |-> << "default", "scatter_as_bcast", "scatter_as_scatterv" >>]

modules == << allgather, allreduce, alltoall, bcast, gather, reduce,
              reduce_scatter_block, scan, scatter >>

(* Collectives are numbered by their place in modules: cid + 1.            *)
Cids == 1 .. Len(modules)

AlgNames(cid) == modules[cid].algs
NbChoices(cid) == Len(AlgNames(cid))

(* A slip ValidId could have: the number of choices taken for an id.       *)
ValidIdAndOne(cid, id) == 0 <= id /\ id <= NbChoices(cid)

(* pgmpi_check_algid_valid and the test in set_algid.                      *)
ValidId(cid, id) == 0 <= id /\ id < NbChoices(cid)

(* pgmpi_modules_get_algid_by_algname, and 0 for a name nobody registered. *)
AlgIdOf(cid, name) ==
  IF \E i \in 1 .. NbChoices(cid) : AlgNames(cid)[i] = name
  THEN (CHOOSE i \in 1 .. NbChoices(cid) : AlgNames(cid)[i] = name) - 1
  ELSE 0
================================================================================
