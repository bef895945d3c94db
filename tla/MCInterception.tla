---------------------------- MODULE MCInterception ----------------------------
(* Instances of Interception for TLC. *)
EXTENDS Interception

World == Ranks
TwoRanks == {0, 1}
TwoProcs == [coll \in Collectives |-> 2]

AllAlgs == [coll \in Collectives |-> AlgIds(coll)]

CallOf(coll, n, e, comm) ==
  [what |-> "call", coll |-> coll, comm |-> comm, n |-> n, m |-> n, e |-> e]
SetOf(coll, alg) == [what |-> "set", coll |-> coll, alg |-> alg]

(* Any collective on one or two elements of two bytes: with padding to two *)
(* processes and without.                                                  *)
OneCall == {CallOf(coll, n, 2, World) : coll \in Collectives, n \in {1, 2}}

(* Two calls of the collectives whose mock-ups can call one another in a   *)
(* circle, under profiles that make them do so.                            *)
Circle == [AllAlgs EXCEPT !["Allgather"] = {0, 4}, !["Bcast"] = {0, 2},
                          !["Gather"] = {0}, !["Scatter"] = {0, 1},
                          !["Allreduce"] = {0, 1}, !["Reduce"] = {0, 1}]
CircleCalls == {CallOf(coll, 1, 1, World) : coll \in {"Allgather", "Allreduce", "Bcast"}}

(* Two areas large enough that only nesting can make a grab fail. *)
Ample == [msg |-> 64, int |-> 64]

(* Three bytes of message data: one element and its padding fit, four do   *)
(* not.                                                                    *)
Tight == [msg |-> 3, int |-> 64]

(* The CLI library: choose algorithms and call.  Left out is the only      *)
(* mock-up that can fail a grab after others have succeeded when the three *)
(* bytes of Tight do not suffice, Reduce_as_Reduce_scatter_Gatherv.        *)
CliColls == {"Allreduce", "Bcast", "Gather", "Reduce"}
CliSets  == UNION {{SetOf(coll, alg) : alg \in AlgIds(coll)} : coll \in CliColls}
CliCalls == {CallOf(coll, n, 1, World) : coll \in CliColls, n \in {1, 4}}
CliItems == (CliSets \ {SetOf("Reduce", 3)}) \cup CliCalls
              \cup {CallOf("Reduce", 1, 1, {0})}

(* What the instances ask of wrappers; the hypotheses of the theorems are  *)
(* met by the runs that check the properties they are about.               *)
CliRequests == {<<i.coll, i.n, i.e, i.comm>> : i \in CliCalls \cup {CallOf("Reduce", 1, 1, {0})}}
CircleRequests ==
  {<<coll, 1, 1, World>> :
     coll \in {"Allgather", "Allreduce", "Bcast", "Gather", "Reduce", "Scatter"}}
  \cup {<<"Bcast", 2, 1, World>>}

ASSUME CliRoomy == Items = CliItems /\ Limit = Tight => SameCounts /\ Roomy(CliRequests)
ASSUME CircleRoomy ==
  Items = CircleCalls /\ Limit = Ample /\ Candidates = Circle
    => SameCounts /\ OnWorld /\ Roomy(CircleRequests)

(* That mock-up on its own, on a vector that fits and one that does not.   *)
ScatterGatherv == {SetOf("Reduce", 3), CallOf("Reduce", 2, 1, World),
                   CallOf("Reduce", 4, 1, World)}

(* The same with the communicator of process 0 alone.                      *)
SubCommItems == ScatterGatherv \cup {CallOf("Reduce", n, 1, {0}) : n \in {2, 4}}

(* A scatter whose non-root process passes a send count of its own. *)
LooseScatter == {[CallOf("Scatter", 1, 1, World) EXCEPT !.m = m] : m \in {0, 1}}
================================================================================
