------------------------------- MODULE MCProfile -------------------------------
(* Instances of Profile for TLC. *)
EXTENDS Profile

MCWidth == 5   \* an int holds -16..15

(* The numbers by which a file refers to its algorithms are its own. *)
FileOf(coll, procs, ranges) ==
  [coll |-> coll, procs |-> procs, ranges |-> ranges, complete |-> TRUE,
   algs |-> <<[ref |-> 6, name |-> 1], [ref |-> 5, name |-> 2], [ref |-> 5, name |-> 0]>>]
Rg(lo, hi, ref) == [lo |-> lo, hi |-> hi, ref |-> ref]
ListedFile(f) == [prf |-> TRUE, file |-> f]

(* Ranges from zero on, with a gap in between; the last two share a size.  *)
GoodFiles == {FileOf(coll, procs, <<Rg(0, 2, 6), Rg(4, 4, 5), Rg(4, 8, 5)>>) :
                coll \in {"Allgather", "Bcast"}, procs \in {2, 3}}

RejectedFiles == {FileOf("Bcast", 0, <<Rg(1, 2, 5)>>), FileOf("Bcast", 2, <<>>)}

FatalFiles == {FileOf("unknown", 2, <<Rg(1, 2, 5)>>),
               FileOf("Bcast", 2, <<Rg(2, 1, 5)>>),
               [FileOf("Bcast", 2, <<Rg(1, 2, 5)>>) EXCEPT !.algs[2].name = 9],
               [FileOf("Bcast", 2, <<>>) EXCEPT !.complete = FALSE]}

Entries == {ListedFile(f) : f \in GoodFiles \cup RejectedFiles \cup FatalFiles}
             \cup {[prf |-> FALSE, file |-> FileOf("Bcast", 2, <<Rg(1, 2, 5)>>)]}

UpTo3(S) == {<<>>} \cup {<<a>> : a \in S} \cup {<<a, b>> : a, b \in S}
              \cup {<<a, b, c>> : a, b, c \in S}

CleanDirs == {d \in UpTo3(Entries) : Unambiguous(d)}

(* A profile of Allgather and, after it, a file that is rejected. *)
WithRejected == {<<ListedFile(FileOf("Allgather", 2, <<Rg(1, 2, 5)>>)), ListedFile(f)>> :
                   f \in RejectedFiles}

MCGarbage == {[lo |-> 0, hi |-> 0, alg |-> 0], [lo |-> 0, hi |-> 8, alg |-> 1]}

(* Messages that an int can count. *)
QueriesOf(counts, e) ==
  [coll : {"Allgather", "Bcast"}, count : counts, e : {e}, procs : {2, 3}]
SmallQueries == QueriesOf(0..9, 1) \cup QueriesOf(0..4, 2)
ASSUME \A q \in SmallQueries : Countable(q)
================================================================================
