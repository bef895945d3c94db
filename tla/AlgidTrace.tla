------------------------------ MODULE AlgidTrace ------------------------------
(***************************************************************************)
(* What the algorithm trace promises: it keeps, for each collective and    *)
(* message size, the algorithm of the last call of that size, and reports  *)
(* all of it.                                                              *)
(***************************************************************************)
VARIABLES kept,     \* entries [coll, size, alg], one per collective and size
          reported  \* what has been printed

Init == kept = {} /\ reported = {}

Keep(e) ==
  /\ kept' = {f \in kept : f.coll # e.coll \/ f.size # e.size} \cup {e}
  /\ UNCHANGED reported

(* At the end of a run all is printed, and nothing is kept any longer.     *)
Report == reported' = kept /\ kept' = {}

Next == (\E e \in kept' : Keep(e)) \/ Report

Spec == Init /\ [][Next]_<< kept, reported >>
================================================================================
