------------------------------- MODULE PlainMPI -------------------------------
(***************************************************************************)
(* What an application is promised: the library is transparent.  Seen from *)
(* the application, linking against it changes nothing about when calls    *)
(* begin and end (README.md:50-54 "transparently used instead of the       *)
(* default implementation").                                               *)
(*                                                                         *)
(* Every process works through one program, a sequence of items.  An item  *)
(* that is a collective call on a communicator can be left by a member     *)
(* once every member has entered it, and then it is left; other items take *)
(* no time.                                                                *)
(***************************************************************************)
EXTENDS Naturals, Sequences

CONSTANTS Ranks,      \* the processes of MPI_COMM_WORLD
          Items,      \* what a program may consist of
          MaxItems    \* bound: length of a program

VARIABLES program,    \* the items some process has begun, in program order
          entered,    \* number of items each process has begun
          left        \* number of items each process is done with

vars == <<program, entered, left>>

Upcoming(r) ==
  IF entered[r] < Len(program) THEN {program[entered[r] + 1]}
  ELSE IF Len(program) < MaxItems THEN Items
  ELSE {}

IsCallOf(item, r) == item.what = "call" /\ r \in item.comm

Init ==
  /\ program = <<>>
  /\ entered = [r \in Ranks |-> 0]
  /\ left = [r \in Ranks |-> 0]

Enter(r) ==
  /\ left[r] = entered[r]
  /\ \E item \in Upcoming(r) :
       /\ program' = IF entered[r] < Len(program) THEN program
                     ELSE Append(program, item)
       /\ entered' = [entered EXCEPT ![r] = @ + 1]
       /\ left' = IF IsCallOf(item, r) THEN left
                  ELSE [left EXCEPT ![r] = @ + 1]

Leave(r) ==
  /\ left[r] < entered[r]
  /\ \A s \in program[entered[r]].comm : entered[s] >= entered[r]
  /\ left' = [left EXCEPT ![r] = @ + 1]
  /\ UNCHANGED <<program, entered>>

Next == \E r \in Ranks : Enter(r) \/ Leave(r)

(* That much is promised of every run.                                     *)
Safe == Init /\ [][Next]_vars

(* Whether and when an application makes its next call is its own affair.  *)
Spec == Init /\ [][Next]_vars /\ \A r \in Ranks : WF_vars(Leave(r))
================================================================================
