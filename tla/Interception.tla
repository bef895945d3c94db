----------------------------- MODULE Interception -----------------------------
(***************************************************************************)
(* The library at work: MPI processes that run one program of collective   *)
(* calls, each call intercepted by its wrapper                             *)
(* (src/src/collectives/<collective>.c), which picks an algorithm and runs *)
(* a mock-up or the MPI library's own implementation.                      *)
(*                                                                         *)
(* A process is single threaded; what it is in the middle of is a stack of *)
(* frames, one per wrapper that has not returned.  In the tuned library    *)
(* (PGMPI(call) expands to call) the calls a mock-up makes are intercepted *)
(* again and push further frames; in the CLI library (-DUSE_PMPI) they go  *)
(* straight to MPI.                                                        *)
(*                                                                         *)
(* MPI itself is modelled in its strictest form: an operation ends when    *)
(* all members of the communicator have posted the same one.               *)
(***************************************************************************)
EXTENDS Mockups

CONSTANTS Ranks,       \* the processes of MPI_COMM_WORLD, 0 among them
          Tuned,       \* TRUE: PGMPITuneD, FALSE: PGMPITuneCLI
          Storing,     \* PGMPI_ENABLE_ALGID_STORING
          Limit,       \* configured bytes of each scratch area
          TunedProcs,  \* the number of processes each collective's profile is for
          Candidates,  \* the algorithms a profile may name, per collective
          Items,       \* what the program may consist of
          MaxItems     \* bound: length of the program

ASSUME RanksAssumption == Ranks \subseteq Nat /\ IsFiniteSet(Ranks) /\ 0 \in Ranks
ASSUME FlagsAssumption == Tuned \in BOOLEAN /\ Storing \in BOOLEAN
ASSUME SizesAssumption == Limit \in Limits /\ MaxItems \in Nat
ASSUME TunedProcsAssumption == TunedProcs \in [Collectives -> Nat]
ASSUME CandidatesAssumption ==
  /\ DOMAIN Candidates = Collectives
  /\ \A coll \in Collectives : Candidates[coll] \subseteq AlgIds(coll)

(* A program item is a collective call or, between two calls, a change of  *)
(* the algorithm of a collective (CLI parameters, set_algid).  Processes   *)
(* other than the root may pass any count m for the send count of a        *)
(* scatter, which MPI ignores there; elsewhere all pass n.                 *)
Comms    == (SUBSET Ranks) \ {{}}
CallItem == [what : {"call"}, coll : Collectives, comm : Comms,
             n : Nat, m : Nat, e : Nat \ {0}]
SetItem  == {i \in [what : {"set"}, coll : Collectives, alg : Nat] :
               i.alg \in AlgIds(i.coll)}

ASSUME ItemsAssumption == \A i \in Items : i \in CallItem \/ i \in SetItem

VARIABLES program,   \* items some process has begun: decided as they come up
          step,      \* number of items each process has begun
          stack,     \* wrappers each process is in, the innermost last
          waiting,   \* whether a process has posted an operation to MPI
          pool,      \* scratch memory of each process
          algid,     \* the static alg_id of each wrapper, per process
          profile,   \* what look-ups have revealed of the profiles
          store,     \* process 0: the traced algorithm per collective and size
          ran        \* process 0: the algorithm that really ran (history)

vars == <<program, step, stack, waiting, pool, algid, profile, store, ran>>

-------------------------------------------------------------------------------
(* Frames.                                                                 *)

Frame == [coll : Collectives, n : Nat, e : Nat \ {0}, comm : Comms,
          alg : Nat, default : BOOLEAN, ip : Nat \ {0}]

Bytes(f) == f.n * f.e

(* What the wrapper executes: the mock-up its switch selected or, when     *)
(* call_default is set, the PMPI function.                                 *)
Script(f) == IF f.default THEN Plain(f.coll, f.n, f.e)
             ELSE Mockups(f.coll, f.n, f.e, Cardinality(f.comm))[f.alg]

AtEnd(f) == f.ip > Len(Script(f))

(* The next instruction, after the PGMPI macro has been expanded.          *)
Instr(f) ==
  LET i == Script(f)[f.ip]
  IN  IF i.op = "call" /\ ~Tuned THEN Plain(i.coll, i.n, i.e)[1] ELSE i

(* Scratch buffers the frame has taken and not given back.                 *)
Held(f) == HeldAfter(Script(f), f.ip - 1)

Top(r)    == stack[r][Len(stack[r])]
Active(r) == {stack[r][i] : i \in 1..Len(stack[r])}

(* Process r is about to execute an instruction of the given kind.         *)
At(r, op) ==
  /\ stack[r] # <<>> /\ ~waiting[r] /\ ~AtEnd(Top(r))
  /\ Instr(Top(r)).op = op

(* The innermost frame goes on to its next instruction.                    *)
Stepped(s) == [s EXCEPT ![Len(s)].ip = @ + 1]

-------------------------------------------------------------------------------
(* Entering a wrapper.                                                     *)

(* pgtune_get_algorithm of the tuned library: default for an empty message *)
(* and for a communicator of another size than the profiles', else what    *)
(* the profile of the collective says of the message size.  Profiles are   *)
(* files read at MPI_Init; the model reveals an entry when it is first     *)
(* looked up, and it stays.  That a look-up gives what the files say is    *)
(* the business of module Profile.                                         *)
Consults(coll, bytes, comm) == bytes > 0 /\ Cardinality(comm) = TunedProcs[coll]
Known(coll, bytes) == {t \in profile : t[1] = coll /\ t[2] = bytes}
(* A slip Answers could have: a look-up that depends on something else, so *)
(* that two look-ups of the same entry can differ.                         *)
AnswersAnew(coll, bytes, comm) ==
  IF ~Consults(coll, bytes, comm) THEN {DEFAULT} ELSE Candidates[coll]

Answers(coll, bytes, comm) ==
  IF ~Consults(coll, bytes, comm) THEN {DEFAULT}
  ELSE IF Known(coll, bytes) # {} THEN {t[3] : t \in Known(coll, bytes)}
  ELSE Candidates[coll]

(* The wrapper of coll up to and including its switch.                     *)
Intercept(r, coll, n, e, comm) ==
  /\ IF Tuned
     THEN \E alg \in Answers(coll, n * e, comm) :
            /\ algid' = [algid EXCEPT ![r][coll] = alg]
            /\ profile' = IF Consults(coll, n * e, comm)
                          THEN profile \cup {<<coll, n * e, alg>>}
                          ELSE profile
     ELSE UNCHANGED <<algid, profile>>
  /\ stack' = [stack EXCEPT ![r] = Append(@,
       [coll |-> coll, n |-> n, e |-> e, comm |-> comm,
        alg |-> algid'[r][coll], default |-> algid'[r][coll] = DEFAULT,
        ip |-> 1])]

-------------------------------------------------------------------------------
(* The application.                                                        *)

Upcoming(r) ==
  IF step[r] < Len(program) THEN {program[step[r] + 1]}
  ELSE IF Len(program) < MaxItems THEN Items
  ELSE {}

Root(comm) == CHOOSE r \in comm : \A s \in comm : r <= s

PassedCount(item, r) ==
  IF item.coll = "Scatter" /\ r # Root(item.comm) THEN item.m ELSE item.n

Begin(r, item) ==
  /\ stack[r] = <<>>
  /\ item \in Upcoming(r)
  /\ program' = IF step[r] < Len(program) THEN program ELSE Append(program, item)
  /\ step' = [step EXCEPT ![r] = @ + 1]

(* The process makes its next collective call.                             *)
BeginCall(r) ==
  \E item \in Upcoming(r) :
    /\ item.what = "call" /\ r \in item.comm
    /\ Begin(r, item)
    /\ Intercept(r, item.coll, PassedCount(item, r), item.e, item.comm)
    /\ UNCHANGED <<waiting, pool, store, ran>>

(* The next call is on a communicator the process does not belong to.      *)
SkipCall(r) ==
  \E item \in Upcoming(r) :
    /\ item.what = "call" /\ r \notin item.comm
    /\ Begin(r, item)
    /\ UNCHANGED <<stack, waiting, pool, algid, profile, store, ran>>

(* set_algid and the parse functions of the modules.                       *)
SetAlgId(r) ==
  \E item \in Upcoming(r) :
    /\ item.what = "set"
    /\ Begin(r, item)
    /\ algid' = [algid EXCEPT ![r][item.coll] = item.alg]
    /\ UNCHANGED <<stack, waiting, pool, profile, store, ran>>

-------------------------------------------------------------------------------
(* Inside a wrapper.                                                       *)

TakeBuffer(r) ==
  /\ At(r, "grab")
  /\ LET g == Instr(Top(r))
     IN  /\ Fits(pool[r], Limit, g.buf, g.size)
         /\ pool' = [pool EXCEPT ![r] = Grabbed(@, g.buf, g.size)]
  /\ stack' = [stack EXCEPT ![r] = Stepped(@)]
  /\ UNCHANGED <<program, step, waiting, algid, profile, store, ran>>

(* A grab fails: the mock-up returns MPI_ERR_NO_MEM on the spot, with what *)
(* it has already taken still marked in use, and the wrapper sets          *)
(* call_default.                                                           *)
(* A slip it could have: restarting one instruction too early.             *)
GivenUpEarly(f) == [f EXCEPT !.default = TRUE, !.ip = 0]

GivenUp(f) == [f EXCEPT !.default = TRUE, !.ip = 1]

GiveUp(r) ==
  /\ At(r, "grab")
  /\ LET g == Instr(Top(r)) IN ~Fits(pool[r], Limit, g.buf, g.size)
  /\ stack' = [stack EXCEPT ![r][Len(stack[r])] = GivenUp(Top(r))]
  /\ UNCHANGED <<program, step, waiting, pool, algid, profile, store, ran>>

CallInner(r) ==
  /\ At(r, "call")
  /\ LET i == Instr(Top(r)) IN Intercept(r, i.coll, i.n, i.e, Top(r).comm)
  /\ UNCHANGED <<program, step, waiting, pool, store, ran>>

Post(r) ==
  /\ At(r, "mpi")
  /\ waiting' = [waiting EXCEPT ![r] = TRUE]
  /\ UNCHANGED <<program, step, stack, pool, algid, profile, store, ran>>

(* MPI completes an operation on a communicator: all members are there,    *)
(* with the same operation.                                                *)
Ready(comm) ==
  /\ \A r \in comm : waiting[r] /\ Top(r).comm = comm
  /\ \A r, s \in comm : Instr(Top(r)) = Instr(Top(s))

Meet(comm) ==
  /\ Ready(comm)
  /\ waiting' = [r \in Ranks |-> waiting[r] /\ r \notin comm]
  /\ stack' = [r \in Ranks |-> IF r \in comm THEN Stepped(stack[r]) ELSE stack[r]]
  /\ UNCHANGED <<program, step, pool, algid, profile, store, ran>>

GiveBack(r) ==
  /\ At(r, "release")
  /\ pool' = [pool EXCEPT ![r] = Released(@, Instr(Top(r)).kind)]
  /\ stack' = [stack EXCEPT ![r] = Stepped(@)]
  /\ UNCHANGED <<program, step, waiting, algid, profile, store, ran>>

(* pgmpi_save_algid_for_msg_size: the entry of (coll, bytes) is replaced.  *)
Saved(map, coll, bytes, alg) ==
  {t \in map : <<t[1], t[2]>> # <<coll, bytes>>} \cup {<<coll, bytes, alg>>}

(* What a wrapper traces: its static alg_id as it is when it returns,      *)
(* unless call_default is set.  A slip it could have: forgetting           *)
(* call_default.                                                           *)
TracedAsChosen(r, f) == algid[r][f.coll]
Traced(r, f) == IF f.default THEN DEFAULT ELSE algid[r][f.coll]

(* The end of a wrapper.  What ran is what the switch selected.            *)
Return(r) ==
  /\ stack[r] # <<>> /\ ~waiting[r] /\ AtEnd(Top(r))
  /\ LET f == Top(r)
     IN  IF Storing /\ r = 0
         THEN /\ store' = Saved(store, f.coll, Bytes(f), Traced(r, f))
              /\ ran' = Saved(ran, f.coll, Bytes(f),
                              IF f.default THEN DEFAULT ELSE f.alg)
         ELSE UNCHANGED <<store, ran>>
  /\ stack' = [stack EXCEPT ![r] =
       IF Len(@) = 1 THEN <<>> ELSE Stepped(SubSeq(@, 1, Len(@) - 1))]
  /\ UNCHANGED <<program, step, waiting, pool, algid, profile>>

(* The program is over: every process may call MPI_Finalize.               *)
Finished ==
  /\ \A r \in Ranks : stack[r] = <<>> /\ step[r] = MaxItems
  /\ UNCHANGED vars

-------------------------------------------------------------------------------

Init ==
  /\ program = <<>>
  /\ step = [r \in Ranks |-> 0]
  /\ stack = [r \in Ranks |-> <<>>]
  /\ waiting = [r \in Ranks |-> FALSE]
  /\ pool = [r \in Ranks |-> EmptyPool]
  /\ algid = [r \in Ranks |-> [coll \in Collectives |-> DEFAULT]]
  /\ profile = {}
  /\ store = {}
  /\ ran = {}

(* Everything a process does on its own inside a call.                     *)
Proceed(r) == TakeBuffer(r) \/ GiveUp(r) \/ CallInner(r) \/ Post(r)
                \/ GiveBack(r) \/ Return(r)

Next ==
  \/ \E r \in Ranks : BeginCall(r) \/ SkipCall(r) \/ SetAlgId(r) \/ Proceed(r)
  \/ \E comm \in Comms : Meet(comm)
  \/ Finished

Spec == Init /\ [][Next]_vars

(* Processes run: none stops for ever inside a call, and MPI completes an  *)
(* operation that all members have posted.  Nothing makes the application  *)
(* go on to its next call.                                                 *)
Fairness == /\ \A r \in Ranks : WF_vars(Proceed(r))
            /\ \A comm \in Comms : WF_vars(Meet(comm))

FairSpec == Spec /\ Fairness

-------------------------------------------------------------------------------
(* Conditions under which processes decide alike.                          *)

(* All processes pass the same count, to a scatter too. *)
SameCounts ==
  \A i \in Items : i.what = "call" /\ i.coll = "Scatter" => i.m = i.n

(* Every process takes part in every call. *)
OnWorld == \A i \in Items : i.what = "call" => i.comm = Ranks

(* The mock-ups a wrapper of coll may be told to run.                      *)
Selectable(coll) ==
  (IF Tuned THEN Candidates[coll]
   ELSE {i.alg : i \in {j \in Items : j.what = "set" /\ j.coll = coll}}) \ {DEFAULT}

(* If a mock-up gets the first buffer it takes, it gets them all.          *)
AllOrNothing(s) ==
  s[1].op = "grab" /\ s[1].size <= Limit[Kind(s[1].buf)] =>
    \A j \in 2..Len(s) : s[j].op = "grab" =>
      LET k == Kind(s[j].buf)
      IN  IF Slot(s[j].buf) = 1 THEN ~Tuned /\ s[j].size <= Limit[k]
          ELSE \A i \in 1..(j - 1) : s[i].op = "grab" /\ s[i].buf = First(k)
                 => s[i].size + s[j].size <= Limit[k]

(* requests holds what wrappers are called with, <<coll, n, e, comm>>, and *)
(* the limits are such that every mock-up gets all its buffers or none.    *)
(* An outer mock-up may hold the area an inner one asks for: then it gets  *)
(* none.                                                                   *)
Roomy(requests) ==
  /\ \A i \in Items : i.what = "call" =>
       \A r \in i.comm : <<i.coll, PassedCount(i, r), i.e, i.comm>> \in requests
  /\ \A q \in requests : \A alg \in Selectable(q[1]) :
       LET s == Mockups(q[1], q[2], q[3], Cardinality(q[4]))[alg]
       IN  /\ AllOrNothing(s)
           /\ \A j \in 1..Len(s) : Tuned /\ s[j].op = "call"
                => <<s[j].coll, s[j].n, s[j].e, q[4]>> \in requests

-------------------------------------------------------------------------------

(* Type invariant. *)
TypeOK ==
  /\ program \in Seq(Items)
  /\ step \in [Ranks -> 0..MaxItems]
  /\ stack \in [Ranks -> Seq(Frame)]
  /\ waiting \in [Ranks -> BOOLEAN]
  /\ pool \in [Ranks -> Pools]
  /\ algid \in [Ranks -> [Collectives -> Nat]]
  /\ profile \subseteq Collectives \X Nat \X Nat
  /\ store \subseteq Collectives \X Nat \X Nat
  /\ ran \subseteq Collectives \X Nat \X Nat

(* A mock-up that is in the middle of its work has its scratch buffers to  *)
(* itself: they are marked in use, and no other mock-up on the stack of    *)
(* the process holds a buffer of the same area.  The release functions     *)
(* clear the flags of a whole area without asking who set them, so with    *)
(* mock-ups nested in mock-ups this rests on every one of them taking the  *)
(* first buffer of an area before anything else of it.                     *)
Exclusive ==
  \A r \in Ranks : \A i \in 1..Len(stack[r]) :
    /\ Held(stack[r][i]) \subseteq pool[r].used
    /\ \A j \in 1..Len(stack[r]) : i # j =>
         \A b \in Held(stack[r][i]), c \in Held(stack[r][j]) : Kind(b) # Kind(c)

(* Profiles can send Allgather to Bcast and Bcast to Allgather; nothing in *)
(* the wrappers counts the depth of the recursion.  It ends because the    *)
(* scratch memory runs out: no process is ever inside more than four.      *)
NestingBounded == \A r \in Ranks : Len(stack[r]) <= 4

(* How much a process has left to do in the call it is in, as a number     *)
(* with one digit per wrapper: what remains of its script, one less when   *)
(* it is in the middle of a call of a further wrapper.  A fall back is     *)
(* shorter than a mock-up with one instruction left.                       *)
LongestScript == 7
ToRun(f) == (IF f.default THEN 3 ELSE Len(Script(f)) + 4) - f.ip
Digit(s, i) == IF i > Len(s) THEN 0
               ELSE IF i = Len(s) THEN ToRun(s[i]) ELSE ToRun(s[i]) - 1
LeftToDo(s) ==
  LET base == LongestScript + 4
  IN  ((Digit(s, 1) * base + Digit(s, 2)) * base + Digit(s, 3)) * base + Digit(s, 4)

(* No call goes on for ever, though mock-ups call one another in circles   *)
(* and start over as the default when memory runs out: whatever a process  *)
(* does in a call, less remains to be done.                                *)
GetsOn ==
  [][\A r \in Ranks : stack[r] # <<>> /\ stack'[r] # stack[r]
       => LeftToDo(stack'[r]) < LeftToDo(stack[r])]_vars

(* The processes of a communicator never post different operations, or the *)
(* same one on different amounts of data: whatever each of them decides on *)
(* its own - algorithm, fall back to the default - all decide alike.       *)
NoMismatch ==
  \A r, s \in Ranks :
    waiting[r] /\ waiting[s] /\ Top(r).comm = Top(s).comm /\ s \in Top(r).comm
      => Instr(Top(r)) = Instr(Top(s))

(* No deadlock inside the library: what keeps a waiting process is another *)
(* member of the same communicator that has yet to begin the call, or one  *)
(* that is at work in that very call; when there is no such member, MPI    *)
(* can complete the operation.  However a mock-up splits a call up, its    *)
(* members never stand at different places of it, each waiting for others. *)
HeldUpByMembers ==
  \A r \in Ranks : waiting[r] =>
    \/ Ready(Top(r).comm)
    \/ \E s \in Top(r).comm : step[s] < step[r]
    \/ \E s \in Top(r).comm :
         step[s] = step[r] /\ stack[s] # <<>> /\ ~waiting[s]

(* Every in-use flag belongs to a mock-up that is still running.           *)
NoOrphans ==
  \A r \in Ranks : pool[r].used \subseteq UNION {Held(f) : f \in Active(r)}

(* What a mock-up takes of an area altogether.                             *)
Need(coll, n, e, comm, alg, b) ==
  LET s == Mockups(coll, n, e, Cardinality(comm))[alg]
      takes == {i \in 1..Len(s) : s[i].op = "grab" /\ s[i].buf = b}
  IN  IF takes = {} THEN 0 ELSE s[CHOOSE i \in takes : TRUE].size

(* The default implementation replaces a selected mock-up only if that     *)
(* mock-up requires more memory than the limits of the configuration file  *)
(* (README.md:127-128).                                                    *)
FallsBackOnlyOverLimit ==
  \A r \in Ranks : \A f \in Active(r) :
    f.default /\ f.alg # DEFAULT =>
      \E k \in Kinds : Need(f.coll, f.n, f.e, f.comm, f.alg, First(k))
                        + Need(f.coll, f.n, f.e, f.comm, f.alg, Second(k)) > Limit[k]

(* The trace that process 0 keeps and prints at MPI_Finalize names, for    *)
(* each collective and message size, the algorithm that the last such call *)
(* really ran.                                                             *)
TraceTruth == store = ran

(* The application cannot tell the library from MPI itself: each call is   *)
(* entered once, is left only after all members have entered it, and is    *)
(* left once they have, however many inner operations it is made of.       *)
Abstract == INSTANCE PlainMPI WITH
            entered <- step,
            left <- [r \in Ranks |-> IF stack[r] = <<>> THEN step[r] ELSE step[r] - 1]
Transparent == Abstract!Spec

(* The half of it that speaks of every run, fair or not: no process leaves *)
(* a call before all members have entered it, whatever mock-ups, nested    *)
(* calls and falls back to the default the call is made of on each side.   *)
LeavesAfterAllEntered == Abstract!Safe
================================================================================
