---------------------------- MODULE AgreementProofs ----------------------------
(***************************************************************************)
(* Processes decide alike: whatever each wrapper decides on its own, the   *)
(* members of a communicator post the same operations, and the application *)
(* sees the calls it made begin and end as under plain MPI.                *)
(*                                                                         *)
(* The idea: between two operations of MPI a process runs alone, and what  *)
(* it does is determined by where it is.  So of two processes one is       *)
(* always ahead of the other on the same path.                             *)
(***************************************************************************)
EXTENDS InterceptionProofs

-------------------------------------------------------------------------------
(* What a process looks like to another.                                   *)

HasFirst(s, k) == \E i \in 1..Len(s) : First(k) \in Held(s[i])

(* Scratch memory without what a process may have left over from calls the *)
(* other did not take part in: offsets of areas that nothing is taken of.  *)
Tidied(p, s) ==
  [used |-> p.used, offset |-> [k \in Kinds |-> IF HasFirst(s, k) THEN p.offset[k] ELSE 0]]

(* In the tuned library a wrapper forgets the alg_id it finds.             *)
Chosen(ids) == IF Tuned THEN [coll \in Collectives |-> DEFAULT] ELSE ids

Sight(k, s, p, ids) == [step |-> k, stack |-> s, pool |-> p, ids |-> ids]

(* A process k items into the program, in a call the other takes part in   *)
(* or not.                                                                 *)
Look(both, k, s, p, ids) ==
  IF s = <<>> \/ both THEN Sight(k, s, Tidied(p, s), ids)
  ELSE Sight(k, <<>>, EmptyPool, ids)

Shared(prog, pair, k) == prog[k].what = "call" /\ pair \subseteq prog[k].comm

View(r, pair) ==
  Look(Shared(program, pair, step[r]), step[r], stack[r], pool[r], Chosen(algid[r]))

-------------------------------------------------------------------------------
(* The path a process is on, given the program and what is known of the    *)
(* profiles.                                                               *)

NewTop(coll, n, e, comm, alg) ==
  [coll |-> coll, n |-> n, e |-> e, comm |-> comm,
   alg |-> alg, default |-> alg = DEFAULT, ip |-> 1]

Picks(prof, ids, coll, n, e, comm, alg) ==
  IF ~Tuned THEN alg = ids[coll]
  ELSE IF Consults(coll, n * e, comm) THEN <<coll, n * e, alg>> \in prof
  ELSE alg = DEFAULT

(* The next item of the program. *)
Enters(prog, prof, pair, x, y) ==
  /\ x.stack = <<>>
  /\ x.step + 1 \in 1..Len(prog)
  /\ LET item == prog[x.step + 1]
     IN  \/ /\ item.what = "set"
            /\ y = Sight(x.step + 1, <<>>, x.pool,
                         Chosen([x.ids EXCEPT ![item.coll] = item.alg]))
         \/ /\ item.what = "call" /\ ~(pair \subseteq item.comm)
            /\ y = Sight(x.step + 1, <<>>, x.pool, x.ids)
         \/ /\ item.what = "call" /\ pair \subseteq item.comm
            /\ \E alg :
                 /\ Picks(prof, x.ids, item.coll, item.n, item.e, item.comm, alg)
                 /\ y = Sight(x.step + 1,
                              <<NewTop(item.coll, item.n, item.e, item.comm, alg)>>,
                              x.pool, x.ids)

Onto(x, s, p) == Sight(x.step, s, Tidied(p, s), x.ids)
Popped(s) == IF Len(s) = 1 THEN <<>> ELSE Stepped(SubSeq(s, 1, Len(s) - 1))

(* The next instruction of the innermost wrapper, unless it is one that    *)
(* takes all members.                                                      *)
Works(prof, x, y) ==
  /\ x.stack # <<>>
  /\ LET s == x.stack
         f == s[Len(s)]
         i == Instr(f)
     IN  \/ AtEnd(f) /\ y = Onto(x, Popped(s), x.pool)
         \/ /\ ~AtEnd(f) /\ i.op = "grab" /\ Fits(x.pool, Limit, i.buf, i.size)
            /\ y = Onto(x, Stepped(s), Grabbed(x.pool, i.buf, i.size))
         \/ /\ ~AtEnd(f) /\ i.op = "grab" /\ ~Fits(x.pool, Limit, i.buf, i.size)
            /\ y = Onto(x, [s EXCEPT ![Len(s)] = GivenUp(f)], x.pool)
         \/ /\ ~AtEnd(f) /\ i.op = "release"
            /\ y = Onto(x, Stepped(s), Released(x.pool, i.kind))
         \/ /\ ~AtEnd(f) /\ i.op = "call"
            /\ \E alg :
                 /\ Picks(prof, x.ids, i.coll, i.n, i.e, f.comm, alg)
                 /\ y = Onto(x, Append(s, NewTop(i.coll, i.n, i.e, f.comm, alg)), x.pool)

Goes(prog, prof, pair, x, y) == Enters(prog, prof, pair, x, y) \/ Works(prof, x, y)

Path(prog, prof, pair, x, y) ==
  \E n \in Nat \ {0} : \E p :
    /\ p[1] = x /\ p[n] = y
    /\ \A i \in 1..(n - 1) : Goes(prog, prof, pair, p[i], p[i + 1])

OnePath(prog, prof, pair, x, y) ==
  Path(prog, prof, pair, x, y) \/ Path(prog, prof, pair, y, x)

(* A profile gives one answer. *)
Functional(prof) ==
  \A t, u \in prof : t[1] = u[1] /\ t[2] = u[2] => t[3] = u[3]

-------------------------------------------------------------------------------
(* Paths.                                                                  *)

LEMMA PathStays ==
  ASSUME NEW prog, NEW prof, NEW pair, NEW x
  PROVE  Path(prog, prof, pair, x, x)
<1> DEFINE p == [i \in {1} |-> x]
<1>1. /\ 1 \in Nat \ {0} /\ p[1] = x
      /\ \A i \in 1..(1 - 1) : Goes(prog, prof, pair, p[i], p[i + 1])
  OBVIOUS
<1> HIDE DEF p
<1> QED BY <1>1 DEF Path

LEMMA PathGrows ==
  ASSUME NEW prog, NEW prof, NEW pair, NEW x, NEW y, NEW z,
         Path(prog, prof, pair, x, y), Goes(prog, prof, pair, y, z)
  PROVE  Path(prog, prof, pair, x, z)
<1>0. PICK n \in Nat \ {0} : \E p :
        /\ p[1] = x /\ p[n] = y
        /\ \A i \in 1..(n - 1) : Goes(prog, prof, pair, p[i], p[i + 1])
  BY DEF Path
<1>1. PICK p :
        /\ p[1] = x /\ p[n] = y
        /\ \A i \in 1..(n - 1) : Goes(prog, prof, pair, p[i], p[i + 1])
  BY <1>0
<1> DEFINE q == [i \in 1..(n + 1) |-> IF i = n + 1 THEN z ELSE p[i]]
<1>2. n + 1 \in Nat \ {0} /\ q[1] = x /\ q[n + 1] = z BY <1>1
<1>3. ASSUME NEW i \in 1..(n + 1 - 1)
      PROVE  Goes(prog, prof, pair, q[i], q[i + 1])
  <2>1. q[i] = p[i] OBVIOUS
  <2>2. CASE i = n
    <3>1. q[i + 1] = z BY <2>2
    <3> QED BY <1>1, <2>1, <2>2, <3>1
  <2>3. CASE i # n
    <3>1. i \in 1..(n - 1) /\ q[i + 1] = p[i + 1] BY <2>3
    <3> QED BY <1>1, <2>1, <3>1
  <2> QED BY <2>2, <2>3
<1> HIDE DEF q
<1> QED BY <1>2, <1>3 DEF Path

(* A path that leaves a place leaves it by the step that there is. *)
LEMMA PathLeaves ==
  ASSUME NEW prog, NEW prof, NEW pair, NEW x, NEW y,
         Path(prog, prof, pair, x, y), x # y
  PROVE  \E z : Goes(prog, prof, pair, x, z) /\ Path(prog, prof, pair, z, y)
<1>0. PICK n \in Nat \ {0} : \E p :
        /\ p[1] = x /\ p[n] = y
        /\ \A i \in 1..(n - 1) : Goes(prog, prof, pair, p[i], p[i + 1])
  BY DEF Path
<1>1. PICK p :
        /\ p[1] = x /\ p[n] = y
        /\ \A i \in 1..(n - 1) : Goes(prog, prof, pair, p[i], p[i + 1])
  BY <1>0
<1>2. n # 1 BY <1>1
<1> DEFINE q == [i \in 1..(n - 1) |-> p[i + 1]]
<1>3. n - 1 \in Nat \ {0} /\ q[1] = p[2] /\ q[n - 1] = y BY <1>1, <1>2
<1>4. ASSUME NEW i \in 1..(n - 1 - 1)
      PROVE  Goes(prog, prof, pair, q[i], q[i + 1])
  <2>1. q[i] = p[i + 1] /\ q[i + 1] = p[i + 1 + 1] /\ i + 1 \in 1..(n - 1)
    OBVIOUS
  <2> QED BY <1>1, <2>1
<1>5. Goes(prog, prof, pair, x, p[2])
  <2>1. 1 \in 1..(n - 1) BY <1>2
  <2> QED BY <1>1, <2>1
<1> HIDE DEF q
<1>6. Path(prog, prof, pair, p[2], y) BY <1>3, <1>4 DEF Path
<1> QED BY <1>5, <1>6

(* One program is what another is so far. *)
Begins(p, q) ==
  /\ Len(p) \in Nat /\ Len(q) \in Nat /\ Len(p) <= Len(q)
  /\ \A i \in 1..Len(p) : q[i] = p[i]

(* A step there is stays a step when more is known.                        *)
LEMMA GoesStill ==
  ASSUME NEW prog, NEW prog2, Begins(prog, prog2),
         NEW prof, NEW prof2, prof \subseteq prof2,
         NEW pair, NEW x, NEW y, Goes(prog, prof, pair, x, y)
  PROVE  Goes(prog2, prof2, pair, x, y)
<1>1. \A ids, coll, n, e, comm, alg :
        Picks(prof, ids, coll, n, e, comm, alg) => Picks(prof2, ids, coll, n, e, comm, alg)
  BY DEF Picks
<1>2. CASE Enters(prog, prof, pair, x, y)
  <2>1. x.step + 1 \in 1..Len(prog) BY <1>2 DEF Enters
  <2>2. x.step + 1 \in 1..Len(prog2) /\ prog2[x.step + 1] = prog[x.step + 1]
    BY <2>1 DEF Begins
  <2>3. Enters(prog2, prof2, pair, x, y) BY <1>1, <1>2, <2>2 DEF Enters
  <2> QED BY <2>3 DEF Goes
<1>3. CASE Works(prof, x, y)
  <2>1. Works(prof2, x, y) BY <1>1, <1>3 DEF Works
  <2> QED BY <2>1 DEF Goes
<1> QED BY <1>2, <1>3 DEF Goes

LEMMA OnePathStill ==
  ASSUME NEW prog, NEW prog2, Begins(prog, prog2),
         NEW prof, NEW prof2, prof \subseteq prof2,
         NEW pair, NEW x, NEW y, OnePath(prog, prof, pair, x, y)
  PROVE  OnePath(prog2, prof2, pair, x, y)
<1>1. ASSUME NEW a, NEW b, Path(prog, prof, pair, a, b)
      PROVE  Path(prog2, prof2, pair, a, b)
  BY <1>1, GoesStill DEF Path
<1> QED BY <1>1 DEF OnePath

(* There is at most one step. *)
LEMMA PicksOnce ==
  ASSUME NEW prof, Functional(prof), NEW ids, NEW coll, NEW n, NEW e, NEW comm,
         NEW a, NEW b, Picks(prof, ids, coll, n, e, comm, a),
         Picks(prof, ids, coll, n, e, comm, b)
  PROVE  a = b
<1> DEFINE t == <<coll, n * e, a>>
           u == <<coll, n * e, b>>
<1>1. t[1] = u[1] /\ t[2] = u[2] /\ t[3] = a /\ u[3] = b OBVIOUS
<1>2. CASE Tuned /\ Consults(coll, n * e, comm)
  <2>1. t \in prof /\ u \in prof BY <1>2 DEF Picks
  <2> QED BY <1>1, <2>1 DEF Functional
<1>3. CASE ~(Tuned /\ Consults(coll, n * e, comm)) BY <1>3 DEF Picks
<1> QED BY <1>2, <1>3

LEMMA GoesOnce ==
  ASSUME NEW prog, NEW prof, Functional(prof), NEW pair, NEW x, NEW y, NEW z,
         Goes(prog, prof, pair, x, y), Goes(prog, prof, pair, x, z)
  PROVE  y = z
<1>1. CASE x.stack = <<>>
  <2>1. Enters(prog, prof, pair, x, y) /\ Enters(prog, prof, pair, x, z)
    BY <1>1 DEF Goes, Works
  <2> DEFINE item == prog[x.step + 1]
  <2>2. CASE item.what = "call" /\ pair \subseteq item.comm
    <3>1. PICK a : /\ Picks(prof, x.ids, item.coll, item.n, item.e, item.comm, a)
                   /\ y = Sight(x.step + 1, <<NewTop(item.coll, item.n, item.e, item.comm, a)>>,
                                x.pool, x.ids)
      BY <2>1, <2>2 DEF Enters
    <3>2. PICK b : /\ Picks(prof, x.ids, item.coll, item.n, item.e, item.comm, b)
                   /\ z = Sight(x.step + 1, <<NewTop(item.coll, item.n, item.e, item.comm, b)>>,
                                x.pool, x.ids)
      BY <2>1, <2>2 DEF Enters
    <3>3. a = b BY <3>1, <3>2, PicksOnce
    <3> QED BY <3>1, <3>2, <3>3
  <2>3. CASE ~(item.what = "call" /\ pair \subseteq item.comm)
    BY <2>1, <2>3 DEF Enters
  <2> QED BY <2>2, <2>3
<1>2. CASE x.stack # <<>>
  <2>1. Works(prof, x, y) /\ Works(prof, x, z) BY <1>2 DEF Goes, Enters
  <2> DEFINE s == x.stack
             f == s[Len(s)]
             i == Instr(f)
  <2>2. CASE ~AtEnd(f) /\ i.op = "call"
    <3>1. PICK a : /\ Picks(prof, x.ids, i.coll, i.n, i.e, f.comm, a)
                   /\ y = Onto(x, Append(s, NewTop(i.coll, i.n, i.e, f.comm, a)), x.pool)
      BY <2>1, <2>2 DEF Works
    <3>2. PICK b : /\ Picks(prof, x.ids, i.coll, i.n, i.e, f.comm, b)
                   /\ z = Onto(x, Append(s, NewTop(i.coll, i.n, i.e, f.comm, b)), x.pool)
      BY <2>1, <2>2 DEF Works
    <3>3. a = b BY <3>1, <3>2, PicksOnce
    <3> QED BY <3>1, <3>2, <3>3
  <2>3. CASE AtEnd(f) BY <2>1, <2>3 DEF Works
  <2>4. CASE ~AtEnd(f) /\ i.op = "grab" BY <2>1, <2>4 DEF Works
  <2>5. CASE ~AtEnd(f) /\ i.op = "release" BY <2>1, <2>5 DEF Works
  <2>6. CASE ~AtEnd(f) /\ i.op \notin {"call", "grab", "release"}
    BY <2>1, <2>6 DEF Works
  <2> QED BY <2>2, <2>3, <2>4, <2>5, <2>6
<1> QED BY <1>1, <1>2

(* There is none where all members are needed. *)
LEMMA GoesNowhere ==
  ASSUME NEW prog, NEW prof, NEW pair, NEW x, Pending(x.stack), NEW y
  PROVE  ~Goes(prog, prof, pair, x, y)
BY DEF Pending, Goes, Enters, Works

LEMMA PathFromPending ==
  ASSUME NEW prog, NEW prof, NEW pair, NEW x, NEW y, Pending(x.stack), Pending(y.stack),
         OnePath(prog, prof, pair, x, y)
  PROVE  x = y
BY PathLeaves, GoesNowhere DEF OnePath

LEMMA OnePathSame == \A prog, prof, pair, x : OnePath(prog, prof, pair, x, x)
BY PathStays DEF OnePath

LEMMA OnePathTurned ==
  ASSUME NEW prog, NEW prof, NEW pair, NEW x, NEW y
  PROVE  OnePath(prog, prof, pair, x, y) <=> OnePath(prog, prof, pair, y, x)
BY DEF OnePath

(* One of two on one path takes its step: still one path.                  *)
LEMMA OnePathGrows ==
  ASSUME NEW prog, NEW prof, Functional(prof), NEW pair, NEW x, NEW y, NEW z,
         OnePath(prog, prof, pair, x, y), Goes(prog, prof, pair, x, z)
  PROVE  OnePath(prog, prof, pair, z, y)
<1>1. CASE Path(prog, prof, pair, y, x) BY <1>1, PathGrows DEF OnePath
<1>2. CASE Path(prog, prof, pair, x, y) /\ x # y
  <2>1. PICK w : Goes(prog, prof, pair, x, w) /\ Path(prog, prof, pair, w, y)
    BY <1>2, PathLeaves
  <2>2. w = z BY <2>1, GoesOnce
  <2> QED BY <2>1, <2>2 DEF OnePath
<1>3. CASE x = y
  <2>1. Path(prog, prof, pair, y, z) BY <1>3, PathStays, PathGrows
  <2> QED BY <2>1 DEF OnePath
<1> QED BY <1>1, <1>2, <1>3 DEF OnePath

-------------------------------------------------------------------------------
(* Where a process is in the program.                                      *)

InCall(s, k, prog, r) ==
  s # <<>> =>
    /\ k \in 1..Len(prog) /\ prog[k].what = "call" /\ r \in prog[k].comm
    /\ \A i \in 1..Len(s) : s[i].comm = prog[k].comm

Located == \A r \in Ranks : InCall(stack[r], step[r], program, r)

LEMMA BeginsSame == IInv => Begins(program, program)
<1> SUFFICES ASSUME IInv PROVE Begins(program, program)
  OBVIOUS
<1>1. program \in Seq(Items) BY DEF IInv, TypeOK
<1> QED BY <1>1 DEF Begins

(* The item that a process begins is the next one of the program. *)
LEMMA BeginsNext ==
  ASSUME IInv, NEW r \in Ranks, NEW item \in Upcoming(r), Begin(r, item)
  PROVE  /\ Begins(program, program')
         /\ step[r] + 1 \in 1..Len(program') /\ program'[step[r] + 1] = item
         /\ step' = [step EXCEPT ![r] = step[r] + 1]
         /\ step'[r] = step[r] + 1
<1>1. /\ program \in Seq(Items) /\ Len(program) \in Nat
      /\ step \in [Ranks -> 0..MaxItems] /\ step[r] <= Len(program) /\ step[r] \in Nat
  BY SizesAssumption DEF IInv, TypeOK
<1>2. /\ program' = IF step[r] < Len(program) THEN program ELSE Append(program, item)
      /\ step' = [step EXCEPT ![r] = step[r] + 1]
  BY DEF Begin
<1>3. CASE step[r] < Len(program)
  <2>1. item = program[step[r] + 1] BY <1>3 DEF Upcoming
  <2> QED BY <1>1, <1>2, <1>3, <2>1 DEF Begins
<1>4. CASE ~(step[r] < Len(program))
  <2>1. item \in Items BY <1>4 DEF Upcoming
  <2>2. /\ program' = Append(program, item) /\ Len(program') = Len(program) + 1
        /\ program'[Len(program) + 1] = item
        /\ \A i \in 1..Len(program) : program'[i] = program[i]
    BY <1>1, <1>2, <1>4, <2>1
  <2>3. step[r] = Len(program) BY <1>1, <1>4
  <2> QED BY <1>1, <1>2, <2>2, <2>3 DEF Begins
<1> QED BY <1>3, <1>4

(* A step of process r alone. *)
LEMMA OneLocated ==
  ASSUME IInv, Located, NEW r \in Ranks, NEW s, NEW k,
         InCall(s, k, program', r), Begins(program, program'),
         stack' = [stack EXCEPT ![r] = s], step' = [step EXCEPT ![r] = k]
  PROVE  Located'
<1>1. stack \in [Ranks -> Seq(Frame)] /\ step \in [Ranks -> 0..MaxItems]
  BY DEF IInv, TypeOK
<1> SUFFICES ASSUME NEW q \in Ranks PROVE InCall(stack'[q], step'[q], program', q)
  BY DEF Located
<1>2. CASE q = r
  <2>1. stack'[q] = s /\ step'[q] = k BY <1>1, <1>2
  <2> QED BY <1>2, <2>1
<1>3. CASE q # r
  <2>1. stack'[q] = stack[q] /\ step'[q] = step[q] BY <1>1, <1>3
  <2>2. InCall(stack[q], step[q], program, q) BY DEF Located
  <2>3. \A i \in 1..Len(program) : i \in 1..Len(program') /\ program'[i] = program[i]
    BY DEF Begins
  <2> QED BY <2>1, <2>2, <2>3 DEF InCall
<1> QED BY <1>2, <1>3

LEMMA InCallTop ==
  ASSUME NEW s \in Seq(Frame), s # <<>>, NEW k, NEW prog, NEW r, InCall(s, k, prog, r),
         NEW f, f.comm = s[Len(s)].comm
  PROVE  InCall([s EXCEPT ![Len(s)] = f], k, prog, r)
<1> DEFINE t == [s EXCEPT ![Len(s)] = f]
<1>1. Len(t) = Len(s) /\ \A i \in 1..Len(s) : t[i] = IF i = Len(s) THEN f ELSE s[i]
  OBVIOUS
<1> HIDE DEF t
<1>2. \A i \in 1..Len(t) : t[i].comm = s[i].comm BY <1>1
<1>3. InCall(t, k, prog, r) BY <1>1, <1>2 DEF InCall
<1> QED BY <1>3 DEF t

LEMMA InCallStepped ==
  ASSUME NEW s \in Seq(Frame), s # <<>>, NEW k, NEW prog, NEW r, InCall(s, k, prog, r)
  PROVE  InCall(Stepped(s), k, prog, r) /\ Stepped(s) # <<>>
<1> DEFINE f == Next1(s[Len(s)])
<1>1. s[Len(s)] \in Frame /\ Len(s) \in Nat \ {0} BY EmptySeq
<1>2. Stepped(s) = [s EXCEPT ![Len(s)] = f] BY DEF Stepped, Next1
<1>3. f.comm = s[Len(s)].comm BY <1>1 DEF Next1, Frame
<1>4. InCall([s EXCEPT ![Len(s)] = f], k, prog, r) BY <1>3, InCallTop
<1>5. Len([s EXCEPT ![Len(s)] = f]) = Len(s) OBVIOUS
<1>6. Stepped(s) # <<>> BY <1>1, <1>2, <1>5
<1> QED BY <1>2, <1>4, <1>6

LEMMA LocatedNext == IInv /\ Located /\ [Next]_vars => Located'
<1> SUFFICES ASSUME IInv, Located, [Next]_vars PROVE Located'
  OBVIOUS
<1>1. /\ stack \in [Ranks -> Seq(Frame)] /\ step \in [Ranks -> 0..MaxItems]
      /\ Begins(program, program)
  BY BeginsSame DEF IInv, TypeOK
<1>2. ASSUME NEW r \in Ranks, BeginCall(r) PROVE Located'
  <2>1. PICK item \in Upcoming(r) :
          /\ item.what = "call" /\ r \in item.comm /\ Begin(r, item)
          /\ Intercept(r, item.coll, PassedCount(item, r), item.e, item.comm)
    BY <1>2 DEF BeginCall
  <2> DEFINE f == [coll |-> item.coll, n |-> PassedCount(item, r), e |-> item.e,
                   comm |-> item.comm, alg |-> algid'[r][item.coll],
                   default |-> algid'[r][item.coll] = DEFAULT, ip |-> 1]
             k == step[r] + 1
  <2>2. stack[r] = <<>> /\ stack' = [stack EXCEPT ![r] = Append(stack[r], f)]
    BY <2>1 DEF Begin, Intercept
  <2>3. /\ Begins(program, program') /\ k \in 1..Len(program')
        /\ program'[k] = item /\ step' = [step EXCEPT ![r] = k]
    BY <2>1, BeginsNext
  <2>4. f.comm = item.comm OBVIOUS
  <2> HIDE DEF f, k
  <2>5. Append(<<>>, f) = <<f>> /\ Len(<<f>>) = 1 /\ <<f>>[1] = f OBVIOUS
  <2>6. InCall(<<f>>, k, program', r) BY <2>1, <2>3, <2>4, <2>5 DEF InCall
  <2>7. stack' = [stack EXCEPT ![r] = <<f>>] BY <2>2, <2>5
  <2> QED BY <2>3, <2>6, <2>7, OneLocated
<1>3. ASSUME NEW r \in Ranks, SkipCall(r) \/ SetAlgId(r) PROVE Located'
  <2>1. PICK item \in Upcoming(r) : Begin(r, item) /\ stack' = stack
    BY <1>3 DEF SkipCall, SetAlgId
  <2>2. stack' = [stack EXCEPT ![r] = <<>>] BY <1>1, <2>1 DEF Begin
  <2>3. Begins(program, program') /\ step' = [step EXCEPT ![r] = step[r] + 1]
    BY <2>1, BeginsNext
  <2>4. InCall(<<>>, step[r] + 1, program', r) BY DEF InCall
  <2> QED BY <2>2, <2>3, <2>4, OneLocated
<1>4. ASSUME NEW r \in Ranks, NEW s, InCall(s, step[r], program, r),
             stack' = [stack EXCEPT ![r] = s], UNCHANGED <<program, step>>
      PROVE  Located'
  <2>1. step' = [step EXCEPT ![r] = step[r]] /\ program' = program BY <1>1, <1>4
  <2>2. InCall(s, step[r], program', r) BY <1>4, <2>1 DEF InCall
  <2>3. Begins(program, program') BY <1>1, <2>1 DEF Begins
  <2> QED BY <1>4, <2>1, <2>2, <2>3, OneLocated
<1>5. ASSUME NEW r \in Ranks, TakeBuffer(r) \/ GiveBack(r) PROVE Located'
  <2>1. /\ stack' = [stack EXCEPT ![r] = Stepped(stack[r])] /\ stack[r] # <<>>
        /\ UNCHANGED <<program, step>>
    BY <1>5 DEF TakeBuffer, GiveBack, At
  <2>2. InCall(Stepped(stack[r]), step[r], program, r)
    BY <1>1, <2>1, InCallStepped DEF Located
  <2> QED BY <1>4, <2>1, <2>2
<1>6. ASSUME NEW r \in Ranks, GiveUp(r) PROVE Located'
  <2> DEFINE s == stack[r]
             f == GivenUp(Top(r))
  <2>1. /\ stack' = [stack EXCEPT ![r] = [s EXCEPT ![Len(s)] = f]] /\ s # <<>>
        /\ UNCHANGED <<program, step>>
    BY <1>6 DEF GiveUp, At
  <2>2. s \in Seq(Frame) /\ InCall(s, step[r], program, r) BY <1>1 DEF Located
  <2>3. f.comm = s[Len(s)].comm
    <3>1. s[Len(s)] \in Frame BY <2>1, <2>2, EmptySeq
    <3> QED BY <3>1 DEF GivenUp, Top, Frame
  <2> HIDE DEF s, f
  <2>4. InCall([s EXCEPT ![Len(s)] = f], step[r], program, r)
    BY <2>1, <2>2, <2>3, InCallTop
  <2> QED BY <1>4, <2>1, <2>4
<1>7. ASSUME NEW r \in Ranks, CallInner(r) PROVE Located'
  <2> DEFINE s == stack[r]
             i == Instr(Top(r))
             f == [coll |-> i.coll, n |-> i.n, e |-> i.e, comm |-> Top(r).comm,
                   alg |-> algid'[r][i.coll], default |-> algid'[r][i.coll] = DEFAULT,
                   ip |-> 1]
  <2>1. /\ stack' = [stack EXCEPT ![r] = Append(s, f)] /\ s # <<>>
        /\ UNCHANGED <<program, step>>
    BY <1>7 DEF CallInner, Intercept, At
  <2>2. s \in Seq(Frame) /\ InCall(s, step[r], program, r) BY <1>1 DEF Located
  <2>3. f.comm = s[Len(s)].comm BY DEF Top
  <2> HIDE DEF s, f
  <2>4. InCall(Append(s, f), step[r], program, r)
    <3>1. Len(s) \in 1..Len(s) BY <2>1, <2>2, EmptySeq
    <3>2. /\ Len(Append(s, f)) = Len(s) + 1
          /\ \A j \in 1..Len(s) + 1 : Append(s, f)[j] = IF j = Len(s) + 1 THEN f ELSE s[j]
      BY <2>2
    <3>3. \A j \in 1..Len(Append(s, f)) : j = Len(s) + 1 \/ j \in 1..Len(s) BY <3>2
    <3> QED BY <2>1, <2>2, <2>3, <3>1, <3>2, <3>3 DEF InCall
  <2> QED BY <1>4, <2>1, <2>4
<1>8. ASSUME NEW r \in Ranks, Return(r) PROVE Located'
  <2> DEFINE s == stack[r]
             t == SubSeq(s, 1, Len(s) - 1)
  <2>1. /\ stack' = [stack EXCEPT ![r] = IF Len(s) = 1 THEN <<>> ELSE Stepped(t)]
        /\ s # <<>> /\ UNCHANGED <<program, step>>
    BY <1>8 DEF Return
  <2>2. Clean(s, pool[r].used) /\ InCall(s, step[r], program, r) BY DEF IInv, Located
  <2> HIDE DEF s
  <2>3. CASE Len(s) = 1
    <3>1. InCall(<<>>, step[r], program, r) BY DEF InCall
    <3> QED BY <1>4, <2>1, <2>3, <3>1
  <2>4. CASE Len(s) # 1
    <3>1. /\ Clean(t, pool[r].used) /\ t # <<>>
          /\ Len(t) = Len(s) - 1 /\ \A i \in 1..Len(t) : t[i] = s[i]
      BY <2>1, <2>2, <2>4, PopClean
    <3>2. t \in Seq(Frame) /\ Len(s) \in Nat BY <2>2, <3>1 DEF Clean
    <3> HIDE DEF t
    <3>3. \A i \in 1..Len(t) : i \in 1..Len(s) BY <3>1, <3>2
    <3>4. InCall(t, step[r], program, r) BY <2>1, <2>2, <3>1, <3>3 DEF InCall
    <3>5. InCall(Stepped(t), step[r], program, r) BY <3>1, <3>2, <3>4, InCallStepped
    <3> QED BY <1>4, <2>1, <2>4, <3>5
  <2> QED BY <2>3, <2>4
<1>9. ASSUME NEW comm \in Comms, Meet(comm) PROVE Located'
  <2> SUFFICES ASSUME NEW r \in Ranks PROVE InCall(stack'[r], step'[r], program', r)
    BY DEF Located
  <2>1. /\ stack'[r] = IF r \in comm THEN Stepped(stack[r]) ELSE stack[r]
        /\ step' = step /\ program' = program
        /\ r \in comm => stack[r] # <<>>
    BY <1>9 DEF Meet, Ready, IInv, Pending
  <2>2. InCall(stack[r], step[r], program, r) BY DEF Located
  <2> QED BY <1>1, <2>1, <2>2, InCallStepped
<1>10. ASSUME UNCHANGED <<program, step, stack>> PROVE Located'
  BY <1>10 DEF Located
<1>11. ASSUME NEW r \in Ranks, Post(r) PROVE Located' BY <1>10, <1>11 DEF Post
<1> QED BY <1>2, <1>3, <1>5, <1>6, <1>7, <1>8, <1>9, <1>10, <1>11
        DEF Next, Proceed, Finished, vars

-------------------------------------------------------------------------------
(* What changes for the others.                                            *)

Paired ==
  \A r, s \in Ranks :
    OnePath(program, profile, {r, s}, View(r, {r, s}), View(s, {r, s}))

(* A look-up is remembered, and gives what was remembered. *)
LEMMA InterceptPicks ==
  ASSUME IInv, Functional(profile), NEW r \in Ranks, NEW coll \in Collectives,
         NEW n, NEW e, NEW comm, Intercept(r, coll, n, e, comm)
  PROVE  /\ Functional(profile') /\ profile \subseteq profile'
         /\ Picks(profile', Chosen(algid[r]), coll, n, e, comm, algid'[r][coll])
         /\ \A q \in Ranks : Chosen(algid'[q]) = Chosen(algid[q])
         /\ stack' = [stack EXCEPT
              ![r] = Append(stack[r], NewTop(coll, n, e, comm, algid'[r][coll]))]
<1>1. algid \in [Ranks -> [Collectives -> Nat]] BY DEF IInv, TypeOK
<1>2. CASE Tuned
  <2>1. PICK alg \in Answers(coll, n * e, comm) :
          /\ algid' = [algid EXCEPT ![r][coll] = alg]
          /\ profile' = IF Consults(coll, n * e, comm)
                        THEN profile \cup {<<coll, n * e, alg>>} ELSE profile
    BY <1>2 DEF Intercept
  <2>2. algid'[r][coll] = alg BY <1>1, <2>1
  <2>3. CASE Consults(coll, n * e, comm)
    <3> DEFINE new == <<coll, n * e, alg>>
    <3>1. new[1] = coll /\ new[2] = n * e /\ new[3] = alg OBVIOUS
    <3>2. \A t \in profile : t[1] = coll /\ t[2] = n * e => t[3] = alg
      <4> SUFFICES ASSUME NEW t \in profile, t[1] = coll, t[2] = n * e PROVE t[3] = alg
        OBVIOUS
      <4>1. t \in Known(coll, n * e) BY DEF Known
      <4>2. PICK u \in Known(coll, n * e) : alg = u[3] BY <2>1, <2>3, <4>1 DEF Answers
      <4> QED BY <4>1, <4>2 DEF Known, Functional
    <3>3. profile' = profile \cup {new} BY <2>1, <2>3
    <3> HIDE DEF new
    <3>4. Functional(profile') BY <3>1, <3>2, <3>3 DEF Functional
    <3>5. Picks(profile', Chosen(algid[r]), coll, n, e, comm, alg)
      BY <1>2, <2>3, <3>3 DEF Picks, new
    <3> QED BY <1>2, <2>2, <3>3, <3>4, <3>5 DEF Chosen, NewTop, Intercept
  <2>4. CASE ~Consults(coll, n * e, comm)
    <3>1. alg = DEFAULT /\ profile' = profile BY <2>1, <2>4 DEF Answers
    <3>2. Picks(profile', Chosen(algid[r]), coll, n, e, comm, alg)
      BY <1>2, <2>4, <3>1 DEF Picks
    <3> QED BY <1>2, <2>2, <3>1, <3>2 DEF Chosen, NewTop, Intercept
  <2> QED BY <2>3, <2>4
<1>3. CASE ~Tuned
  <2>1. algid' = algid /\ profile' = profile BY <1>3 DEF Intercept
  <2>2. Picks(profile', Chosen(algid[r]), coll, n, e, comm, algid'[r][coll])
    BY <1>3, <2>1 DEF Picks, Chosen
  <2> QED BY <2>1, <2>2 DEF NewTop, Intercept
<1> QED BY <1>2, <1>3

LEMMA ViewInCall ==
  ASSUME NEW r, NEW pair, stack[r] = <<>> \/ Shared(program, pair, step[r])
  PROVE  View(r, pair) = Sight(step[r], stack[r], Tidied(pool[r], stack[r]), Chosen(algid[r]))
<1>1. CASE stack[r] = <<>> BY <1>1 DEF View, Look
<1>2. CASE Shared(program, pair, step[r]) BY <1>2 DEF View, Look
<1> QED BY <1>1, <1>2

LEMMA ViewInCallNext ==
  ASSUME NEW r, NEW pair, stack'[r] = <<>> \/ Shared(program', pair, step'[r])
  PROVE  View(r, pair)' =
           Sight(step'[r], stack'[r], Tidied(pool'[r], stack'[r]), Chosen(algid'[r]))
<1>1. CASE stack'[r] = <<>> BY <1>1 DEF View, Look
<1>2. CASE Shared(program', pair, step'[r]) BY <1>2 DEF View, Look
<1> QED BY <1>1, <1>2

LEMMA ViewElsewhere ==
  ASSUME NEW r, NEW pair, stack[r] # <<>>, ~Shared(program, pair, step[r])
  PROVE  View(r, pair) = Sight(step[r], <<>>, EmptyPool, Chosen(algid[r]))
BY DEF View, Look

LEMMA ViewElsewhereNext ==
  ASSUME NEW r, NEW pair, stack'[r] # <<>>, ~Shared(program', pair, step'[r])
  PROVE  View(r, pair)' = Sight(step'[r], <<>>, EmptyPool, Chosen(algid'[r]))
BY DEF View, Look

(* Nothing in use and nobody to rely on an offset. *)
LEMMA TidiedIdle ==
  ASSUME NEW p, p.used = {}
  PROVE  Tidied(p, <<>>) = EmptyPool
<1>1. \A k : ~HasFirst(<<>>, k) BY DEF HasFirst
<1> QED BY <1>1 DEF Tidied, EmptyPool

(* A process that does not move looks the same. *)
LEMMA ViewStays ==
  ASSUME Located, Begins(program, program'), NEW q \in Ranks, NEW pair,
         stack'[q] = stack[q], step'[q] = step[q], pool'[q] = pool[q],
         Chosen(algid'[q]) = Chosen(algid[q])
  PROVE  View(q, pair)' = View(q, pair)
<1>1. CASE stack[q] = <<>> BY <1>1, ViewInCall, ViewInCallNext
<1>2. CASE stack[q] # <<>>
  <2>1. step[q] \in 1..Len(program) BY <1>2 DEF Located, InCall
  <2>2. program'[step'[q]] = program[step[q]] BY <2>1 DEF Begins
  <2>3. Shared(program', pair, step'[q]) <=> Shared(program, pair, step[q])
    BY <2>2 DEF Shared
  <2>4. CASE Shared(program, pair, step[q]) BY <2>3, <2>4, ViewInCall, ViewInCallNext
  <2>5. CASE ~Shared(program, pair, step[q])
    BY <1>2, <2>3, <2>5, ViewElsewhere, ViewElsewhereNext
  <2> QED BY <2>4, <2>5
<1> QED BY <1>1, <1>2

(* A step of process r alone. *)
LEMMA OnePaired ==
  ASSUME Located, Paired, Functional(profile'), Begins(program, program'),
         profile \subseteq profile', NEW r \in Ranks,
         \A q \in Ranks \ {r} :
           /\ stack'[q] = stack[q] /\ step'[q] = step[q] /\ pool'[q] = pool[q]
           /\ Chosen(algid'[q]) = Chosen(algid[q]),
         \A s \in Ranks \ {r} :
           \/ View(r, {r, s})' = View(r, {r, s})
           \/ Goes(program', profile', {r, s}, View(r, {r, s}), View(r, {r, s})')
  PROVE  Paired'
<1>1. ASSUME NEW s \in Ranks \ {r}
      PROVE  OnePath(program', profile', {r, s}, View(r, {r, s})', View(s, {r, s})')
  <2>1. OnePath(program, profile, {r, s}, View(r, {r, s}), View(s, {r, s}))
    BY DEF Paired
  <2>2. OnePath(program', profile', {r, s}, View(r, {r, s}), View(s, {r, s}))
    BY <2>1, OnePathStill
  <2>3. View(s, {r, s})' = View(s, {r, s}) BY ViewStays
  <2>4. OnePath(program', profile', {r, s}, View(r, {r, s})', View(s, {r, s}))
    BY <2>2, OnePathGrows
  <2> QED BY <2>3, <2>4
<1>2. ASSUME NEW q \in Ranks, NEW s \in Ranks
      PROVE  OnePath(program', profile', {q, s}, View(q, {q, s})', View(s, {q, s})')
  <2>1. CASE q = s BY <2>1, OnePathSame
  <2>2. CASE q = r /\ s # r BY <1>1, <2>2
  <2>3. CASE s = r /\ q # r
    <3>1. OnePath(program', profile', {r, q}, View(r, {r, q})', View(q, {r, q})')
      BY <1>1, <2>3
    <3>2. {r, q} = {q, s} BY <2>3
    <3> QED BY <2>3, <3>1, <3>2, OnePathTurned
  <2>4. CASE q # r /\ s # r /\ q # s
    <3>1. OnePath(program, profile, {q, s}, View(q, {q, s}), View(s, {q, s}))
      BY DEF Paired
    <3>2. View(q, {q, s})' = View(q, {q, s}) /\ View(s, {q, s})' = View(s, {q, s})
      BY <2>4, ViewStays
    <3> QED BY <3>1, <3>2, OnePathStill
  <2> QED BY <2>1, <2>2, <2>3, <2>4
<1> QED BY <1>2 DEF Paired

-------------------------------------------------------------------------------
(* The scratch memory another sees.                                        *)

(* Whoever relies on an offset in t did so in s. *)
Relies(t, s) == \A k \in Kinds : HasFirst(t, k) => HasFirst(s, k)

LEMMA TidySame ==
  ASSUME NEW a, NEW b, NEW t, a.used = b.used,
         \A k \in Kinds : HasFirst(t, k) => a.offset[k] = b.offset[k]
  PROVE  Tidied(a, t) = Tidied(b, t)
BY DEF Tidied

LEMMA TidyTwice ==
  ASSUME NEW p, NEW s, NEW t, Relies(t, s)
  PROVE  Tidied(Tidied(p, s), t) = Tidied(p, t)
BY DEF Tidied, Relies

LEMMA TidyRelease ==
  ASSUME NEW p \in Pools, NEW s, NEW t, Relies(t, s), NEW k
  PROVE  Tidied(Released(Tidied(p, s), k), t) = Tidied(Released(p, k), t)
<1> DEFINE a == Released(Tidied(p, s), k)
           b == Released(p, k)
<1>1. a.used = b.used /\ a.offset = Tidied(p, s).offset /\ b.offset = p.offset
  BY DEF Released, Tidied, Pools
<1>2. \A j \in Kinds : HasFirst(t, j) => a.offset[j] = b.offset[j]
  BY <1>1 DEF Tidied, Relies
<1> QED BY <1>1, <1>2, TidySame

LEMMA TidyGrab ==
  ASSUME NEW p \in Pools, NEW s, NEW t, NEW b \in Bufs, NEW size,
         \A k \in Kinds : HasFirst(t, k) => HasFirst(s, k) \/ b = First(k)
  PROVE  Tidied(Grabbed(Tidied(p, s), b, size), t) = Tidied(Grabbed(p, b, size), t)
<1> DEFINE u == Grabbed(Tidied(p, s), b, size)
           v == Grabbed(p, b, size)
<1>1. p.offset \in [Kinds -> Nat] /\ Kind(b) \in Kinds BY BufKinds DEF Pools
<1>2. u.used = v.used BY DEF Grabbed, Tidied
<1>3. ASSUME NEW k \in Kinds, HasFirst(t, k) PROVE u.offset[k] = v.offset[k]
  <2> DEFINE o == Tidied(p, s).offset
  <2>1. o = [j \in Kinds |-> IF HasFirst(s, j) THEN p.offset[j] ELSE 0] BY DEF Tidied
  <2>2. b = First(k) => Slot(b) = 1 /\ Kind(b) = k BY BufFacts
  <2>3. CASE Slot(b) = 1
    <3>1. /\ u.offset = [o EXCEPT ![Kind(b)] = size \div Unit(Kind(b))]
          /\ v.offset = [p.offset EXCEPT ![Kind(b)] = size \div Unit(Kind(b))]
      BY <2>3 DEF Grabbed
    <3>2. b = First(Kind(b)) BY <2>3, BufFacts, BufKinds
    <3> HIDE DEF o, u, v
    <3>3. CASE k = Kind(b) BY <1>1, <2>1, <3>1, <3>3
    <3>4. CASE k # Kind(b) BY <1>1, <1>3, <2>1, <2>2, <3>1, <3>4
    <3> QED BY <3>3, <3>4
  <2>4. CASE Slot(b) # 1
    <3>1. u.offset = o /\ v.offset = p.offset BY <2>4 DEF Grabbed
    <3>2. HasFirst(s, k) BY <1>3, <2>2, <2>4
    <3> QED BY <2>1, <3>1, <3>2
  <2> QED BY <2>3, <2>4
<1> QED BY <1>2, <1>3, TidySame

(* The innermost wrapper becomes f. *)
LEMMA HasFirstTop ==
  ASSUME NEW s \in Seq(Frame), s # <<>>, NEW f, NEW k, HasFirst([s EXCEPT ![Len(s)] = f], k)
  PROVE  First(k) \in Held(f) \/ \E i \in 1..Len(s) : i # Len(s) /\ First(k) \in Held(s[i])
<1> DEFINE t == [s EXCEPT ![Len(s)] = f]
<1>1. Len(t) = Len(s) /\ \A i \in 1..Len(s) : t[i] = IF i = Len(s) THEN f ELSE s[i]
  OBVIOUS
<1>2. HasFirst(t, k) OBVIOUS
<1> HIDE DEF t
<1> QED BY <1>1, <1>2 DEF HasFirst

LEMMA ReliesTop ==
  ASSUME NEW s \in Seq(Frame), s # <<>>, NEW f, Held(f) \subseteq Held(s[Len(s)])
  PROVE  Relies([s EXCEPT ![Len(s)] = f], s)
<1>1. Len(s) \in 1..Len(s) BY EmptySeq
<1> SUFFICES ASSUME NEW k \in Kinds, HasFirst([s EXCEPT ![Len(s)] = f], k)
             PROVE  HasFirst(s, k)
  BY DEF Relies
<1>2. First(k) \in Held(f) \/ \E i \in 1..Len(s) : i # Len(s) /\ First(k) \in Held(s[i])
  BY HasFirstTop
<1> QED BY <1>1, <1>2 DEF HasFirst

LEMMA ReliesPush ==
  ASSUME NEW s \in Seq(Frame), NEW f, Held(f) = {}
  PROVE  Relies(Append(s, f), s)
<1> DEFINE t == Append(s, f)
<1>1. Len(t) = Len(s) + 1 /\ \A i \in 1..Len(t) : t[i] = IF i = Len(t) THEN f ELSE s[i]
  OBVIOUS
<1>2. Len(s) \in Nat OBVIOUS
<1> HIDE DEF t
<1> QED BY <1>1, <1>2 DEF Relies, HasFirst, t

LEMMA ReliesPop ==
  ASSUME NEW s, NEW used, Clean(s, used), s # <<>>
  PROVE  Relies(Popped(s), s)
<1>1. CASE Len(s) = 1
  <2>1. Popped(s) = <<>> BY <1>1 DEF Popped
  <2> QED BY <2>1 DEF Relies, HasFirst
<1>2. CASE Len(s) # 1
  <2> DEFINE t == SubSeq(s, 1, Len(s) - 1)
             g == t[Len(t)]
  <2>1. /\ Clean(t, used) /\ t # <<>> /\ Suspended(g)
        /\ Len(t) = Len(s) - 1 /\ \A i \in 1..Len(t) : t[i] = s[i]
    BY <1>2, PopClean
  <2>2. Popped(s) = Stepped(t) BY <1>2 DEF Popped
  <2> HIDE DEF t
  <2>3. t \in Seq(Frame) /\ Len(t) \in 1..Len(t) /\ Len(s) \in Nat
    BY <2>1, EmptySeq DEF Clean
  <2>4. GoodFrame(g) BY <2>1, <2>3 DEF Clean
  <2>5. Len(Script(g)) \in Nat BY <2>4, ScriptDisciplined DEF Disciplined
  <2>6. ~AtEnd(g) /\ Script(g)[g.ip].op \notin {"grab", "release"}
    BY <2>1, <2>4, <2>5 DEF Suspended, AtEnd, GoodFrame
  <2>7. Held(Next1(g)) = HeldAfter(Script(g), g.ip) BY <2>4, <2>6, SteppedFrame
  <2>8. g.ip \in Nat \ {0} BY <2>4 DEF GoodFrame, Frame
  <2>9. Held(Next1(g)) = Held(g) BY <2>6, <2>7, <2>8, HeldAfterWork DEF Held
  <2>10. Relies([t EXCEPT ![Len(t)] = Next1(g)], t) BY <2>1, <2>3, <2>9, ReliesTop
  <2>11. Relies(Stepped(t), t) BY <2>10 DEF Stepped, Next1
  <2>12. Relies(t, s)
    <3>1. \A i \in 1..Len(t) : i \in 1..Len(s) BY <2>1, <2>3
    <3> QED BY <2>1, <3>1 DEF Relies, HasFirst
  <2> QED BY <2>2, <2>11, <2>12 DEF Relies
<1> QED BY <1>1, <1>2

-------------------------------------------------------------------------------
(* Every step of a process on its own is the step of its path.             *)

(* A process that has returned from a call has nothing in use.             *)
Idle  == \A r \in Ranks : stack[r] = <<>> => pool[r].used = {}
Alone == OnWorld \/ Idle

(* A process in a shared call, and what it looks like after a step.        *)
Now(r)        == Sight(step[r], stack[r], Tidied(pool[r], stack[r]), Chosen(algid[r]))
After(r, s, p) == Sight(step[r], s, Tidied(p, s), Chosen(algid[r]))

LEMMA SightParts ==
  \A k, s, p, ids : LET x == Sight(k, s, p, ids)
                    IN  x.step = k /\ x.stack = s /\ x.pool = p /\ x.ids = ids
BY DEF Sight

LEMMA TakeBufferWorks ==
  ASSUME IInv, NEW r \in Ranks, TakeBuffer(r), NEW prof
  PROVE  LET g == Instr(Top(r))
         IN  Works(prof, Now(r), After(r, Stepped(stack[r]), Grabbed(pool[r], g.buf, g.size)))
<1> DEFINE s == stack[r]
           f == Top(r)
           g == Instr(f)
           p == pool[r]
           x == Now(r)
<1>1. At(r, "grab") /\ Fits(p, Limit, g.buf, g.size) BY DEF TakeBuffer
<1>2. /\ s \in Seq(Frame) /\ s # <<>> /\ Len(s) \in 1..Len(s)
      /\ f = s[Len(s)] /\ GoodFrame(f) /\ ~AtEnd(f) /\ f.ip \in 1..Len(Script(f))
      /\ Script(f)[f.ip] \in Instructions /\ g = Script(f)[f.ip]
      /\ g.op = "grab" /\ p \in Pools
  BY <1>1, AtFacts
<1>3. g.buf \in Bufs BY <1>2 DEF Instructions
<1>4. /\ x.step = step[r] /\ x.stack = s /\ x.pool = Tidied(p, s)
      /\ x.ids = Chosen(algid[r])
  BY SightParts DEF Now
<1>5. Held(Next1(f)) = Held(f) \cup {g.buf}
  <2>1. Held(Next1(f)) = HeldAfter(Script(f), f.ip) BY <1>2, SteppedFrame
  <2>2. f.ip \in Nat \ {0} BY <1>2 DEF GoodFrame, Frame
  <2> QED BY <1>2, <1>3, <2>1, <2>2, HeldAfterGrab DEF Held
<1>6. Stepped(s) = [s EXCEPT ![Len(s)] = Next1(f)] BY <1>2 DEF Stepped, Next1
<1>7. Disciplined(Script(f)) BY <1>2, ScriptDisciplined
<1> HIDE DEF s, f, g, p, x
<1>8. Fits(Tidied(p, s), Limit, g.buf, g.size)
  <2>1. Tidied(p, s).used = p.used BY DEF Tidied
  <2>2. StartOf(Tidied(p, s), g.buf) = StartOf(p, g.buf)
    <3>1. CASE Slot(g.buf) = 1 BY <3>1 DEF StartOf
    <3>2. CASE Slot(g.buf) = 2
      <4>1. First(Kind(g.buf)) \in Held(f) BY <1>2, <1>7, <3>2 DEF Disciplined, Held
      <4>2. HasFirst(s, Kind(g.buf)) /\ Kind(g.buf) \in Kinds
        BY <1>2, <1>3, <4>1, BufKinds DEF HasFirst
      <4>3. Tidied(p, s).offset[Kind(g.buf)] = p.offset[Kind(g.buf)]
        BY <4>2 DEF Tidied
      <4> QED BY <3>2, <4>3 DEF StartOf
    <3> QED BY <1>3, <3>1, <3>2, BufKinds
  <2> QED BY <1>1, <2>1, <2>2 DEF Fits
<1>9. \A k \in Kinds : HasFirst(Stepped(s), k) => HasFirst(s, k) \/ g.buf = First(k)
  BY <1>2, <1>5, <1>6, HasFirstTop DEF HasFirst
<1>10. Tidied(Grabbed(Tidied(p, s), g.buf, g.size), Stepped(s))
         = Tidied(Grabbed(p, g.buf, g.size), Stepped(s))
  BY <1>2, <1>3, <1>9, TidyGrab
<1>11. After(r, Stepped(s), Grabbed(p, g.buf, g.size))
         = Onto(x, Stepped(s), Grabbed(x.pool, g.buf, g.size))
  BY <1>4, <1>10 DEF After, Onto
<1>12. Works(prof, x, Onto(x, Stepped(s), Grabbed(x.pool, g.buf, g.size)))
  BY <1>2, <1>4, <1>8 DEF Works, g
<1> QED BY <1>11, <1>12 DEF s, f, g, p, x

LEMMA GiveUpWorks ==
  ASSUME IInv, NEW r \in Ranks, GiveUp(r), NEW prof
  PROVE  Works(prof, Now(r),
               After(r, [stack[r] EXCEPT ![Len(stack[r])] = GivenUp(Top(r))], pool[r]))
<1> DEFINE s == stack[r]
           f == Top(r)
           g == Instr(f)
           p == pool[r]
           x == Now(r)
           t == [s EXCEPT ![Len(s)] = GivenUp(f)]
<1>1. At(r, "grab") /\ ~Fits(p, Limit, g.buf, g.size) BY DEF GiveUp
<1>2. /\ s \in Seq(Frame) /\ s # <<>> /\ Len(s) \in 1..Len(s)
      /\ f = s[Len(s)] /\ GoodFrame(f) /\ ~AtEnd(f)
      /\ Script(f)[f.ip] \in Instructions /\ g = Script(f)[f.ip]
      /\ g.op = "grab"
  BY <1>1, AtFacts
<1>3. g.buf \in Bufs BY <1>2 DEF Instructions
<1>4. /\ x.step = step[r] /\ x.stack = s /\ x.pool = Tidied(p, s)
      /\ x.ids = Chosen(algid[r])
  BY SightParts DEF Now
<1>5. Held(GivenUp(f)) = {} BY <1>2, GivenUpFrame
<1>6. Disciplined(Script(f)) /\ f.ip \in 1..Len(Script(f)) BY <1>2, ScriptDisciplined, InstrFacts
<1> HIDE DEF s, f, g, p, x
<1>7. ~Fits(Tidied(p, s), Limit, g.buf, g.size)
  <2>1. Tidied(p, s).used = p.used BY DEF Tidied
  <2>2. StartOf(Tidied(p, s), g.buf) = StartOf(p, g.buf)
    <3>1. CASE Slot(g.buf) = 1 BY <3>1 DEF StartOf
    <3>2. CASE Slot(g.buf) = 2
      <4>1. First(Kind(g.buf)) \in Held(f) BY <1>2, <1>6, <3>2 DEF Disciplined, Held
      <4>2. HasFirst(s, Kind(g.buf)) /\ Kind(g.buf) \in Kinds
        BY <1>2, <1>3, <4>1, BufKinds DEF HasFirst
      <4>3. Tidied(p, s).offset[Kind(g.buf)] = p.offset[Kind(g.buf)]
        BY <4>2 DEF Tidied
      <4> QED BY <3>2, <4>3 DEF StartOf
    <3> QED BY <1>3, <3>1, <3>2, BufKinds
  <2> QED BY <1>1, <2>1, <2>2 DEF Fits
<1>8. Relies(t, s) BY <1>2, <1>5, ReliesTop
<1> HIDE DEF t
<1>9. Tidied(Tidied(p, s), t) = Tidied(p, t) BY <1>8, TidyTwice
<1>10. After(r, t, p) = Onto(x, t, x.pool) BY <1>4, <1>9 DEF After, Onto
<1>11. Works(prof, x, Onto(x, t, x.pool)) BY <1>2, <1>4, <1>7 DEF Works, g, t
<1> QED BY <1>10, <1>11 DEF s, f, p, x, t

LEMMA GiveBackWorks ==
  ASSUME IInv, NEW r \in Ranks, GiveBack(r), NEW prof
  PROVE  Works(prof, Now(r),
               After(r, Stepped(stack[r]), Released(pool[r], Instr(Top(r)).kind)))
<1> DEFINE s == stack[r]
           f == Top(r)
           i == Instr(f)
           p == pool[r]
           x == Now(r)
<1>1. At(r, "release") BY DEF GiveBack
<1>2. /\ s \in Seq(Frame) /\ s # <<>>
      /\ f = s[Len(s)] /\ GoodFrame(f) /\ ~AtEnd(f)
      /\ i = Script(f)[f.ip] /\ i.op = "release" /\ p \in Pools
  BY <1>1, AtFacts
<1>3. /\ x.step = step[r] /\ x.stack = s /\ x.pool = Tidied(p, s)
      /\ x.ids = Chosen(algid[r])
  BY SightParts DEF Now
<1>4. Held(Next1(f)) \subseteq Held(f)
  <2>1. Held(Next1(f)) = HeldAfter(Script(f), f.ip) BY <1>2, SteppedFrame
  <2>2. f.ip \in Nat \ {0} BY <1>2 DEF GoodFrame, Frame
  <2> QED BY <1>2, <2>1, <2>2, HeldAfterRelease DEF Held
<1>5. Stepped(s) = [s EXCEPT ![Len(s)] = Next1(f)] BY <1>2 DEF Stepped, Next1
<1> HIDE DEF s, f, i, p, x
<1>6. Relies(Stepped(s), s) BY <1>2, <1>4, <1>5, ReliesTop
<1>7. Tidied(Released(Tidied(p, s), i.kind), Stepped(s)) = Tidied(Released(p, i.kind), Stepped(s))
  BY <1>2, <1>6, TidyRelease
<1>8. After(r, Stepped(s), Released(p, i.kind)) = Onto(x, Stepped(s), Released(x.pool, i.kind))
  BY <1>3, <1>7 DEF After, Onto
<1>9. Works(prof, x, Onto(x, Stepped(s), Released(x.pool, i.kind)))
  BY <1>2, <1>3 DEF Works, i
<1> QED BY <1>8, <1>9 DEF s, f, i, p, x

LEMMA ReturnWorks ==
  ASSUME IInv, NEW r \in Ranks, Return(r), NEW prof
  PROVE  Works(prof, Now(r), After(r, Popped(stack[r]), pool[r]))
<1> DEFINE s == stack[r]
           f == Top(r)
           p == pool[r]
           x == Now(r)
<1>1. s # <<>> /\ AtEnd(f) /\ f = s[Len(s)] BY DEF Return, Top
<1>2. Relies(Popped(s), s) BY <1>1, ReliesPop DEF IInv
<1>3. /\ x.step = step[r] /\ x.stack = s /\ x.pool = Tidied(p, s)
      /\ x.ids = Chosen(algid[r])
  BY SightParts DEF Now
<1> HIDE DEF s, f, p, x
<1>4. Tidied(Tidied(p, s), Popped(s)) = Tidied(p, Popped(s)) BY <1>2, TidyTwice
<1>5. After(r, Popped(s), p) = Onto(x, Popped(s), x.pool) BY <1>3, <1>4 DEF After, Onto
<1>6. Works(prof, x, Onto(x, Popped(s), x.pool)) BY <1>1, <1>3 DEF Works
<1> QED BY <1>5, <1>6 DEF s, p, x

LEMMA CallInnerWorks ==
  ASSUME IInv, Functional(profile), NEW r \in Ranks, CallInner(r)
  PROVE  LET i == Instr(Top(r))
             f == NewTop(i.coll, i.n, i.e, Top(r).comm, algid'[r][i.coll])
         IN  Works(profile', Now(r), After(r, Append(stack[r], f), pool[r]))
<1> DEFINE s == stack[r]
           f == Top(r)
           i == Instr(f)
           p == pool[r]
           x == Now(r)
           a == algid'[r][i.coll]
           g == NewTop(i.coll, i.n, i.e, f.comm, a)
<1>1. At(r, "call") /\ Intercept(r, i.coll, i.n, i.e, f.comm) BY DEF CallInner
<1>2. /\ s \in Seq(Frame) /\ s # <<>>
      /\ f = s[Len(s)] /\ ~AtEnd(f)
      /\ Script(f)[f.ip] \in Instructions /\ i = Script(f)[f.ip] /\ i.op = "call"
  BY <1>1, AtFacts
<1>3. i.coll \in Collectives BY <1>2 DEF Instructions
<1>4. /\ x.step = step[r] /\ x.stack = s /\ x.pool = Tidied(p, s)
      /\ x.ids = Chosen(algid[r])
  BY SightParts DEF Now
<1>5. Picks(profile', x.ids, i.coll, i.n, i.e, f.comm, a)
  BY <1>1, <1>3, <1>4, InterceptPicks
<1>6. Held(g) = {} BY HeldAtFirst DEF NewTop
<1> HIDE DEF s, f, i, p, x, a, g
<1>7. Relies(Append(s, g), s) BY <1>2, <1>6, ReliesPush
<1>8. Tidied(Tidied(p, s), Append(s, g)) = Tidied(p, Append(s, g)) BY <1>7, TidyTwice
<1>9. After(r, Append(s, g), p) = Onto(x, Append(s, g), x.pool)
  BY <1>4, <1>8 DEF After, Onto
<1>10. Works(profile', x, Onto(x, Append(s, g), x.pool))
  BY <1>2, <1>4, <1>5 DEF Works, i, g
<1> QED BY <1>9, <1>10 DEF s, f, i, p, x, a, g
-------------------------------------------------------------------------------
(* Every step keeps two processes on one path.                             *)

LEMMA FunctionalNext ==
  ASSUME IInv, Functional(profile), [Next]_vars
  PROVE  Functional(profile') /\ profile \subseteq profile'
<1>1. ASSUME NEW r \in Ranks, BeginCall(r)
      PROVE  Functional(profile') /\ profile \subseteq profile'
  <2>1. PICK item \in Upcoming(r) :
          /\ item.what = "call" /\ Begin(r, item)
          /\ Intercept(r, item.coll, PassedCount(item, r), item.e, item.comm)
    BY <1>1 DEF BeginCall
  <2>2. item \in Items BY <2>1, BeginFacts
  <2>3. item.coll \in Collectives BY <2>2, ItemsAssumption DEF CallItem, SetItem
  <2> QED BY <2>1, <2>3, InterceptPicks
<1>2. ASSUME NEW r \in Ranks, CallInner(r)
      PROVE  Functional(profile') /\ profile \subseteq profile'
  <2> DEFINE i == Instr(Top(r))
  <2>1. At(r, "call") /\ Intercept(r, i.coll, i.n, i.e, Top(r).comm)
    BY <1>2 DEF CallInner
  <2>2. i \in Instructions /\ i.op = "call" BY <2>1, AtFacts
  <2>3. i.coll \in Collectives BY <2>2 DEF Instructions
  <2> QED BY <2>1, <2>3, InterceptPicks
<1>3. ASSUME profile' = profile PROVE Functional(profile') /\ profile \subseteq profile'
  BY <1>3
<1>4. ASSUME NEW r \in Ranks,
             \/ SkipCall(r) \/ SetAlgId(r) \/ TakeBuffer(r) \/ GiveUp(r)
             \/ Post(r) \/ GiveBack(r) \/ Return(r)
      PROVE  Functional(profile') /\ profile \subseteq profile'
  BY <1>3, <1>4 DEF SkipCall, SetAlgId, TakeBuffer, GiveUp, Post, GiveBack, Return
<1>5. ASSUME NEW comm \in Comms, Meet(comm)
      PROVE  Functional(profile') /\ profile \subseteq profile'
  BY <1>3, <1>5 DEF Meet, Ready
<1> QED BY <1>1, <1>2, <1>3, <1>4, <1>5 DEF Next, Proceed, Finished, vars

LEMMA SharedWorld ==
  ASSUME IInv, Located, OnWorld, NEW r \in Ranks, stack[r] # <<>>,
         NEW pair \in SUBSET Ranks
  PROVE  Shared(program, pair, step[r])
<1>1. step[r] \in 1..Len(program) /\ program[step[r]].what = "call"
  BY DEF Located, InCall
<1>2. program \in Seq(Items) BY DEF IInv, TypeOK
<1>3. program[step[r]] \in Items BY <1>1, <1>2
<1>4. program[step[r]].comm = Ranks BY <1>1, <1>3 DEF OnWorld
<1> QED BY <1>1, <1>4 DEF Shared

(* A step of process r on its own inside a call.                           *)
LEMMA InsidePaired ==
  ASSUME IInv, Located, Functional(profile), Paired, Alone, [Next]_vars,
         \A q \in Ranks : stack'[q] = <<>> => OnWorld \/ pool'[q].used = {},
         NEW r \in Ranks, stack[r] # <<>>, NEW s, NEW p,
         stack' = [stack EXCEPT ![r] = s], pool' = [pool EXCEPT ![r] = p],
         UNCHANGED <<program, step>>,
         \A q \in Ranks : Chosen(algid'[q]) = Chosen(algid[q]),
         Works(profile', Now(r), After(r, s, p))
  PROVE  Paired'
<1>1. stack \in [Ranks -> Seq(Frame)] /\ pool \in [Ranks -> Pools] BY DEF IInv, TypeOK
<1>2. stack'[r] = s /\ pool'[r] = p BY <1>1
<1>3. Functional(profile') /\ profile \subseteq profile' BY FunctionalNext
<1>4. Begins(program, program') BY BeginsSame DEF Begins
<1>5. \A q \in Ranks \ {r} : stack'[q] = stack[q] /\ step'[q] = step[q] /\ pool'[q] = pool[q]
  BY <1>1
<1>6. ASSUME NEW q \in Ranks \ {r}
      PROVE  \/ View(r, {r, q})' = View(r, {r, q})
             \/ Goes(program', profile', {r, q}, View(r, {r, q}), View(r, {r, q})')
  <2>1. Shared(program', {r, q}, step'[r]) <=> Shared(program, {r, q}, step[r])
    BY DEF Shared
  <2>2. CASE Shared(program, {r, q}, step[r])
    <3>1. View(r, {r, q}) = Now(r) BY <2>2, ViewInCall DEF Now
    <3>2. View(r, {r, q})' = After(r, s, p) BY <1>2, <2>1, <2>2, ViewInCallNext DEF After
    <3> QED BY <3>1, <3>2 DEF Goes
  <2>3. CASE ~Shared(program, {r, q}, step[r])
    <3>1. ~OnWorld
      <4>1. {r, q} \in SUBSET Ranks OBVIOUS
      <4> QED BY <2>3, <4>1, SharedWorld
    <3>2. View(r, {r, q}) = Sight(step[r], <<>>, EmptyPool, Chosen(algid[r]))
      BY <2>3, ViewElsewhere
    <3>3. View(r, {r, q})' = Sight(step'[r], <<>>, EmptyPool, Chosen(algid'[r]))
      <4>1. CASE s # <<>> BY <1>2, <2>1, <2>3, <4>1, ViewElsewhereNext
      <4>2. CASE s = <<>>
        <5>1. pool'[r].used = {} BY <1>2, <3>1, <4>2
        <5>2. Tidied(pool'[r], <<>>) = EmptyPool BY <5>1, TidiedIdle
        <5> QED BY <1>2, <4>2, <5>2, ViewInCallNext
      <4> QED BY <4>1, <4>2
    <3> QED BY <3>2, <3>3
  <2> QED BY <2>2, <2>3
<1> QED BY <1>3, <1>4, <1>5, <1>6, OnePaired

LEMMA ProceedPaired ==
  ASSUME IInv, Located, Functional(profile), Paired, Alone, [Next]_vars,
         \A q \in Ranks : stack'[q] = <<>> => OnWorld \/ pool'[q].used = {},
         NEW r \in Ranks,
         TakeBuffer(r) \/ GiveUp(r) \/ CallInner(r) \/ GiveBack(r) \/ Return(r)
  PROVE  Paired'
<1>1. pool \in [Ranks -> Pools] BY DEF IInv, TypeOK
<1>2. CASE TakeBuffer(r)
  <2> DEFINE g == Instr(Top(r))
             s == Stepped(stack[r])
             p == Grabbed(pool[r], g.buf, g.size)
  <2>1. /\ stack[r] # <<>> /\ stack' = [stack EXCEPT ![r] = s]
        /\ pool' = [pool EXCEPT ![r] = p] /\ UNCHANGED <<program, step, algid>>
    BY <1>2 DEF TakeBuffer, At
  <2>2. Works(profile', Now(r), After(r, s, p)) BY <1>2, TakeBufferWorks
  <2> HIDE DEF s, p
  <2> QED BY <2>1, <2>2, InsidePaired
<1>3. CASE GiveUp(r)
  <2> DEFINE s == [stack[r] EXCEPT ![Len(stack[r])] = GivenUp(Top(r))]
  <2>1. /\ stack[r] # <<>> /\ stack' = [stack EXCEPT ![r] = s]
        /\ pool' = [pool EXCEPT ![r] = pool[r]] /\ UNCHANGED <<program, step, algid>>
    BY <1>1, <1>3 DEF GiveUp, At
  <2>2. Works(profile', Now(r), After(r, s, pool[r])) BY <1>3, GiveUpWorks
  <2> HIDE DEF s
  <2> QED BY <2>1, <2>2, InsidePaired
<1>4. CASE CallInner(r)
  <2> DEFINE i == Instr(Top(r))
             f == NewTop(i.coll, i.n, i.e, Top(r).comm, algid'[r][i.coll])
             s == Append(stack[r], f)
  <2>1. /\ At(r, "call") /\ Intercept(r, i.coll, i.n, i.e, Top(r).comm)
        /\ UNCHANGED <<program, step, pool>>
    BY <1>4 DEF CallInner
  <2>2. i \in Instructions /\ i.op = "call" BY <2>1, AtFacts
  <2>3. i.coll \in Collectives BY <2>2 DEF Instructions
  <2>4. /\ \A q \in Ranks : Chosen(algid'[q]) = Chosen(algid[q])
        /\ stack' = [stack EXCEPT ![r] = s]
    BY <2>1, <2>3, InterceptPicks
  <2>5. stack[r] # <<>> /\ pool' = [pool EXCEPT ![r] = pool[r]] BY <1>1, <2>1 DEF At
  <2>6. Works(profile', Now(r), After(r, s, pool[r])) BY <1>4, CallInnerWorks
  <2> HIDE DEF s, i
  <2> QED BY <2>1, <2>4, <2>5, <2>6, InsidePaired
<1>5. CASE GiveBack(r)
  <2> DEFINE s == Stepped(stack[r])
             p == Released(pool[r], Instr(Top(r)).kind)
  <2>1. /\ stack[r] # <<>> /\ stack' = [stack EXCEPT ![r] = s]
        /\ pool' = [pool EXCEPT ![r] = p] /\ UNCHANGED <<program, step, algid>>
    BY <1>5 DEF GiveBack, At
  <2>2. Works(profile', Now(r), After(r, s, p)) BY <1>5, GiveBackWorks
  <2> HIDE DEF s, p
  <2> QED BY <2>1, <2>2, InsidePaired
<1>6. CASE Return(r)
  <2> DEFINE s == Popped(stack[r])
  <2>1. /\ stack[r] # <<>> /\ stack' = [stack EXCEPT ![r] = s]
        /\ pool' = [pool EXCEPT ![r] = pool[r]] /\ UNCHANGED <<program, step, algid>>
    BY <1>1, <1>6 DEF Return, Popped
  <2>2. Works(profile', Now(r), After(r, s, pool[r])) BY <1>6, ReturnWorks
  <2> HIDE DEF s
  <2> QED BY <2>1, <2>2, InsidePaired
<1> QED BY <1>2, <1>3, <1>4, <1>5, <1>6
(* A process between two calls looks the same to everyone.                 *)
LEMMA ViewOutside ==
  ASSUME NEW r, NEW pair, stack[r] = <<>>
  PROVE  View(r, pair) = Sight(step[r], <<>>, Tidied(pool[r], <<>>), Chosen(algid[r]))
BY ViewInCall

LEMMA BeginCallPaired ==
  ASSUME SameCounts, IInv, Located, Functional(profile), Paired, Alone, [Next]_vars,
         NEW r \in Ranks, BeginCall(r)
  PROVE  Paired'
<1>1. PICK item \in Upcoming(r) :
        /\ item.what = "call" /\ r \in item.comm /\ Begin(r, item)
        /\ Intercept(r, item.coll, PassedCount(item, r), item.e, item.comm)
        /\ pool' = pool
  BY DEF BeginCall
<1>2. item \in Items /\ stack[r] = <<>> BY <1>1, BeginFacts
<1>3. item \in CallItem BY <1>1, <1>2, ItemsAssumption DEF SetItem
<1>4. PassedCount(item, r) = item.n /\ item.coll \in Collectives
  BY <1>1, <1>2, <1>3 DEF PassedCount, SameCounts, CallItem
<1> DEFINE k == step[r] + 1
           f == NewTop(item.coll, item.n, item.e, item.comm, algid'[r][item.coll])
<1>5. /\ Begins(program, program') /\ k \in 1..Len(program') /\ program'[k] = item
      /\ step' = [step EXCEPT ![r] = k] /\ step'[r] = k
  BY <1>1, BeginsNext
<1>6. /\ Functional(profile') /\ profile \subseteq profile'
      /\ Picks(profile', Chosen(algid[r]), item.coll, item.n, item.e, item.comm,
               algid'[r][item.coll])
      /\ \A q \in Ranks : Chosen(algid'[q]) = Chosen(algid[q])
      /\ stack' = [stack EXCEPT ![r] = Append(stack[r], f)]
  BY <1>1, <1>4, InterceptPicks
<1>7. /\ stack \in [Ranks -> Seq(Frame)] /\ step \in [Ranks -> 0..MaxItems]
  BY DEF IInv, TypeOK
<1>8. f.ip = 1 BY DEF NewTop
<1> HIDE DEF f
<1>9. stack'[r] = <<f>> /\ <<f>> # <<>> /\ Len(<<f>>) = 1 /\ <<f>>[1] = f
  BY <1>2, <1>6, <1>7
<1>10. \A q \in Ranks \ {r} : /\ stack'[q] = stack[q] /\ step'[q] = step[q] /\ pool'[q] = pool[q]
                              /\ Chosen(algid'[q]) = Chosen(algid[q])
  BY <1>1, <1>5, <1>6, <1>7
<1>11. ASSUME NEW q \in Ranks \ {r}
       PROVE  \/ View(r, {r, q})' = View(r, {r, q})
              \/ Goes(program', profile', {r, q}, View(r, {r, q}), View(r, {r, q})')
  <2> DEFINE x == View(r, {r, q})
             y == View(r, {r, q})'
  <2>1. x = Sight(step[r], <<>>, Tidied(pool[r], <<>>), Chosen(algid[r]))
    BY <1>2, ViewOutside
  <2>2. /\ x.step = step[r] /\ x.stack = <<>> /\ x.pool = Tidied(pool[r], <<>>)
        /\ x.ids = Chosen(algid[r])
    BY <2>1, SightParts
  <2>3. CASE {r, q} \subseteq item.comm
    <3>1. Shared(program', {r, q}, step'[r]) BY <1>1, <1>5, <2>3 DEF Shared
    <3>2. y = Sight(k, <<f>>, Tidied(pool[r], <<f>>), Chosen(algid[r]))
      BY <1>1, <1>5, <1>6, <1>9, <3>1, ViewInCallNext
    <3>3. Tidied(pool[r], <<f>>) = Tidied(pool[r], <<>>)
      <4>1. Held(f) = {} BY <1>8, HeldAtFirst
      <4>2. \A kind : ~HasFirst(<<f>>, kind) /\ ~HasFirst(<<>>, kind)
        BY <1>9, <4>1 DEF HasFirst
      <4> QED BY <4>2 DEF Tidied
    <3>4. y = Sight(x.step + 1, <<f>>, x.pool, x.ids) BY <2>2, <3>2, <3>3
    <3> HIDE DEF x, y
    <3>5. x.step + 1 \in 1..Len(program') /\ program'[x.step + 1] = item BY <1>5, <2>2
    <3>6. Enters(program', profile', {r, q}, x, y)
      BY <1>1, <1>6, <2>2, <2>3, <3>4, <3>5 DEF Enters, f
    <3> QED BY <3>6 DEF Goes, x, y
  <2>4. CASE ~({r, q} \subseteq item.comm)
    <3>1. ~Shared(program', {r, q}, step'[r]) BY <1>5, <2>4 DEF Shared
    <3>2. y = Sight(k, <<>>, EmptyPool, Chosen(algid[r]))
      BY <1>5, <1>6, <1>9, <3>1, ViewElsewhereNext
    <3>3. ~OnWorld BY <1>1, <1>2, <2>4 DEF OnWorld
    <3>4. Tidied(pool[r], <<>>) = EmptyPool BY <1>2, <3>3, TidiedIdle DEF Alone, Idle
    <3>5. y = Sight(x.step + 1, <<>>, x.pool, x.ids) BY <2>2, <3>2, <3>4
    <3> HIDE DEF x, y
    <3>6. x.step + 1 \in 1..Len(program') /\ program'[x.step + 1] = item BY <1>5, <2>2
    <3>7. Enters(program', profile', {r, q}, x, y)
      BY <1>1, <2>2, <2>4, <3>5, <3>6 DEF Enters
    <3> QED BY <3>7 DEF Goes, x, y
  <2> QED BY <2>3, <2>4
<1> QED BY <1>5, <1>6, <1>10, <1>11, OnePaired

(* An item that is not a call of r. *)
LEMMA PassPaired ==
  ASSUME IInv, Located, Functional(profile), Paired, [Next]_vars,
         NEW r \in Ranks, SkipCall(r) \/ SetAlgId(r)
  PROVE  Paired'
<1>1. PICK item \in Upcoming(r) :
        /\ Begin(r, item) /\ UNCHANGED <<stack, pool, profile>>
        /\ \/ item.what = "call" /\ r \notin item.comm /\ algid' = algid
           \/ item.what = "set" /\ algid' = [algid EXCEPT ![r][item.coll] = item.alg]
  BY DEF SkipCall, SetAlgId
<1>2. item \in Items /\ stack[r] = <<>> BY <1>1, BeginFacts
<1> DEFINE k == step[r] + 1
<1>3. /\ Begins(program, program') /\ k \in 1..Len(program') /\ program'[k] = item
      /\ step' = [step EXCEPT ![r] = k] /\ step'[r] = k
  BY <1>1, BeginsNext
<1>4. /\ step \in [Ranks -> 0..MaxItems] /\ algid \in [Ranks -> [Collectives -> Nat]]
  BY DEF IInv, TypeOK
<1>5. \A q \in Ranks \ {r} : /\ stack'[q] = stack[q] /\ step'[q] = step[q] /\ pool'[q] = pool[q]
                             /\ Chosen(algid'[q]) = Chosen(algid[q])
  BY <1>1, <1>3, <1>4
<1>6. ASSUME NEW q \in Ranks \ {r}
      PROVE  Goes(program', profile', {r, q}, View(r, {r, q}), View(r, {r, q})')
  <2> DEFINE x == View(r, {r, q})
             y == View(r, {r, q})'
  <2>1. x = Sight(step[r], <<>>, Tidied(pool[r], <<>>), Chosen(algid[r]))
    BY <1>2, ViewOutside
  <2>2. /\ x.step = step[r] /\ x.stack = <<>> /\ x.pool = Tidied(pool[r], <<>>)
        /\ x.ids = Chosen(algid[r])
    BY <2>1, SightParts
  <2>3. y = Sight(k, <<>>, Tidied(pool[r], <<>>), Chosen(algid'[r]))
    BY <1>1, <1>2, <1>3, ViewInCallNext
  <2>4. x.step + 1 \in 1..Len(program') /\ program'[x.step + 1] = item BY <1>3, <2>2
  <2>5. CASE item.what = "call" /\ r \notin item.comm /\ algid' = algid
    <3>1. y = Sight(x.step + 1, <<>>, x.pool, x.ids) BY <2>2, <2>3, <2>5
    <3> HIDE DEF x, y
    <3>2. Enters(program', profile', {r, q}, x, y)
      BY <2>2, <2>4, <2>5, <3>1 DEF Enters
    <3> QED BY <3>2 DEF Goes, x, y
  <2>6. CASE item.what = "set" /\ algid' = [algid EXCEPT ![r][item.coll] = item.alg]
    <3>1. algid'[r] = [algid[r] EXCEPT ![item.coll] = item.alg] BY <1>4, <2>6
    <3>2. Chosen(algid'[r]) = Chosen([x.ids EXCEPT ![item.coll] = item.alg])
      BY <2>2, <3>1 DEF Chosen
    <3>3. y = Sight(x.step + 1, <<>>, x.pool, Chosen([x.ids EXCEPT ![item.coll] = item.alg]))
      BY <2>2, <2>3, <3>2
    <3> HIDE DEF x, y
    <3>4. Enters(program', profile', {r, q}, x, y)
      BY <2>2, <2>4, <2>6, <3>3 DEF Enters
    <3> QED BY <3>4 DEF Goes, x, y
  <2> QED BY <1>1, <2>5, <2>6
<1>7. Functional(profile') /\ profile \subseteq profile' BY FunctionalNext
<1> QED BY <1>3, <1>5, <1>6, <1>7, OnePaired
(* What a process waits for MPI with: the call it is in.                   *)
LEMMA WaitsInCall ==
  ASSUME IInv, Located, NEW r \in Ranks, waiting[r]
  PROVE  /\ Pending(stack[r]) /\ stack[r] # <<>>
         /\ step[r] \in 1..Len(program) /\ program[step[r]].what = "call"
         /\ program[step[r]].comm = Top(r).comm /\ r \in Top(r).comm
<1>1. Pending(stack[r]) /\ stack[r] # <<>> BY DEF IInv, Pending
<1>2. stack[r] \in Seq(Frame) BY DEF IInv, TypeOK
<1>3. Len(stack[r]) \in 1..Len(stack[r]) BY <1>1, <1>2, EmptySeq
<1> QED BY <1>1, <1>3 DEF Located, InCall, Top

(* Of two that wait for each other neither is ahead. *)
LEMMA WaitTogether ==
  ASSUME IInv, Located, Paired, NEW r \in Ranks, NEW s \in Ranks,
         waiting[r], waiting[s], Top(r).comm = Top(s).comm
  PROVE  /\ step[r] = step[s] /\ stack[r] = stack[s] /\ Chosen(algid[r]) = Chosen(algid[s])
         /\ Tidied(pool[r], stack[r]) = Tidied(pool[s], stack[r])
<1>1. /\ Pending(stack[r]) /\ program[step[r]].what = "call"
      /\ program[step[r]].comm = Top(r).comm /\ r \in Top(r).comm
      /\ Pending(stack[s]) /\ program[step[s]].what = "call"
      /\ program[step[s]].comm = Top(s).comm /\ s \in Top(s).comm
  BY WaitsInCall
<1>2. Shared(program, {r, s}, step[r]) /\ Shared(program, {r, s}, step[s])
  BY <1>1 DEF Shared
<1>3. View(r, {r, s}) = Now(r) /\ View(s, {r, s}) = Now(s) BY <1>2, ViewInCall DEF Now
<1>4. /\ Now(r).step = step[r] /\ Now(r).stack = stack[r]
      /\ Now(r).pool = Tidied(pool[r], stack[r]) /\ Now(r).ids = Chosen(algid[r])
      /\ Now(s).step = step[s] /\ Now(s).stack = stack[s]
      /\ Now(s).pool = Tidied(pool[s], stack[s]) /\ Now(s).ids = Chosen(algid[s])
  BY SightParts DEF Now
<1>5. OnePath(program, profile, {r, s}, Now(r), Now(s)) BY <1>3 DEF Paired
<1>6. Now(r) = Now(s) BY <1>1, <1>4, <1>5, PathFromPending
<1> QED BY <1>4, <1>6

(* An operation of MPI neither takes nor gives back a buffer. *)
LEMMA PendingRelies ==
  ASSUME NEW s, NEW used, Clean(s, used), Pending(s)
  PROVE  Relies(Stepped(s), s) /\ Stepped(s) # <<>>
<1> DEFINE f == s[Len(s)]
<1>1. s \in Seq(Frame) /\ s # <<>> /\ ~AtEnd(f) /\ Instr(f).op = "mpi"
  BY DEF Clean, Pending
<1>2. Len(s) \in 1..Len(s) BY <1>1, EmptySeq
<1>3. GoodFrame(f) BY <1>2 DEF Clean
<1>4. /\ f.ip \in 1..Len(Script(f)) /\ Script(f)[f.ip].op \in {"call", "mpi"}
      /\ Held(Next1(f)) = HeldAfter(Script(f), f.ip)
  BY <1>1, <1>3, InstrFacts, SteppedFrame
<1>5. f.ip \in Nat \ {0} BY <1>3 DEF GoodFrame, Frame
<1>6. Held(Next1(f)) = Held(f) BY <1>4, <1>5, HeldAfterWork DEF Held
<1>7. Stepped(s) = [s EXCEPT ![Len(s)] = Next1(f)] BY SteppedTop, <1>1
<1>8. Relies(Stepped(s), s) BY <1>1, <1>6, <1>7, ReliesTop
<1>9. Len(Stepped(s)) = Len(s) BY <1>1, <1>7
<1> QED BY <1>2, <1>8, <1>9

LEMMA MeetPaired ==
  ASSUME IInv, Located, Functional(profile), Paired,
         NEW comm \in Comms, Meet(comm)
  PROVE  Paired'
<1>1. /\ \A r \in comm : waiting[r] /\ Top(r).comm = comm
      /\ stack' = [r \in Ranks |-> IF r \in comm THEN Stepped(stack[r]) ELSE stack[r]]
      /\ UNCHANGED <<program, step, pool, algid, profile>>
      /\ comm \subseteq Ranks
  BY DEF Meet, Ready, Comms
<1>2. Begins(program, program') BY <1>1, BeginsSame DEF Begins
<1>3. ASSUME NEW r \in comm
      PROVE  /\ r \in Ranks /\ Pending(stack[r]) /\ stack[r] # <<>>
             /\ program[step[r]].what = "call" /\ program[step[r]].comm = comm
             /\ stack'[r] = Stepped(stack[r]) /\ stack'[r] # <<>>
             /\ Relies(Stepped(stack[r]), stack[r])
  <2>1. /\ r \in Ranks /\ Pending(stack[r]) /\ stack[r] # <<>>
        /\ program[step[r]].what = "call" /\ program[step[r]].comm = comm
        /\ stack'[r] = Stepped(stack[r])
    BY <1>1, WaitsInCall
  <2>2. Clean(stack[r], pool[r].used) BY <2>1 DEF IInv
  <2> QED BY <2>1, <2>2, PendingRelies
<1>4. ASSUME NEW r \in Ranks, NEW pair, ~(pair \subseteq comm)
      PROVE  View(r, pair)' = View(r, pair)
  <2>1. CASE r \in comm
    <3>1. ~Shared(program, pair, step[r]) /\ ~Shared(program', pair, step'[r])
      BY <1>1, <1>3, <1>4, <2>1 DEF Shared
    <3> QED BY <1>1, <1>3, <2>1, <3>1, ViewElsewhere, ViewElsewhereNext
  <2>2. CASE r \notin comm BY <1>1, <1>2, <2>2, ViewStays
  <2> QED BY <2>1, <2>2
<1>5. ASSUME NEW r \in comm, NEW s \in comm
      PROVE  View(r, {r, s})' = View(s, {r, s})'
  <2>1. /\ Shared(program, {r, s}, step[r]) /\ Shared(program', {r, s}, step'[r])
        /\ Shared(program, {r, s}, step[s]) /\ Shared(program', {r, s}, step'[s])
    BY <1>1, <1>3 DEF Shared
  <2>2. /\ step[r] = step[s] /\ stack[r] = stack[s] /\ Chosen(algid[r]) = Chosen(algid[s])
        /\ Tidied(pool[r], stack[r]) = Tidied(pool[s], stack[r])
    BY <1>1, <1>3, WaitTogether
  <2>3. Tidied(pool[r], Stepped(stack[r])) = Tidied(pool[s], Stepped(stack[r]))
    <3>1. /\ Tidied(Tidied(pool[r], stack[r]), Stepped(stack[r]))
               = Tidied(pool[r], Stepped(stack[r]))
          /\ Tidied(Tidied(pool[s], stack[r]), Stepped(stack[r]))
               = Tidied(pool[s], Stepped(stack[r]))
      BY <1>3, TidyTwice
    <3> QED BY <2>2, <3>1
  <2>4. /\ View(r, {r, s})' = Sight(step[r], Stepped(stack[r]),
                                    Tidied(pool[r], Stepped(stack[r])), Chosen(algid[r]))
        /\ View(s, {r, s})' = Sight(step[s], Stepped(stack[s]),
                                    Tidied(pool[s], Stepped(stack[s])), Chosen(algid[s]))
    BY <1>1, <1>3, <2>1, ViewInCallNext
  <2> QED BY <2>2, <2>3, <2>4
<1> SUFFICES ASSUME NEW r \in Ranks, NEW s \in Ranks
             PROVE  OnePath(program', profile', {r, s}, View(r, {r, s})', View(s, {r, s})')
  BY DEF Paired
<1>6. CASE r \in comm /\ s \in comm BY <1>5, <1>6, OnePathSame
<1>7. CASE ~(r \in comm /\ s \in comm)
  <2>1. View(r, {r, s})' = View(r, {r, s}) /\ View(s, {r, s})' = View(s, {r, s})
    BY <1>4, <1>7
  <2>2. OnePath(program, profile, {r, s}, View(r, {r, s}), View(s, {r, s}))
    BY DEF Paired
  <2> QED BY <1>1, <2>1, <2>2
<1> QED BY <1>6, <1>7

(* A process has nothing in use between calls, or all are in all calls.    *)
LEMMA RoomIdle ==
  ASSUME NEW requests, RoomInv(requests)
  PROVE  Idle
<1> SUFFICES ASSUME NEW r \in Ranks, stack[r] = <<>> PROVE pool[r].used = {}
  BY DEF Idle
<1>1. Roomed(<<>>, pool[r], requests) BY DEF RoomInv
<1>2. \A b \in pool[r].used : \E i \in 1..Len(<<>>) : b \in Held(<<>>[i])
  BY <1>1 DEF Roomed
<1>3. Len(<<>>) = 0 OBVIOUS
<1> QED BY <1>2, <1>3

LEMMA PairedNext ==
  ASSUME SameCounts, IInv, Located, Functional(profile), Paired, Alone, Alone', [Next]_vars
  PROVE  Paired'
<1>1. \A q \in Ranks : stack'[q] = <<>> => OnWorld \/ pool'[q].used = {}
  BY DEF Alone, Idle
<1>2. ASSUME NEW r \in Ranks, BeginCall(r) PROVE Paired' BY <1>2, BeginCallPaired
<1>3. ASSUME NEW r \in Ranks, SkipCall(r) \/ SetAlgId(r) PROVE Paired'
  BY <1>3, PassPaired
<1>4. ASSUME NEW r \in Ranks,
             TakeBuffer(r) \/ GiveUp(r) \/ CallInner(r) \/ GiveBack(r) \/ Return(r)
      PROVE  Paired'
  BY <1>1, <1>4, ProceedPaired
<1>5. ASSUME NEW comm \in Comms, Meet(comm) PROVE Paired' BY <1>5, MeetPaired
<1>6. ASSUME UNCHANGED <<program, step, stack, pool, algid, profile>> PROVE Paired'
  BY <1>6 DEF Paired, View
<1>7. ASSUME NEW r \in Ranks, Post(r) PROVE Paired' BY <1>6, <1>7 DEF Post
<1> QED BY <1>2, <1>3, <1>4, <1>5, <1>6, <1>7 DEF Next, Proceed, Finished, vars
-------------------------------------------------------------------------------

(* What NoMismatch rests on: where each process is, what the profiles      *)
(* said, and that two processes are on one path.                           *)
AInv == Located /\ Functional(profile) /\ Paired /\ Alone

LEMMA InitAgree == Init => Located /\ Functional(profile) /\ Paired
<1> SUFFICES ASSUME Init PROVE Located /\ Functional(profile) /\ Paired
  OBVIOUS
<1>1. Located BY DEF Located, InCall, Init
<1>2. Functional(profile) BY DEF Functional, Init
<1>3. ASSUME NEW r \in Ranks, NEW s \in Ranks
      PROVE  OnePath(program, profile, {r, s}, View(r, {r, s}), View(s, {r, s}))
  <2>1. /\ stack[r] = <<>> /\ stack[s] = <<>> /\ step[r] = step[s]
        /\ pool[r] = pool[s] /\ algid[r] = algid[s]
    BY DEF Init
  <2>2. View(r, {r, s}) = View(s, {r, s}) BY <2>1, ViewOutside
  <2> QED BY <2>2, OnePathSame
<1> QED BY <1>1, <1>2, <1>3 DEF Paired

LEMMA AlwaysAlone ==
  ASSUME NEW CONSTANT requests, OnWorld \/ Roomy(requests)
  PROVE  Spec => []Alone
<1>1. CASE OnWorld
  <2>1. Alone BY <1>1 DEF Alone
  <2> QED BY <2>1, PTL
<1>2. CASE Roomy(requests)
  <2>1. Init => RoomInv(requests) BY InitRoom
  <2>2. IInv /\ IInv' /\ RoomInv(requests) /\ [Next]_vars => RoomInv(requests)'
    BY <1>2, NextRoom
  <2>3. RoomInv(requests) => Alone BY RoomIdle DEF Alone
  <2> QED BY <2>1, <2>2, <2>3, Inductive, PTL DEF Spec
<1> QED BY <1>1, <1>2

LEMMA AlwaysAgree ==
  ASSUME SameCounts, NEW CONSTANT requests, OnWorld \/ Roomy(requests)
  PROVE  Spec => []AInv
<1>1. Init => Located /\ Functional(profile) /\ Paired BY InitAgree
<1>2. IInv /\ AInv /\ Alone' /\ [Next]_vars => AInv'
  BY LocatedNext, FunctionalNext, PairedNext DEF AInv
<1>3. AInv <=> Located /\ Functional(profile) /\ Paired /\ Alone BY DEF AInv
<1> QED BY <1>1, <1>2, <1>3, AlwaysAlone, Inductive, PTL DEF Spec

LEMMA AgreeWaiting ==
  ASSUME IInv, AInv
  PROVE  NoMismatch
BY WaitTogether DEF AInv, NoMismatch, Top

(* Processes that wait for each other have posted the same operation on    *)
(* the same amount of data, for programs of any length, any profiles and   *)
(* limits: look-up, switch and fall back to the default, which each does   *)
(* alone, come out alike.  Two conditions the code does not enforce are    *)
(* needed: equal counts (a scatter's ignored send count takes part in the  *)
(* look-up otherwise), and either calls of all processes only or scratch   *)
(* areas in which no mock-up fails half way (what it leaves in use would   *)
(* make a later call fall back on its members only).                       *)
THEOREM DecideAlike ==
  ASSUME SameCounts, NEW CONSTANT requests, OnWorld \/ Roomy(requests)
  PROVE  Spec => []NoMismatch
<1>1. IInv /\ AInv => NoMismatch BY AgreeWaiting
<1> QED BY <1>1, AlwaysAgree, Inductive, PTL
-------------------------------------------------------------------------------
(* Nobody waits for ever on the library's account.                         *)

(* What fails somewhere fails at a first place: induction, as it is done   *)
(* here.                                                                   *)
LEMMA LeastNat ==
  ASSUME NEW T, T \subseteq Nat, T # {}
  PROVE  \E x \in T : \A y \in T : x <= y
<1> DEFINE R == {ss \in Nat \X Nat : ss[1] < ss[2]}
<1>1. R = OpToRel(<, Nat) BY DEF OpToRel
<1>2. IsWellFoundedOn(R, Nat) BY <1>1, NatLessThanWellFounded, Zenon
<1>3. PICK x \in T : \A y \in T : << y, x >> \notin R BY <1>2, WFMin
<1>4. ASSUME NEW y \in T, ~(x <= y) PROVE FALSE
  <2>1. x \in Nat /\ y \in Nat /\ y < x BY <1>4
  <2>2. << y, x >> \in R BY <2>1
  <2> QED BY <1>3, <2>2
<1> QED BY <1>4

(* Nothing on a path goes back in the program, and what leaves a place     *)
(* between two calls goes on in it.                                        *)
LEMMA GoesOnward ==
  ASSUME NEW prog, NEW prof, NEW pair, NEW x, NEW y, x.step \in Nat,
         Goes(prog, prof, pair, x, y)
  PROVE  /\ y.step \in Nat /\ y.step >= x.step
         /\ x.stack = <<>> => y.step = x.step + 1
<1>1. CASE Enters(prog, prof, pair, x, y)
  <2>1. \E s, p, ids : y = Sight(x.step + 1, s, p, ids)
    BY ONLY <1>1, Zenon DEF Enters
  <2>2. y.step = x.step + 1 BY <2>1 DEF Sight
  <2> QED BY <2>2
<1>2. CASE Works(prof, x, y)
  <2>1. \A s, p : Onto(x, s, p).step = x.step BY DEF Onto, Sight
  <2>2. x.stack # <<>> /\ y.step = x.step BY ONLY <1>2, <2>1 DEF Works
  <2> QED BY <2>2
<1> QED BY <1>1, <1>2 DEF Goes

LEMMA PathOnward ==
  ASSUME NEW prog, NEW prof, NEW pair, NEW x, NEW y, x.step \in Nat,
         Path(prog, prof, pair, x, y)
  PROVE  /\ y.step \in Nat /\ y.step >= x.step
         /\ x.stack = <<>> /\ x # y => y.step > x.step
<1>0. PICK n \in Nat \ {0} : \E p :
        /\ p[1] = x /\ p[n] = y
        /\ \A i \in 1..(n - 1) : Goes(prog, prof, pair, p[i], p[i + 1])
  BY DEF Path
<1>1. PICK p :
        /\ p[1] = x /\ p[n] = y
        /\ \A i \in 1..(n - 1) : Goes(prog, prof, pair, p[i], p[i + 1])
  BY <1>0
<1> DEFINE far(i) == p[i].step \in Nat /\ p[i].step >= x.step
                     /\ (x.stack = <<>> /\ i > 1 => p[i].step > x.step)
           bad == {i \in 1..n : ~far(i)}
<1>2. bad = {}
  <2> SUFFICES ASSUME bad # {} PROVE FALSE
    OBVIOUS
  <2>1. bad \subseteq Nat OBVIOUS
  <2>2. PICK i \in bad : \A j \in bad : i <= j BY <2>1, LeastNat
  <2>3. far(1) BY <1>1
  <2>4. i \in 1..n /\ i # 1 BY <2>2, <2>3
  <2>5. i - 1 \in 1..(n - 1) /\ i - 1 \in 1..n /\ ~(i <= i - 1) /\ (i - 1) + 1 = i BY <2>4
  <2>6. far(i - 1) BY <2>2, <2>5
  <2>7. Goes(prog, prof, pair, p[i - 1], p[i]) BY <1>1, <2>5
  <2>8. /\ p[i].step \in Nat /\ p[i].step >= p[i - 1].step
        /\ p[i - 1].stack = <<>> => p[i].step = p[i - 1].step + 1
    BY <2>6, <2>7, GoesOnward
  <2>9. x.stack = <<>> => p[i].step > x.step
    <3>1. CASE i - 1 = 1 BY <1>1, <2>8, <3>1
    <3>2. CASE i - 1 # 1 BY <2>5, <2>6, <2>8, <3>2
    <3> QED BY <3>1, <3>2
  <2>10. far(i) BY <2>6, <2>8, <2>9
  <2> QED BY <2>2, <2>10
<1>3. n \in 1..n OBVIOUS
<1>4. far(n) BY <1>2, <1>3
<1>5. x # y => n > 1 BY <1>1
<1> QED BY <1>1, <1>4, <1>5

LEMMA ViewStep ==
  ASSUME NEW r, NEW pair
  PROVE  View(r, pair).step = step[r]
BY DEF View, Look, Sight

(* A member of a communicator that has come as far in the program as one   *)
(* that waits is in the same call.                                         *)
LEMMA WaitsForAbreast ==
  ASSUME IInv, AInv, NEW r \in Ranks, waiting[r],
         NEW s \in Top(r).comm, s \in Ranks, step[s] >= step[r]
  PROVE  /\ step[s] = step[r] /\ stack[s] # <<>>
         /\ waiting[s] => Top(s).comm = Top(r).comm
<1> DEFINE pair == {r, s}
<1>1. /\ Pending(stack[r]) /\ stack[r] # <<>> /\ step[r] \in 1..Len(program)
      /\ program[step[r]].what = "call" /\ program[step[r]].comm = Top(r).comm
      /\ r \in Top(r).comm
  BY WaitsInCall DEF AInv
<1>2. Shared(program, pair, step[r]) BY <1>1 DEF Shared
<1>3. View(r, pair) = Now(r) /\ Now(r).stack = stack[r] BY <1>2, ViewInCall, SightParts DEF Now
<1>4. step[r] \in Nat /\ step[s] \in Nat BY DEF IInv, TypeOK
<1>5. View(r, pair).step = step[r] /\ View(s, pair).step = step[s] BY ViewStep
<1>6. Path(program, profile, pair, View(s, pair), View(r, pair))
  <2>1. OnePath(program, profile, pair, View(r, pair), View(s, pair)) BY DEF AInv, Paired
  <2>2. CASE Path(program, profile, pair, View(r, pair), View(s, pair))
    <3>1. View(r, pair) = View(s, pair) BY <1>1, <1>3, <2>2, PathLeaves, GoesNowhere
    <3> QED BY <2>2, <3>1
  <2> QED BY <2>1, <2>2 DEF OnePath
<1> HIDE DEF pair
<1>7. /\ step[r] >= step[s]
      /\ View(s, pair).stack = <<>> /\ View(s, pair) # View(r, pair) => step[r] > step[s]
  BY ONLY <1>4, <1>5, <1>6, PathOnward
<1>8. step[s] = step[r] BY <1>4, <1>7
<1>9. View(s, pair).stack # <<>> BY <1>1, <1>3, <1>7, <1>8, <1>4
<1>10. stack[s] # <<>>
  <2> SUFFICES ASSUME stack[s] = <<>> PROVE FALSE
    OBVIOUS
  <2>1. View(s, pair).stack = <<>> BY ViewOutside DEF Sight
  <2> QED BY <1>9, <2>1
<1>11. waiting[s] => Top(s).comm = Top(r).comm BY <1>1, <1>8, WaitsInCall DEF AInv
<1> QED BY <1>8, <1>10, <1>11

LEMMA AgreeHeldUp ==
  ASSUME IInv, AInv
  PROVE  HeldUpByMembers
<1> SUFFICES ASSUME NEW r \in Ranks, waiting[r],
                    \A s \in Top(r).comm : ~(step[s] < step[r]),
                    \A s \in Top(r).comm :
                      ~(step[s] = step[r] /\ stack[s] # <<>> /\ ~waiting[s])
             PROVE  Ready(Top(r).comm)
  BY DEF HeldUpByMembers
<1> DEFINE comm == Top(r).comm
<1>1. comm \subseteq Ranks
  <2>1. /\ step[r] \in 1..Len(program) /\ program[step[r]].what = "call"
        /\ program[step[r]].comm = comm
    BY WaitsInCall DEF AInv
  <2>2. program[step[r]] \in Items BY <2>1 DEF IInv, TypeOK
  <2>3. program[step[r]] \in CallItem BY <2>1, <2>2, ItemsAssumption DEF SetItem
  <2> QED BY <2>1, <2>3 DEF CallItem, Comms
<1>2. ASSUME NEW s \in comm
      PROVE  s \in Ranks /\ waiting[s] /\ Top(s).comm = comm
  <2>1. s \in Ranks BY <1>1
  <2>2. step[s] \in Nat /\ step[r] \in Nat BY <2>1 DEF IInv, TypeOK
  <2>3. step[s] >= step[r] BY <2>2
  <2> QED BY <2>1, <2>3, WaitsForAbreast
<1>3. ASSUME NEW s \in comm, NEW t \in comm PROVE Instr(Top(s)) = Instr(Top(t))
  <2>1. NoMismatch BY AgreeWaiting
  <2> QED BY <1>2, <2>1 DEF NoMismatch
<1> QED BY <1>2, <1>3 DEF Ready

(* The library does not deadlock, for programs of any length, any profiles *)
(* and limits, under the conditions of DecideAlike: a process that waits   *)
(* inside a call waits for a member that has yet to begin the call or is   *)
(* at work in it, or MPI can complete the operation.                       *)
THEOREM WaitsForMembers ==
  ASSUME SameCounts, NEW CONSTANT requests, OnWorld \/ Roomy(requests)
  PROVE  Spec => []HeldUpByMembers
<1>1. IInv /\ AInv => HeldUpByMembers BY AgreeHeldUp
<1> QED BY <1>1, AlwaysAgree, Inductive, PTL

(* Somebody can always go on: as long as a process waits, MPI can complete *)
(* an operation, a process is at work inside a call, or one between two    *)
(* calls has yet to begin a call that a process waits in.                  *)
NoDeadlock ==
  (\E r \in Ranks : waiting[r]) =>
    \/ \E comm \in Comms : Ready(comm)
    \/ \E s \in Ranks : stack[s] # <<>> /\ ~waiting[s]
    \/ \E r, s \in Ranks :
         /\ waiting[r] /\ s \in Top(r).comm
         /\ stack[s] = <<>> /\ step[s] < step[r]

LEMMA LeastWaits ==
  ASSUME IInv, NEW q \in Ranks, waiting[q]
  PROVE  \E r \in Ranks : waiting[r] /\ \A s \in Ranks : waiting[s] => step[r] <= step[s]
<1> DEFINE steps == {k \in Nat : \E r \in Ranks : waiting[r] /\ step[r] = k}
<1>1. \A r \in Ranks : step[r] \in Nat BY DEF IInv, TypeOK
<1>2. steps \subseteq Nat /\ steps # {} BY <1>1
<1>3. PICK k \in steps : \A j \in steps : k <= j BY <1>2, LeastNat
<1>4. PICK r \in Ranks : waiting[r] /\ step[r] = k BY <1>3
<1> QED BY <1>1, <1>3, <1>4

(* The whole of the processes never stands still on the library's account. *)
THEOREM SomebodyGoesOn ==
  ASSUME SameCounts, NEW CONSTANT requests, OnWorld \/ Roomy(requests)
  PROVE  Spec => []NoDeadlock
<1>1. ASSUME IInv, AInv PROVE NoDeadlock
  <2> SUFFICES ASSUME NEW q \in Ranks, waiting[q],
                      \A s \in Ranks : stack[s] # <<>> => waiting[s]
               PROVE  \/ \E comm \in Comms : Ready(comm)
                      \/ \E r, s \in Ranks :
                           /\ waiting[r] /\ s \in Top(r).comm
                           /\ stack[s] = <<>> /\ step[s] < step[r]
    BY DEF NoDeadlock
  <2>1. PICK r \in Ranks : waiting[r] /\ \A s \in Ranks : waiting[s] => step[r] <= step[s]
    BY <1>1, LeastWaits
  <2>2. Top(r).comm \in Comms
    <3>1. /\ step[r] \in 1..Len(program) /\ program[step[r]].what = "call"
          /\ program[step[r]].comm = Top(r).comm
      BY <1>1, <2>1, WaitsInCall DEF AInv
    <3>2. program[step[r]] \in Items BY <1>1, <3>1 DEF IInv, TypeOK
    <3>3. program[step[r]] \in CallItem BY <3>1, <3>2, ItemsAssumption DEF SetItem
    <3> QED BY <3>1, <3>3 DEF CallItem
  <2>3. Top(r).comm \subseteq Ranks BY <2>2 DEF Comms
  <2>4. HeldUpByMembers BY <1>1, AgreeHeldUp
  <2>5. CASE \E s \in Top(r).comm : step[s] < step[r]
    <3>1. PICK s \in Top(r).comm : step[s] < step[r] BY <2>5
    <3>2. s \in Ranks /\ step[s] \in Nat /\ step[r] \in Nat
      BY <1>1, <2>3 DEF IInv, TypeOK
    <3>3. ~waiting[s] BY <2>1, <3>1, <3>2
    <3> QED BY <2>1, <3>1, <3>2, <3>3
  <2> QED BY <2>1, <2>2, <2>3, <2>4, <2>5 DEF HeldUpByMembers
<1> QED BY <1>1, AlwaysAgree, Inductive, PTL
-------------------------------------------------------------------------------
(* No process leaves a call before all members have entered it.            *)

(* A wrapper that has not got past a call or an operation of MPI. *)
Untouched(f) == \A i \in 1..(f.ip - 1) : Script(f)[i].op \notin {"call", "mpi"}
Fresh(s)     == \A i \in 1..Len(s) : Untouched(s[i])

(* Who has got past one has met all members there.                         *)
HasMet(r) == Fresh(stack[r]) \/ \A s \in program[step[r]].comm : step[s] >= step[r]
Met       == \A r \in Ranks : HasMet(r)

LEMMA UntouchedAtFirst == ASSUME NEW f, f.ip = 1 PROVE Untouched(f)
BY DEF Untouched

LEMMA UntouchedNext ==
  ASSUME NEW f, GoodFrame(f), ~AtEnd(f), Untouched(f),
         Script(f)[f.ip].op \notin {"call", "mpi"}
  PROVE  Untouched(Next1(f))
<1>1. f.ip \in Nat /\ Next1(f).ip = f.ip + 1 BY DEF GoodFrame, Frame, Next1
<1>2. Script(Next1(f)) = Script(f) BY SteppedFrame
<1>3. \A i \in 1..(Next1(f).ip - 1) : i \in 1..(f.ip - 1) \/ i = f.ip BY <1>1
<1> QED BY <1>2, <1>3 DEF Untouched

(* No script consists of handing out and taking back buffers only. *)
LEMMA TouchedAtEnd ==
  ASSUME NEW f, GoodFrame(f), AtEnd(f)
  PROVE  ~Untouched(f)
<1>1. /\ Disciplined(Script(f)) /\ f.ip \in 1..Len(Script(f)) + 1
  BY ScriptDisciplined DEF GoodFrame
<1>2. Len(Script(f)) \in Nat BY <1>1 DEF Disciplined
<1>3. f.ip - 1 = Len(Script(f)) BY <1>1, <1>2 DEF AtEnd
<1> QED BY <1>1, <1>3 DEF Untouched, Disciplined

LEMMA FreshTop ==
  ASSUME NEW s \in Seq(Frame), Fresh(s), NEW f, Untouched(f)
  PROVE  Fresh([s EXCEPT ![Len(s)] = f])
<1> DEFINE t == [s EXCEPT ![Len(s)] = f]
<1>1. Len(t) = Len(s) /\ \A i \in 1..Len(s) : t[i] = IF i = Len(s) THEN f ELSE s[i]
  OBVIOUS
<1> HIDE DEF t
<1>2. Fresh(t) BY <1>1 DEF Fresh
<1> QED BY <1>2 DEF t

LEMMA FreshPush ==
  ASSUME NEW s \in Seq(Frame), Fresh(s), NEW f, Untouched(f)
  PROVE  Fresh(Append(s, f))
<1> DEFINE t == Append(s, f)
<1>1. /\ Len(s) \in Nat /\ Len(t) = Len(s) + 1
      /\ \A i \in 1..Len(t) : t[i] = IF i = Len(t) THEN f ELSE s[i]
  OBVIOUS
<1> HIDE DEF t
<1>2. \A i \in 1..Len(t) : i = Len(t) \/ i \in 1..Len(s) BY <1>1
<1>3. Fresh(t) BY <1>1, <1>2 DEF Fresh
<1> QED BY <1>3 DEF t

(* A step of process r inside a call. *)
LEMMA InsideMet ==
  ASSUME IInv, Met, NEW r \in Ranks, NEW s, Fresh(stack[r]) => Fresh(s),
         stack' = [stack EXCEPT ![r] = s], UNCHANGED <<program, step>>
  PROVE  Met'
<1>1. stack \in [Ranks -> Seq(Frame)] BY DEF IInv, TypeOK
<1> SUFFICES ASSUME NEW q \in Ranks
             PROVE  \/ Fresh(stack'[q])
                    \/ \A p \in program'[step'[q]].comm : step'[p] >= step'[q]
  BY DEF Met, HasMet
<1>2. CASE q = r
  <2>1. stack'[q] = s BY <1>1, <1>2
  <2> QED BY <1>2, <2>1 DEF Met, HasMet
<1>3. CASE q # r
  <2>1. stack'[q] = stack[q] BY <1>1, <1>3
  <2> QED BY <2>1 DEF Met, HasMet
<1> QED BY <1>2, <1>3

(* Process r begins an item. *)
LEMMA BeginMet ==
  ASSUME IInv, Located, Met, NEW r \in Ranks, NEW item \in Upcoming(r), Begin(r, item),
         NEW s, Fresh(s), stack' = [stack EXCEPT ![r] = s]
  PROVE  Met'
<1>1. /\ stack \in [Ranks -> Seq(Frame)] /\ step \in [Ranks -> 0..MaxItems]
      /\ program \in Seq(Items)
  BY DEF IInv, TypeOK
<1>2. Begins(program, program') /\ step' = [step EXCEPT ![r] = step[r] + 1]
  BY BeginsNext
<1>3. \A q \in Ranks : step[q] \in Nat /\ step'[q] \in Nat /\ step'[q] >= step[q]
  BY <1>1, <1>2, SizesAssumption
<1> SUFFICES ASSUME NEW q \in Ranks, ~Fresh(stack'[q])
             PROVE  \A p \in program'[step'[q]].comm : step'[p] >= step'[q]
  BY DEF Met, HasMet
<1>4. q # r BY <1>1
<1>5. stack'[q] = stack[q] /\ step'[q] = step[q] BY <1>1, <1>2, <1>4
<1>6. stack[q] # <<>> /\ \A p \in program[step[q]].comm : step[p] >= step[q]
  <2>1. Fresh(<<>>) BY DEF Fresh
  <2> QED BY <1>5, <2>1 DEF Met, HasMet
<1>7. step[q] \in 1..Len(program) /\ program[step[q]].what = "call"
  BY <1>6 DEF Located, InCall
<1>8. program'[step[q]] = program[step[q]] BY <1>2, <1>7 DEF Begins
<1>9. program[step[q]] \in Items BY <1>1, <1>7
<1>10. program[step[q]].comm \subseteq Ranks
  BY <1>7, <1>9, ItemsAssumption DEF CallItem, SetItem, Comms
<1>11. ASSUME NEW p \in program[step[q]].comm PROVE step'[p] >= step'[q]
  <2>1. p \in Ranks /\ step[p] >= step[q] BY <1>6, <1>10
  <2> QED BY <1>3, <1>5, <2>1
<1> QED BY <1>5, <1>8, <1>11

LEMMA MetNext ==
  ASSUME IInv, AInv, Met, [Next]_vars
  PROVE  Met'
<1>1. /\ stack \in [Ranks -> Seq(Frame)] /\ Located /\ Paired
      /\ \A r \in Ranks : Clean(stack[r], pool[r].used)
  BY DEF IInv, AInv, TypeOK
<1>2. ASSUME NEW r \in Ranks, BeginCall(r) PROVE Met'
  <2>1. PICK item \in Upcoming(r) :
          /\ Begin(r, item)
          /\ Intercept(r, item.coll, PassedCount(item, r), item.e, item.comm)
    BY <1>2 DEF BeginCall
  <2> DEFINE f == [coll |-> item.coll, n |-> PassedCount(item, r), e |-> item.e,
                   comm |-> item.comm, alg |-> algid'[r][item.coll],
                   default |-> algid'[r][item.coll] = DEFAULT, ip |-> 1]
  <2>2. stack[r] = <<>> /\ stack' = [stack EXCEPT ![r] = Append(stack[r], f)]
    BY <2>1 DEF Begin, Intercept
  <2>3. Untouched(f) BY UntouchedAtFirst
  <2> HIDE DEF f
  <2>4. Fresh(<<>>) /\ <<>> \in Seq(Frame) BY DEF Fresh
  <2>5. Fresh(Append(<<>>, f)) BY <2>3, <2>4, FreshPush
  <2> QED BY <1>1, <2>1, <2>2, <2>5, BeginMet
<1>3. ASSUME NEW r \in Ranks, SkipCall(r) \/ SetAlgId(r) PROVE Met'
  <2>1. PICK item \in Upcoming(r) : Begin(r, item) /\ stack' = stack
    BY <1>3 DEF SkipCall, SetAlgId
  <2>2. stack' = [stack EXCEPT ![r] = <<>>] BY <1>1, <2>1 DEF Begin
  <2>3. Fresh(<<>>) BY DEF Fresh
  <2> QED BY <1>1, <2>1, <2>2, <2>3, BeginMet
<1>4. ASSUME NEW r \in Ranks, TakeBuffer(r) \/ GiveBack(r) PROVE Met'
  <2> DEFINE s == stack[r]
             f == Top(r)
  <2>1. At(r, "grab") \/ At(r, "release") BY <1>4 DEF TakeBuffer, GiveBack
  <2>2. /\ s \in Seq(Frame) /\ s # <<>> /\ f = s[Len(s)] /\ Len(s) \in 1..Len(s)
        /\ GoodFrame(f) /\ ~AtEnd(f) /\ Script(f)[f.ip].op \notin {"call", "mpi"}
    BY <2>1, AtFacts
  <2>3. stack' = [stack EXCEPT ![r] = Stepped(s)] /\ UNCHANGED <<program, step>>
    BY <1>4 DEF TakeBuffer, GiveBack
  <2>4. Stepped(s) = [s EXCEPT ![Len(s)] = Next1(f)] BY <2>2 DEF Stepped, Next1
  <2> HIDE DEF s, f
  <2>5. ASSUME Fresh(s) PROVE Fresh(Stepped(s))
    <3>1. Untouched(f) BY <2>2, <2>5 DEF Fresh
    <3>2. Untouched(Next1(f)) BY <2>2, <3>1, UntouchedNext
    <3>3. Fresh([s EXCEPT ![Len(s)] = Next1(f)]) BY <2>2, <2>5, <3>2, FreshTop
    <3> QED BY <2>4, <3>3
  <2> QED BY <2>3, <2>5, InsideMet DEF s
<1>5. ASSUME NEW r \in Ranks, GiveUp(r) PROVE Met'
  <2> DEFINE s == stack[r]
             f == GivenUp(Top(r))
             t == [s EXCEPT ![Len(s)] = f]
  <2>1. /\ At(r, "grab") /\ stack' = [stack EXCEPT ![r] = t] /\ UNCHANGED <<program, step>>
    BY <1>5 DEF GiveUp
  <2>2. s \in Seq(Frame) /\ Top(r) \in Frame BY <2>1, AtFacts DEF GoodFrame
  <2>3. Untouched(f) BY <2>2, UntouchedAtFirst DEF GivenUp, Frame
  <2>4. Fresh(s) => Fresh(t) BY <2>2, <2>3, FreshTop
  <2> HIDE DEF t
  <2> QED BY <2>1, <2>4, InsideMet
<1>6. ASSUME NEW r \in Ranks, CallInner(r) PROVE Met'
  <2> DEFINE s == stack[r]
             i == Instr(Top(r))
             f == [coll |-> i.coll, n |-> i.n, e |-> i.e, comm |-> Top(r).comm,
                   alg |-> algid'[r][i.coll], default |-> algid'[r][i.coll] = DEFAULT,
                   ip |-> 1]
  <2>1. stack' = [stack EXCEPT ![r] = Append(s, f)] /\ UNCHANGED <<program, step>>
    BY <1>6 DEF CallInner, Intercept
  <2>2. Untouched(f) BY UntouchedAtFirst
  <2> HIDE DEF f
  <2>3. Fresh(s) => Fresh(Append(s, f)) BY <1>1, <2>2, FreshPush
  <2> QED BY <2>1, <2>3, InsideMet
<1>7. ASSUME NEW r \in Ranks, Return(r) PROVE Met'
  <2> DEFINE s == stack[r]
  <2>1. /\ s # <<>> /\ AtEnd(s[Len(s)]) /\ stack' = [stack EXCEPT ![r] = Popped(s)]
        /\ UNCHANGED <<program, step>>
    BY <1>7 DEF Return, Top, Popped
  <2>2. Len(s) \in 1..Len(s) BY <1>1, <2>1, EmptySeq
  <2>3. ~Untouched(s[Len(s)]) BY <1>1, <2>1, <2>2, TouchedAtEnd DEF Clean
  <2>4. ~Fresh(s) BY <2>2, <2>3 DEF Fresh
  <2> QED BY <2>1, <2>4, InsideMet
<1>8. ASSUME NEW comm \in Comms, Meet(comm) PROVE Met'
  <2>1. /\ \A r \in comm : waiting[r] /\ Top(r).comm = comm
        /\ stack' = [r \in Ranks |-> IF r \in comm THEN Stepped(stack[r]) ELSE stack[r]]
        /\ UNCHANGED <<program, step>> /\ comm \subseteq Ranks
    BY <1>8 DEF Meet, Ready, Comms
  <2> SUFFICES ASSUME NEW q \in Ranks
               PROVE  \/ Fresh(stack'[q])
                      \/ \A p \in program'[step'[q]].comm : step'[p] >= step'[q]
    BY DEF Met, HasMet
  <2>2. CASE q \in comm
    <3>1. program[step[q]].comm = comm BY <1>1, <2>1, <2>2, WaitsInCall
    <3>2. \A p \in comm : step[p] = step[q] BY <1>1, <2>1, <2>2, WaitTogether
    <3>3. step[q] \in Nat BY SizesAssumption DEF IInv, TypeOK
    <3> QED BY <2>1, <3>1, <3>2, <3>3
  <2>3. CASE q \notin comm
    <3>1. stack'[q] = stack[q] BY <2>1, <2>3
    <3> QED BY <2>1, <3>1 DEF Met, HasMet
  <2> QED BY <2>2, <2>3
<1>9. ASSUME UNCHANGED <<program, step, stack>> PROVE Met'
  BY <1>9 DEF Met, HasMet
<1>10. ASSUME NEW r \in Ranks, Post(r) PROVE Met' BY <1>9, <1>10 DEF Post
<1> QED BY <1>2, <1>3, <1>4, <1>5, <1>6, <1>7, <1>8, <1>9, <1>10
        DEF Next, Proceed, Finished, vars
(* What the application sees of a process. *)
Left == [r \in Ranks |-> IF stack[r] = <<>> THEN step[r] ELSE step[r] - 1]

(* A process begins an item and is inside it afterwards, or done with it.  *)
LEMMA BeginEnters ==
  ASSUME IInv, NEW r \in Ranks, NEW item \in Upcoming(r), Begin(r, item),
         NEW s, stack' = [stack EXCEPT ![r] = s],
         s # <<>> <=> item.what = "call" /\ r \in item.comm
  PROVE  Abstract!Enter(r)
<1>1. /\ stack \in [Ranks -> Seq(Frame)] /\ step \in [Ranks -> 0..MaxItems]
      /\ stack[r] = <<>>
      /\ program' = IF step[r] < Len(program) THEN program ELSE Append(program, item)
      /\ step' = [step EXCEPT ![r] = @ + 1]
  BY DEF IInv, TypeOK, Begin
<1>2. step[r] \in Nat BY <1>1, SizesAssumption
<1>3. item \in Abstract!Upcoming(r) BY DEF Abstract!Upcoming, Upcoming
<1>4. Left[r] = step[r] BY <1>1 DEF Left
<1>5. Left' = IF Abstract!IsCallOf(item, r) THEN Left ELSE [Left EXCEPT ![r] = @ + 1]
  <2>1. /\ Left' = [q \in Ranks |-> IF stack'[q] = <<>> THEN step'[q] ELSE step'[q] - 1]
        /\ \A q \in Ranks \ {r} : stack'[q] = stack[q] /\ step'[q] = step[q]
        /\ stack'[r] = s /\ step'[r] = step[r] + 1
    BY <1>1 DEF Left
  <2>2. CASE Abstract!IsCallOf(item, r)
    <3>1. s # <<>> BY <2>2 DEF Abstract!IsCallOf
    <3>2. \A q \in Ranks : (IF stack'[q] = <<>> THEN step'[q] ELSE step'[q] - 1)
                             = (IF stack[q] = <<>> THEN step[q] ELSE step[q] - 1)
      BY <1>1, <1>2, <2>1, <3>1
    <3> QED BY <2>1, <2>2, <3>2 DEF Left
  <2>3. CASE ~Abstract!IsCallOf(item, r)
    <3>1. s = <<>> BY <2>3 DEF Abstract!IsCallOf
    <3>2. \A q \in Ranks : (IF stack'[q] = <<>> THEN step'[q] ELSE step'[q] - 1)
                             = (IF q = r THEN Left[r] + 1 ELSE Left[q])
      BY <1>4, <2>1, <3>1 DEF Left
    <3>3. [Left EXCEPT ![r] = @ + 1] = [q \in Ranks |-> IF q = r THEN Left[r] + 1 ELSE Left[q]]
      BY DEF Left
    <3> QED BY <2>1, <2>3, <3>2, <3>3
  <2> QED BY <2>2, <2>3
<1> QED BY <1>1, <1>3, <1>4, <1>5 DEF Abstract!Enter, Left

(* A step of process r inside a call that it does not end is not seen.     *)
LEMMA InsideUnseen ==
  ASSUME IInv, NEW r \in Ranks, stack[r] # <<>>, NEW s, s # <<>>,
         stack' = [stack EXCEPT ![r] = s], UNCHANGED <<program, step>>
  PROVE  UNCHANGED <<program, step, Left>>
<1>1. stack \in [Ranks -> Seq(Frame)] BY DEF IInv, TypeOK
<1>2. \A q \in Ranks : stack'[q] = <<>> <=> stack[q] = <<>> BY <1>1
<1> QED BY <1>2 DEF Left

LEMMA ReturnSeen ==
  ASSUME IInv, Located, Met, NEW r \in Ranks, Return(r)
  PROVE  [Abstract!Next]_<<program, step, Left>>
<1> DEFINE s == stack[r]
<1>1. /\ s # <<>> /\ AtEnd(s[Len(s)]) /\ stack' = [stack EXCEPT ![r] = Popped(s)]
      /\ UNCHANGED <<program, step>>
  BY DEF Return, Top, Popped
<1>2. /\ stack \in [Ranks -> Seq(Frame)] /\ Clean(s, pool[r].used)
      /\ step \in [Ranks -> 0..MaxItems]
  BY DEF IInv, TypeOK
<1>3. Len(s) \in 1..Len(s) BY <1>1, <1>2, EmptySeq
<1>4. CASE Len(s) # 1
  <2> DEFINE t == SubSeq(s, 1, Len(s) - 1)
  <2>1. t # <<>> /\ Clean(t, pool[r].used) BY <1>1, <1>2, <1>4, PopClean
  <2>2. Popped(s) = Stepped(t) BY <1>4 DEF Popped
  <2> HIDE DEF t
  <2>3. /\ Stepped(t) = [t EXCEPT ![Len(t)] = Next1(t[Len(t)])] /\ t \in Seq(Frame)
    BY <2>1, SteppedTop DEF Clean
  <2>4. Len(Stepped(t)) = Len(t) /\ Len(t) # 0 BY <2>1, <2>3, EmptySeq
  <2>5. Popped(s) # <<>> BY <2>2, <2>4
  <2> QED BY <1>1, <2>5, InsideUnseen
<1>5. CASE Len(s) = 1
  <2>1. Popped(s) = <<>> BY <1>5 DEF Popped
  <2>2. ~Untouched(s[Len(s)]) BY <1>1, <1>2, <1>3, TouchedAtEnd DEF Clean
  <2>3. \A q \in program[step[r]].comm : step[q] >= step[r]
    BY <1>3, <2>2 DEF Met, HasMet, Fresh
  <2>4. step[r] \in Nat BY <1>2, SizesAssumption
  <2>5. Left[r] = step[r] - 1 /\ Left[r] < step[r] BY <1>1, <2>4 DEF Left
  <2>6. Left' = [Left EXCEPT ![r] = @ + 1]
    <3>1. \A q \in Ranks : (IF stack'[q] = <<>> THEN step'[q] ELSE step'[q] - 1)
                             = (IF q = r THEN Left[r] + 1 ELSE Left[q])
      BY <1>1, <1>2, <2>1, <2>4, <2>5 DEF Left
    <3>2. [Left EXCEPT ![r] = @ + 1] = [q \in Ranks |-> IF q = r THEN Left[r] + 1 ELSE Left[q]]
      BY DEF Left
    <3>3. Left' = [q \in Ranks |-> IF stack'[q] = <<>> THEN step'[q] ELSE step'[q] - 1]
      BY DEF Left
    <3> QED BY <3>1, <3>2, <3>3
  <2>7. Abstract!Leave(r) BY <1>1, <2>3, <2>5, <2>6 DEF Abstract!Leave, Left
  <2> QED BY <2>7 DEF Abstract!Next
<1> QED BY <1>4, <1>5
(* Every step is a step of plain MPI, or the application does not see it.  *)
LEMMA StepsSeen ==
  ASSUME IInv, IInv', AInv, Met, [Next]_vars
  PROVE  [Abstract!Next]_<<program, step, Left>>
<1>1. /\ stack \in [Ranks -> Seq(Frame)] /\ Located
      /\ \A r \in Ranks : Clean(stack[r], pool[r].used)
  BY DEF IInv, AInv, TypeOK
<1>2. ASSUME NEW r \in Ranks, BeginCall(r) PROVE Abstract!Next
  <2>1. PICK item \in Upcoming(r) :
          /\ item.what = "call" /\ r \in item.comm /\ Begin(r, item)
          /\ Intercept(r, item.coll, PassedCount(item, r), item.e, item.comm)
    BY <1>2 DEF BeginCall
  <2> DEFINE f == [coll |-> item.coll, n |-> PassedCount(item, r), e |-> item.e,
                   comm |-> item.comm, alg |-> algid'[r][item.coll],
                   default |-> algid'[r][item.coll] = DEFAULT, ip |-> 1]
  <2>2. stack[r] = <<>> /\ stack' = [stack EXCEPT ![r] = Append(stack[r], f)]
    BY <2>1 DEF Begin, Intercept
  <2> HIDE DEF f
  <2>3. Append(<<>>, f) # <<>> OBVIOUS
  <2>4. Abstract!Enter(r) BY <2>1, <2>2, <2>3, BeginEnters
  <2> QED BY <2>4 DEF Abstract!Next
<1>3. ASSUME NEW r \in Ranks, SkipCall(r) \/ SetAlgId(r) PROVE Abstract!Next
  <2>1. PICK item \in Upcoming(r) :
          /\ Begin(r, item) /\ stack' = stack
          /\ ~(item.what = "call" /\ r \in item.comm)
    BY <1>3 DEF SkipCall, SetAlgId
  <2>2. stack' = [stack EXCEPT ![r] = <<>>] BY <1>1, <2>1 DEF Begin
  <2>3. Abstract!Enter(r) BY <2>1, <2>2, BeginEnters
  <2> QED BY <2>3 DEF Abstract!Next
<1>4. ASSUME NEW r \in Ranks, TakeBuffer(r) \/ GiveBack(r)
      PROVE  UNCHANGED <<program, step, Left>>
  <2>1. /\ stack[r] # <<>> /\ stack' = [stack EXCEPT ![r] = Stepped(stack[r])]
        /\ UNCHANGED <<program, step>>
    BY <1>4 DEF TakeBuffer, GiveBack, At
  <2>2. Stepped(stack[r]) # <<>> BY <1>1, <2>1, InCallStepped DEF Located
  <2> QED BY <2>1, <2>2, InsideUnseen
<1>5. ASSUME NEW r \in Ranks, GiveUp(r) PROVE UNCHANGED <<program, step, Left>>
  <2> DEFINE s == stack[r]
             t == [s EXCEPT ![Len(s)] = GivenUp(Top(r))]
  <2>1. s # <<>> /\ stack' = [stack EXCEPT ![r] = t] /\ UNCHANGED <<program, step>>
    BY <1>5 DEF GiveUp, At
  <2>2. Len(t) = Len(s) /\ Len(s) # 0 BY <1>1, <2>1, EmptySeq
  <2> HIDE DEF t
  <2>3. t # <<>> BY <2>2
  <2> QED BY <2>1, <2>3, InsideUnseen
<1>6. ASSUME NEW r \in Ranks, CallInner(r) PROVE UNCHANGED <<program, step, Left>>
  <2> DEFINE s == stack[r]
             i == Instr(Top(r))
             f == [coll |-> i.coll, n |-> i.n, e |-> i.e, comm |-> Top(r).comm,
                   alg |-> algid'[r][i.coll], default |-> algid'[r][i.coll] = DEFAULT,
                   ip |-> 1]
  <2>1. /\ s # <<>> /\ stack' = [stack EXCEPT ![r] = Append(s, f)]
        /\ UNCHANGED <<program, step>>
    BY <1>6 DEF CallInner, Intercept, At
  <2> HIDE DEF f
  <2>2. Len(Append(s, f)) = Len(s) + 1 /\ Len(s) \in Nat BY <1>1
  <2>3. Append(s, f) # <<>> BY <2>2
  <2> QED BY <2>1, <2>3, InsideUnseen
<1>7. ASSUME NEW r \in Ranks, Return(r) PROVE [Abstract!Next]_<<program, step, Left>>
  BY <1>1, <1>7, ReturnSeen
<1>8. ASSUME NEW comm \in Comms, Meet(comm) PROVE UNCHANGED <<program, step, Left>>
  <2>1. /\ \A r \in comm : waiting[r]
        /\ stack' = [r \in Ranks |-> IF r \in comm THEN Stepped(stack[r]) ELSE stack[r]]
        /\ UNCHANGED <<program, step>> /\ comm \subseteq Ranks
    BY <1>8 DEF Meet, Ready, Comms
  <2>2. \A r \in comm : stack[r] # <<>> /\ Stepped(stack[r]) # <<>>
    BY <1>1, <2>1, WaitsInCall, InCallStepped DEF Located
  <2>3. \A r \in Ranks : stack'[r] = <<>> <=> stack[r] = <<>> BY <2>1, <2>2
  <2> QED BY <2>1, <2>3 DEF Left
<1>9. ASSUME UNCHANGED <<program, step, stack>> PROVE UNCHANGED <<program, step, Left>>
  BY <1>9 DEF Left
<1>10. ASSUME NEW r \in Ranks, Post(r) PROVE UNCHANGED <<program, step, Left>>
  BY <1>9, <1>10 DEF Post
<1> QED BY <1>2, <1>3, <1>4, <1>5, <1>6, <1>7, <1>8, <1>9, <1>10
        DEF Next, Proceed, Finished, vars

(* The library implements the calls of plain MPI: under the conditions of  *)
(* DecideAlike, a process leaves a call only after all members of its      *)
(* communicator have entered it, whichever mock-up each call ran, however  *)
(* mock-ups are nested in it and whether or not it fell back half way.     *)
THEOREM NobodyLeavesEarly ==
  ASSUME SameCounts, NEW CONSTANT requests, OnWorld \/ Roomy(requests)
  PROVE  Spec => LeavesAfterAllEntered
<1>1. Init => Met BY DEF Init, Met, HasMet, Fresh
<1>2. IInv /\ AInv /\ Met /\ [Next]_vars => Met' BY MetNext
<1>3. Init => Abstract!Init
  <2>1. ASSUME Init PROVE Left = [r \in Ranks |-> 0] BY <2>1 DEF Init, Left
  <2> QED BY <2>1 DEF Init, Left, Abstract!Init
<1>4. IInv /\ IInv' /\ AInv /\ Met /\ [Next]_vars
        => [Abstract!Next]_<<program, step, Left>>
  BY StepsSeen
<1> QED BY <1>1, <1>2, <1>3, <1>4, Inductive, AlwaysAgree, PTL
        DEF Spec, LeavesAfterAllEntered, Abstract!Safe, Abstract!vars, Left
================================================================================
