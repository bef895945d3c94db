------------------------------- MODULE Lending --------------------------------
(***************************************************************************)
(* The library at work (module Interception) as the user of the buffer     *)
(* manager (module BufManager).  The pools of Interception say which       *)
(* buffers are in use; the history variable of this module adds which      *)
(* bytes behind them the grab_* functions have told their callers to       *)
(* write to.  BufManager assumes something of its users, a guard of its    *)
(* actions or the set of sizes they may ask for; here the mock-ups are     *)
(* shown to be such users, and to have their scratch bytes to themselves.  *)
(***************************************************************************)
EXTENDS Interception

VARIABLE lent    \* of each process: buffer in use |-> the bytes handed out

lendingVars == <<program, step, stack, waiting, pool, algid, profile, store, ran, lent>>

(* The bytes that process r is handed with buffer b, which it is taking.   *)
Handed(r, b) ==
  LET start == StartOf(pool[r], b)
  IN  [from |-> start, to |-> start + Instr(Top(r)).size]

(* What is in use stays with whom it was handed to.                        *)
Record ==
  lent' = [r \in Ranks |-> [b \in pool'[r].used |->
             IF b \in pool[r].used THEN lent[r][b] ELSE Handed(r, b)]]

NothingLent == [b \in {} |-> [from |-> 0, to |-> 0]]

LendingInit == Init /\ lent = [r \in Ranks |-> NothingLent]
LendingNext == Next /\ Record
LendingSpec == LendingInit /\ [][LendingNext]_lendingVars

-------------------------------------------------------------------------------

(* The buffer manager of process r, from pgmpi_allocate_buffers on, both   *)
(* areas allocated.  No request that is granted exceeds the two limits.    *)
Manager(r) == INSTANCE BufManager WITH
                MaxBytes <- Limit["msg"] + Limit["int"],
                phase    <- "running",
                limit    <- Limit,
                memory   <- [k \in Kinds |-> Unit(k) * (Limit[k] \div Unit(k))],
                pool     <- pool[r],
                regions  <- lent[r]

(* The mock-ups, however nested and wherever they give up, use the buffer  *)
(* manager as it must be used: what they do to it is a run of BufManager   *)
(* after its Allocate.  No mock-up takes the second buffer of an area      *)
(* without the first, releases an area of which the first is not lent, or  *)
(* asks for part of an int.                                                *)
LawfulUse ==
  /\ \A r \in Ranks : pool[r] = EmptyPool /\ lent[r] = NothingLent
  /\ [][\A r \in Ranks : Manager(r)!Next \/ UNCHANGED <<pool[r], lent[r]>>]_<<pool, lent>>

(* Two buffers of a process, in one area or in both, without a common byte.*)
NoCommonByte(r, b, c) ==
  \/ Kind(b) # Kind(c)
  \/ lent[r][b].to <= lent[r][c].from
  \/ lent[r][c].to <= lent[r][b].from

(* Every mock-up that is running, at whatever depth, has all the bytes it  *)
(* has asked for to itself: they are allocated memory, and neither its own *)
(* other buffer nor one of a mock-up it was called from or calls shares    *)
(* any of them.                                                            *)
OwnBytes ==
  \A r \in Ranks : \A i \in 1..Len(stack[r]) : \A b \in Held(stack[r][i]) :
    /\ b \in DOMAIN lent[r]
    /\ lent[r][b].to <= Unit(Kind(b)) * (Limit[Kind(b)] \div Unit(Kind(b)))
    /\ \A k \in 1..(stack[r][i].ip - 1) :
         LET g == Script(stack[r][i])[k]
         IN  g.op = "grab" /\ g.buf = b => lent[r][b].to = lent[r][b].from + g.size
    /\ \A j \in 1..Len(stack[r]) : \A c \in Held(stack[r][j]) :
         <<i, b>> # <<j, c>> => NoCommonByte(r, b, c)
===============================================================================
