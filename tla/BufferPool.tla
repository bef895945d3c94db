------------------------------ MODULE BufferPool ------------------------------
(***************************************************************************)
(* The scratch memory of one process, as pure operators on a pool record.  *)
(*                                                                         *)
(* The library owns two memory areas, one for message data and one for the *)
(* count and displacement arrays of the vector collectives.  From each it  *)
(* hands out at most two buffers: the first starts at byte 0, the second   *)
(* right after the first.  A pool is what pgmpi_buf.c keeps in its file-   *)
(* scope variables: the four in-use flags (a set) and the two offsets.     *)
(***************************************************************************)
EXTENDS Naturals, FiniteSets

Kinds == {"msg", "int"}
Slots == {1, 2}
Bufs  == Kinds \X Slots

First(k)  == <<k, 1>>
Second(k) == <<k, 2>>
Kind(b)   == b[1]
Slot(b)   == b[2]

SizeofInt == 4

(* The offset of the message area counts bytes, that of the int area ints. *)
Unit(k) == IF k = "int" THEN SizeofInt ELSE 1

Pools  == [used : SUBSET Bufs, offset : [Kinds -> Nat]]
Limits == [Kinds -> Nat]

EmptyPool == [used |-> {}, offset |-> [k \in Kinds |-> 0]]

(* The byte at which a buffer handed out now would start. *)
StartOf(pool, b) == IF Slot(b) = 1 THEN 0
                    ELSE pool.offset[Kind(b)] * Unit(Kind(b))

(* Slips Fits could have: not testing the in-use flag, comparing the size   *)
(* of a second buffer alone, refusing a buffer that ends at the limit.     *)
FitsInUse(pool, limit, b, size) ==
  StartOf(pool, b) + size <= limit[Kind(b)]
FitsAlone(pool, limit, b, size) ==
  b \notin pool.used /\ size <= limit[Kind(b)]
FitsBelow(pool, limit, b, size) ==
  b \notin pool.used /\ StartOf(pool, b) + size < limit[Kind(b)]

(* The test each grab_* function makes: the buffer is not in use and its   *)
(* last byte lies within the configured size of its area.                  *)
Fits(pool, limit, b, size) ==
  /\ b \notin pool.used
  /\ StartOf(pool, b) + size <= limit[Kind(b)]

(* A slip Grabbed could have: the offset is not moved.                     *)
GrabbedInPlace(pool, b, size) == [pool EXCEPT !.used = @ \cup {b}]

(* The pool after a successful grab.  Only the first buffer of an area     *)
(* moves the offset; the int offset is the size in whole ints, because     *)
(* ceil() is applied to the result of an integer division.                 *)
Grabbed(pool, b, size) ==
  [used   |-> pool.used \cup {b},
   offset |-> IF Slot(b) = 1
              THEN [pool.offset EXCEPT ![Kind(b)] = size \div Unit(Kind(b))]
              ELSE pool.offset]

(* release_msg_buffers and release_int_buffers clear both flags of their   *)
(* area, whoever set them, and leave the offset.                           *)
Released(pool, k) == [pool EXCEPT !.used = {b \in @ : Kind(b) # k}]
================================================================================
