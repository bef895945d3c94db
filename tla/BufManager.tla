------------------------------ MODULE BufManager ------------------------------
(***************************************************************************)
(* The buffer manager (src/src/bufmanager/pgmpi_buf.c) as a component: the *)
(* pool, the memory behind it, and the regions its users have been told    *)
(* they may write to.                                                      *)
(*                                                                         *)
(* Its users are the mock-ups.  All of them take the first buffer of an    *)
(* area before the second and release an area only after having taken its  *)
(* first buffer; the guards of GrabSecond and Release state it here.  An   *)
(* int request is a whole number of ints: every caller passes              *)
(* size * sizeof(int).  Module Lending shows that the mock-ups, nested and *)
(* giving up as they may, are such users.                                  *)
(***************************************************************************)
EXTENDS BufferPool, Integers

CONSTANT MaxBytes      \* bound: largest limit and largest request, in bytes

ASSUME MaxBytesAssumption == MaxBytes \in Nat

VARIABLES phase,     \* "before" MPI_Init, "running", "after" MPI_Finalize
          limit,     \* total_msg_buf_size and total_int_buf_size
          memory,    \* bytes really behind each area, 0 when there are none
          pool,      \* in-use flags and offsets
          regions    \* buffer in use |-> the bytes its user may write to

vars == <<phase, limit, memory, pool, regions>>

NoRegions == [b \in {} |-> [from |-> 0, to |-> 0]]

(* Requests a mock-up can make of an area: any number of bytes for message *)
(* data, a whole number of ints for an array of counts.                    *)
Requests(k) == {s \in 0..MaxBytes : k = "int" => s % SizeofInt = 0}

(* A slip Room could have: one unit short, even of nothing.                *)
RoomShort(l, k) == l[k] - Unit(k)

(* Room an area has when its memory could be allocated: whole units only.  *)
Room(l, k) == Unit(k) * (l[k] \div Unit(k))

(* Between process start and MPI_Init: no limit, no memory.                *)
Init ==
  /\ phase = "before"
  /\ limit = [k \in Kinds |-> 0]
  /\ memory = [k \in Kinds |-> 0]
  /\ pool = EmptyPool
  /\ regions = NoRegions

(* pgmpi_allocate_buffers, called by MPI_Init: the limits are taken as     *)
(* configured even when malloc fails for an area; the caller ignores the   *)
(* BUF_MALLOC_FAILED it gets.                                              *)
Allocate ==
  /\ phase = "before"
  /\ phase' = "running"
  /\ limit' \in [Kinds -> 0..MaxBytes]
  /\ \E got \in SUBSET Kinds :
       memory' = [k \in Kinds |-> IF k \in got THEN Room(limit', k) ELSE 0]
  /\ pool' = EmptyPool
  /\ regions' = NoRegions

(* pgmpi_free_buffers, called by MPI_Finalize: limits and flags stay.      *)
Free ==
  /\ phase = "running"
  /\ phase' = "after"
  /\ memory' = [k \in Kinds |-> 0]
  /\ regions' = NoRegions
  /\ UNCHANGED <<limit, pool>>

(* A successful grab tells its caller where the buffer starts.             *)
Hand(b, size) ==
  LET start == StartOf(pool, b)
  IN  /\ phase = "running"
      /\ Fits(pool, limit, b, size)
      /\ pool' = Grabbed(pool, b, size)
      /\ regions' = [c \in DOMAIN regions \cup {b} |->
                       IF c = b THEN [from |-> start, to |-> start + size]
                       ELSE regions[c]]
      /\ UNCHANGED <<phase, limit, memory>>

(* grab_msg_buffer_1, grab_int_buffer_1                                    *)
GrabFirst(k) == \E size \in Requests(k) : Hand(First(k), size)

(* grab_msg_buffer_2, grab_int_buffer_2: the caller holds the first one.   *)
GrabSecond(k) ==
  /\ First(k) \in DOMAIN regions
  /\ \E size \in Requests(k) : Hand(Second(k), size)

(* release_msg_buffers, release_int_buffers: the caller holds the first.   *)
Release(k) ==
  /\ phase = "running"
  /\ First(k) \in DOMAIN regions
  /\ pool' = Released(pool, k)
  /\ regions' = [b \in {c \in DOMAIN regions : Kind(c) # k} |-> regions[b]]
  /\ UNCHANGED <<phase, limit, memory>>

Next == \/ Allocate \/ Free
        \/ \E k \in Kinds : GrabFirst(k) \/ GrabSecond(k) \/ Release(k)

Spec == Init /\ [][Next]_vars

-------------------------------------------------------------------------------

Region == [from : Nat, to : Nat]

(* Type invariant of the component's variables. *)
TypeOK ==
  /\ phase \in {"before", "running", "after"}
  /\ limit \in Limits
  /\ memory \in Limits
  /\ pool \in Pools
  /\ DOMAIN regions \subseteq Bufs
  /\ \A b \in DOMAIN regions : regions[b] \in Region

(* Two buffers of one area that are in use at the same time share no byte: *)
(* what a mock-up writes to its padded send buffer never shows up in the   *)
(* chunk it receives.  This is what the offsets of pgmpi_buf.c are for.    *)
Disjoint ==
  \A k \in Kinds :
    {First(k), Second(k)} \subseteq DOMAIN regions
      => regions[First(k)].to <= regions[Second(k)].from

(* Every byte a user may write to is memory the library has allocated, for *)
(* both areas and even when the limit of the int area is not a whole       *)
(* number of ints (pgmpi_buf.c:97 allocates fewer bytes than the limit).   *)
(* An area whose malloc failed is the exception: its grabs succeed and     *)
(* hand out addresses counted from a null pointer.                         *)
InsideMemory ==
  \A b \in DOMAIN regions :
    memory[Kind(b)] = Room(limit, Kind(b)) => regions[b].to <= memory[Kind(b)]
================================================================================
