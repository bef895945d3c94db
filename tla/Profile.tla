-------------------------------- MODULE Profile --------------------------------
(***************************************************************************)
(* Performance profiles on their way from a directory of files to the      *)
(* answer of a look-up: the reader                                         *)
(* (src/src/tuning/pgmpi_profile_reader.c), the profiles                   *)
(* (pgmpi_profile.c), the table with one profile per collective            *)
(* (pgmpi_function_replacer.c) and the context of the tuned library        *)
(* (pgmpi_mpihook_tuned.c), in one process.                                *)
(*                                                                         *)
(* A file is what its lines say.  An algorithm's name is its id; an id     *)
(* that the collective does not have stands for an unknown name.           *)
(***************************************************************************)
EXTENDS Mockups

CONSTANTS Directories,  \* what a profile path may lead to
          Garbage,      \* the ranges that uninitialised memory may look like
          Width,        \* bits of an int
          Queries,      \* the calls that look an algorithm up
          MaxFills      \* bound: how often the table is filled

File == [coll : Collectives \cup {"unknown"}, procs : Int,
         algs : Seq([ref : Int, name : Nat]),
         ranges : Seq([lo : Int, hi : Int, ref : Int]),
         complete : BOOLEAN]     \* whether it has all the lines it announces

(* A directory entry; prf: its name contains "prf".                        *)
Entry    == [prf : BOOLEAN, file : File]
MsgRange == [lo : Int, hi : Int, alg : Int]

ASSUME DirectoriesAssumption == Directories \subseteq Seq(Entry)
ASSUME GarbageAssumption == Garbage \subseteq MsgRange /\ Garbage # {}
ASSUME QueriesAssumption ==
  Queries \subseteq [coll : Collectives, count : Nat, e : Nat \ {0}, procs : Nat \ {0}]
ASSUME BoundsAssumption == Width \in Nat \ {0} /\ MaxFills \in Nat

VARIABLES phase,     \* where the process is: "ready" when calls can be made
          fills,     \* how often the table has been filled
          dir,       \* the directory it reads, in readdir order
          pos,       \* how many entries the second pass has been over
          profiles,  \* the array allocated after the first pass
          cur,       \* cur_prof_idx: how many of them the second pass has used
          table      \* the profile of each collective, or NoProfile

vars == <<phase, fills, dir, pos, profiles, cur, table>>

-------------------------------------------------------------------------------
(* One file.                                                               *)

(* What calloc leaves: cid 0, no processes, no ranges.                     *)
ZeroProfile == [cid |-> "Allgather", procs |-> 0, ranges |-> <<>>]
NoProfile   == [cid |-> "none", procs |-> 0, ranges |-> <<>>]

(* pgmpi_profile_read returns -1 and leaves the profile as it was.         *)
Rejected(f) == f.procs <= 0 \/ (f.complete /\ f.ranges = <<>>)

(* What a reference means: the first algorithm with that number.           *)
Dangling(f, ref) == \A i \in 1..Len(f.algs) : f.algs[i].ref # ref
NameOf(f, ref) ==
  f.algs[CHOOSE i \in 1..Len(f.algs) :
           f.algs[i].ref = ref /\ \A j \in 1..(i - 1) : f.algs[j].ref # ref].name

(* The process exits or an assertion aborts it.                            *)
Valid(f, rg) ==
  Dangling(f, rg.ref) \/
    (0 <= rg.lo /\ rg.lo <= rg.hi /\ NameOf(f, rg.ref) \in AlgIds(f.coll))

Fatal(f) ==
  /\ ~Rejected(f)
  /\ ~(/\ f.complete /\ f.coll # "unknown"
       /\ \A i \in 1..Len(f.ranges) : Valid(f, f.ranges[i]))

(* The profile of a file.  A range with a dangling reference is skipped    *)
(* with a warning: its place in the array keeps what malloc left there.    *)
(* A slip it could have: taking the reference for the algorithm.           *)
ParsedByRef(f, garbage) ==
  [cid |-> f.coll, procs |-> f.procs,
   ranges |-> [i \in 1..Len(f.ranges) |->
     LET rg == f.ranges[i]
     IN  IF Dangling(f, rg.ref) THEN garbage[i]
         ELSE [lo |-> rg.lo, hi |-> rg.hi, alg |-> rg.ref]]]

Parsed(f, garbage) ==
  [cid |-> f.coll, procs |-> f.procs,
   ranges |-> [i \in 1..Len(f.ranges) |->
     LET rg == f.ranges[i]
     IN  IF Dangling(f, rg.ref) THEN garbage[i]
         ELSE [lo |-> rg.lo, hi |-> rg.hi, alg |-> NameOf(f, rg.ref)]]]

-------------------------------------------------------------------------------
(* Filling the table, at MPI_Init and again whenever the application       *)
(* overrides the parameters.                                               *)

Begin ==
  /\ phase \in {"start", "ready"} /\ fills < MaxFills
  /\ fills' = fills + 1
  /\ table' = [coll \in Collectives |-> NoProfile]

(* No profile path, or one that cannot be opened.                          *)
FillNothing ==
  /\ Begin
  /\ phase' = "ready"
  /\ dir' = <<>> /\ profiles' = <<>> /\ pos' = 0 /\ cur' = 0

(* The first pass over a directory counts the profiles.                    *)
Listed(d) == {i \in 1..Len(d) : d[i].prf}

OpenDirectory ==
  /\ Begin
  /\ \E d \in Directories :
       /\ dir' = d
       /\ profiles' = [i \in 1..Cardinality(Listed(d)) |-> ZeroProfile]
  /\ pos' = 0 /\ cur' = 0
  /\ phase' = "reading"

(* The second pass reads them.                                             *)
(* A slip it could have: reading whatever is in the directory.             *)
ReadsAll(entry) == TRUE
Reads(entry) == entry.prf

More == phase = "reading" /\ pos < Len(dir)

SkipEntry ==
  /\ More
  /\ ~Reads(dir[pos + 1])
  /\ pos' = pos + 1
  /\ UNCHANGED <<phase, fills, dir, profiles, cur, table>>

ReadProfile ==
  /\ More
  /\ LET f == dir[pos + 1].file
     IN  /\ Reads(dir[pos + 1])
         /\ ~Fatal(f)
         /\ IF Rejected(f) THEN UNCHANGED profiles
            ELSE \E garbage \in [1..Len(f.ranges) -> Garbage] :
                   profiles' = [profiles EXCEPT ![cur + 1] = Parsed(f, garbage)]
  /\ pos' = pos + 1 /\ cur' = cur + 1
  /\ UNCHANGED <<phase, fills, dir, table>>

Die ==
  /\ More
  /\ Reads(dir[pos + 1]) /\ Fatal(dir[pos + 1].file)
  /\ phase' = "dead"
  /\ UNCHANGED <<fills, dir, pos, profiles, cur, table>>

(* Each profile of the array is put in its collective's place.             *)
OfColl(coll) == {i \in 1..Len(profiles) : profiles[i].cid = coll}

AddProfiles ==
  /\ phase = "reading" /\ pos = Len(dir)
  /\ table' = [coll \in Collectives |->
       IF OfColl(coll) = {} THEN NoProfile
       ELSE profiles[CHOOSE i \in OfColl(coll) : \A j \in OfColl(coll) : j <= i]]
  /\ phase' = "ready"
  /\ UNCHANGED <<fills, dir, pos, profiles, cur>>

(* MPI_Finalize frees the table and the profiles in it.                    *)
FreeTable ==
  /\ phase = "ready"
  /\ phase' = "finalized"
  /\ table' = [coll \in Collectives |-> NoProfile]
  /\ UNCHANGED <<fills, dir, pos, profiles, cur>>

Stop == phase \in {"finalized", "dead"} /\ UNCHANGED vars

Init ==
  /\ phase = "start" /\ fills = 0 /\ dir = <<>> /\ pos = 0
  /\ profiles = <<>> /\ cur = 0
  /\ table = [coll \in Collectives |-> NoProfile]

Next == \/ FillNothing \/ OpenDirectory \/ SkipEntry \/ ReadProfile \/ Die
        \/ AddProfiles \/ FreeTable \/ Stop

Spec == Init /\ [][Next]_vars

-------------------------------------------------------------------------------
(* The look-up.                                                            *)

(* A number of bytes is computed in the width of MPI_Aint and returned as  *)
(* an int.                                                                 *)
AsInt(x) == LET m == x % 2^Width IN IF m < 2^(Width - 1) THEN m ELSE m - 2^Width

(* The first range that holds the size decides.                            *)
(* A slip it could have: leaving out the end of the range.                 *)
HoldsHalfOpen(rg, size) == rg.lo <= size /\ size < rg.hi
Holds(rg, size) == rg.lo <= size /\ size <= rg.hi

FindAlg(p, size) ==
  LET hits == {i \in 1..Len(p.ranges) : Holds(p.ranges[i], size)}
  IN  IF hits = {} THEN DEFAULT
      ELSE p.ranges[CHOOSE i \in hits : \A j \in hits : i <= j].alg

(* context_get_algorithm, for count elements of e bytes on a communicator  *)
(* of so many processes.                                                   *)
Answer(q) ==
  LET size == AsInt(q.count * q.e)
      p    == table[q.coll]
  IN  IF size <= 0 \/ p = NoProfile \/ p.procs # q.procs THEN DEFAULT
      ELSE FindAlg(p, size)

-------------------------------------------------------------------------------

(* A profile that the reader can have built: its algorithms exist, but for *)
(* the ranges it has skipped.                                              *)
Profiles ==
  {p \in [cid : Collectives, procs : Nat, ranges : Seq(MsgRange)] :
     \A i \in 1..Len(p.ranges) :
       p.ranges[i].alg \in AlgIds(p.cid) \/ p.ranges[i] \in Garbage}

(* Type invariant. *)
TypeOK ==
  /\ phase \in {"start", "reading", "ready", "finalized", "dead"}
  /\ fills \in 0..MaxFills
  /\ dir \in Seq(Entry) /\ pos \in 0..Len(dir)
  /\ profiles \in Seq(Profiles) /\ cur \in Nat
  /\ table \in [Collectives -> Profiles \cup {NoProfile}]

(* The second pass stores as many profiles as the first one has counted:   *)
(* never one behind the end of the array, and none is missing at the end.  *)
PassesAgree ==
  /\ cur <= Len(profiles)
  /\ phase = "reading" /\ pos = Len(dir) => cur = Len(profiles)

(* What a file says of a call: an algorithm for each of its ranges that    *)
(* holds the bytes, if it was made for that many processes.  Nothing is    *)
(* said of a call that moves no data.                                      *)
Said(f, q) ==
  IF Rejected(f) \/ f.coll # q.coll \/ f.procs # q.procs \/ q.count = 0 THEN {}
  ELSE {NameOf(f, f.ranges[i].ref) :
          i \in {i \in 1..Len(f.ranges) :
                  /\ q.count * q.e \in f.ranges[i].lo..f.ranges[i].hi
                  /\ ~Dangling(f, f.ranges[i].ref)}}

(* Directories that say one thing: at most one profile of a collective, no *)
(* rejected file beside a profile of Allgather, no range that is skipped.  *)
Unambiguous(d) ==
  \A i \in Listed(d) :
    /\ ~Rejected(d[i].file) =>
         \A k \in 1..Len(d[i].file.ranges) :
           ~Dangling(d[i].file, d[i].file.ranges[k].ref)
    /\ \A j \in Listed(d) : ~Rejected(d[j].file) =>
         IF Rejected(d[i].file) THEN d[j].file.coll # "Allgather"
         ELSE i = j \/ d[i].file.coll # d[j].file.coll

(* An int can count the bytes of the message.                              *)
Countable(q) == AsInt(q.count * q.e) = q.count * q.e

(* A profile replaces the function, on the number of processes it was made *)
(* for, in its message size ranges and nowhere else (README.md:83-86): a   *)
(* look-up gives what the files in the directory say, whatever order they  *)
(* come in, and the default when none says anything.                       *)
LookupsTrue ==
  phase = "ready" =>
    \A q \in Queries :
      LET said == UNION {Said(dir[i].file, q) : i \in Listed(dir)}
      IN  Answer(q) \in (IF said = {} THEN {DEFAULT} ELSE said)
================================================================================
