----------------------------- MODULE ProfileProofs -----------------------------
(***************************************************************************)
(* The two passes over a profile directory agree, the table holds only     *)
(* profiles a look-up can work with, for any directories of any length,    *)
(* and look-ups give what the files say, where these say one thing.        *)
(***************************************************************************)
EXTENDS Profile, FiniteSetTheorems, SequenceTheorems,
        WellFoundedInduction, TLAPS

(* The profiles among the first n entries.                                 *)
ListedUpTo(n) == {i \in 1..n : dir[i].prf}

(* The inductive invariant: the second pass has used one place of the      *)
(* array for each profile it has come by, and the array has one for each   *)
(* profile of the directory.                                               *)
IInv ==
  /\ TypeOK
  /\ cur = Cardinality(ListedUpTo(pos))
  /\ Len(profiles) = Cardinality(Listed(dir))

-------------------------------------------------------------------------------

LEMMA AlgIdsInt == \A coll \in Collectives : AlgIds(coll) \subseteq Nat
<1> SUFFICES ASSUME NEW coll \in Collectives PROVE AlgIds(coll) \subseteq Nat
  OBVIOUS
<1>1. CASE coll \in {"Alltoall", "Scan"} BY <1>1 DEF AlgIds
<1>2. CASE coll \in {"Bcast", "Scatter"} BY <1>2 DEF AlgIds
<1>3. CASE coll \in {"Allreduce", "Gather", "Reduce_scatter_block"} BY <1>3 DEF AlgIds
<1>4. CASE coll \in {"Allgather", "Reduce"} BY <1>4 DEF AlgIds
<1> QED BY <1>1, <1>2, <1>3, <1>4 DEF Collectives

(* Cardinality of a set of positions, whatever stands there. *)
LEMMA Positions ==
  ASSUME NEW n \in Nat, NEW S \in SUBSET (1..n)
  PROVE  IsFiniteSet(S) /\ Cardinality(S) \in Nat
<1>1. IsFiniteSet(1..n) BY FS_Interval
<1>2. IsFiniteSet(S) BY <1>1, FS_Subset
<1> QED BY <1>2, FS_CardinalityType

(* A finite, non-empty set of positions has a last one. *)
LEMMA LastPosition ==
  ASSUME NEW n \in Nat, NEW S \in SUBSET (1..n), S # {}
  PROVE  \E i \in S : \A j \in S : j <= i
<1> DEFINE D == {n - i : i \in S}
<1>1. D \subseteq Nat
  <2> SUFFICES ASSUME NEW i \in S PROVE n - i \in Nat
    OBVIOUS
  <2> QED OBVIOUS
<1>2. PICK d \in D : \A c \in D : d <= c
  <2>1. D # {} OBVIOUS
  <2> HIDE DEF D
  <2>2. PICK d \in D : \A c \in D : ~ (<<c, d>> \in OpToRel(<, Nat))
    BY <1>1, <2>1, NatLessThanWellFounded, WFMin
  <2>3. \A c \in D : ~ (c < d) BY <1>1, <2>2 DEF OpToRel
  <2> QED BY <1>1, <2>3
<1>3. PICK i \in S : d = n - i BY <1>2
<1>4. \A j \in S : j <= i
  <2> SUFFICES ASSUME NEW j \in S PROVE j <= i
    OBVIOUS
  <2>1. n - i <= n - j BY <1>2, <1>3
  <2> QED BY <2>1
<1> QED BY <1>4

(* Passing one more entry. *)
LEMMA OneMore ==
  ASSUME NEW d \in Seq(Entry), NEW n \in Nat, n < Len(d)
  PROVE  LET before == {i \in 1..n : d[i].prf}
             after  == {i \in 1..(n + 1) : d[i].prf}
         IN  /\ ~d[n + 1].prf => after = before
             /\ d[n + 1].prf => Cardinality(after) = Cardinality(before) + 1
             /\ Cardinality(after) <= Cardinality({i \in 1..Len(d) : d[i].prf})
<1> DEFINE before == {i \in 1..n : d[i].prf}
           after  == {i \in 1..(n + 1) : d[i].prf}
           all    == {i \in 1..Len(d) : d[i].prf}
<1>1. Len(d) \in Nat OBVIOUS
<1>2. ~d[n + 1].prf => after = before OBVIOUS
<1>3. d[n + 1].prf => after = before \cup {n + 1} OBVIOUS
<1>4. n + 1 \notin before OBVIOUS
<1>5. IsFiniteSet(before)
  <2>1. before \in SUBSET (1..n) OBVIOUS
  <2> QED BY <2>1, Positions
<1>6. d[n + 1].prf => Cardinality(after) = Cardinality(before) + 1
  BY <1>3, <1>4, <1>5, FS_AddElement
<1>7. Cardinality(after) <= Cardinality(all)
  <2>1. after \in SUBSET all BY <1>1
  <2>2. all \in SUBSET (1..Len(d)) OBVIOUS
  <2>3. IsFiniteSet(all) BY <1>1, <2>2, Positions
  <2> QED BY <2>1, <2>3, FS_Subset
<1> QED BY <1>2, <1>6, <1>7

LEMMA ZeroSound == ZeroProfile \in Profiles
<1>1. <<>> \in Seq(MsgRange) /\ Len(<<>>) = 0 BY EmptySeq
<1>2. ZeroProfile \in [cid : Collectives, procs : Nat, ranges : Seq(MsgRange)]
  BY <1>1 DEF ZeroProfile, Collectives
<1> QED BY <1>1, <1>2 DEF Profiles, ZeroProfile

(* What the reader makes of a file it accepts. *)
LEMMA ParsedSound ==
  ASSUME NEW f \in File, ~Rejected(f), ~Fatal(f),
         NEW garbage \in [1..Len(f.ranges) -> Garbage]
  PROVE  Parsed(f, garbage) \in Profiles
<1> DEFINE p == Parsed(f, garbage)
           n == Len(f.ranges)
<1>1. /\ f.procs \in Nat /\ f.coll \in Collectives
      /\ \A i \in 1..n : Valid(f, f.ranges[i])
  BY DEF Rejected, Fatal, File
<1>2. f.ranges \in Seq([lo : Int, hi : Int, ref : Int]) /\ n \in Nat BY DEF File
<1>3. p.cid = f.coll /\ p.procs = f.procs BY DEF Parsed
<1>4. \A i \in 1..n : /\ p.ranges[i] \in MsgRange
                      /\ p.ranges[i].alg \in AlgIds(f.coll) \/ p.ranges[i] \in Garbage
  <2> SUFFICES ASSUME NEW i \in 1..n
               PROVE  /\ p.ranges[i] \in MsgRange
                      /\ p.ranges[i].alg \in AlgIds(f.coll) \/ p.ranges[i] \in Garbage
    OBVIOUS
  <2> DEFINE rg == f.ranges[i]
  <2>1. rg \in [lo : Int, hi : Int, ref : Int] BY <1>2, ElementOfSeq
  <2>2. CASE Dangling(f, rg.ref)
    <3>1. p.ranges[i] = garbage[i] BY <2>2 DEF Parsed
    <3> QED BY <3>1, GarbageAssumption
  <2>3. CASE ~Dangling(f, rg.ref)
    <3>1. p.ranges[i] = [lo |-> rg.lo, hi |-> rg.hi, alg |-> NameOf(f, rg.ref)]
      BY <2>3 DEF Parsed
    <3>2. NameOf(f, rg.ref) \in AlgIds(f.coll) BY <1>1, <2>3 DEF Valid
    <3>3. NameOf(f, rg.ref) \in Int BY <1>1, <3>2, AlgIdsInt
    <3> QED BY <2>1, <3>1, <3>2, <3>3 DEF MsgRange
  <2> QED BY <2>2, <2>3
<1>5. p.ranges \in [1..n -> MsgRange]
  <2>1. p.ranges = [i \in 1..n |-> p.ranges[i]] BY DEF Parsed
  <2> QED BY <1>4, <2>1
<1>6. p.ranges \in Seq(MsgRange) /\ Len(p.ranges) = n
  <2> DEFINE q == p.ranges
  <2>1. q \in [1..n -> MsgRange] /\ n \in Nat BY <1>2, <1>5
  <2> HIDE DEF q, n
  <2>2. q \in Seq(MsgRange) BY <2>1, SeqDef
  <2>3. Len(q) = n BY <2>1
  <2> QED BY <2>2, <2>3 DEF q
<1>7. p = [cid |-> p.cid, procs |-> p.procs, ranges |-> p.ranges] BY DEF Parsed
<1> HIDE DEF p
<1>8. p \in [cid : Collectives, procs : Nat, ranges : Seq(MsgRange)]
  BY <1>1, <1>3, <1>6, <1>7
<1> QED BY <1>3, <1>4, <1>6, <1>8 DEF Profiles, p

-------------------------------------------------------------------------------
(* Steps.                                                                  *)

LEMMA InitIInv == Init => IInv
<1> SUFFICES ASSUME Init PROVE IInv
  OBVIOUS
<1>1. <<>> \in Seq(Entry) /\ <<>> \in Seq(Profiles) /\ Len(<<>>) = 0 BY EmptySeq
<1>2. ListedUpTo(0) = {} /\ Listed(<<>>) = {}
  BY <1>1 DEF ListedUpTo, Listed
<1>3. Cardinality({}) = 0 BY FS_EmptySet
<1>4. TypeOK BY <1>1, BoundsAssumption DEF Init, TypeOK
<1> QED BY <1>1, <1>2, <1>3, <1>4 DEF Init, IInv

LEMMA FillNothingIInv == IInv /\ FillNothing => IInv'
<1> SUFFICES ASSUME IInv, FillNothing PROVE IInv'
  OBVIOUS
<1>1. <<>> \in Seq(Entry) /\ <<>> \in Seq(Profiles) /\ Len(<<>>) = 0 BY EmptySeq
<1>2. /\ dir' = <<>> /\ profiles' = <<>> /\ pos' = 0 /\ cur' = 0 /\ phase' = "ready"
      /\ fills' = fills + 1 /\ fills < MaxFills
      /\ table' = [coll \in Collectives |-> NoProfile]
  BY DEF FillNothing, Begin
<1>3. ListedUpTo(pos)' = {} /\ Listed(dir)' = {}
  BY <1>1, <1>2 DEF ListedUpTo, Listed
<1>4. Cardinality({}) = 0 BY FS_EmptySet
<1>5. fills' \in 0..MaxFills BY <1>2, BoundsAssumption DEF IInv, TypeOK
<1>6. TypeOK' BY <1>1, <1>2, <1>5 DEF TypeOK
<1> QED BY <1>1, <1>2, <1>3, <1>4, <1>6 DEF IInv

LEMMA OpenDirectoryIInv == IInv /\ OpenDirectory => IInv'
<1> SUFFICES ASSUME IInv, OpenDirectory PROVE IInv'
  OBVIOUS
<1>1. PICK d \in Directories :
        /\ dir' = d
        /\ profiles' = [i \in 1..Cardinality(Listed(d)) |-> ZeroProfile]
  BY DEF OpenDirectory
<1>2. /\ pos' = 0 /\ cur' = 0 /\ phase' = "reading"
      /\ fills' = fills + 1 /\ fills < MaxFills
      /\ table' = [coll \in Collectives |-> NoProfile]
  BY DEF OpenDirectory, Begin
<1>3. d \in Seq(Entry) /\ Len(d) \in Nat BY DirectoriesAssumption
<1> DEFINE n == Cardinality(Listed(d))
<1>4. n \in Nat
  <2>1. Listed(d) \in SUBSET (1..Len(d)) BY DEF Listed
  <2> QED BY <1>3, <2>1, Positions
<1>5. profiles' = [i \in 1..n |-> ZeroProfile] BY <1>1
<1> HIDE DEF n
<1>6. profiles' \in [1..n -> Profiles] BY <1>5, ZeroSound
<1>7. profiles' \in Seq(Profiles) BY <1>4, <1>6, SeqDef
<1>8. Len(profiles') = n BY <1>4, <1>5
<1>9. ListedUpTo(pos)' = {} BY <1>2 DEF ListedUpTo
<1>10. Cardinality({}) = 0 BY FS_EmptySet
<1>11. fills' \in 0..MaxFills BY <1>2, BoundsAssumption DEF IInv, TypeOK
<1>12. TypeOK' BY <1>1, <1>2, <1>3, <1>7, <1>11 DEF TypeOK
<1> QED BY <1>1, <1>2, <1>8, <1>9, <1>10, <1>12 DEF IInv, n

LEMMA SkipEntryIInv == IInv /\ SkipEntry => IInv'
<1> SUFFICES ASSUME IInv, SkipEntry PROVE IInv'
  OBVIOUS
<1>1. /\ pos < Len(dir) /\ pos' = pos + 1 /\ ~dir[pos + 1].prf
      /\ UNCHANGED <<phase, fills, dir, profiles, cur, table>>
  BY DEF SkipEntry, More, Reads
<1>2. dir \in Seq(Entry) /\ pos \in Nat /\ Len(dir) \in Nat BY DEF IInv, TypeOK
<1>3. {i \in 1..(pos + 1) : dir[i].prf} = {i \in 1..pos : dir[i].prf}
  BY <1>1, <1>2, OneMore
<1>4. ListedUpTo(pos)' = ListedUpTo(pos) BY <1>1, <1>3 DEF ListedUpTo
<1>5. TypeOK' BY <1>1, <1>2 DEF IInv, TypeOK
<1> QED BY <1>1, <1>4, <1>5 DEF IInv

(* The place that the next profile is read into exists. *)
LEMMA RoomForNext ==
  ASSUME IInv, pos < Len(dir), dir[pos + 1].prf
  PROVE  /\ cur + 1 \in 1..Len(profiles)
         /\ Cardinality({i \in 1..(pos + 1) : dir[i].prf}) = cur + 1
<1>1. /\ dir \in Seq(Entry) /\ pos \in Nat /\ cur \in Nat
      /\ profiles \in Seq(Profiles)
  BY DEF IInv, TypeOK
<1>2. Cardinality({i \in 1..(pos + 1) : dir[i].prf}) = Cardinality(ListedUpTo(pos)) + 1
  BY <1>1, OneMore DEF ListedUpTo
<1>3. Cardinality({i \in 1..(pos + 1) : dir[i].prf}) <= Cardinality(Listed(dir))
  BY <1>1, OneMore DEF Listed
<1>4. Len(profiles) \in Nat BY <1>1, LenProperties
<1> QED BY <1>1, <1>2, <1>3, <1>4 DEF IInv

LEMMA ReadProfileIInv == IInv /\ ReadProfile => IInv'
<1> SUFFICES ASSUME IInv, ReadProfile PROVE IInv'
  OBVIOUS
<1> DEFINE f == dir[pos + 1].file
<1>1. /\ pos < Len(dir) /\ pos' = pos + 1 /\ dir[pos + 1].prf /\ cur' = cur + 1
      /\ UNCHANGED <<phase, fills, dir, table>> /\ ~Fatal(f)
  BY DEF ReadProfile, More, Reads
<1>2. /\ dir \in Seq(Entry) /\ pos \in Nat /\ Len(dir) \in Nat /\ cur \in Nat
      /\ profiles \in Seq(Profiles)
  BY DEF IInv, TypeOK
<1>3. /\ cur + 1 \in 1..Len(profiles)
      /\ Cardinality({i \in 1..(pos + 1) : dir[i].prf}) = cur + 1
  BY <1>1, RoomForNext
<1>4. f \in File
  <2>1. pos + 1 \in 1..Len(dir) BY <1>1, <1>2
  <2>2. dir[pos + 1] \in Entry BY <1>2, <2>1, ElementOfSeq
  <2> QED BY <2>2 DEF Entry
<1> HIDE DEF f
<1>5. profiles' \in Seq(Profiles) /\ Len(profiles') = Len(profiles)
  <2>1. CASE Rejected(f) BY <1>2, <2>1 DEF ReadProfile, f
  <2>2. CASE ~Rejected(f)
    <3>1. PICK garbage \in [1..Len(f.ranges) -> Garbage] :
            profiles' = [profiles EXCEPT ![cur + 1] = Parsed(f, garbage)]
      BY <2>2 DEF ReadProfile, f
    <3>2. Parsed(f, garbage) \in Profiles BY <1>1, <1>4, <2>2, ParsedSound
    <3> QED BY <1>2, <1>3, <3>1, <3>2, ExceptSeq
  <2> QED BY <2>1, <2>2
<1>6. ListedUpTo(pos)' = {i \in 1..(pos + 1) : dir[i].prf} BY <1>1 DEF ListedUpTo
<1>7. TypeOK' BY <1>1, <1>2, <1>5 DEF IInv, TypeOK
<1> QED BY <1>1, <1>3, <1>5, <1>6, <1>7 DEF IInv

LEMMA DieIInv == IInv /\ Die => IInv'
<1> SUFFICES ASSUME IInv, Die PROVE IInv'
  OBVIOUS
<1>1. phase' = "dead" /\ UNCHANGED <<fills, dir, pos, profiles, cur, table>>
  BY DEF Die
<1>2. TypeOK' BY <1>1 DEF IInv, TypeOK
<1> QED BY <1>1, <1>2 DEF IInv, ListedUpTo

LEMMA AddProfilesIInv == IInv /\ AddProfiles => IInv'
<1> SUFFICES ASSUME IInv, AddProfiles PROVE IInv'
  OBVIOUS
<1>1. phase' = "ready" /\ UNCHANGED <<fills, dir, pos, profiles, cur>>
  BY DEF AddProfiles
<1>2. profiles \in Seq(Profiles) /\ Len(profiles) \in Nat
  BY LenProperties DEF IInv, TypeOK
<1> DEFINE entry(coll) ==
      IF OfColl(coll) = {} THEN NoProfile
      ELSE profiles[CHOOSE i \in OfColl(coll) : \A j \in OfColl(coll) : j <= i]
<1>3. \A coll \in Collectives : entry(coll) \in Profiles \cup {NoProfile}
  <2> SUFFICES ASSUME NEW coll \in Collectives, OfColl(coll) # {}
               PROVE  entry(coll) \in Profiles
    OBVIOUS
  <2>1. OfColl(coll) \in SUBSET (1..Len(profiles)) BY DEF OfColl
  <2>2. \E i \in OfColl(coll) : \A j \in OfColl(coll) : j <= i
    BY <1>2, <2>1, LastPosition
  <2> DEFINE i == CHOOSE i \in OfColl(coll) : \A j \in OfColl(coll) : j <= i
  <2>3. i \in 1..Len(profiles) BY <2>1, <2>2
  <2> HIDE DEF i
  <2>4. profiles[i] \in Profiles BY <1>2, <2>3, ElementOfSeq
  <2> QED BY <2>4 DEF i
<1>4. table' = [coll \in Collectives |-> entry(coll)] BY DEF AddProfiles
<1> HIDE DEF entry
<1>5. table' \in [Collectives -> Profiles \cup {NoProfile}] BY <1>3, <1>4
<1>6. TypeOK' BY <1>1, <1>5 DEF IInv, TypeOK
<1> QED BY <1>1, <1>6 DEF IInv, ListedUpTo

LEMMA FreeTableIInv == IInv /\ FreeTable => IInv'
<1> SUFFICES ASSUME IInv, FreeTable PROVE IInv'
  OBVIOUS
<1>1. /\ phase' = "finalized" /\ table' = [coll \in Collectives |-> NoProfile]
      /\ UNCHANGED <<fills, dir, pos, profiles, cur>>
  BY DEF FreeTable
<1>2. TypeOK' BY <1>1 DEF IInv, TypeOK
<1> QED BY <1>1, <1>2 DEF IInv, ListedUpTo

LEMMA NextIInv == IInv /\ [Next]_vars => IInv'
<1> SUFFICES ASSUME IInv, [Next]_vars PROVE IInv'
  OBVIOUS
<1>1. CASE FillNothing BY <1>1, FillNothingIInv
<1>2. CASE OpenDirectory BY <1>2, OpenDirectoryIInv
<1>3. CASE SkipEntry BY <1>3, SkipEntryIInv
<1>4. CASE ReadProfile BY <1>4, ReadProfileIInv
<1>5. CASE Die BY <1>5, DieIInv
<1>6. CASE AddProfiles BY <1>6, AddProfilesIInv
<1>7. CASE FreeTable BY <1>7, FreeTableIInv
<1>8. CASE UNCHANGED vars
  <2>1. UNCHANGED <<phase, fills, dir, pos, profiles, cur, table>> BY <1>8 DEF vars
  <2>2. TypeOK' BY <2>1 DEF IInv, TypeOK
  <2> QED BY <2>1, <2>2 DEF IInv, ListedUpTo, Listed
<1> QED BY <1>1, <1>2, <1>3, <1>4, <1>5, <1>6, <1>7, <1>8
        DEF Next, Stop

LEMMA Inductive == Spec => []IInv
BY InitIInv, NextIInv, PTL DEF Spec

-------------------------------------------------------------------------------

(* The table and the array hold well-formed profiles only: whatever the    *)
(* files say, a look-up meets an algorithm the collective has, or what     *)
(* uninitialised memory held.                                              *)
THEOREM TypeCorrect == Spec => []TypeOK
<1>1. IInv => TypeOK BY DEF IInv
<1> QED BY Inductive, <1>1, PTL

(* pgmpi_profile_read_many never reads a file into a place behind the      *)
(* array, and leaves no place unread, if the directory stays as it is.     *)
THEOREM ArrayFits == Spec => []PassesAgree
<1>1. IInv => PassesAgree
  <2> SUFFICES ASSUME IInv PROVE PassesAgree
    OBVIOUS
  <2>1. dir \in Seq(Entry) /\ pos \in 0..Len(dir) /\ Len(dir) \in Nat
    BY LenProperties DEF IInv, TypeOK
  <2>2. ListedUpTo(pos) \in SUBSET Listed(dir) BY <2>1 DEF ListedUpTo, Listed
  <2>3. Listed(dir) \in SUBSET (1..Len(dir)) BY DEF Listed
  <2>4. IsFiniteSet(Listed(dir)) BY <2>1, <2>3, Positions
  <2>5. Cardinality(ListedUpTo(pos)) <= Cardinality(Listed(dir))
    BY <2>2, <2>4, FS_Subset
  <2>6. pos = Len(dir) => ListedUpTo(pos) = Listed(dir) BY DEF ListedUpTo, Listed
  <2> QED BY <2>5, <2>6 DEF IInv, PassesAgree
<1> QED BY Inductive, <1>1, PTL
-------------------------------------------------------------------------------
(* Look-ups.                                                               *)

(* What the reader makes of a file without dangling references.            *)
Exact(f) ==
  [cid |-> f.coll, procs |-> f.procs,
   ranges |-> [i \in 1..Len(f.ranges) |->
     [lo |-> f.ranges[i].lo, hi |-> f.ranges[i].hi, alg |-> NameOf(f, f.ranges[i].ref)]]]

Accepted(j) == j \in Listed(dir) /\ ~Rejected(dir[j].file)

(* The array while it is being filled: what has been read comes from a     *)
(* file, every file that has been accepted is there, the rest is zero.     *)
FromFiles ==
  \A i \in 1..Len(profiles) :
    \/ /\ profiles[i] = ZeroProfile
       /\ i <= cur => \E j \in Listed(dir) : Rejected(dir[j].file)
    \/ i <= cur /\ \E j \in Listed(dir) : Accepted(j) /\ profiles[i] = Exact(dir[j].file)

FilesIn ==
  \A j \in 1..pos : Accepted(j) => \E i \in 1..cur : profiles[i] = Exact(dir[j].file)

(* The table once it is filled: the profile of the one file about a        *)
(* collective, or nothing of use if there is no such file.                 *)
TableFor(coll) ==
  \/ \E j \in Listed(dir) : /\ Accepted(j) /\ dir[j].file.coll = coll
                            /\ table[coll] = Exact(dir[j].file)
  \/ /\ table[coll] \in {NoProfile, ZeroProfile}
     /\ \A j \in Listed(dir) : Accepted(j) => dir[j].file.coll # coll

LInv ==
  /\ IInv
  /\ Unambiguous(dir)
  /\ phase = "reading" => FromFiles /\ FilesIn
  /\ phase = "ready" => \A coll \in Collectives : TableFor(coll)

(* Reading a file without dangling references leaves nothing to chance.    *)
LEMMA ParsedExact ==
  ASSUME NEW f, \A k \in 1..Len(f.ranges) : ~Dangling(f, f.ranges[k].ref), NEW garbage
  PROVE  Parsed(f, garbage) = Exact(f)
BY DEF Parsed, Exact

(* An empty directory says one thing.                                      *)
LEMMA NothingListed == ASSUME dir = <<>> PROVE Listed(dir) = {} /\ Unambiguous(dir)
<1>1. Len(<<>>) = 0 BY EmptySeq
<1>2. Listed(dir) = {} BY <1>1 DEF Listed
<1> QED BY <1>2 DEF Unambiguous

(* Nothing is read at first.                                              *)
LEMMA InitLInv == Init => LInv
<1> SUFFICES ASSUME Init PROVE LInv
  OBVIOUS
<1>1. IInv BY InitIInv
<1>2. Unambiguous(dir) BY NothingListed DEF Init
<1> QED BY <1>1, <1>2 DEF Init, LInv

(* Without a directory nothing is listed.                                  *)
LEMMA FillNothingLInv == LInv /\ FillNothing => LInv'
<1> SUFFICES ASSUME LInv, FillNothing PROVE LInv'
  OBVIOUS
<1>1. IInv' BY FillNothingIInv DEF LInv
<1>2. /\ dir' = <<>> /\ phase' = "ready"
      /\ table' = [coll \in Collectives |-> NoProfile]
  BY DEF FillNothing, Begin
<1>3. Listed(dir') = {}
  <2>1. Len(<<>>) = 0 BY EmptySeq
  <2> QED BY <1>2, <2>1 DEF Listed
<1>4. Unambiguous(dir') BY <1>3 DEF Unambiguous
<1>5. \A coll \in Collectives : TableFor(coll)'
  BY <1>2, <1>3 DEF TableFor
<1> QED BY <1>1, <1>2, <1>4, <1>5 DEF LInv

(* The array starts with nothing in it.                                    *)
LEMMA OpenDirectoryLInv ==
  (\A d \in Directories : Unambiguous(d)) /\ LInv /\ OpenDirectory => LInv'
<1> SUFFICES ASSUME \A d \in Directories : Unambiguous(d), LInv, OpenDirectory
             PROVE  LInv'
  OBVIOUS
<1>1. IInv' BY OpenDirectoryIInv DEF LInv
<1>2. PICK d \in Directories :
        /\ dir' = d
        /\ profiles' = [i \in 1..Cardinality(Listed(d)) |-> ZeroProfile]
  BY DEF OpenDirectory
<1>3. pos' = 0 /\ cur' = 0 /\ phase' = "reading" BY DEF OpenDirectory, Begin
<1>4. Unambiguous(dir') BY <1>2
<1>5. FilesIn' BY <1>3 DEF FilesIn
<1>6. FromFiles'
  <2>1. Listed(d) \in SUBSET (1..Len(d)) BY DEF Listed
  <2>2. d \in Seq(Entry) /\ Len(d) \in Nat BY DirectoriesAssumption
  <2> DEFINE n == Cardinality(Listed(d))
  <2>3. n \in Nat BY <2>1, <2>2, Positions
  <2>4. profiles' = [i \in 1..n |-> ZeroProfile] BY <1>2
  <2> HIDE DEF n
  <2>5. Len(profiles') = n BY <2>3, <2>4
  <2> QED BY <1>3, <2>3, <2>4, <2>5 DEF FromFiles
<1> QED BY <1>1, <1>3, <1>4, <1>5, <1>6 DEF LInv

(* An entry that is passed over is not listed.                             *)
LEMMA SkipEntryLInv == LInv /\ SkipEntry => LInv'
<1> SUFFICES ASSUME LInv, SkipEntry PROVE LInv'
  OBVIOUS
<1>1. IInv' BY SkipEntryIInv DEF LInv
<1>2. /\ phase = "reading" /\ pos' = pos + 1 /\ ~dir[pos + 1].prf
      /\ UNCHANGED <<phase, dir, profiles, cur>>
  BY DEF SkipEntry, More, Reads
<1>3. pos \in Nat BY DEF LInv, IInv, TypeOK
<1>4. FromFiles' BY <1>2 DEF LInv, FromFiles, Accepted
<1>5. FilesIn'
  <2>1. FilesIn BY <1>2 DEF LInv
  <2>2. ~Accepted(pos + 1) BY <1>2 DEF Accepted, Listed
  <2>3. \A j \in 1..(pos + 1) : j = pos + 1 \/ j \in 1..pos BY <1>3
  <2> QED BY <1>2, <2>1, <2>2, <2>3 DEF FilesIn, Accepted
<1> QED BY <1>1, <1>2, <1>4, <1>5 DEF LInv

(* The next place gets what the file says, or stays zero if the file is    *)
(* rejected.                                                               *)
LEMMA ReadProfileLInv == LInv /\ ReadProfile => LInv'
<1> SUFFICES ASSUME LInv, ReadProfile PROVE LInv'
  OBVIOUS
<1> DEFINE f == dir[pos + 1].file
<1>1. IInv' BY ReadProfileIInv DEF LInv
<1>2. /\ phase = "reading" /\ pos < Len(dir) /\ pos' = pos + 1 /\ dir[pos + 1].prf
      /\ cur' = cur + 1 /\ UNCHANGED <<phase, dir, table>>
  BY DEF ReadProfile, More, Reads
<1>3. /\ dir \in Seq(Entry) /\ pos \in Nat /\ Len(dir) \in Nat /\ cur \in Nat
      /\ profiles \in Seq(Profiles) /\ Len(profiles) \in Nat
  BY LenProperties DEF LInv, IInv, TypeOK
<1>4. cur + 1 \in 1..Len(profiles) BY <1>2, RoomForNext DEF LInv
<1>5. pos + 1 \in Listed(dir) BY <1>2, <1>3 DEF Listed
<1>6. FromFiles /\ FilesIn BY <1>2 DEF LInv
<1>7. \A j \in 1..(pos + 1) : j = pos + 1 \/ j \in 1..pos BY <1>3
<1>8. \A i \in 1..cur : i \in 1..cur' /\ i # cur + 1 /\ i \in 1..Len(profiles)
  BY <1>2, <1>3, <1>4
<1>9. \A i \in 1..Len(profiles) : (i <= cur' <=> i <= cur \/ i = cur + 1) /\ ~(cur + 1 <= cur)
  BY <1>2, <1>3
<1> HIDE DEF f
<1>10. CASE Rejected(f)
  <2>1. profiles' = profiles BY <1>10 DEF ReadProfile, f
  <2>2. profiles[cur + 1] = ZeroProfile BY <1>4, <1>6, <1>9 DEF FromFiles
  <2>3. FromFiles'
    BY <1>2, <1>5, <1>6, <1>9, <1>10, <2>1, <2>2 DEF FromFiles, Accepted, f
  <2>4. ~Accepted(pos + 1) BY <1>10 DEF Accepted, f
  <2>5. FilesIn'
    BY <1>2, <1>6, <1>7, <1>8, <2>1, <2>4 DEF FilesIn, Accepted
  <2> QED BY <1>1, <1>2, <2>3, <2>5 DEF LInv
<1>11. CASE ~Rejected(f)
  <2>1. PICK garbage \in [1..Len(f.ranges) -> Garbage] :
          profiles' = [profiles EXCEPT ![cur + 1] = Parsed(f, garbage)]
    BY <1>11 DEF ReadProfile, f
  <2>2. Parsed(f, garbage) = Exact(f)
    <3>1. \A k \in 1..Len(f.ranges) : ~Dangling(f, f.ranges[k].ref)
      BY <1>5, <1>11 DEF LInv, Unambiguous, f
    <3> QED BY <3>1, ParsedExact
  <2>3. Len(profiles') = Len(profiles) /\ profiles'[cur + 1] = Exact(f)
    BY <1>3, <1>4, <2>1, <2>2
  <2>4. \A i \in 1..Len(profiles) : i # cur + 1 => profiles'[i] = profiles[i]
    BY <1>3, <2>1
  <2>5. Accepted(pos + 1) BY <1>5, <1>11 DEF Accepted, f
  <2>6. FromFiles'
    <3> SUFFICES ASSUME NEW i \in 1..Len(profiles)
                 PROVE  \/ /\ profiles'[i] = ZeroProfile
                           /\ i <= cur' => \E j \in Listed(dir) : Rejected(dir[j].file)
                        \/ /\ i <= cur'
                           /\ \E j \in Listed(dir) :
                                Accepted(j) /\ profiles'[i] = Exact(dir[j].file)
      BY <1>2, <2>3 DEF FromFiles, Accepted
    <3>1. CASE i = cur + 1 BY <1>5, <1>9, <2>3, <2>5, <3>1 DEF f
    <3>2. CASE i # cur + 1 BY <1>6, <1>9, <2>4, <3>2 DEF FromFiles
    <3> QED BY <3>1, <3>2
  <2>7. FilesIn'
    <3> SUFFICES ASSUME NEW j \in 1..(pos + 1), Accepted(j)
                 PROVE  \E i \in 1..cur' : profiles'[i] = Exact(dir[j].file)
      BY <1>2 DEF FilesIn, Accepted
    <3>1. CASE j = pos + 1
      <4>1. cur + 1 \in 1..cur' BY <1>2, <1>3
      <4> QED BY <2>3, <3>1, <4>1 DEF f
    <3>2. CASE j \in 1..pos
      <4>1. PICK i \in 1..cur : profiles[i] = Exact(dir[j].file) BY <1>6, <3>2 DEF FilesIn
      <4> QED BY <1>8, <2>4, <4>1
    <3> QED BY <1>7, <3>1, <3>2
  <2> QED BY <1>1, <1>2, <2>6, <2>7 DEF LInv
<1> QED BY <1>10, <1>11

(* The whole array has been filled.  A profile of the collective in it     *)
(* comes from the one file about it; a zero one, which passes for one of   *)
(* Allgather, is only there when no file about Allgather is.               *)
LEMMA AddProfilesLInv == LInv /\ AddProfiles => LInv'
<1> SUFFICES ASSUME LInv, AddProfiles PROVE LInv'
  OBVIOUS
<1>1. IInv' BY AddProfilesIInv DEF LInv
<1>2. /\ phase = "reading" /\ pos = Len(dir) /\ phase' = "ready"
      /\ UNCHANGED <<fills, dir, pos, profiles, cur>>
  BY DEF AddProfiles
<1>3. FromFiles /\ FilesIn BY <1>2 DEF LInv
<1>4. cur = Len(profiles) /\ Len(profiles) \in Nat
  <2>1. profiles \in Seq(Profiles) BY DEF LInv, IInv, TypeOK
  <2>2. ListedUpTo(pos) = Listed(dir) BY <1>2 DEF ListedUpTo, Listed
  <2> QED BY <2>1, <2>2, LenProperties DEF LInv, IInv
<1>5. \A j \in Listed(dir) : j \in 1..pos BY <1>2 DEF Listed
<1> SUFFICES ASSUME NEW coll \in Collectives PROVE TableFor(coll)'
  BY <1>1, <1>2 DEF LInv
<1>6. CASE OfColl(coll) = {}
  <2>1. table'[coll] = NoProfile BY <1>6 DEF AddProfiles
  <2>2. ASSUME NEW j \in Listed(dir), Accepted(j), dir[j].file.coll = coll PROVE FALSE
    <3>1. PICK i \in 1..cur : profiles[i] = Exact(dir[j].file)
      BY <1>3, <1>5, <2>2 DEF FilesIn
    <3>2. profiles[i].cid = coll BY <2>2, <3>1 DEF Exact
    <3> QED BY <1>4, <1>6, <3>2 DEF OfColl
  <2> QED BY <1>2, <2>1, <2>2 DEF TableFor, Accepted
<1>7. CASE OfColl(coll) # {}
  <2> DEFINE i == CHOOSE i \in OfColl(coll) : \A j \in OfColl(coll) : j <= i
  <2>1. i \in OfColl(coll)
    <3>1. OfColl(coll) \in SUBSET (1..Len(profiles)) BY DEF OfColl
    <3>2. \E k \in OfColl(coll) : \A j \in OfColl(coll) : j <= k
      BY <1>4, <1>7, <3>1, LastPosition
    <3> QED BY <3>2
  <2>2. table'[coll] = profiles[i] BY <1>7 DEF AddProfiles
  <2> HIDE DEF i
  <2>3. i \in 1..Len(profiles) /\ i <= cur /\ profiles[i].cid = coll
    BY <1>4, <2>1 DEF OfColl
  <2>4. CASE profiles[i] = ZeroProfile /\ \E j \in Listed(dir) : Rejected(dir[j].file)
    <3>1. coll = "Allgather" BY <2>3, <2>4 DEF ZeroProfile
    <3>2. \A j \in Listed(dir) : Accepted(j) => dir[j].file.coll # coll
      BY <2>4, <3>1 DEF LInv, Unambiguous, Accepted
    <3> QED BY <1>2, <2>2, <2>4, <3>2 DEF TableFor, Accepted
  <2>5. CASE \E j \in Listed(dir) : Accepted(j) /\ profiles[i] = Exact(dir[j].file)
    <3>1. PICK j \in Listed(dir) : Accepted(j) /\ profiles[i] = Exact(dir[j].file)
      BY <2>5
    <3>2. dir[j].file.coll = coll BY <2>3, <3>1 DEF Exact
    <3> QED BY <1>2, <2>2, <3>1, <3>2 DEF TableFor, Accepted
  <2> QED BY <1>3, <2>3, <2>4, <2>5 DEF FromFiles
<1> QED BY <1>6, <1>7

(* The inductive step of LInv, action by action.                           *)
LEMMA NextLInv ==
  (\A d \in Directories : Unambiguous(d)) /\ LInv /\ [Next]_vars => LInv'
<1> SUFFICES ASSUME \A d \in Directories : Unambiguous(d), LInv, [Next]_vars
             PROVE  LInv'
  OBVIOUS
<1>1. CASE FillNothing BY <1>1, FillNothingLInv
<1>2. CASE OpenDirectory BY <1>2, OpenDirectoryLInv
<1>3. CASE SkipEntry BY <1>3, SkipEntryLInv
<1>4. CASE ReadProfile BY <1>4, ReadProfileLInv
<1>5. CASE Die
  <2>1. IInv' BY <1>5, DieIInv DEF LInv
  <2> QED BY <1>5, <2>1 DEF Die, LInv
<1>6. CASE AddProfiles BY <1>6, AddProfilesLInv
<1>7. CASE FreeTable
  <2>1. IInv' BY <1>7, FreeTableIInv DEF LInv
  <2> QED BY <1>7, <2>1 DEF FreeTable, LInv
<1>8. CASE UNCHANGED vars
  <2>1. IInv' BY <1>8, NextIInv DEF LInv
  <2> QED BY <1>8, <2>1
          DEF vars, LInv, FromFiles, FilesIn, TableFor, Accepted
<1> QED BY <1>1, <1>2, <1>3, <1>4, <1>5, <1>6, <1>7, <1>8 DEF Next, Stop

(* A non-empty set of positions has a first one.                           *)
LEMMA FirstPosition ==
  ASSUME NEW n \in Nat, NEW S \in SUBSET (1..n), S # {}
  PROVE  \E i \in S : \A j \in S : i <= j
<1>1. S \subseteq Nat OBVIOUS
<1>2. PICK i \in S : \A j \in S : ~ (<<j, i>> \in OpToRel(<, Nat))
  BY <1>1, NatLessThanWellFounded, WFMin
<1>3. \A j \in S : ~ (j < i) BY <1>1, <1>2 DEF OpToRel
<1> QED BY <1>1, <1>3

(* A look-up in the profile of a file gives what the file says.            *)
LEMMA AnswerSaid ==
  ASSUME NEW q \in Queries, Countable(q), NEW f, Len(f.ranges) \in Nat,
         ~Rejected(f), f.coll = q.coll, f.coll # "none", table[q.coll] = Exact(f),
         \A k \in 1..Len(f.ranges) :
           ~Dangling(f, f.ranges[k].ref) /\ f.ranges[k].lo \in Int /\ f.ranges[k].hi \in Int
  PROVE  Answer(q) \in (IF Said(f, q) = {} THEN {DEFAULT} ELSE Said(f, q))
<1> DEFINE p == Exact(f)
           size == q.count * q.e
           hits == {i \in 1..Len(p.ranges) : Holds(p.ranges[i], size)}
<1>1. q.count \in Nat /\ q.e \in Nat \ {0} BY QueriesAssumption
<1>2. size \in Nat /\ (size = 0 <=> q.count = 0) BY <1>1
<1>3. AsInt(size) = size BY DEF Countable
<1>4. p # NoProfile /\ p.procs = f.procs BY DEF Exact, NoProfile
<1>5. Len(p.ranges) = Len(f.ranges) BY DEF Exact
<1>6. \A k \in 1..Len(f.ranges) :
        /\ p.ranges[k].alg = NameOf(f, f.ranges[k].ref)
        /\ Holds(p.ranges[k], size) <=> size \in f.ranges[k].lo .. f.ranges[k].hi
  BY <1>2 DEF Exact, Holds
<1>7. CASE q.count = 0 \/ f.procs # q.procs
  <2>1. Said(f, q) = {} BY <1>7 DEF Said
  <2>2. Answer(q) = DEFAULT BY <1>2, <1>3, <1>4, <1>7 DEF Answer
  <2> QED BY <2>1, <2>2
<1>8. CASE q.count # 0 /\ f.procs = q.procs
  <2>1. ~(AsInt(size) <= 0) BY <1>2, <1>3, <1>8
  <2>2. Answer(q) = FindAlg(p, size) BY <1>3, <1>4, <1>8, <2>1 DEF Answer
  <2>3. Said(f, q) = {p.ranges[k].alg : k \in hits} BY <1>5, <1>6, <1>8 DEF Said
  <2>4. CASE hits = {} BY <2>2, <2>3, <2>4 DEF FindAlg
  <2>5. CASE hits # {}
    <3>1. hits \in SUBSET (1..Len(f.ranges)) BY <1>5
    <3> DEFINE first == CHOOSE i \in hits : \A j \in hits : i <= j
    <3>2. FindAlg(p, size) = p.ranges[first].alg BY <2>5 DEF FindAlg
    <3> HIDE DEF hits
    <3>3. first \in hits BY <2>5, <3>1, FirstPosition
    <3> HIDE DEF first, p
    <3> QED BY <2>2, <2>3, <3>2, <3>3
  <2> QED BY <2>4, <2>5
<1> QED BY <1>7, <1>8

(* From directories that say one thing, look-ups give what the files say,  *)
(* in whatever order readdir lists them, for every message an int can      *)
(* count, after any number of overrides.                                   *)
THEOREM LookupsAlwaysTrue ==
  ASSUME \A d \in Directories : Unambiguous(d), \A q \in Queries : Countable(q)
  PROVE  Spec => []LookupsTrue
<1>1. LInv => LookupsTrue
  <2> SUFFICES ASSUME LInv, phase = "ready", NEW q \in Queries
               PROVE  LET said == UNION {Said(dir[i].file, q) : i \in Listed(dir)}
                      IN  Answer(q) \in (IF said = {} THEN {DEFAULT} ELSE said)
    BY DEF LookupsTrue
  <2> DEFINE said == UNION {Said(dir[i].file, q) : i \in Listed(dir)}
  <2>1. q.coll \in Collectives /\ q.procs \in Nat \ {0} BY QueriesAssumption
  <2>2. CASE \E j \in Listed(dir) : /\ Accepted(j) /\ dir[j].file.coll = q.coll
                                    /\ table[q.coll] = Exact(dir[j].file)
    <3>1. PICK j \in Listed(dir) : /\ Accepted(j) /\ dir[j].file.coll = q.coll
                                   /\ table[q.coll] = Exact(dir[j].file)
      BY <2>2
    <3> DEFINE f == dir[j].file
    <3>2. f \in File
      <4>1. dir \in Seq(Entry) BY DEF LInv, IInv, TypeOK
      <4>2. j \in 1..Len(dir) BY DEF Listed
      <4>3. dir[j] \in Entry BY <4>1, <4>2, ElementOfSeq
      <4> QED BY <4>3 DEF Entry
    <3>3. said = Said(f, q)
      <4>1. \A i \in Listed(dir) : i # j => Said(dir[i].file, q) = {}
        BY <3>1 DEF LInv, Unambiguous, Accepted, Said
      <4> QED BY <4>1
    <3>4. /\ ~Rejected(f)
          /\ \A k \in 1..Len(f.ranges) : ~Dangling(f, f.ranges[k].ref)
      BY <3>1 DEF LInv, Unambiguous, Accepted
    <3> HIDE DEF f, said
    <3>5. f.ranges \in Seq([lo : Int, hi : Int, ref : Int]) BY <3>2 DEF File
    <3>6. /\ Len(f.ranges) \in Nat
          /\ \A k \in 1..Len(f.ranges) : f.ranges[k].lo \in Int /\ f.ranges[k].hi \in Int
      <4>1. Len(f.ranges) \in Nat BY <3>5, LenProperties
      <4>2. ASSUME NEW k \in 1..Len(f.ranges)
            PROVE  f.ranges[k] \in [lo : Int, hi : Int, ref : Int]
        BY <3>5, ElementOfSeq
      <4> QED BY <4>1, <4>2
    <3>7. f.coll = q.coll /\ table[q.coll] = Exact(f) BY <3>1 DEF f
    <3>8. f.coll # "none" BY <2>1, <3>7 DEF Collectives
    <3>9. Answer(q) \in (IF Said(f, q) = {} THEN {DEFAULT} ELSE Said(f, q))
      BY <3>4, <3>6, <3>7, <3>8, AnswerSaid
    <3> QED BY <3>3, <3>9 DEF said
  <2>3. CASE /\ table[q.coll] \in {NoProfile, ZeroProfile}
             /\ \A j \in Listed(dir) : Accepted(j) => dir[j].file.coll # q.coll
    <3>1. \A j \in Listed(dir) : Said(dir[j].file, q) = {} BY <2>3 DEF Accepted, Said
    <3>2. said = {} BY <3>1
    <3>3. table[q.coll].procs # q.procs BY <2>1, <2>3 DEF NoProfile, ZeroProfile
    <3>4. Answer(q) = DEFAULT BY <3>3 DEF Answer
    <3> QED BY <3>2, <3>4
  <2> QED BY <2>1, <2>2, <2>3 DEF LInv, TableFor
<1> QED BY <1>1, InitLInv, NextLInv, PTL DEF Spec
================================================================================
