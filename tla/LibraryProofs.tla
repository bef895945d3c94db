---------------------------- MODULE LibraryProofs ----------------------------
(***************************************************************************)
(* Theorems about Library, for any arguments, environments, files, calls   *)
(* and overrides: the dictionaries stay in order, the last argument        *)
(* counts, and the trace keeps what AlgidTrace promises.                   *)
(***************************************************************************)
EXTENDS Library, DataProofs

-------------------------------------------------------------------------------
(* The dictionaries.                                                       *)

(* DictionariesSound, and that a dictionary is one.                        *)
DictionariesInv ==
  /\ phase \in Phases
  /\ IsDictionary(hashmap) /\ IsDictionary(config)
  /\ DictionariesSound

(* A pass of the loop over the arguments adds at most one element.         *)
LEMMA AtMostOneAddition ==
  ASSUME NEW arg, NEW a \in Additions(arg), NEW b \in Additions(arg)
  PROVE  a = b
BY DEF Additions

(* The configuration starts with two elements in a sound dictionary.       *)
LEMMA DefaultConfigSound == IsDictionary(DefaultConfig) /\ Sound(DefaultConfig)
<1> DEFINE d == Added(Fresh, MSG, DefaultMsg)
<1>1. IsDictionary(d) /\ Sound(d) BY FreshSound, AddedSays
<1> HIDE DEF d
<1>2. IsDictionary(Added(d, INT, DefaultInt)) /\ Sound(Added(d, INT, DefaultInt))
  BY <1>1, AddedSays
<1> QED BY <1>2 DEF DefaultConfig, d

(* The inductive step of DictionariesInv, action by action.                *)
LEMMA DictionariesKept == DictionariesInv /\ [Next]_vars => DictionariesInv'
<1> SUFFICES ASSUME DictionariesInv, [Next]_vars PROVE DictionariesInv'
  OBVIOUS
<1> USE DEF DictionariesInv, DictionariesSound, Live, Phases
<1>1. CASE MPI_Init BY <1>1, FreshSound DEF MPI_Init
<1>2. CASE ParseArgument
  <2>1. CASE Additions(argv[next]) = {} BY <1>2, <2>1 DEF ParseArgument
  <2>2. CASE Additions(argv[next]) # {}
    <3> DEFINE a == CHOOSE a \in Additions(argv[next]) : TRUE
    <3>1. hashmap' = Added(hashmap, a[1], a[2]) BY <1>2, <2>2 DEF ParseArgument
    <3>2. Sound(hashmap) BY <1>2 DEF ParseArgument
    <3> HIDE DEF a
    <3>3. IsDictionary(hashmap') /\ Sound(hashmap') BY <3>1, <3>2, AddedSays
    <3> QED BY <1>2, <3>3 DEF ParseArgument
  <2> QED BY <2>1, <2>2
<1>3. CASE StartConfiguration BY <1>3, DefaultConfigSound DEF StartConfiguration
<1>4. CASE ReadLine
  <2> DEFINE line == ConfigLines[next]
  <2>1. CASE IsSetting(line)
    <3>1. config' = Added(config, line[1], line[2]) BY <1>4, <2>1 DEF ReadLine
    <3>2. Sound(config) BY <1>4 DEF ReadLine
    <3> HIDE DEF line
    <3>3. IsDictionary(config') /\ Sound(config') BY <3>1, <3>2, AddedSays
    <3> QED BY <1>4, <3>3 DEF ReadLine
  <2>2. CASE ~IsSetting(line) BY <1>4, <2>2 DEF ReadLine
  <2> QED BY <2>1, <2>2
<1>5. CASE FinishInit BY <1>5 DEF FinishInit
<1>6. CASE Call BY <1>6 DEF Call
<1>7. CASE SetAlgId BY <1>7 DEF SetAlgId
<1>8. CASE Override BY <1>8, FreshSound DEF Override
<1>9. CASE FinishOverride BY <1>9 DEF FinishOverride
<1>10. CASE MPI_Finalize BY <1>10, CleanedIsDictionary DEF MPI_Finalize
<1>11. CASE UNCHANGED vars BY <1>11 DEF vars
<1> QED BY <1>1, <1>2, <1>3, <1>4, <1>5, <1>6, <1>7, <1>8, <1>9, <1>10, <1>11 DEF Next

(* What may be assumed of the dictionaries in every state.                 *)
LEMMA DictionariesInvariant == Spec => []DictionariesInv
<1>1. Init => DictionariesInv
  BY CleanedIsDictionary DEF Init, DictionariesInv, DictionariesSound, Live, Phases
<1> QED BY <1>1, DictionariesKept, PTL DEF Spec

(* Whatever the program, the environment and the files contain, and        *)
(* however often parameters are overridden, an element is never written    *)
(* past the allocation of a dictionary, and no key is in it twice.         *)
THEOREM DictionariesAlwaysSound == Spec => []DictionariesSound
<1>1. DictionariesInv => DictionariesSound BY DEF DictionariesInv
<1> QED BY <1>1, DictionariesInvariant, PTL

-------------------------------------------------------------------------------
(* The arguments.                                                          *)

(* The two parts of LastArgumentCounts, for a dictionary d and arguments   *)
(* args of which those in P have been parsed.                              *)
Counts(d, args, P) ==
  /\ \A j \in P : \A a \in Additions(args[j]) :
       (\A k \in P : k > j => \A b \in Additions(args[k]) : b[1] # a[1])
         => HasKey(d, a[1]) /\ Value(d, a[1]) = a[2]
  /\ \A key : HasKey(d, key) =>
       \E j \in P : \E a \in Additions(args[j]) : a[1] = key

(* The loop over the arguments is somewhere in them.                       *)
ArgumentsInv ==
  /\ world \in Worlds
  /\ next \in Nat \ {0}
  /\ Len(argv) \in Nat
  /\ phase \in {"parsing", "overriding"} => next <= Len(argv) + 1
  /\ Live => Counts(hashmap, argv, ParsedArgs)

(* The strings that the library itself writes down.                        *)
LEMMA SinglePiece == ASSUME NEW S, NEW x \in S PROVE << x >> \in Seq(S)
OBVIOUS

LEMMA LiteralTypes ==
  /\ << "dummy" >> \in Strings
  /\ << "config_file" >> \in Strings /\ << "profile_path" >> \in Strings
  /\ MSG \in Strings /\ INT \in Strings
  /\ DefaultMsg \in Strings /\ DefaultInt \in Strings
<1> DEFINE literals == {"dummy", "config_file", "profile_path", "size_msg_buffer_bytes",
                        "size_int_buffer_bytes", "100000000", "200000"}
<1>1. \A x \in literals : x \in STRING BY LiteralsAssumption, Zenon
<1>2. ASSUME NEW x \in literals PROVE << x >> \in Strings
  <2> HIDE DEF literals
  <2> DEFINE S == STRING
  <2>1. x \in S BY <1>1
  <2> HIDE DEF S
  <2>2. << x >> \in Seq(S) BY <2>1, SinglePiece
  <2> QED BY <2>2, Zenon DEF S, Strings
<1> QED BY <1>2, Zenon DEF MSG, INT, DefaultMsg, DefaultInt, str

(* No more words are taken from PGMPI_PARAMS than there are.               *)
LEMMA ArgcType ==
  ASSUME NEW s \in Strings
  PROVE  compute_argc(s) \in Nat /\ compute_argc(s) <= Cardinality(Words(s))
<1> DEFINE n == Cardinality(Words(s))
           c == compute_argc(s)
<1>1. n \in Nat BY ArgcCounts
<1>2. Words(s) # {} => n # 0
  BY HeadsFinite, FS_EmptySet DEF Words
<1>3. c = n \/ c = IF Words(s) = {} THEN 0 ELSE n - 1 BY ArgcCounts
<1> HIDE DEF n, c
<1> QED BY <1>1, <1>2, <1>3 DEF n, c

(* The arguments taken from PGMPI_PARAMS are strings.                      *)
LEMMA EnvArgsType ==
  ASSUME NEW s \in Strings
  PROVE  EnvArgs(s) \in Seq(Strings) /\ Len(EnvArgs(s)) = 1 + compute_argc(s)
<1> DEFINE n == 1 + compute_argc(s)
           w == WordList(s, Blank)
           dummy == << "dummy" >>
<1>1. n \in Nat /\ compute_argc(s) \in Nat /\ compute_argc(s) <= Cardinality(Words(s))
  BY ArgcType
<1>2. EnvArgs(s) = [i \in 1 .. n |-> IF i = 1 THEN dummy ELSE w[i - 1]] BY EnvArgsAre
<1>3. ASSUME NEW k \in 1 .. Cardinality(Words(s)) PROVE w[k] \in Strings
  <2>1. PICK i \in Heads(s, Blank) : Rank(Heads(s, Blank), i) = k
    BY RankedWord DEF Words
  <2>2. w[k] = WordAt(s, Blank, i) BY <2>1, WordOfRank
  <2> QED BY <2>2, WordHere
<1>4. dummy \in Strings BY LiteralTypes
<1>5. Cardinality(Words(s)) \in Nat BY ArgcCounts
<1> HIDE DEF w, dummy
<1>6. ASSUME NEW i \in 1 .. n PROVE (IF i = 1 THEN dummy ELSE w[i - 1]) \in Strings
  <2>1. CASE i = 1 BY <1>4, <2>1
  <2>2. CASE i # 1
    <3>1. i - 1 \in 1 .. Cardinality(Words(s)) BY <1>1, <1>5, <2>2
    <3> QED BY <1>3, <2>2, <3>1
  <2> QED BY <2>1, <2>2
<1> HIDE DEF n
<1>7. EnvArgs(s) \in Seq(Strings) /\ Len(EnvArgs(s)) = n BY <1>1, <1>2, <1>6
<1> QED BY <1>7 DEF n

(* What the library starts with.                                           *)
LEMMA WorldTypes ==
  ASSUME NEW w \in Worlds
  PROVE  /\ w.params \in Strings
         /\ Len(w.argv) \in Nat
         /\ \A args \in w.overrides : Len(args) \in Nat
         /\ w.rank \in Nat
         /\ w.calls \subseteq [cid : Cids, size : Int]
<1>1. w \in World BY WorldsAssumption
<1>2. /\ w.params \in Strings /\ w.argv \in Seq(Strings)
      /\ w.overrides \subseteq Seq(Strings) /\ w.rank \in Nat
      /\ w.calls \subseteq [cid : Cids, size : Int]
  BY <1>1 DEF World
<1> QED BY <1>2

(* Counts is LastArgumentCounts, part by part.                             *)
LEMMA CountsIsLastArgumentCounts ==
  LastArgumentCounts <=> (Live => Counts(hashmap, argv, ParsedArgs))
BY DEF LastArgumentCounts, Counts, HasKey

(* Nothing counts before the first argument.                               *)
LEMMA CountsNothing ==
  ASSUME NEW args PROVE Counts(Fresh, args, {})
<1>1. Fresh.data = << >> BY DEF Fresh
<1>2. DOMAIN Fresh.data = {} BY <1>1
<1>3. \A key : ~HasKey(Fresh, key) BY <1>2 DEF HasKey
<1> QED BY <1>3 DEF Counts

(* One more argument: what it gives a value to has this value, and what    *)
(* the dictionary says of anything else stays.                             *)
LEMMA CountsOneMore ==
  ASSUME NEW d, NEW args, NEW n \in Nat \ {0}, Counts(d, args, 1 .. n - 1),
         IsDictionary(d), Sound(d), NEW e,
         e = IF Additions(args[n]) = {} THEN d
             ELSE LET a == CHOOSE a \in Additions(args[n]) : TRUE
                  IN  Added(d, a[1], a[2])
  PROVE  Counts(e, args, 1 .. n)
<1>0. \A j \in 1 .. n : j = n \/ (j \in 1 .. n - 1 /\ n > j) OBVIOUS
<1>1. n \in 1 .. n /\ \A j \in 1 .. n - 1 : j \in 1 .. n OBVIOUS
<1>2. CASE Additions(args[n]) = {}
  <2>1. e = d BY <1>2
  <2>2. ASSUME NEW j \in 1 .. n, NEW a \in Additions(args[j]),
               \A k \in 1 .. n : k > j => \A b \in Additions(args[k]) : b[1] # a[1]
        PROVE  HasKey(e, a[1]) /\ Value(e, a[1]) = a[2]
    <3>1. j \in 1 .. n - 1 BY <1>0, <1>2, <2>2
    <3> QED BY <1>1, <2>1, <2>2, <3>1 DEF Counts
  <2>3. ASSUME NEW key, HasKey(e, key)
        PROVE  \E j \in 1 .. n : \E a \in Additions(args[j]) : a[1] = key
    BY <1>1, <2>1, <2>3 DEF Counts
  <2> QED BY <2>2, <2>3 DEF Counts
<1>3. CASE Additions(args[n]) # {}
  <2> DEFINE c == CHOOSE c \in Additions(args[n]) : TRUE
  <2>1. c \in Additions(args[n]) BY <1>3
  <2>2. e = Added(d, c[1], c[2]) BY <1>3
  <2> HIDE DEF c
  <2>3. /\ HasKey(e, c[1]) /\ Value(e, c[1]) = c[2]
        /\ \A k : k # c[1] => (HasKey(e, k) <=> HasKey(d, k))
        /\ \A k : k # c[1] /\ HasKey(d, k) => Value(e, k) = Value(d, k)
    <3> DEFINE key == c[1]
               value == c[2]
    <3> HIDE DEF key, value
    <3>1. /\ HasKey(Added(d, key, value), key) /\ Value(Added(d, key, value), key) = value
          /\ \A k : k # key => (HasKey(Added(d, key, value), k) <=> HasKey(d, k))
          /\ \A k : k # key /\ HasKey(d, k) =>
                Value(Added(d, key, value), k) = Value(d, k)
      BY AddedSays
    <3> QED BY <2>2, <3>1 DEF key, value
  <2>4. ASSUME NEW j \in 1 .. n, NEW a \in Additions(args[j]),
               \A k \in 1 .. n : k > j => \A b \in Additions(args[k]) : b[1] # a[1]
        PROVE  HasKey(e, a[1]) /\ Value(e, a[1]) = a[2]
    <3>1. CASE j = n
      <4>1. a = c BY <2>1, <3>1, AtMostOneAddition
      <4> QED BY <2>3, <4>1
    <3>2. CASE j \in 1 .. n - 1 /\ n > j
      <4>1. c[1] # a[1] BY <1>1, <2>1, <2>4, <3>2
      <4>2. HasKey(d, a[1]) /\ Value(d, a[1]) = a[2] BY <1>1, <2>4, <3>2 DEF Counts
      <4> QED BY <2>3, <4>1, <4>2
    <3> QED BY <1>0, <3>1, <3>2
  <2>5. ASSUME NEW key, HasKey(e, key)
        PROVE  \E j \in 1 .. n : \E a \in Additions(args[j]) : a[1] = key
    <3>1. CASE key = c[1] BY <1>1, <2>1, <3>1
    <3>2. CASE key # c[1] BY <1>1, <2>3, <2>5, <3>2 DEF Counts
    <3> QED BY <3>1, <3>2
  <2> QED BY <2>4, <2>5 DEF Counts
<1> QED BY <1>2, <1>3

(* The inductive step of ArgumentsInv, action by action.                   *)
LEMMA ArgumentsKept ==
  DictionariesInv /\ ArgumentsInv /\ [Next]_vars => ArgumentsInv'
<1> SUFFICES ASSUME DictionariesInv, ArgumentsInv, [Next]_vars PROVE ArgumentsInv'
  OBVIOUS
<1> USE DEF ArgumentsInv, Live, ParsedArgs
<1>1. CASE MPI_Init
  <2>1. Len(argv') \in Nat BY <1>1, WorldTypes, EnvArgsType DEF MPI_Init
  <2>2. Counts(hashmap', argv', {}) BY <1>1, CountsNothing DEF MPI_Init
  <2>3. 1 .. next' - 1 = {} BY <1>1 DEF MPI_Init
  <2> QED BY <1>1, <2>1, <2>2, <2>3 DEF MPI_Init
<1>2. CASE ParseArgument
  <2>1. IsDictionary(hashmap) /\ Sound(hashmap)
    BY <1>2 DEF ParseArgument, DictionariesInv, DictionariesSound
  <2>2. Counts(hashmap, argv, 1 .. next - 1) BY <1>2 DEF ParseArgument
  <2>3. Counts(hashmap', argv, 1 .. next)
    BY <1>2, <2>1, <2>2, CountsOneMore DEF ParseArgument
  <2>4. next' - 1 = next /\ next' <= Len(argv) + 1 BY <1>2 DEF ParseArgument
  <2> QED BY <1>2, <2>3, <2>4 DEF ParseArgument
<1>3. CASE StartConfiguration
  <2>1. next - 1 = Len(argv) BY <1>3 DEF StartConfiguration
  <2> QED BY <1>3, <2>1 DEF StartConfiguration
<1>4. CASE ReadLine BY <1>4 DEF ReadLine
<1>5. CASE FinishInit BY <1>5 DEF FinishInit
<1>6. CASE Call BY <1>6 DEF Call
<1>7. CASE SetAlgId BY <1>7 DEF SetAlgId
<1>8. CASE Override
  <2>1. Len(argv') \in Nat BY <1>8, WorldTypes DEF Override
  <2>2. Counts(hashmap', argv', {}) BY <1>8, CountsNothing DEF Override
  <2>3. 1 .. next' - 1 = {} BY <1>8 DEF Override
  <2> QED BY <1>8, <2>1, <2>2, <2>3 DEF Override
<1>9. CASE FinishOverride
  <2>1. next - 1 = Len(argv) BY <1>9 DEF FinishOverride
  <2> QED BY <1>9, <2>1 DEF FinishOverride
<1>10. CASE MPI_Finalize BY <1>10 DEF MPI_Finalize
<1>11. CASE UNCHANGED vars BY <1>11 DEF vars
<1> QED BY <1>1, <1>2, <1>3, <1>4, <1>5, <1>6, <1>7, <1>8, <1>9, <1>10, <1>11 DEF Next

(* Of several arguments about one key the last one counts, whatever they   *)
(* are, wherever they come from and however often they are overridden.     *)
THEOREM LastArgumentAlwaysCounts == Spec => []LastArgumentCounts
<1>1. Init => ArgumentsInv
  <2>1. Init => Len(argv) = 0 BY DEF Init
  <2> QED BY <2>1 DEF Init, ArgumentsInv, Live
<1>2. ArgumentsInv => LastArgumentCounts
  BY CountsIsLastArgumentCounts DEF ArgumentsInv
<1> QED BY <1>1, <1>2, ArgumentsKept, DictionariesInvariant, PTL DEF Spec

(* EnvironmentHeard counts and finds words as they are counted and found   *)
(* here.                                                                   *)
LEMMA StartsAreWords ==
  ASSUME NEW s \in Strings
  PROVE  /\ Pieces(s) = {i \in DOMAIN s : s[i] # Blank}
         /\ Starts(s) = Words(s)
<1>1. DOMAIN s = 1 .. Len(s) /\ Len(s) \in Nat BY DEF Strings
<1>2. Pieces(s) = {i \in DOMAIN s : s[i] # Blank} BY Zenon DEF Pieces, Blank
<1>3. Starts(s) = {i \in Pieces(s) : i - 1 \notin Pieces(s)} BY DEF Starts
<1>4. ASSUME NEW i \in Pieces(s)
      PROVE  i - 1 \notin Pieces(s) <=> i = 1 \/ s[i - 1] = Blank
  <2>1. i \in 1 .. Len(s) BY <1>1, <1>2
  <2>2. CASE i = 1
    <3>1. i - 1 \notin DOMAIN s BY <1>1, <2>2
    <3> QED BY <1>2, <2>2, <3>1
  <2>3. CASE i # 1
    <3>1. i - 1 \in DOMAIN s BY <1>1, <2>1, <2>3
    <3> QED BY <1>2, <2>3, <3>1
  <2> QED BY <2>2, <2>3
<1>5. Words(s) = {i \in DOMAIN s : s[i] # Blank /\ (i = 1 \/ s[i - 1] = Blank)}
  BY DEF Words, Heads
<1>6. Starts(s) \subseteq Words(s) BY <1>2, <1>3, <1>4, <1>5
<1>7. Words(s) \subseteq Starts(s) BY <1>2, <1>3, <1>4, <1>5
<1> QED BY <1>2, <1>6, <1>7

(* What EnvironmentHeard says of arguments taken from a string.            *)
TakenFrom(s, args) ==
  /\ Len(args) = 1 + Cardinality(Heard(s))
  /\ \A i \in Heard(s) :
       LET word == args[1 + Cardinality({k \in Heard(s) : k <= i})]
       IN  /\ word = SubSeq(s, i, i + Len(word) - 1)
           /\ Pieces(word) = DOMAIN word
           /\ i + Len(word) \notin Pieces(s)

(* No word is lost of a string whose end counts, the last one of others.   *)
LEMMA LastWordLost ==
  ASSUME NEW s \in Strings
  PROVE  /\ EndCounts(s) \/ Words(s) = {} => Lost(s) = {}
         /\ ~EndCounts(s) /\ Words(s) # {} =>
              \E m \in Words(s) : Lost(s) = {m} /\ \A j \in Words(s) : j <= m
<1> DEFINE n == Len(s)
<1>1. n \in Nat /\ DOMAIN s = 1 .. n BY DEF Strings
<1>2. /\ Starts(s) = Words(s)
      /\ Words(s) = {i \in 1 .. n : s[i] # Blank /\ (i = 1 \/ s[i - 1] = Blank)}
  BY <1>1, StartsAreWords DEF Words, Heads
<1>3. Lost(s) = {i \in Words(s) : /\ \A j \in Words(s) : j <= i
                                  /\ \/ s[n] = Blank
                                     \/ i = n /\ i > 1 /\ s[i] \in Characters}
  BY <1>2, Zenon DEF Lost, Blank
<1>4. EndCounts(s) <=> /\ s # << >> /\ s[n] # Blank
                       /\ s[n] \notin Characters \/ n = 1 \/ s[n - 1] # Blank
  BY Zenon DEF EndCounts, Blank
<1>5. s = << >> <=> n = 0 BY DEF Strings
<1> HIDE DEF n
<1>6. ASSUME EndCounts(s), NEW i \in Lost(s) PROVE FALSE
  <2>1. s[n] # Blank /\ (s[n] \notin Characters \/ n = 1 \/ s[n - 1] # Blank)
    BY <1>4, <1>6
  <2>2. i \in Words(s) /\ i = n /\ i > 1 /\ s[i] \in Characters BY <1>3, <1>6, <2>1
  <2>3. i \in 1 .. n /\ s[i - 1] = Blank BY <1>2, <2>2
  <2> QED BY <2>1, <2>2, <2>3
<1>7. ASSUME ~EndCounts(s), Words(s) # {}
      PROVE  \E m \in Words(s) : Lost(s) = {m} /\ \A j \in Words(s) : j <= m
  <2>1. n # 0 BY <1>1, <1>2, <1>7
  <2>2. s # << >> BY <1>5, <2>1
  <2>3. CASE s[n] = Blank
    <3>1. \E m \in Words(s) : \A j \in Words(s) : j <= m
      <4> DEFINE T == Words(s)
      <4>1. T \subseteq 1 .. n /\ T # {} BY <1>2, <1>7
      <4> HIDE DEF T
      <4>2. \E i \in T : \A j \in T : j <= i BY <1>1, <4>1, GreatestChosen
      <4> QED BY <4>2 DEF T
    <3>2. PICK m \in Words(s) : \A j \in Words(s) : j <= m BY <3>1
    <3>3. m \in Lost(s) BY <1>3, <2>3, <3>2
    <3>4. ASSUME NEW i \in Lost(s) PROVE i = m
      <4>1. i \in Words(s) /\ m <= i /\ i <= m BY <1>3, <3>2, <3>4
      <4>2. i \in Nat /\ m \in Nat BY <1>1, <1>2, <3>2, <4>1
      <4> QED BY <4>1, <4>2
    <3> QED BY <3>2, <3>3, <3>4
  <2>4. CASE s[n] # Blank
    <3>1. s[n] \in Characters /\ n # 1 /\ s[n - 1] = Blank
      BY <1>4, <1>7, <2>2, <2>4
    <3>2. n \in 1 .. n /\ n > 1 BY <1>1, <2>1, <3>1
    <3>3. n \in Words(s) BY <1>2, <2>4, <3>1, <3>2
    <3>4. \A j \in Words(s) : j <= n BY <1>1, <1>2
    <3>5. n \in Lost(s) BY <1>3, <3>1, <3>2, <3>3, <3>4
    <3>6. \A i \in Lost(s) : i = n BY <1>3, <2>4
    <3> QED BY <3>3, <3>4, <3>5, <3>6
  <2> QED BY <2>3, <2>4
<1>8. Words(s) = {} => Lost(s) = {} BY <1>3
<1> QED BY <1>6, <1>7, <1>8

(* What is heard is counted, and comes in front of what is lost.           *)
LEMMA HeardCounted ==
  ASSUME NEW s \in Strings
  PROVE  /\ Heard(s) \subseteq Words(s)
         /\ compute_argc(s) = Cardinality(Heard(s))
         /\ \A i \in Heard(s) : {k \in Heard(s) : k <= i} = {k \in Words(s) : k <= i}
<1>1. Starts(s) = Words(s) /\ Heard(s) = Words(s) \ Lost(s)
  BY StartsAreWords DEF Heard
<1>2. IsFiniteSet(Words(s)) /\ Words(s) \subseteq Nat BY HeadsFinite DEF Words
<1>3. Cardinality(Words(s)) \in Nat BY ArgcCounts
<1>4. CASE EndCounts(s) \/ Words(s) = {}
  <2>1. Heard(s) = Words(s) BY <1>1, <1>4, LastWordLost
  <2>2. compute_argc(s) = Cardinality(Words(s))
    <3>1. CASE EndCounts(s) BY <3>1, ArgcCounts
    <3>2. CASE ~EndCounts(s) /\ Words(s) = {}
      <4>1. Cardinality(Words(s)) = 0 BY <3>2, FS_EmptySet
      <4> QED BY <3>2, <4>1, ArgcCounts
    <3> QED BY <1>4, <3>1, <3>2
  <2> QED BY <2>1, <2>2
<1>5. CASE ~EndCounts(s) /\ Words(s) # {}
  <2>1. PICK m \in Words(s) : Lost(s) = {m} /\ \A j \in Words(s) : j <= m
    BY <1>5, LastWordLost
  <2>2. Heard(s) = Words(s) \ {m} BY <1>1, <2>1
  <2>3. Cardinality(Heard(s)) = Cardinality(Words(s)) - 1
    BY <1>2, <2>1, <2>2, FS_RemoveElement
  <2>4. compute_argc(s) = Cardinality(Words(s)) - 1 BY <1>5, ArgcCounts
  <2>5. ASSUME NEW i \in Heard(s)
        PROVE  {k \in Heard(s) : k <= i} = {k \in Words(s) : k <= i}
    <3>1. i \in Nat /\ m \in Nat /\ i <= m /\ i # m BY <1>2, <2>1, <2>2, <2>5
    <3>2. ~(m <= i) BY <3>1
    <3> QED BY <2>2, <3>2
  <2> QED BY <2>2, <2>3, <2>4, <2>5
<1> QED BY <1>4, <1>5

(* The loop with strtok takes what has been counted.                       *)
LEMMA HeardWordsTaken ==
  ASSUME NEW s \in Strings, NEW args, args = EnvArgs(s)
  PROVE  TakenFrom(s, args)
<1> DEFINE n == compute_argc(s)
           w == WordList(s, Blank)
<1>1. /\ n = Cardinality(Heard(s)) /\ Heard(s) \subseteq Words(s)
      /\ \A i \in Heard(s) : {k \in Heard(s) : k <= i} = {k \in Words(s) : k <= i}
  BY HeardCounted
<1>2. n \in Nat BY ArgcType
<1>3. Len(args) = 1 + n BY EnvArgsType
<1>4. args = [i \in 1 .. 1 + n |-> IF i = 1 THEN << "dummy" >> ELSE w[i - 1]]
  BY EnvArgsAre
<1>5. ASSUME NEW i \in Heard(s), NEW word,
             word = args[1 + Cardinality({k \in Heard(s) : k <= i})]
      PROVE  /\ word = SubSeq(s, i, i + Len(word) - 1)
             /\ Pieces(word) = DOMAIN word
             /\ i + Len(word) \notin Pieces(s)
  <2> DEFINE r == Rank(Words(s), i)
  <2>1. i \in Heads(s, Blank) BY <1>1, <1>5 DEF Words
  <2>2. r \in 1 .. n /\ w[r] = WordAt(s, Blank, i)
    <3>1. r \in Nat \ {0} /\ w[r] = WordAt(s, Blank, i) BY <2>1, WordOfRank DEF Words
    <3>2. r = Cardinality({k \in Heard(s) : k <= i}) BY <1>1, <1>5 DEF Rank
    <3>3. IsFiniteSet(Heard(s)) BY <1>1, HeadsFinite, FS_Subset DEF Words
    <3>4. {k \in Heard(s) : k <= i} \subseteq Heard(s) OBVIOUS
    <3>5. r <= n BY <1>1, <3>2, <3>3, <3>4, FS_Subset
    <3> QED BY <1>2, <3>1, <3>5
  <2>3. word = args[1 + r] BY <1>1, <1>5 DEF Rank
  <2> HIDE DEF r, w, n
  <2>4. word = w[r]
    <3>1. 1 + r \in 1 .. 1 + n /\ 1 + r # 1 /\ (1 + r) - 1 = r BY <1>2, <2>2
    <3> QED BY <1>4, <2>3, <3>1
  <2>5. /\ word \in Strings
        /\ word = SubSeq(s, i, i + Len(word) - 1)
        /\ \A k \in DOMAIN word : word[k] # Blank
        /\ i + Len(word) \in DOMAIN s => s[i + Len(word)] = Blank
    BY <2>1, <2>2, <2>4, WordHere
  <2>6. Pieces(word) = DOMAIN word BY <2>5, StartsAreWords
  <2>7. i + Len(word) \notin Pieces(s) BY <2>5, StartsAreWords
  <2> QED BY <2>5, <2>6, <2>7
<1> QED BY <1>1, <1>3, <1>5 DEF TakenFrom

(* The program's own arguments make way for those of PGMPI_PARAMS.         *)
EnvironmentInv ==
  /\ world \in Worlds
  /\ phase \in {"parsing", "configuring"} /\ world.params_set =>
       argv = EnvArgs(world.params)

(* The inductive step of EnvironmentInv, action by action.                 *)
LEMMA EnvironmentKept == EnvironmentInv /\ [Next]_vars => EnvironmentInv'
<1> SUFFICES ASSUME EnvironmentInv, [Next]_vars PROVE EnvironmentInv'
  OBVIOUS
<1> USE DEF EnvironmentInv
<1>1. CASE MPI_Init BY <1>1 DEF MPI_Init
<1>2. CASE ParseArgument BY <1>2 DEF ParseArgument
<1>3. CASE StartConfiguration BY <1>3 DEF StartConfiguration
<1>4. CASE ReadLine BY <1>4 DEF ReadLine
<1>5. CASE FinishInit BY <1>5 DEF FinishInit
<1>6. CASE Call BY <1>6 DEF Call
<1>7. CASE SetAlgId BY <1>7 DEF SetAlgId
<1>8. CASE Override BY <1>8 DEF Override
<1>9. CASE FinishOverride BY <1>9 DEF FinishOverride
<1>10. CASE MPI_Finalize BY <1>10 DEF MPI_Finalize
<1>11. CASE UNCHANGED vars BY <1>11 DEF vars
<1> QED BY <1>1, <1>2, <1>3, <1>4, <1>5, <1>6, <1>7, <1>8, <1>9, <1>10, <1>11 DEF Next

(* The loop that counts the words of PGMPI_PARAMS and the calls of strtok  *)
(* that take them agree, for strings of any length with any number of      *)
(* blanks between and before their words: all words are heard but for a    *)
(* last one in front of blanks, or of one character behind a blank.        *)
THEOREM EnvironmentAlwaysHeard == Spec => []EnvironmentHeard
<1>1. Init => EnvironmentInv BY DEF Init, EnvironmentInv
<1>2. EnvironmentInv => EnvironmentHeard
  <2> SUFFICES ASSUME EnvironmentInv, phase \in {"parsing", "configuring"},
                      world.params_set, RoomForWords(world.params)
               PROVE  TakenFrom(world.params, argv)
    BY DEF EnvironmentHeard, TakenFrom
  <2>1. world.params \in Strings BY WorldTypes DEF EnvironmentInv
  <2>2. argv = EnvArgs(world.params) BY DEF EnvironmentInv
  <2> QED BY <2>1, <2>2, HeardWordsTaken
<1> QED BY <1>1, <1>2, EnvironmentKept, PTL DEF Spec

-------------------------------------------------------------------------------
(* The trace.                                                              *)

(* The number of bins of every map.                                        *)
SIZE == INITIAL_MAP_SIZE

(* Every map is a table in order.                                          *)
TablesInv == \A cid \in DOMAIN maps : IsTable(maps[cid], SIZE) /\ Chained(maps[cid], SIZE)

(* Only process 0 has maps, and none before it knows its rank.             *)
TraceInv ==
  /\ world \in Worlds
  /\ phase \in {"off", "parsing"} => my_rank = -1
  /\ my_rank # 0 => maps = NoMaps
  /\ TablesInv

(* The lines that print a table are what the table says.                   *)
LEMMA LinesSay ==
  ASSUME NEW cid, Chained(maps[cid], SIZE), NEW e
  PROVE  e \in LinesOf(cid) <=> \E k, v : Says(maps[cid], k, v) /\ e = Line(cid, k, v)
<1> DEFINE t == maps[cid]
<1>1. /\ \A k, v : Says(t, k, v) =>
           k \in ht_get_keys(t) /\ ht_found(t, SIZE, k) /\ ht_get(t, SIZE, k) = v
      /\ \A k : k \in ht_get_keys(t) => Says(t, k, ht_get(t, SIZE, k))
  BY GetSays
<1>2. e \in LinesOf(cid) <=>
        \E k \in ht_get_keys(t) : ht_found(t, SIZE, k) /\ e = Line(cid, k, ht_get(t, SIZE, k))
  BY DEF LinesOf, SIZE
<1> HIDE DEF t
<1>3. ASSUME NEW k, NEW v, Says(t, k, v), e = Line(cid, k, v) PROVE e \in LinesOf(cid)
  BY <1>1, <1>2, <1>3
<1>4. ASSUME e \in LinesOf(cid) PROVE \E k, v : Says(t, k, v) /\ e = Line(cid, k, v)
  BY <1>1, <1>2, <1>4
<1> QED BY <1>3, <1>4 DEF t

(* A collective's map before a call: in order, and saying what is printed. *)
LEMMA MapOfSays ==
  ASSUME TablesInv, NEW cid
  PROVE  /\ IsTable(MapOf(cid), SIZE) /\ Chained(MapOf(cid), SIZE)
         /\ cid \in DOMAIN maps => MapOf(cid) = maps[cid]
         /\ cid \notin DOMAIN maps => \A k, v : ~Says(MapOf(cid), k, v)
<1>1. SIZE \in Nat BY MapSizeAssumption DEF SIZE
<1> QED BY <1>1, CreatedSays DEF MapOf, TablesInv, SIZE

(* The maps after a call that process 0 traces.                            *)
LEMMA SaveSays ==
  ASSUME TablesInv, my_rank = 0, NEW cid, NEW size, BinOf(SIZE, size) \in Bins(SIZE),
         NEW alg, NEW default, Save(cid, size, alg, default)
  PROVE  /\ TablesInv'
         /\ DOMAIN maps' = DOMAIN maps \cup {cid}
         /\ \A c \in DOMAIN maps \ {cid} : maps'[c] = maps[c]
         /\ \A k, v : Says(maps'[cid], k, v) <=>
              IF k = size THEN v = (IF default THEN 0 ELSE alg)
              ELSE cid \in DOMAIN maps /\ Says(maps[cid], k, v)
<1> DEFINE saved == IF default THEN 0 ELSE alg
           t == MapOf(cid)
           u == ht_set(t, SIZE, size, saved)
<1>1. SIZE \in Nat BY MapSizeAssumption DEF SIZE
<1>2. /\ IsTable(t, SIZE) /\ Chained(t, SIZE)
      /\ cid \in DOMAIN maps => t = maps[cid]
      /\ cid \notin DOMAIN maps => \A k, v : ~Says(t, k, v)
  BY MapOfSays
<1>3. maps' = [c \in DOMAIN maps \cup {cid} |-> IF c = cid THEN u ELSE maps[c]]
  BY DEF Save, SIZE
<1> HIDE DEF t, saved
<1>4. /\ IsTable(u, SIZE) /\ Chained(u, SIZE)
      /\ \A k, v : Says(u, k, v) <=> IF k = size THEN v = saved ELSE Says(t, k, v)
  BY <1>1, <1>2, SetSays
<1> HIDE DEF u
<1>5. /\ DOMAIN maps' = DOMAIN maps \cup {cid} /\ maps'[cid] = u
      /\ \A c \in DOMAIN maps \ {cid} : maps'[c] = maps[c]
  BY <1>3
<1>6. TablesInv' BY <1>4, <1>5 DEF TablesInv, SIZE
<1> QED BY <1>2, <1>4, <1>5, <1>6 DEF saved

(* The sizes of messages have a bin.                                       *)
LEMMA SizesHaveBins ==
  ASSUME world \in Worlds, NEW c \in world.calls
  PROVE  BinOf(SIZE, c.size) \in Bins(SIZE)
BY HashAssumption DEF BinOf, SIZE

(* Without maps there is nothing out of order.                             *)
LEMMA NoMapsInOrder == maps = NoMaps => TablesInv
BY DEF NoMaps, TablesInv

(* The inductive step of TraceInv, action by action.                       *)
LEMMA TraceKept == TraceInv /\ [Next]_vars => TraceInv'
<1> SUFFICES ASSUME TraceInv, [Next]_vars PROVE TraceInv'
  OBVIOUS
<1> USE DEF TraceInv, storeVars
<1>0. ASSUME UNCHANGED << world, storeVars >>, phase' \in {"off", "parsing"} => my_rank = -1
      PROVE  TraceInv'
  BY <1>0 DEF TablesInv
<1>1. CASE MPI_Init BY <1>0, <1>1 DEF MPI_Init
<1>2. CASE ParseArgument BY <1>0, <1>2 DEF ParseArgument
<1>3. CASE StartConfiguration
  <2>1. maps' = NoMaps BY <1>3 DEF StartConfiguration, InitMaps
  <2>2. TablesInv' BY <2>1 DEF NoMaps, TablesInv
  <2> QED BY <1>3, <2>1, <2>2 DEF StartConfiguration
<1>4. CASE ReadLine BY <1>0, <1>4 DEF ReadLine
<1>5. CASE FinishInit BY <1>0, <1>5 DEF FinishInit
<1>6. CASE Call
  <2>1. PICK c \in world.calls, id \in world.ids, default \in BOOLEAN :
          Save(c.cid, c.size, alg_id'[c.cid], default)
    BY <1>6 DEF Call
  <2>2. CASE my_rank = 0
    <3>1. TablesInv' BY <2>1, <2>2, SaveSays, SizesHaveBins
    <3> QED BY <1>6, <2>1, <2>2, <3>1 DEF Call, Save
  <2>3. CASE my_rank # 0
    <3>1. UNCHANGED storeVars BY <2>1, <2>3 DEF Save
    <3> QED BY <1>0, <1>6, <3>1 DEF Call
  <2> QED BY <2>2, <2>3
<1>7. CASE SetAlgId BY <1>0, <1>7 DEF SetAlgId
<1>8. CASE Override BY <1>0, <1>8 DEF Override
<1>9. CASE FinishOverride BY <1>0, <1>9 DEF FinishOverride
<1>10. CASE MPI_Finalize
  <2>1. maps' = NoMaps BY <1>10 DEF MPI_Finalize, PrintAndFree
  <2>2. TablesInv' BY <2>1 DEF NoMaps, TablesInv
  <2> QED BY <1>10, <2>1, <2>2 DEF MPI_Finalize
<1>11. CASE UNCHANGED vars BY <1>0, <1>11 DEF vars
<1> QED BY <1>1, <1>2, <1>3, <1>4, <1>5, <1>6, <1>7, <1>8, <1>9, <1>10, <1>11 DEF Next

(* What may be assumed of the maps in every state.                         *)
LEMMA TraceInvariant == Spec => []TraceInv
<1>1. Init => TraceInv
  <2>1. Init => maps = NoMaps BY DEF Init, StoreInit
  <2> QED BY <2>1, NoMapsInOrder DEF Init, StoreInit, TraceInv
<1> QED BY <1>1, TraceKept, PTL DEF Spec

(* No insertion cuts a chain, doubles a key or puts it where ht_get does   *)
(* not look, for any number of bins and any hash function that stays       *)
(* within them.                                                            *)
THEOREM ChainsAlwaysKept == Spec => []ChainsKept
<1>1. TraceInv => ChainsKept
  <2> SUFFICES ASSUME TraceInv, NEW cid \in DOMAIN maps
               PROVE  /\ DOMAIN maps[cid] = Bins(INITIAL_MAP_SIZE)
                      /\ Chained(maps[cid], INITIAL_MAP_SIZE)
    BY DEF ChainsKept
  <2>1. maps[cid] = [bin \in Bins(SIZE) |-> maps[cid][bin]]
    BY DEF TraceInv, TablesInv, IsTable
  <2>2. DOMAIN maps[cid] = Bins(SIZE) BY <2>1
  <2> QED BY <2>2 DEF TraceInv, TablesInv, SIZE
<1> QED BY <1>1, TraceInvariant, PTL

(* The lines that MPI_Finalize would print now are those that some table   *)
(* says.                                                                   *)
Printed(e) ==
  \E cid \in DOMAIN maps : \E k, v : Says(maps[cid], k, v) /\ e = Line(cid, k, v)

LinesPrinted == \A e : e \in Lines <=> Printed(e)

(* So it is while the tables are in order.                                 *)
LEMMA AllLinesSay == TablesInv => LinesPrinted
<1> SUFFICES ASSUME TablesInv, NEW e PROVE e \in Lines <=> Printed(e)
  BY DEF LinesPrinted
<1>1. e \in Lines <=> \E cid \in DOMAIN maps : e \in LinesOf(cid) BY DEF Lines
<1>2. \A cid \in DOMAIN maps :
        e \in LinesOf(cid) <=> \E k, v : Says(maps[cid], k, v) /\ e = Line(cid, k, v)
  BY LinesSay DEF TablesInv
<1> QED BY <1>1, <1>2 DEF Printed

(* The same after a step.                                                  *)
LEMMA AllLinesSayNext == TablesInv' => LinesPrinted'
BY AllLinesSay, PTL

(* Without maps nothing is printed.                                        *)
LEMMA NoMapsNoLines == maps = NoMaps => Lines = {}
BY DEF NoMaps, Lines

(* A step that leaves the maps alone leaves the lines alone.               *)
LEMMA SameMapsSameLines == UNCHANGED maps => UNCHANGED Lines
BY DEF Lines, LinesOf

(* Tracing a call is Keep, with the line of this call.                     *)
LEMMA SaveKeeps ==
  ASSUME TablesInv, my_rank = 0, NEW cid, NEW size, BinOf(SIZE, size) \in Bins(SIZE),
         NEW alg, NEW default, Save(cid, size, alg, default)
  PROVE  \E e \in Lines' : Trace!Keep(e)
<1> DEFINE saved == IF default THEN 0 ELSE alg
           e == Line(cid, size, saved)
<1>1. /\ TablesInv'
      /\ DOMAIN maps' = DOMAIN maps \cup {cid}
      /\ \A c \in DOMAIN maps \ {cid} : maps'[c] = maps[c]
      /\ \A k, v : Says(maps'[cid], k, v) <=>
           IF k = size THEN v = saved ELSE cid \in DOMAIN maps /\ Says(maps[cid], k, v)
  BY SaveSays
<1>2. report' = report BY DEF Save
<1> HIDE DEF saved
<1>3. \A c, k, v : Line(c, k, v).coll = c /\ Line(c, k, v).size = k BY DEF Line
<1>4. \A f : f \in Lines <=>
        \E c \in DOMAIN maps : \E k, v : Says(maps[c], k, v) /\ f = Line(c, k, v)
  BY AllLinesSay DEF LinesPrinted, Printed
<1>5. \A f : f \in Lines' <=>
        \E c \in DOMAIN maps' : \E k, v : Says(maps'[c], k, v) /\ f = Line(c, k, v)
  BY <1>1, AllLinesSayNext DEF LinesPrinted, Printed
<1>6. e \in Lines' BY <1>1, <1>5
<1>7. ASSUME NEW f PROVE f \in Lines' <=>
        f = e \/ (f \in Lines /\ (f.coll # cid \/ f.size # size))
  <2>1. ASSUME f \in Lines'
        PROVE  f = e \/ (f \in Lines /\ (f.coll # cid \/ f.size # size))
    <3>1. PICK c \in DOMAIN maps' : \E k, v : Says(maps'[c], k, v) /\ f = Line(c, k, v)
      BY <1>5, <2>1
    <3>2. PICK k, v : Says(maps'[c], k, v) /\ f = Line(c, k, v) BY <3>1
    <3>3. CASE c # cid BY <1>1, <1>3, <1>4, <3>2, <3>3
    <3>4. CASE c = cid /\ k = size BY <1>1, <3>2, <3>4
    <3>5. CASE c = cid /\ k # size BY <1>1, <1>3, <1>4, <3>2, <3>5
    <3> QED BY <3>3, <3>4, <3>5
  <2>2. ASSUME f \in Lines, f.coll # cid \/ f.size # size PROVE f \in Lines'
    <3>1. PICK c \in DOMAIN maps : \E k, v : Says(maps[c], k, v) /\ f = Line(c, k, v)
      BY <1>4, <2>2
    <3>2. PICK k, v : Says(maps[c], k, v) /\ f = Line(c, k, v) BY <3>1
    <3>3. c \in DOMAIN maps' /\ Says(maps'[c], k, v) BY <1>1, <1>3, <2>2, <3>2
    <3> QED BY <1>5, <3>2, <3>3
  <2> QED BY <1>6, <2>1, <2>2
<1>8. e.coll = cid /\ e.size = size BY <1>3
<1> HIDE DEF e
<1>9. Lines' = {f \in Lines : f.coll # e.coll \/ f.size # e.size} \cup {e}
  BY <1>7, <1>8
<1> QED BY <1>2, <1>6, <1>9 DEF Trace!Keep

(* Every step of the library is one of AlgidTrace's, or leaves the trace   *)
(* alone.                                                                  *)
LEMMA StepsTraced ==
  TraceInv /\ [Next]_vars => [Trace!Next]_<< Lines, report >>
<1> SUFFICES ASSUME TraceInv, [Next]_vars PROVE [Trace!Next]_<< Lines, report >>
  OBVIOUS
<1> USE DEF storeVars
<1>0. ASSUME UNCHANGED << maps, report >> PROVE [Trace!Next]_<< Lines, report >>
  BY <1>0, SameMapsSameLines
<1>1. CASE MPI_Init BY <1>0, <1>1 DEF MPI_Init
<1>2. CASE ParseArgument BY <1>0, <1>2 DEF ParseArgument
<1>3. CASE StartConfiguration
  BY <1>0, <1>3 DEF StartConfiguration, InitMaps, TraceInv
<1>4. CASE ReadLine BY <1>0, <1>4 DEF ReadLine
<1>5. CASE FinishInit BY <1>0, <1>5 DEF FinishInit
<1>6. CASE Call
  <2>1. PICK c \in world.calls, id \in world.ids, default \in BOOLEAN :
          Save(c.cid, c.size, alg_id'[c.cid], default)
    BY <1>6 DEF Call
  <2>2. CASE my_rank = 0
    <3>1. \E e \in Lines' : Trace!Keep(e)
      BY <2>1, <2>2, SaveKeeps, SizesHaveBins DEF TraceInv
    <3> QED BY <3>1 DEF Trace!Next
  <2>3. CASE my_rank # 0 BY <1>0, <2>1, <2>3 DEF Save
  <2> QED BY <2>2, <2>3
<1>7. CASE SetAlgId BY <1>0, <1>7 DEF SetAlgId
<1>8. CASE Override BY <1>0, <1>8 DEF Override
<1>9. CASE FinishOverride BY <1>0, <1>9 DEF FinishOverride
<1>10. CASE MPI_Finalize
  <2>1. CASE my_rank = 0
    <3>1. maps' = NoMaps /\ report' = Lines
      BY <1>10, <2>1 DEF MPI_Finalize, PrintAndFree
    <3>2. Lines' = {} BY <3>1 DEF NoMaps, Lines
    <3> QED BY <3>1, <3>2 DEF Trace!Next, Trace!Report
  <2>2. CASE my_rank # 0
    BY <1>0, <1>10, <2>2 DEF MPI_Finalize, PrintAndFree
  <2> QED BY <2>1, <2>2
<1>11. CASE UNCHANGED vars BY <1>0, <1>11 DEF vars
<1> QED BY <1>1, <1>2, <1>3, <1>4, <1>5, <1>6, <1>7, <1>8, <1>9, <1>10, <1>11 DEF Next

(* The tables, lazily made and chained, are an implementation of the trace *)
(* that AlgidTrace specifies: each call replaces the line of its           *)
(* collective and size and no other, and MPI_Finalize prints all of them.  *)
THEOREM TraceImplemented == Spec => Traces
<1>1. Init => Trace!Init
  BY NoMapsNoLines DEF Init, StoreInit, Trace!Init
<1> QED BY <1>1, StepsTraced, TraceInvariant, PTL DEF Spec, Traces, Trace!Spec

-------------------------------------------------------------------------------
(* Types.                                                                  *)

(* Every collective has an algorithm to choose, the default.               *)
LEMMA ChoicesType == \A cid \in Cids : NbChoices(cid) \in Nat \ {0}
<1>1. /\ Len(allgather.algs) \in Nat \ {0} /\ Len(allreduce.algs) \in Nat \ {0}
      /\ Len(alltoall.algs) \in Nat \ {0} /\ Len(bcast.algs) \in Nat \ {0}
      /\ Len(gather.algs) \in Nat \ {0} /\ Len(reduce.algs) \in Nat \ {0}
      /\ Len(reduce_scatter_block.algs) \in Nat \ {0}
      /\ Len(scan.algs) \in Nat \ {0} /\ Len(scatter.algs) \in Nat \ {0}
  BY DEF allgather, allreduce, alltoall, bcast, gather, reduce, reduce_scatter_block,
         scan, scatter
<1>2. Cids = 1 .. 9 BY DEF Cids, modules
<1>3. /\ modules[1] = allgather /\ modules[2] = allreduce /\ modules[3] = alltoall
      /\ modules[4] = bcast /\ modules[5] = gather /\ modules[6] = reduce
      /\ modules[7] = reduce_scatter_block /\ modules[8] = scan /\ modules[9] = scatter
  BY DEF modules
<1> SUFFICES ASSUME NEW cid \in Cids PROVE Len(modules[cid].algs) \in Nat \ {0}
  BY DEF NbChoices, AlgNames
<1>4. \/ cid = 1 \/ cid = 2 \/ cid = 3 \/ cid = 4 \/ cid = 5 \/ cid = 6 \/ cid = 7
      \/ cid = 8 \/ cid = 9
  BY <1>2
<1> QED BY <1>1, <1>3, <1>4

(* Whatever the options of a module are, the algorithm it is given is one  *)
(* of its own.                                                             *)
LEMMA AlgIdType ==
  ASSUME NEW cid \in Cids, NEW name PROVE AlgIdOf(cid, name) \in 0 .. NbChoices(cid) - 1
<1> DEFINE n == NbChoices(cid)
           i == CHOOSE j \in 1 .. n : AlgNames(cid)[j] = name
<1>1. n \in Nat \ {0} BY ChoicesType
<1>2. CASE \E j \in 1 .. n : AlgNames(cid)[j] = name
  <2>1. i \in 1 .. n BY <1>2
  <2>2. AlgIdOf(cid, name) = i - 1 BY <1>2 DEF AlgIdOf
  <2> HIDE DEF n, i
  <2>3. AlgIdOf(cid, name) \in 0 .. n - 1 BY <1>1, <2>1, <2>2
  <2> QED BY <2>3 DEF n
<1>3. CASE ~ \E j \in 1 .. n : AlgNames(cid)[j] = name
  <2>1. AlgIdOf(cid, name) = 0 BY <1>3 DEF AlgIdOf
  <2> QED BY <1>1, <2>1
<1> QED BY <1>2, <1>3

LEMMA AlgIdFromType ==
  ASSUME NEW cid \in Cids, NEW options
  PROVE  AlgIdFrom(cid, options) \in 0 .. NbChoices(cid) - 1
<1>1. 0 \in 0 .. NbChoices(cid) - 1 BY ChoicesType
<1> QED BY <1>1, AlgIdType DEF AlgIdFrom

(* TypeOK, with values of the configuration that can be read as numbers.   *)
TypeInv ==
  /\ world \in Worlds /\ phase \in Phases /\ next \in Nat \ {0}
  /\ argv \in Seq(Strings)
  /\ Holds(hashmap, Strings, Strings)
  /\ Holds(config, Strings, Texts)
  /\ limit \in [msg : 0 .. ULONG_MAX, int : 0 .. ULONG_MAX]
  /\ ppath \in Strings
  /\ alg_id \in [Cids -> Int]
  /\ \A cid \in Cids : alg_id[cid] \in 0 .. NbChoices(cid) - 1
  /\ my_rank \in {-1, world.rank}
  /\ my_rank # 0 => report = {}

(* What the files and the world hold.                                      *)
LEMMA LineTypes ==
  ASSUME NEW i \in DOMAIN ConfigLines, IsSetting(ConfigLines[i])
  PROVE  ConfigLines[i][1] \in Strings /\ ConfigLines[i][2] \in Texts
<1> DEFINE f == ConfigFile
           line == Files[f][i]
<1>1. f \in DOMAIN Files /\ ConfigLines = Files[f] BY DEF ConfigLines
<1>2. Files[f] \in Seq(Seq(Strings)) /\ i \in DOMAIN Files[f] BY <1>1, FilesAssumption
<1> HIDE DEF f
<1>3. line \in Seq(Strings) BY <1>2
<1>4. IsSetting(line) BY <1>1
<1>5. Len(line) \in Nat /\ Len(line) >= 2 /\ DOMAIN line = 1 .. Len(line)
  BY <1>3, <1>4 DEF IsSetting
<1> HIDE DEF line
<1>6. line[1] \in Strings BY <1>3, <1>5
<1>7. line[2] \in Texts
  <2>1. i \in {k \in DOMAIN Files[f] : IsSetting(Files[f][k])} BY <1>2, <1>4 DEF line
  <2>2. line[2] = Files[f][i][2] BY DEF line
  <2> QED BY <1>1, <2>1, <2>2 DEF Texts
<1> QED BY <1>1, <1>6, <1>7 DEF line

LEMMA WorldStrings ==
  ASSUME NEW w \in Worlds
  PROVE  /\ w.argv \in Seq(Strings) /\ w.params \in Strings
         /\ w.profiles \in Strings /\ w.rank \in Nat
         /\ w.overrides \subseteq Seq(Strings)
         /\ \A c \in w.calls : c.cid \in Cids
         /\ w.ids \subseteq Int
<1>1. w \in World BY WorldsAssumption
<1> QED BY <1>1 DEF World

(* The library's parameters go to its modules, and the path to ppath.      *)
LEMMA ContextTypes ==
  ASSUME TypeInv, ContextInit
  PROVE  /\ ppath' \in Strings
         /\ alg_id' \in [Cids -> Int]
         /\ \A cid \in Cids : alg_id'[cid] \in 0 .. NbChoices(cid) - 1
<1>1. ProfilePath \in Strings
  BY ValueHolds, WorldStrings DEF TypeInv, ProfilePath
<1>2. \A cid \in Cids : ToModules[cid] \in 0 .. NbChoices(cid) - 1
  BY AlgIdFromType DEF TypeInv, ToModules
<1>3. ToModules = [cid \in Cids |-> ToModules[cid]] BY DEF ToModules
<1>4. ToModules \in [Cids -> Int]
  <2>1. \A cid \in Cids : ToModules[cid] \in Int BY <1>2
  <2> QED BY <1>3, <2>1
<1>5. CASE world.context = "CLI" BY <1>2, <1>4, <1>5 DEF ContextInit, TypeInv
<1>6. CASE world.context # "CLI" BY <1>1, <1>6 DEF ContextInit, TypeInv
<1> QED BY <1>5, <1>6

(* An id that set_algid accepts is one of the collective's.                *)
LEMMA SetTypes ==
  ASSUME TypeInv, NEW cid \in Cids, NEW id \in Int, ValidId(cid, id)
  PROVE  LET new == [alg_id EXCEPT ![cid] = id]
         IN  /\ new \in [Cids -> Int]
             /\ \A c \in Cids : new[c] \in 0 .. NbChoices(c) - 1
<1>1. NbChoices(cid) \in Nat BY ChoicesType
<1>2. id \in 0 .. NbChoices(cid) - 1 BY <1>1 DEF ValidId
<1> QED BY <1>2 DEF TypeInv

LEMMA LimitTypes ==
  ASSUME TypeInv, NEW key PROVE LongValue(key) \in 0 .. ULONG_MAX
<1>1. ASSUME NEW x \in Int PROVE Unsigned(x) \in 0 .. ULONG_MAX
  BY UlongAssumption DEF Unsigned
<1>2. HasKey(config, key) => atol(Value(config, key)) \in Int
  BY ValueHolds, AtolAssumption DEF TypeInv
<1> QED BY <1>1, <1>2, UlongAssumption DEF LongValue

(* The inductive step of TypeInv, action by action.                        *)
LEMMA TypesKept == TypeInv /\ TraceInv /\ [Next]_vars => TypeInv'
<1> SUFFICES ASSUME TypeInv, TraceInv, [Next]_vars PROVE TypeInv'
  OBVIOUS
<1> USE DEF TypeInv, Phases, storeVars
<1>1. CASE MPI_Init
  <2>1. argv' \in Seq(Strings) BY <1>1, WorldStrings, EnvArgsType DEF MPI_Init
  <2>2. Holds(hashmap', Strings, Strings) BY <1>1, EmptyHolds DEF MPI_Init
  <2> QED BY <1>1, <2>1, <2>2 DEF MPI_Init
<1>2. CASE ParseArgument
  <2>1. next \in DOMAIN argv /\ next' = next + 1
    <3>1. DOMAIN argv = 1 .. Len(argv) OBVIOUS
    <3> QED BY <1>2, <3>1 DEF ParseArgument
  <2>2. Holds(hashmap', Strings, Strings)
    <3>1. CASE Additions(argv[next]) = {} BY <1>2, <3>1 DEF ParseArgument
    <3>2. CASE Additions(argv[next]) # {}
      <4> DEFINE a == CHOOSE a \in Additions(argv[next]) : TRUE
      <4>1. hashmap' = Added(hashmap, a[1], a[2]) BY <1>2, <3>2 DEF ParseArgument
      <4>2. a \in Additions(argv[next]) BY <3>2
      <4>3. argv[next] \in Strings BY <2>1
      <4> HIDE DEF a
      <4>4. a[1] \in Strings /\ a[2] \in Strings
        BY <4>2, <4>3, AdditionTypes, LiteralTypes
      <4> QED BY <4>1, <4>4, AddedHolds
    <3> QED BY <3>1, <3>2
  <2> QED BY <1>2, <2>1, <2>2 DEF ParseArgument
<1>3. CASE StartConfiguration
  <2> DEFINE d == Added(Fresh, MSG, DefaultMsg)
  <2>1. Holds(d, Strings, Texts) BY EmptyHolds, AddedHolds, LiteralTypes DEF Texts
  <2>2. config' = Added(d, INT, DefaultInt) BY <1>3 DEF StartConfiguration, DefaultConfig
  <2> HIDE DEF d
  <2>3. Holds(config', Strings, Texts) BY <2>1, <2>2, AddedHolds, LiteralTypes DEF Texts
  <2>4. my_rank' = world.rank /\ report' = {}
    BY <1>3 DEF StartConfiguration, InitMaps, TraceInv
  <2> QED BY <1>3, <2>3, <2>4 DEF StartConfiguration
<1>4. CASE ReadLine
  <2>1. next' \in Nat \ {0} BY <1>4 DEF ReadLine
  <2>2. Holds(config', Strings, Texts)
    <3> DEFINE line == ConfigLines[next]
    <3>1. next \in DOMAIN ConfigLines
      <4>1. ConfigLines = << >> \/ ConfigLines \in Seq(Seq(Strings))
        BY FilesAssumption DEF ConfigLines
      <4>2. DOMAIN ConfigLines = 1 .. Len(ConfigLines) /\ Len(ConfigLines) \in Nat BY <4>1
      <4> QED BY <1>4, <4>2 DEF ReadLine
    <3>2. CASE IsSetting(line)
      <4>1. config' = Added(config, line[1], line[2]) BY <1>4, <3>2 DEF ReadLine
      <4>2. line[1] \in Strings /\ line[2] \in Texts BY <3>1, <3>2, LineTypes
      <4> HIDE DEF line
      <4> QED BY <4>1, <4>2, AddedHolds
    <3>3. CASE ~IsSetting(line) BY <1>4, <3>3 DEF ReadLine
    <3> QED BY <3>2, <3>3
  <2> QED BY <1>4, <2>1, <2>2 DEF ReadLine
<1>5. CASE FinishInit
  <2>1. limit' \in [msg : 0 .. ULONG_MAX, int : 0 .. ULONG_MAX]
    BY <1>5, LimitTypes DEF FinishInit
  <2> QED BY <1>5, <2>1, ContextTypes DEF FinishInit
<1>6. CASE Call
  <2>1. PICK c \in world.calls, id \in world.ids, default \in BOOLEAN :
          /\ ValidId(c.cid, id)
          /\ alg_id' = IF world.context = "TUNED" THEN [alg_id EXCEPT ![c.cid] = id]
                       ELSE alg_id
          /\ Save(c.cid, c.size, alg_id'[c.cid], default)
    BY <1>6 DEF Call
  <2>2. c.cid \in Cids /\ id \in Int BY WorldStrings
  <2>3. /\ alg_id' \in [Cids -> Int]
        /\ \A cid \in Cids : alg_id'[cid] \in 0 .. NbChoices(cid) - 1
    BY <2>1, <2>2, SetTypes
  <2>4. UNCHANGED << my_rank, report >> BY <2>1 DEF Save
  <2> QED BY <1>6, <2>3, <2>4 DEF Call
<1>7. CASE SetAlgId
  <2>1. PICK c \in world.calls, id \in world.ids :
          alg_id' = IF ValidId(c.cid, id) THEN [alg_id EXCEPT ![c.cid] = id] ELSE alg_id
    BY <1>7 DEF SetAlgId
  <2>2. c.cid \in Cids /\ id \in Int BY WorldStrings
  <2>3. /\ alg_id' \in [Cids -> Int]
        /\ \A cid \in Cids : alg_id'[cid] \in 0 .. NbChoices(cid) - 1
    BY <2>1, <2>2, SetTypes
  <2> QED BY <1>7, <2>3 DEF SetAlgId
<1>8. CASE Override
  <2>1. argv' \in Seq(Strings) BY <1>8, WorldStrings DEF Override
  <2>2. Holds(hashmap', Strings, Strings) BY <1>8, EmptyHolds DEF Override
  <2> QED BY <1>8, <2>1, <2>2 DEF Override
<1>9. CASE FinishOverride BY <1>9, ContextTypes DEF FinishOverride
<1>10. CASE MPI_Finalize
  <2>1. Holds(hashmap', Strings, Strings) /\ Holds(config', Strings, Texts)
    BY <1>10, EmptyHolds DEF MPI_Finalize
  <2>2. ppath' \in Strings BY <1>10 DEF MPI_Finalize, NULL, Strings
  <2>3. my_rank' = my_rank /\ (my_rank # 0 => report' = report)
    BY <1>10 DEF MPI_Finalize, PrintAndFree
  <2> QED BY <1>10, <2>1, <2>2, <2>3 DEF MPI_Finalize
<1>11. CASE UNCHANGED vars BY <1>11 DEF vars
<1> QED BY <1>1, <1>2, <1>3, <1>4, <1>5, <1>6, <1>7, <1>8, <1>9, <1>10, <1>11 DEF Next

(* Whatever the arguments, the environment and the files say, no module is *)
(* given an algorithm it does not have, nothing but a string is looked up  *)
(* or opened, and no process but 0 keeps or prints a trace.                *)
THEOREM LibraryTypes == Spec => []TypeOK
<1>1. Init => TypeInv
  <2> SUFFICES ASSUME Init PROVE TypeInv
    OBVIOUS
  <2>1. << >> \in Seq(Strings) /\ << >> \in Strings BY DEF Strings
  <2>2. \A cid \in Cids : 0 \in 0 .. NbChoices(cid) - 1 BY ChoicesType
  <2>3. 0 \in 0 .. ULONG_MAX BY UlongAssumption
  <2> QED BY <2>1, <2>2, <2>3, EmptyHolds DEF Init, StoreInit, TypeInv, Phases, NULL
<1>2. TypeInv /\ TraceInv => TypeOK
  <2> SUFFICES ASSUME TypeInv, TraceInv PROVE TypeOK
    OBVIOUS
  <2>1. Texts \subseteq Strings
    <3>1. ASSUME NEW f \in DOMAIN Files, NEW i \in DOMAIN Files[f], IsSetting(Files[f][i])
          PROVE  Files[f][i][2] \in Strings
      <4> DEFINE line == Files[f][i]
      <4>1. line \in Seq(Strings) BY FilesAssumption
      <4>2. Len(line) >= 2 BY <3>1 DEF IsSetting
      <4> HIDE DEF line
      <4>3. line[2] \in Strings BY <4>1, <4>2
      <4> QED BY <4>3 DEF line
    <3> QED BY <3>1, LiteralTypes DEF Texts
  <2>2. config.data \in Seq([key : Strings, value : Texts]) /\ config.size \in Nat
    BY DEF TypeInv, Holds
  <2>3. config.data \in Seq([key : Strings, value : Strings])
    <3> DEFINE A == [key : Strings, value : Texts]
               B == [key : Strings, value : Strings]
    <3>1. A \subseteq B BY <2>1
    <3> HIDE DEF A, B
    <3>2. config.data \in Seq(A) BY <2>2 DEF A
    <3>3. config.data \in Seq(B) BY <3>1, <3>2
    <3> QED BY <3>3 DEF B
  <2>4. hashmap.data \in Seq([key : Strings, value : Strings]) /\ hashmap.size \in Nat
    BY DEF TypeInv, Holds
  <2>5. my_rank # 0 => maps = NoMaps /\ report = {} BY DEF TypeInv, TraceInv
  <2> QED BY <2>2, <2>3, <2>4, <2>5 DEF TypeInv, TypeOK
<1> QED BY <1>1, <1>2, TypesKept, TraceInvariant, PTL DEF Spec

-------------------------------------------------------------------------------
(* What arguments say, and what parse_cli_arguments makes of them.         *)

ModuleOption == "--module"
ConfigOption == "--config"
PpathOption == "--ppath"
ConfigKey == "config_file"
PathKey == "profile_path"

LEMMA AllDifferent ==
  /\ ModuleOption # ConfigOption /\ ModuleOption # PpathOption
  /\ ConfigOption # PpathOption /\ ConfigKey # PathKey
  /\ ModuleOption # Sign /\ ConfigOption # Sign /\ PpathOption # Sign
  /\ ConfigKey # Sign /\ PathKey # Sign
BY Zenon DEF ModuleOption, ConfigOption, PpathOption, ConfigKey, PathKey, Sign

(* The additions, one form of argument after the other.                    *)
LEMMA AdditionsAre ==
  ASSUME NEW arg \in Strings
  PROVE  LET v == SubSeq(arg, 3, Len(arg))
             first == strtok(v, Sign)
             second == strtok(first.rest, Sign)
         IN  /\ Begins(arg, ModuleOption) =>
                  \A a : a \in Additions(arg) <=>
                    /\ a = << first.token, second.token >>
                    /\ first.token # << >> /\ second.token # << >>
             /\ Begins(arg, ConfigOption) => Additions(arg) = {<< << ConfigKey >>, v >>}
             /\ Begins(arg, PpathOption) => Additions(arg) = {<< << PathKey >>, v >>}
             /\ ~Begins(arg, ModuleOption) /\ ~Begins(arg, ConfigOption)
                /\ ~Begins(arg, PpathOption) => Additions(arg) = {}
<1> DEFINE v == SubSeq(arg, 3, Len(arg))
           first(w) == strtok(w, Sign)
           second(w) == strtok(first(w).rest, Sign)
           pair == IsPair(arg)
           key == KeyOf(arg)
           val == ValOf(arg)
           m == << ModuleOption >>
           c == << ConfigOption >>
           p == << PpathOption >>
           adds == {a \in {<< first(val).token, second(val).token >>} :
                      a[1] # << >> /\ a[2] # << >>}
<1>1. /\ pair /\ key = m <=> Begins(arg, ModuleOption)
      /\ pair /\ key = c <=> Begins(arg, ConfigOption)
      /\ pair /\ key = p <=> Begins(arg, PpathOption)
  BY AllDifferent, KeyIs
<1>2. Begins(arg, ModuleOption) \/ Begins(arg, ConfigOption) \/ Begins(arg, PpathOption)
        => val = v
  BY AllDifferent, KeyIs
<1>3. m # c /\ m # p /\ c # p BY AllDifferent
<1>4. Additions(arg)
        = IF ~pair THEN {}
          ELSE IF key = m THEN adds
          ELSE IF key = c THEN {<< << ConfigKey >>, val >>}
          ELSE IF key = p THEN {<< << PathKey >>, val >>}
          ELSE {}
  BY Zenon DEF Additions, ModuleOption, ConfigOption, PpathOption, ConfigKey, PathKey, Sign
<1>5. \A a : a \in adds <=> /\ a = << first(val).token, second(val).token >>
                          /\ first(val).token # << >> /\ second(val).token # << >>
  <2> DEFINE x == first(val).token
             y == second(val).token
  <2> HIDE DEF x, y
  <2>1. adds = {a \in {<< x, y >>} : a[1] # << >> /\ a[2] # << >>} BY DEF x, y
  <2>2. << x, y >>[1] = x /\ << x, y >>[2] = y OBVIOUS
  <2> HIDE DEF adds
  <2>3. \A a : a \in adds <=> a = << x, y >> /\ x # << >> /\ y # << >> BY <2>1, <2>2
  <2> QED BY <2>3 DEF x, y
<1> HIDE DEF v, pair, key, val, m, c, p, adds
<1>6. ASSUME Begins(arg, ModuleOption)
      PROVE  /\ Additions(arg) = adds /\ val = v
             /\ ~Begins(arg, ConfigOption) /\ ~Begins(arg, PpathOption)
  BY <1>1, <1>2, <1>3, <1>4, <1>6
<1>7. ASSUME Begins(arg, ConfigOption) PROVE Additions(arg) = {<< << ConfigKey >>, v >>}
  BY <1>1, <1>2, <1>3, <1>4, <1>7
<1>8. ASSUME Begins(arg, PpathOption) PROVE Additions(arg) = {<< << PathKey >>, v >>}
  BY <1>1, <1>2, <1>3, <1>4, <1>8
<1>9. ASSUME ~Begins(arg, ModuleOption), ~Begins(arg, ConfigOption), ~Begins(arg, PpathOption)
      PROVE  Additions(arg) = {}
  BY <1>1, <1>4, <1>9
<1>10. ASSUME Begins(arg, ModuleOption)
       PROVE  \A a : a \in Additions(arg) <=>
                /\ a = << first(v).token, second(v).token >>
                /\ first(v).token # << >> /\ second(v).token # << >>
  BY <1>5, <1>6, <1>10
<1> QED BY <1>7, <1>8, <1>9, <1>10 DEF v

(* The parameters that the library itself has, and those of modules.       *)
Parameter(options, key) ==
  /\ key # Sign
  /\ \/ options = {ConfigOption} /\ key = ConfigKey
     \/ options = {PpathOption} /\ key = PathKey
     \/ options = {} /\ key # ConfigKey /\ key # PathKey

(* Gives, by the form of the argument.                                     *)
LEMMA GivesIs ==
  ASSUME NEW arg \in Strings, NEW options, NEW key
  PROVE  Gives(arg, options, key) <=>
           \/ \E o \in options : Begins(arg, o)
           \/ Begins(arg, ModuleOption) /\ Len(arg) >= 5 /\ arg[3] = key /\ arg[4] = Sign
<1> DEFINE four == << ModuleOption, Sign, key, Sign >>
           s == SubSeq(arg, 1, 4)
<1>1. Gives(arg, options, key) <=>
        \/ Len(arg) >= 2 /\ arg[1] \in options /\ arg[2] = Sign
        \/ Len(arg) >= 5 /\ s = four
  BY Zenon DEF Gives, ModuleOption, Sign
<1>2. ASSUME Len(arg) >= 5
      PROVE  s = four <=> arg[1] = ModuleOption /\ arg[2] = Sign /\ arg[3] = key /\ arg[4] = Sign
  <2>1. /\ s \in Strings
        /\ Len(s) = IF 1 <= 4 THEN 4 - 1 + 1 ELSE 0
        /\ \A i \in 1 .. 4 - 1 + 1 : s[i] = arg[1 + i - 1]
    <3>1. Len(arg) \in Nat /\ 4 <= Len(arg) BY <1>2 DEF Strings
    <3> QED BY <3>1, Piece
  <2> HIDE DEF s
  <2>2. s \in Strings /\ Len(s) = 4 /\ s[1] = arg[1] /\ s[2] = arg[2]
        /\ s[3] = arg[3] /\ s[4] = arg[4]
    BY <2>1
  <2>3. ASSUME s[1] = ModuleOption, s[2] = Sign, s[3] = key, s[4] = Sign PROVE s = four
    BY <2>2, <2>3 DEF Strings
  <2>4. ASSUME s = four
        PROVE  s[1] = ModuleOption /\ s[2] = Sign /\ s[3] = key /\ s[4] = Sign
    BY <2>4
  <2> QED BY <2>2, <2>3, <2>4
<1>3. Len(arg) >= 5 => Len(arg) >= 2 BY DEF Strings
<1> HIDE DEF s, four
<1> QED BY <1>1, <1>2, <1>3 DEF Begins

(* Where Gives finds the text of a parameter.                              *)
TextOf(arg, options) == SubSeq(arg, IF arg[1] \in options THEN 3 ELSE 5, Len(arg))

(* What a plain argument adds to the dictionary can be read off it.        *)
LEMMA GivesAdds ==
  ASSUME NEW arg \in Strings, Plain(arg), NEW options, NEW key, Parameter(options, key)
  PROVE  /\ \A a \in Additions(arg) : a[1] = << key >> =>
              Gives(arg, options, key) /\ a[2] = TextOf(arg, options)
         /\ Gives(arg, options, key) => \E a \in Additions(arg) : a[1] = << key >>
<1> DEFINE v == SubSeq(arg, 3, Len(arg))
           first == strtok(v, Sign)
           second == strtok(first.rest, Sign)
           five == Len(arg) >= 5 /\ arg[3] = key /\ arg[4] = Sign
           value == SubSeq(arg, 5, Len(arg))
<1>1. /\ Begins(arg, ModuleOption) =>
           \A a : a \in Additions(arg) <=>
             /\ a = << first.token, second.token >>
             /\ first.token # << >> /\ second.token # << >>
      /\ Begins(arg, ConfigOption) => Additions(arg) = {<< << ConfigKey >>, v >>}
      /\ Begins(arg, PpathOption) => Additions(arg) = {<< << PathKey >>, v >>}
      /\ ~Begins(arg, ModuleOption) /\ ~Begins(arg, ConfigOption)
         /\ ~Begins(arg, PpathOption) => Additions(arg) = {}
  BY AdditionsAre
<1>2. ASSUME Begins(arg, ModuleOption)
      PROVE  /\ first.token = << key >> /\ second.token # << >> <=> five
             /\ first.token = << key >> /\ second.token # << >> => second.token = value
  <2>1. Len(arg) >= 2 /\ arg[1] = "--module" /\ arg[2] = "="
    BY <1>2, Zenon DEF Begins, ModuleOption, Sign
  <2>2. /\ Len(arg) >= 3 => arg[3] # Sign
        /\ \A i, j \in 4 .. Len(arg) : arg[i] = Sign /\ arg[j] = Sign => i = j
    BY <2>1, Zenon DEF Plain, Sign
  <2>3. OneMore(arg, Sign) BY <2>2, Zenon DEF OneMore
  <2>4. key # Sign BY DEF Parameter
  <2>5. Len(arg) >= 2 BY <2>1, Zenon
  <2> QED BY <2>5, <2>3, <2>4, KeyAndValue
<1>3. Gives(arg, options, key) <=>
        (\E o \in options : Begins(arg, o)) \/ (Begins(arg, ModuleOption) /\ five)
  BY GivesIs
<1>4. /\ Begins(arg, ModuleOption) => arg[1] = ModuleOption
      /\ Begins(arg, ConfigOption) => arg[1] = ConfigOption
      /\ Begins(arg, PpathOption) => arg[1] = PpathOption
  BY DEF Begins
<1> HIDE DEF first, second, five
<1>5. CASE Begins(arg, ModuleOption)
  <2>1. arg[1] \notin options BY <1>4, <1>5, AllDifferent DEF Parameter
  <2>2. ~ \E o \in options : Begins(arg, o) BY <2>1 DEF Begins
  <2>3. TextOf(arg, options) = value BY <2>1 DEF TextOf
  <2> HIDE DEF value
  <2>4. ASSUME NEW a \in Additions(arg), a[1] = << key >>
        PROVE  Gives(arg, options, key) /\ a[2] = TextOf(arg, options)
    <3>1. a = << first.token, second.token >> /\ second.token # << >> BY <1>1, <1>5
    <3>2. a[1] = first.token /\ a[2] = second.token BY <3>1
    <3> QED BY <1>2, <1>3, <1>5, <2>3, <2>4, <3>1, <3>2
  <2>5. ASSUME Gives(arg, options, key) PROVE \E a \in Additions(arg) : a[1] = << key >>
    <3>1. first.token = << key >> /\ second.token # << >> BY <1>2, <1>3, <1>5, <2>2, <2>5
    <3>2. first.token # << >> BY <3>1
    <3>3. << first.token, second.token >> \in Additions(arg) BY <1>1, <1>5, <3>1, <3>2
    <3>4. << first.token, second.token >>[1] = first.token OBVIOUS
    <3> QED BY <3>1, <3>3, <3>4
  <2> QED BY <2>4, <2>5
<1>6. CASE Begins(arg, ConfigOption)
  <2>1. Additions(arg) = {<< << ConfigKey >>, v >>} BY <1>1, <1>6
  <2>2. ~Begins(arg, ModuleOption) /\ ~Begins(arg, PpathOption)
    BY <1>4, <1>6, AllDifferent
  <2>3. Gives(arg, options, key) <=> key = ConfigKey
    BY <1>3, <1>6, <2>2, AllDifferent DEF Parameter
  <2>4. key = ConfigKey => TextOf(arg, options) = v
    BY <1>4, <1>6, AllDifferent DEF Parameter, TextOf
  <2>5. << key >> = << ConfigKey >> <=> key = ConfigKey OBVIOUS
  <2> HIDE DEF v
  <2>6. << << ConfigKey >>, v >>[1] = << ConfigKey >> /\ << << ConfigKey >>, v >>[2] = v
    OBVIOUS
  <2> QED BY <2>1, <2>3, <2>4, <2>5, <2>6
<1>7. CASE Begins(arg, PpathOption)
  <2>1. Additions(arg) = {<< << PathKey >>, v >>} BY <1>1, <1>7
  <2>2. ~Begins(arg, ModuleOption) /\ ~Begins(arg, ConfigOption)
    BY <1>4, <1>7, AllDifferent
  <2>3. Gives(arg, options, key) <=> key = PathKey
    BY <1>3, <1>7, <2>2, AllDifferent DEF Parameter
  <2>4. key = PathKey => TextOf(arg, options) = v
    BY <1>4, <1>7, AllDifferent DEF Parameter, TextOf
  <2>5. << key >> = << PathKey >> <=> key = PathKey OBVIOUS
  <2> HIDE DEF v
  <2>6. << << PathKey >>, v >>[1] = << PathKey >> /\ << << PathKey >>, v >>[2] = v
    OBVIOUS
  <2> QED BY <2>1, <2>3, <2>4, <2>5, <2>6
<1>8. CASE /\ ~Begins(arg, ModuleOption) /\ ~Begins(arg, ConfigOption)
           /\ ~Begins(arg, PpathOption)
  BY <1>1, <1>3, <1>8 DEF Parameter
<1> QED BY <1>5, <1>6, <1>7, <1>8

(* When all arguments have been parsed, what the dictionary says of a      *)
(* parameter is what Given and Text read off them.                         *)
GivenBy(args, options, key) == {j \in DOMAIN args : Gives(args[j], options, key)}
LastOf(S) == CHOOSE j \in S : \A k \in S : k <= j

LEMMA LookedUp ==
  ASSUME NEW args \in Seq(Strings), \A i \in DOMAIN args : Plain(args[i]),
         NEW d, Counts(d, args, 1 .. Len(args)),
         NEW options, NEW key, Parameter(options, key)
  PROVE  LET G == GivenBy(args, options, key)
         IN  /\ HasKey(d, << key >>) <=> G # {}
             /\ G # {} => Value(d, << key >>) = TextOf(args[LastOf(G)], options)
<1> DEFINE G == GivenBy(args, options, key)
           n == Len(args)
           c == LastOf(G)
           k1 == << key >>
<1>1. n \in Nat /\ DOMAIN args = 1 .. n OBVIOUS
<1>2. \A j : j \in G <=> j \in 1 .. n /\ Gives(args[j], options, key)
  BY <1>1 DEF GivenBy
<1>3. ASSUME NEW j \in 1 .. n
      PROVE  /\ \A a \in Additions(args[j]) : a[1] = k1 =>
                  Gives(args[j], options, key) /\ a[2] = TextOf(args[j], options)
             /\ Gives(args[j], options, key) => \E a \in Additions(args[j]) : a[1] = k1
  <2>1. args[j] \in Strings /\ Plain(args[j]) BY <1>1
  <2> QED BY <2>1, GivesAdds
<1> HIDE DEF G, n, k1
<1>4. /\ \A j \in 1 .. n : \A a \in Additions(args[j]) :
           (\A k \in 1 .. n : k > j => \A b \in Additions(args[k]) : b[1] # a[1])
             => HasKey(d, a[1]) /\ Value(d, a[1]) = a[2]
      /\ HasKey(d, k1) => \E j \in 1 .. n : \E a \in Additions(args[j]) : a[1] = k1
  BY DEF Counts, n
<1>5. HasKey(d, k1) => G # {} BY <1>2, <1>3, <1>4
<1>6. ASSUME G # {}
      PROVE  HasKey(d, k1) /\ Value(d, k1) = TextOf(args[c], options)
  <2>1. G \subseteq 1 .. n BY <1>2
  <2>2. c \in G /\ \A k \in G : k <= c BY <1>1, <1>6, <2>1, GreatestChosen DEF LastOf
  <2> HIDE DEF c
  <2>3. c \in 1 .. n /\ Gives(args[c], options, key) BY <1>2, <2>2
  <2>4. PICK a \in Additions(args[c]) : a[1] = k1 BY <1>3, <2>3
  <2>5. a[2] = TextOf(args[c], options) BY <1>3, <2>3, <2>4
  <2>6. ASSUME NEW k \in 1 .. n, k > c, NEW b \in Additions(args[k]) PROVE b[1] # k1
    <3>1. SUFFICES ASSUME b[1] = k1 PROVE FALSE
      OBVIOUS
    <3>2. k \in G BY <1>2, <1>3, <3>1
    <3>3. k <= c /\ k \in Int /\ c \in Int BY <2>2, <2>3, <3>2
    <3> QED BY <2>6, <3>3
  <2> QED BY <1>4, <2>3, <2>4, <2>5, <2>6
<1> QED BY <1>5, <1>6 DEF G, k1

(* All arguments that are parsed are plain.                                *)
PlainInv == world \in Worlds /\ argv \in Seq(Strings) /\ \A i \in DOMAIN argv : Plain(argv[i])

(* The inductive step of PlainInv, action by action.                       *)
LEMMA PlainKept ==
  ASSUME PlainWorlds PROVE PlainInv /\ [Next]_vars => PlainInv'
<1> SUFFICES ASSUME PlainInv, [Next]_vars PROVE PlainInv'
  OBVIOUS
<1> USE DEF PlainInv
<1>1. CASE MPI_Init
  <2>1. argv' \in {world.argv, EnvArgs(world.params)} /\ world' = world
    BY <1>1 DEF MPI_Init
  <2>2. argv' \in Seq(Strings) BY <2>1, WorldStrings, EnvArgsType
  <2>3. \A i \in DOMAIN argv' : Plain(argv'[i]) BY <2>1 DEF PlainWorlds
  <2> QED BY <2>1, <2>2, <2>3
<1>2. CASE ParseArgument BY <1>2 DEF ParseArgument
<1>3. CASE StartConfiguration BY <1>3 DEF StartConfiguration
<1>4. CASE ReadLine BY <1>4 DEF ReadLine
<1>5. CASE FinishInit BY <1>5 DEF FinishInit
<1>6. CASE Call BY <1>6 DEF Call
<1>7. CASE SetAlgId BY <1>7 DEF SetAlgId
<1>8. CASE Override
  <2>1. argv' \in world.overrides /\ world' = world BY <1>8 DEF Override
  <2>2. argv' \in Seq(Strings) BY <2>1, WorldStrings
  <2>3. \A i \in DOMAIN argv' : Plain(argv'[i]) BY <2>1 DEF PlainWorlds
  <2> QED BY <2>1, <2>2, <2>3
<1>9. CASE FinishOverride BY <1>9 DEF FinishOverride
<1>10. CASE MPI_Finalize BY <1>10 DEF MPI_Finalize
<1>11. CASE UNCHANGED vars BY <1>11 DEF vars
<1> QED BY <1>1, <1>2, <1>3, <1>4, <1>5, <1>6, <1>7, <1>8, <1>9, <1>10, <1>11 DEF Next

(* So what is looked up in a dictionary that is complete is what the       *)
(* arguments say.                                                          *)
AllParsed ==
  \/ phase = "configuring"
  \/ phase = "overriding" /\ next > Len(argv)

LEMMA ParametersSaid ==
  ASSUME PlainInv, ArgumentsInv, AllParsed,
         NEW options, NEW key, Parameter(options, key)
  PROVE  /\ HasKey(hashmap, << key >>) <=> Given(options, key) # {}
         /\ Given(options, key) # {} => Value(hashmap, << key >>) = Text(options, key)
         /\ Given(options, key) # {} =>
              \E arg \in Strings : /\ Plain(arg) /\ Gives(arg, options, key)
                                  /\ Text(options, key) = TextOf(arg, options)
<1> DEFINE G == Given(options, key)
           arg == argv[LastOf(G)]
<1>1. ParsedArgs = 1 .. Len(argv)
  <2>1. CASE phase = "configuring" BY <2>1 DEF ParsedArgs
  <2>2. CASE phase = "overriding" /\ next > Len(argv)
    <3>1. next - 1 = Len(argv) BY <2>2 DEF ArgumentsInv
    <3> QED BY <2>2, <3>1 DEF ParsedArgs
  <2> QED BY <2>1, <2>2 DEF AllParsed
<1>2. Counts(hashmap, argv, 1 .. Len(argv)) BY <1>1 DEF ArgumentsInv, Live, AllParsed
<1>3. G = GivenBy(argv, options, key) BY DEF Given, GivenBy
<1>4. Text(options, key) = TextOf(arg, options) BY DEF Text, TextOf, LastOf
<1>5. /\ HasKey(hashmap, << key >>) <=> G # {}
      /\ G # {} => Value(hashmap, << key >>) = TextOf(arg, options)
  BY <1>2, <1>3, LookedUp DEF PlainInv
<1>6. ASSUME G # {} PROVE arg \in Strings /\ Plain(arg) /\ Gives(arg, options, key)
  <2>1. Len(argv) \in Nat /\ DOMAIN argv = 1 .. Len(argv) BY DEF PlainInv
  <2>2. \A j : j \in G <=> j \in 1 .. Len(argv) /\ Gives(argv[j], options, key)
    BY <2>1 DEF Given
  <2> HIDE DEF G
  <2>3. LastOf(G) \in G
    <3>1. G \subseteq 1 .. Len(argv) BY <2>2
    <3> QED BY <1>6, <2>1, <3>1, GreatestChosen DEF LastOf
  <2>4. LastOf(G) \in DOMAIN argv /\ Gives(arg, options, key) BY <2>1, <2>2, <2>3
  <2> QED BY <2>4 DEF PlainInv
<1> QED BY <1>4, <1>5, <1>6

-------------------------------------------------------------------------------
(* The configuration.                                                      *)

(* A configuration c about a key, when n lines have been read.             *)
About(line, key) == Len(line) >= 2 /\ line[1] = key

ReadSoFar(c, lines, n, key, default) ==
  /\ HasKey(c, key)
  /\ (\A i \in 1 .. n : ~About(lines[i], key)) => Value(c, key) = default
  /\ \A i \in 1 .. n :
       About(lines[i], key) /\ (\A j \in 1 .. n : About(lines[j], key) => j <= i)
         => Value(c, key) = lines[i][2]

LEMMA KeysDiffer == /\ MSG # INT
                    /\ MSG[1] # "#" /\ INT[1] # "#"
<1> DEFINE m == "size_msg_buffer_bytes"
           i == "size_int_buffer_bytes"
           h == "#"
<1>1. m # i /\ m # h /\ i # h BY Zenon
<1>2. MSG = << m >> /\ INT = << i >> BY Zenon DEF MSG, INT, str
<1> HIDE DEF m, i, h
<1>3. << m >> # << i >> /\ << m >>[1] # h /\ << i >>[1] # h BY <1>1
<1>4. MSG # INT /\ MSG[1] # h /\ INT[1] # h BY <1>2, <1>3
<1> QED BY <1>4, Zenon DEF h

(* The defaults, when nothing has been read.                               *)
LEMMA DefaultsSay ==
  ASSUME NEW lines
  PROVE  /\ ReadSoFar(DefaultConfig, lines, 0, MSG, DefaultMsg)
         /\ ReadSoFar(DefaultConfig, lines, 0, INT, DefaultInt)
<1> DEFINE d == Added(Fresh, MSG, DefaultMsg)
           e == Added(d, INT, DefaultInt)
<1>1. IsDictionary(d) /\ Sound(d) /\ HasKey(d, MSG) /\ Value(d, MSG) = DefaultMsg
  BY FreshSound, AddedSays
<1> HIDE DEF d
<1>2. HasKey(e, INT) /\ Value(e, INT) = DefaultInt BY <1>1, AddedSays
<1>3. HasKey(e, MSG) /\ Value(e, MSG) = DefaultMsg BY <1>1, AddedSays, KeysDiffer
<1>4. DefaultConfig = e BY DEF DefaultConfig, d
<1> HIDE DEF e
<1>5. 1 .. 0 = {} OBVIOUS
<1> QED BY <1>2, <1>3, <1>4, <1>5 DEF ReadSoFar

(* One more line.                                                          *)
LEMMA ReadOneMore ==
  ASSUME NEW c, IsDictionary(c), Sound(c), NEW lines, NEW n \in Nat \ {0},
         NEW key, key[1] # "#", NEW default, ReadSoFar(c, lines, n - 1, key, default),
         NEW e, e = IF IsSetting(lines[n]) THEN Added(c, lines[n][1], lines[n][2]) ELSE c
  PROVE  ReadSoFar(e, lines, n, key, default)
<1> DEFINE line == lines[n]
           k == line[1]
           v == line[2]
           about(i) == About(lines[i], key)
<1>1. n \in 1 .. n /\ \A i \in 1 .. n : i = n \/ (i \in 1 .. n - 1 /\ ~(n <= i))
  OBVIOUS
<1>2. \A i \in 1 .. n - 1 : i \in 1 .. n /\ i <= n OBVIOUS
<1>3. about(n) => IsSetting(line) /\ k = key BY Zenon DEF About, IsSetting
<1>4. IsSetting(line) /\ k = key => about(n) BY DEF About, IsSetting
<1>5. /\ HasKey(c, key)
      /\ (\A i \in 1 .. n - 1 : ~about(i)) => Value(c, key) = default
      /\ \A i \in 1 .. n - 1 :
           about(i) /\ (\A j \in 1 .. n - 1 : about(j) => j <= i)
             => Value(c, key) = lines[i][2]
  BY DEF ReadSoFar
<1>6. CASE about(n)
  <2>1. e = Added(c, key, v) BY <1>3, <1>6
  <2>2. HasKey(e, key) /\ Value(e, key) = v BY <2>1, AddedSays
  <2>3. ASSUME NEW i \in 1 .. n, about(i), \A j \in 1 .. n : about(j) => j <= i
        PROVE  i = n
    BY <1>1, <1>6, <2>3
  <2> HIDE DEF about
  <2>4. ASSUME \A i \in 1 .. n : ~about(i) PROVE FALSE BY <1>1, <1>6, <2>4
  <2>5. /\ (\A i \in 1 .. n : ~about(i)) => Value(e, key) = default
        /\ \A i \in 1 .. n :
             about(i) /\ (\A j \in 1 .. n : about(j) => j <= i)
               => Value(e, key) = lines[i][2]
    BY <2>2, <2>3, <2>4
  <2> QED BY <2>2, <2>5 DEF ReadSoFar, about
<1>7. CASE ~about(n)
  <2>1. HasKey(e, key) /\ Value(e, key) = Value(c, key)
    <3>1. CASE IsSetting(line)
      <4>1. k # key /\ e = Added(c, k, v) BY <1>4, <1>7, <3>1
      <4> HIDE DEF k, v
      <4> QED BY <1>5, <4>1, AddedSays
    <3>2. CASE ~IsSetting(line) BY <1>5, <3>2
    <3> QED BY <3>1, <3>2
  <2> HIDE DEF about
  <2>2. (\A i \in 1 .. n : ~about(i)) => Value(e, key) = default
    BY <1>2, <1>5, <2>1
  <2>3. ASSUME NEW i \in 1 .. n, about(i), \A j \in 1 .. n : about(j) => j <= i
        PROVE  Value(e, key) = lines[i][2]
    <3>1. i \in 1 .. n - 1 BY <1>1, <1>7, <2>3
    <3> QED BY <1>2, <1>5, <2>1, <2>3, <3>1
  <2> QED BY <2>1, <2>2, <2>3 DEF ReadSoFar, about
<1> QED BY <1>6, <1>7

(* While the file is read, the configuration says what the lines so far do.*)
ConfigurationInv ==
  phase = "configuring" =>
    /\ next \in Nat \ {0} /\ next <= Len(ConfigLines) + 1
    /\ ReadSoFar(config, ConfigLines, next - 1, MSG, DefaultMsg)
    /\ ReadSoFar(config, ConfigLines, next - 1, INT, DefaultInt)

LEMMA LinesType == Len(ConfigLines) \in Nat /\ DOMAIN ConfigLines = 1 .. Len(ConfigLines)
<1>1. ConfigLines = << >> \/ ConfigLines \in Seq(Seq(Strings))
  BY FilesAssumption DEF ConfigLines
<1> QED BY <1>1

(* The inductive step of ConfigurationInv, action by action.               *)
LEMMA ConfigurationKept ==
  DictionariesInv /\ ConfigurationInv /\ [Next]_vars => ConfigurationInv'
<1> SUFFICES ASSUME DictionariesInv, ConfigurationInv, [Next]_vars PROVE ConfigurationInv'
  OBVIOUS
<1> USE DEF ConfigurationInv
<1>1. CASE MPI_Init BY <1>1 DEF MPI_Init
<1>2. CASE ParseArgument BY <1>2 DEF ParseArgument
<1>3. CASE StartConfiguration
  <2>1. next' = 1 /\ config' = DefaultConfig BY <1>3 DEF StartConfiguration
  <2>2. ConfigLines' = ConfigLines
    BY <1>3 DEF StartConfiguration, ConfigLines, ConfigFile
  <2>3. 1 <= Len(ConfigLines) + 1 /\ 1 - 1 = 0 BY LinesType
  <2> QED BY <2>1, <2>2, <2>3, DefaultsSay
<1>4. CASE ReadLine
  <2>1. /\ phase = "configuring" /\ next' = next + 1 /\ next <= Len(ConfigLines)
        /\ config' = IF IsSetting(ConfigLines[next])
                     THEN Added(config, ConfigLines[next][1], ConfigLines[next][2])
                     ELSE config
    BY <1>4 DEF ReadLine
  <2>2. ConfigLines' = ConfigLines BY <1>4 DEF ReadLine, ConfigLines, ConfigFile
  <2>3. IsDictionary(config) /\ Sound(config)
    BY <2>1 DEF DictionariesInv, DictionariesSound, Live
  <2>4. next \in Nat \ {0} BY <2>1
  <2>5. /\ ReadSoFar(config', ConfigLines, next, MSG, DefaultMsg)
        /\ ReadSoFar(config', ConfigLines, next, INT, DefaultInt)
    BY <2>1, <2>3, <2>4, ReadOneMore, KeysDiffer
  <2>6. next + 1 \in Nat \ {0} /\ next + 1 <= Len(ConfigLines) + 1 /\ (next + 1) - 1 = next
    BY <2>1, <2>4, LinesType
  <2> QED BY <2>1, <2>2, <2>5, <2>6
<1>5. CASE FinishInit BY <1>5 DEF FinishInit
<1>6. CASE Call BY <1>6 DEF Call
<1>7. CASE SetAlgId BY <1>7 DEF SetAlgId
<1>8. CASE Override BY <1>8 DEF Override
<1>9. CASE FinishOverride BY <1>9 DEF FinishOverride
<1>10. CASE MPI_Finalize BY <1>10 DEF MPI_Finalize
<1>11. CASE UNCHANGED vars
  <2>1. ConfigLines' = ConfigLines BY <1>11 DEF vars, ConfigLines, ConfigFile
  <2> QED BY <1>11, <2>1 DEF vars
<1> QED BY <1>1, <1>2, <1>3, <1>4, <1>5, <1>6, <1>7, <1>8, <1>9, <1>10, <1>11 DEF Next

(* The file that is read is the one that the arguments name.               *)
LEMMA FileSaid ==
  ASSUME PlainInv, ArgumentsInv, phase = "configuring" PROVE TextLines = ConfigLines
<1> DEFINE options == {ConfigOption}
           key == ConfigKey
<1>1. Parameter(options, key) BY AllDifferent DEF Parameter
<1>2. TextFile = IF Given(options, key) = {} THEN world.config ELSE Text(options, key)
  BY Zenon DEF TextFile, ConfigOption, ConfigKey
<1>3. ConfigFile = IF HasKey(hashmap, << key >>) THEN Value(hashmap, << key >>)
                   ELSE world.config
  BY Zenon DEF ConfigFile, ConfigKey, str
<1> HIDE DEF options, key
<1>4. AllParsed BY DEF AllParsed
<1>5. TextFile = ConfigFile BY <1>1, <1>2, <1>3, <1>4, ParametersSaid
<1> QED BY <1>5, Zenon DEF TextLines, ConfigLines

(* A configuration that has been read says what the file says last.        *)
LEMMA SettingSaid ==
  ASSUME TextLines = ConfigLines, NEW key, NEW default,
         ReadSoFar(config, ConfigLines, Len(ConfigLines), key, default)
  PROVE  HasKey(config, key) /\ Value(config, key) = Setting(key, default)
<1> DEFINE n == Len(ConfigLines)
           says == {i \in DOMAIN ConfigLines : About(ConfigLines[i], key)}
           c == CHOOSE i \in says : \A j \in says : j <= i
<1>1. n \in Nat /\ DOMAIN ConfigLines = 1 .. n BY LinesType
<1>2. Setting(key, default) = IF says = {} THEN default ELSE ConfigLines[c][2]
  BY DEF Setting, About
<1>3. \A i : i \in says <=> i \in 1 .. n /\ About(ConfigLines[i], key) BY <1>1
<1>4. says \subseteq 1 .. n BY <1>1
<1> HIDE DEF says
<1>5. CASE says = {}
  BY <1>2, <1>3, <1>5 DEF ReadSoFar
<1>6. CASE says # {}
  <2>1. c \in says /\ \A j \in says : j <= c BY <1>1, <1>4, <1>6, GreatestChosen
  <2> HIDE DEF c
  <2>2. c \in 1 .. n /\ About(ConfigLines[c], key) BY <1>3, <2>1
  <2>3. \A j \in 1 .. n : About(ConfigLines[j], key) => j <= c BY <1>3, <2>1
  <2>4. HasKey(config, key) /\ Value(config, key) = ConfigLines[c][2]
    BY <2>2, <2>3 DEF ReadSoFar
  <2> QED BY <1>2, <1>6, <2>4
<1> QED BY <1>5, <1>6

(* What FileDecides says of a step.                                        *)
LimitStep ==
  limit' = IF phase = "configuring" /\ phase' = "running"
           THEN [msg |-> Unsigned(atol(Setting(MSG, DefaultMsg))),
                 int |-> Unsigned(atol(Setting(INT, DefaultInt)))]
           ELSE limit

LEMMA FileDecidesStep ==
  PlainInv /\ ArgumentsInv /\ ConfigurationInv /\ [Next]_vars => [LimitStep]_vars
<1> SUFFICES ASSUME PlainInv, ArgumentsInv, ConfigurationInv, Next PROVE LimitStep
  OBVIOUS
<1>0. ASSUME UNCHANGED limit, phase # "configuring" \/ phase' # "running" PROVE LimitStep
  BY <1>0 DEF LimitStep
<1>1. CASE MPI_Init BY <1>0, <1>1 DEF MPI_Init
<1>2. CASE ParseArgument BY <1>0, <1>2 DEF ParseArgument
<1>3. CASE StartConfiguration BY <1>0, <1>3 DEF StartConfiguration
<1>4. CASE ReadLine BY <1>0, <1>4 DEF ReadLine
<1>5. CASE FinishInit
  <2>1. /\ phase = "configuring" /\ phase' = "running" /\ next > Len(ConfigLines)
        /\ limit' = [msg |-> LongValue(MSG), int |-> LongValue(INT)]
    BY <1>5 DEF FinishInit
  <2>2. next - 1 = Len(ConfigLines) BY <2>1, LinesType DEF ConfigurationInv
  <2>3. TextLines = ConfigLines BY <2>1, FileSaid
  <2>4. /\ HasKey(config, MSG) /\ Value(config, MSG) = Setting(MSG, DefaultMsg)
        /\ HasKey(config, INT) /\ Value(config, INT) = Setting(INT, DefaultInt)
    BY <2>1, <2>2, <2>3, SettingSaid DEF ConfigurationInv
  <2>5. /\ LongValue(MSG) = Unsigned(atol(Setting(MSG, DefaultMsg)))
        /\ LongValue(INT) = Unsigned(atol(Setting(INT, DefaultInt)))
    BY <2>4 DEF LongValue
  <2> QED BY <2>1, <2>5 DEF LimitStep
<1>6. CASE Call BY <1>0, <1>6 DEF Call
<1>7. CASE SetAlgId BY <1>0, <1>7 DEF SetAlgId
<1>8. CASE Override BY <1>0, <1>8 DEF Override
<1>9. CASE FinishOverride BY <1>0, <1>9 DEF FinishOverride
<1>10. CASE MPI_Finalize BY <1>0, <1>10 DEF MPI_Finalize
<1> QED BY <1>1, <1>2, <1>3, <1>4, <1>5, <1>6, <1>7, <1>8, <1>9, <1>10 DEF Next

(* What holds of the arguments and the configuration in every state, when  *)
(* arguments are such that they can be read off their text.                *)
LEMMA ReadingInvariant ==
  ASSUME PlainWorlds PROVE Spec => [](PlainInv /\ ArgumentsInv /\ ConfigurationInv)
<1>1. Init => PlainInv /\ ArgumentsInv /\ ConfigurationInv
  <2> SUFFICES ASSUME Init PROVE PlainInv /\ ArgumentsInv /\ ConfigurationInv
    OBVIOUS
  <2>1. argv = << >> /\ world \in Worlds /\ phase = "off" /\ next = 1 BY DEF Init
  <2>2. Len(argv) = 0 /\ DOMAIN argv = {} /\ argv \in Seq(Strings) BY <2>1
  <2> QED BY <2>1, <2>2 DEF PlainInv, ArgumentsInv, ConfigurationInv, Live
<1>2. PlainInv /\ [Next]_vars => PlainInv' BY PlainKept
<1> QED BY <1>1, <1>2, ArgumentsKept, ConfigurationKept, DictionariesInvariant, PTL DEF Spec

(* The scratch areas get the sizes that the last lines about them say, in  *)
(* the file that the last argument about it names, or the environment, or  *)
(* the default sizes; nothing else ever changes them.  The hypothesis is   *)
(* about what FileDecides can read off arguments: none of --module has two *)
(* further "=" or one in front of its key.                                 *)
THEOREM FileAlwaysDecides == ASSUME PlainWorlds PROVE Spec => FileDecides
<1>1. LimitStep <=>
        (limit' = IF phase = "configuring" /\ phase' = "running"
                  THEN [msg |-> Unsigned(atol(Setting(MSG, DefaultMsg))),
                        int |-> Unsigned(atol(Setting(INT, DefaultInt)))]
                  ELSE limit)
  BY DEF LimitStep
<1> QED BY <1>1, FileDecidesStep, ReadingInvariant, PTL DEF Spec, FileDecides

-------------------------------------------------------------------------------
(* What becomes of the parameters.                                         *)

(* Plain options say what a module makes of them.                          *)
AlgKey == "alg"

LEMMA OptionsMean ==
  ASSUME NEW cid, NEW text \in Strings, PlainOptions(text)
  PROVE  AlgIdFrom(cid, text) = Meant(cid, text)
<1> DEFINE a == text[1]
           b == text[3]
           d == Added(Fresh, << a >>, << b >>)
           name == Value(d, << AlgKey >>)
<1>1. Len(text) >= 3 /\ text[2] = Colon BY Zenon DEF PlainOptions, Colon
<1>2. Leading(text, Comma, Colon)
  <2>1. \A x \in {text[1], text[3]} : x \notin {Colon, Comma}
    BY Zenon DEF PlainOptions, Comma, Colon
  <2>2. Len(text) > 3 => text[4] = Comma BY Zenon DEF PlainOptions, Comma
  <2> QED BY <1>1, <2>1, <2>2 DEF Leading
<1>3. WithOptions(Fresh, text) = d BY <1>2, LeadingOption
<1>4. AlgIdFrom(cid, text) = IF Len(name) = 1 THEN AlgIdOf(cid, name[1]) ELSE 0
  BY <1>3, Zenon DEF AlgIdFrom, AlgKey
<1>5. Meant(cid, text) = IF Len(text) >= 3 /\ SubSeq(text, 1, 2) = << AlgKey, Colon >>
                         THEN AlgIdOf(cid, text[3]) ELSE 0
  BY Zenon DEF Meant, AlgKey, Colon
<1>6. SubSeq(text, 1, 2) = << AlgKey, Colon >> <=> a = AlgKey
  <2> DEFINE p == SubSeq(text, 1, 2)
  <2>1. /\ p \in Strings /\ Len(p) = IF 1 <= 2 THEN 2 - 1 + 1 ELSE 0
        /\ \A i \in 1 .. 2 - 1 + 1 : p[i] = text[1 + i - 1]
    <3>1. 2 <= Len(text) /\ Len(text) \in Nat BY <1>1 DEF Strings
    <3> QED BY <3>1, Piece
  <2> HIDE DEF p
  <2>2. p \in Strings /\ Len(p) = 2 /\ p[1] = a /\ p[2] = Colon BY <1>1, <2>1
  <2>3. ASSUME p[1] = AlgKey, p[2] = Colon PROVE p = << AlgKey, Colon >>
    BY <2>2, <2>3 DEF Strings
  <2>4. ASSUME p = << AlgKey, Colon >> PROVE p[1] = AlgKey BY <2>4
  <2> QED BY <2>2, <2>3, <2>4 DEF p
<1>7. /\ HasKey(d, << a >>) /\ Value(d, << a >>) = << b >>
      /\ \A k : k # << a >> => ~HasKey(d, k)
  <2> DEFINE x == << a >>
             y == << b >>
  <2> HIDE DEF x, y
  <2>1. /\ HasKey(Added(Fresh, x, y), x) /\ Value(Added(Fresh, x, y), x) = y
        /\ \A k : k # x => (HasKey(Added(Fresh, x, y), k) <=> HasKey(Fresh, k))
    BY FreshSound, AddedSays
  <2>2. \A k : ~HasKey(Fresh, k)
    <3>1. Fresh.data = << >> BY DEF Fresh
    <3>2. DOMAIN Fresh.data = {} BY <3>1
    <3> QED BY <3>2 DEF HasKey
  <2> QED BY <2>1, <2>2 DEF x, y
<1> HIDE DEF d
<1>8. CASE a = AlgKey
  <2>1. name = << b >> BY <1>7, <1>8
  <2>2. Len(name) = 1 /\ name[1] = b BY <2>1
  <2> QED BY <1>1, <1>4, <1>5, <1>6, <1>8, <2>2
<1>9. CASE a # AlgKey
  <2>1. << AlgKey >> # << a >> BY <1>9
  <2>2. name = << >> BY <1>7, <2>1 DEF Value, NULL
  <2>3. Len(name) # 1 BY <2>2
  <2> QED BY <1>4, <1>5, <1>6, <1>9, <2>3
<1> QED BY <1>8, <1>9

(* The options that an argument gives a collective are plain.              *)
LEMMA PrefixesAreParameters ==
  ASSUME NEW cid \in Cids
  PROVE  modules[cid].cli_prefix \in Prefixes /\ Parameter({}, modules[cid].cli_prefix)
<1> DEFINE others == {"allgather", "allreduce", "alltoall", "bcast", "gather", "reduce",
                      "reduce_scatter_block", "scan", "scatter"}
<1>1. \A x \in others : x # Sign /\ x # ConfigKey /\ x # PathKey
  BY Zenon DEF Sign, ConfigKey, PathKey
<1>2. modules[cid].cli_prefix \in others
  <2>1. Cids = 1 .. 9 BY DEF Cids, modules
  <2>2. \/ cid = 1 \/ cid = 2 \/ cid = 3 \/ cid = 4 \/ cid = 5 \/ cid = 6 \/ cid = 7
        \/ cid = 8 \/ cid = 9
    BY <2>1
  <2>3. /\ modules[1] = allgather /\ modules[2] = allreduce /\ modules[3] = alltoall
        /\ modules[4] = bcast /\ modules[5] = gather /\ modules[6] = reduce
        /\ modules[7] = reduce_scatter_block /\ modules[8] = scan /\ modules[9] = scatter
    BY DEF modules
  <2>4. /\ allgather.cli_prefix \in others /\ allreduce.cli_prefix \in others
        /\ alltoall.cli_prefix \in others /\ bcast.cli_prefix \in others
        /\ gather.cli_prefix \in others /\ reduce.cli_prefix \in others
        /\ reduce_scatter_block.cli_prefix \in others
        /\ scan.cli_prefix \in others /\ scatter.cli_prefix \in others
    BY DEF allgather, allreduce, alltoall, bcast, gather, reduce, reduce_scatter_block,
           scan, scatter
  <2> HIDE DEF others
  <2> QED BY <2>2, <2>3, <2>4
<1> QED BY <1>1, <1>2 DEF Prefixes, Parameter

LEMMA OptionsPlain ==
  ASSUME NEW arg \in Strings, Plain(arg), NEW prefix \in Prefixes,
         Gives(arg, {}, prefix)
  PROVE  TextOf(arg, {}) \in Strings /\ PlainOptions(TextOf(arg, {}))
<1>1. Begins(arg, ModuleOption) /\ Len(arg) >= 5 /\ arg[3] = prefix /\ arg[4] = Sign
  BY GivesIs
<1>2. TextOf(arg, {}) = SubSeq(arg, 5, Len(arg)) BY DEF TextOf
<1>3. Len(arg) >= 2 /\ arg[1] = ModuleOption /\ arg[2] = Sign BY <1>1 DEF Begins
<1>4. PlainOptions(SubSeq(arg, 5, Len(arg)))
  BY <1>1, <1>3, Zenon DEF Plain, ModuleOption, Sign
<1>5. SubSeq(arg, 5, Len(arg)) \in Strings BY Piece DEF Strings
<1> QED BY <1>2, <1>4, <1>5

(* What the contexts set up.                                               *)
LEMMA AlgorithmsSaid ==
  ASSUME PlainInv, ArgumentsInv, AllParsed, NEW cid \in Cids
  PROVE  LET prefix == modules[cid].cli_prefix
         IN  ToModules[cid] = IF Given({}, prefix) = {} THEN alg_id[cid]
                              ELSE Meant(cid, Text({}, prefix))
<1> DEFINE prefix == modules[cid].cli_prefix
<1>1. prefix \in Prefixes /\ Parameter({}, prefix) BY PrefixesAreParameters
<1>2. ToModules[cid] = IF HasKey(hashmap, << prefix >>)
                       THEN AlgIdFrom(cid, Value(hashmap, << prefix >>)) ELSE alg_id[cid]
  BY DEF ToModules, str
<1> HIDE DEF prefix
<1>3. /\ HasKey(hashmap, << prefix >>) <=> Given({}, prefix) # {}
      /\ Given({}, prefix) # {} => Value(hashmap, << prefix >>) = Text({}, prefix)
      /\ Given({}, prefix) # {} =>
           \E arg \in Strings : /\ Plain(arg) /\ Gives(arg, {}, prefix)
                               /\ Text({}, prefix) = TextOf(arg, {})
  BY <1>1, ParametersSaid
<1>4. CASE Given({}, prefix) = {} BY <1>2, <1>3, <1>4 DEF prefix
<1>5. CASE Given({}, prefix) # {}
  <2>1. Text({}, prefix) \in Strings /\ PlainOptions(Text({}, prefix))
    BY <1>1, <1>3, <1>5, OptionsPlain
  <2>2. AlgIdFrom(cid, Text({}, prefix)) = Meant(cid, Text({}, prefix))
    BY <2>1, OptionsMean
  <2> QED BY <1>2, <1>3, <1>5, <2>2 DEF prefix
<1> QED BY <1>4, <1>5

LEMMA PathSaid ==
  ASSUME PlainInv, ArgumentsInv, AllParsed
  PROVE  ProfilePath = IF Given({PpathOption}, PathKey) = {} THEN world.profiles
                       ELSE Text({PpathOption}, PathKey)
<1> DEFINE options == {PpathOption}
           key == PathKey
<1>1. Parameter(options, key) BY AllDifferent DEF Parameter
<1>2. ProfilePath = IF HasKey(hashmap, << key >>) THEN Value(hashmap, << key >>)
                    ELSE world.profiles
  BY Zenon DEF ProfilePath, PathKey, str
<1> HIDE DEF options, key
<1>3. ProfilePath = IF Given(options, key) = {} THEN world.profiles ELSE Text(options, key)
  BY <1>1, <1>2, ParametersSaid
<1> QED BY <1>3 DEF options, key

(* What ArgumentsDecide says of a step that ends with the library running. *)
SetUp ==
  IF world.context = "TUNED"
  THEN /\ alg_id' = alg_id
       /\ ppath' = IF Given({PpathOption}, PathKey) = {} THEN world.profiles
                   ELSE Text({PpathOption}, PathKey)
  ELSE \A cid \in Cids :
         LET prefix == modules[cid].cli_prefix
         IN  alg_id'[cid] = IF Given({}, prefix) = {} THEN alg_id[cid]
                            ELSE Meant(cid, Text({}, prefix))

LEMMA ContextSetUp ==
  ASSUME PlainInv, ArgumentsInv, AllParsed, ContextInit PROVE SetUp
<1>1. CASE world.context = "CLI"
  <2>1. alg_id' = ToModules BY <1>1 DEF ContextInit
  <2>2. world.context # "TUNED" BY <1>1
  <2> QED BY <2>1, <2>2, AlgorithmsSaid DEF SetUp
<1>2. CASE world.context # "CLI"
  <2>1. world.context = "TUNED"
    <3>1. world \in World BY WorldsAssumption DEF PlainInv
    <3> QED BY <1>2, <3>1 DEF World
  <2>2. alg_id' = alg_id /\ ppath' = ProfilePath BY <1>2 DEF ContextInit
  <2> QED BY <2>1, <2>2, PathSaid DEF SetUp
<1> QED BY <1>1, <1>2

LEMMA ArgumentsDecideStep ==
  PlainInv /\ ArgumentsInv /\ [Next]_vars =>
    [phase # "running" /\ phase' = "running" => SetUp]_vars
<1> SUFFICES ASSUME PlainInv, ArgumentsInv, Next, phase # "running", phase' = "running"
             PROVE  SetUp
  OBVIOUS
<1>1. CASE MPI_Init BY <1>1 DEF MPI_Init
<1>2. CASE ParseArgument BY <1>2 DEF ParseArgument
<1>3. CASE StartConfiguration BY <1>3 DEF StartConfiguration
<1>4. CASE ReadLine BY <1>4 DEF ReadLine
<1>5. CASE FinishInit BY <1>5, ContextSetUp DEF FinishInit, AllParsed
<1>6. CASE Call BY <1>6 DEF Call
<1>7. CASE SetAlgId BY <1>7 DEF SetAlgId
<1>8. CASE Override BY <1>8 DEF Override
<1>9. CASE FinishOverride BY <1>9, ContextSetUp DEF FinishOverride, AllParsed
<1>10. CASE MPI_Finalize BY <1>10 DEF MPI_Finalize
<1> QED BY <1>1, <1>2, <1>3, <1>4, <1>5, <1>6, <1>7, <1>8, <1>9, <1>10 DEF Next

(* Parameters decide: a collective that the arguments mention gets the     *)
(* algorithm that the last mention asks for, the others go on with theirs, *)
(* and profiles are read from the last path given, after MPI_Init as after *)
(* every override.  The hypothesis is about what ArgumentsDecide can read  *)
(* off arguments: an "=" only where it belongs, and the options of a       *)
(* collective beginning with one of the form <name>:<value>.               *)
THEOREM ArgumentsAlwaysDecide == ASSUME PlainWorlds PROVE Spec => ArgumentsDecide
<1>1. (phase # "running" /\ phase' = "running" => SetUp) <=>
        (phase # "running" /\ phase' = "running" =>
          IF world.context = "TUNED"
          THEN /\ alg_id' = alg_id
               /\ ppath' = IF Given({"--ppath"}, "profile_path") = {} THEN world.profiles
                           ELSE Text({"--ppath"}, "profile_path")
          ELSE \A cid \in Cids :
                 LET prefix == modules[cid].cli_prefix
                 IN  alg_id'[cid] = IF Given({}, prefix) = {} THEN alg_id[cid]
                                    ELSE Meant(cid, Text({}, prefix)))
  BY Zenon DEF SetUp, PpathOption, PathKey
<1> QED BY <1>1, ArgumentsDecideStep, ReadingInvariant, PTL DEF Spec, ArgumentsDecide

================================================================================
