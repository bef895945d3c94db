------------------------------- MODULE Library -------------------------------
(***************************************************************************)
(* One process's life with the library, from MPI_Init to MPI_Finalize      *)
(* (src/src/pgmpi_mpihook.c, src/src/pgmpi_mpihook_cli.c, the context of   *)
(* src/src/pgmpi_mpihook_tuned.c, src/src/config/*.c): the parameters and  *)
(* the configuration it reads, what it sets up from them, and the trace it *)
(* keeps of the algorithms of collective calls.  What happens in a call is *)
(* the business of Interception.                                           *)
(*                                                                         *)
(* MPI_Init and pgtune_override_argv_parameter are broken into the passes  *)
(* of their loops: one step per argument, one per configuration line.      *)
(***************************************************************************)
EXTENDS CommandLine, AlgidStore

CONSTANTS Worlds,   \* what a process may start with, see World
          Files,    \* the files that can be opened: a function to their lines
          atol(_),  \* the number a string begins with
          ULONG_MAX \* the largest unsigned long

(* The context that is linked in, the rank, the arguments of the program,  *)
(* and the environment variables PGMPI_PARAMS (it may be set to an empty   *)
(* string), PGMPI_CONFIG_FILE and PGMPI_PROFILE_PATH (NULL when unset).    *)
(* Of the application: the calls it may make, the ids it may ask set_algid *)
(* for (or profiles name), and the arguments it may override with.  A line *)
(* of a file is the strings that sscanf would take out of it.              *)
World ==
  [context : {"CLI", "TUNED"}, rank : Nat, argv : Seq(Strings),
   params_set : BOOLEAN, params : Strings,
   config : Strings, profiles : Strings,
   calls : SUBSET [cid : Cids, size : Int], ids : SUBSET Int,
   overrides : SUBSET Seq(Strings)]

ASSUME WorldsAssumption == Worlds \subseteq World
ASSUME HashAssumption ==
  \A w \in Worlds : \A c \in w.calls :
    ht_hash(INITIAL_MAP_SIZE, c.size) \in Bins(INITIAL_MAP_SIZE)
ASSUME FilesAssumption  == \A f \in DOMAIN Files : Files[f] \in Seq(Seq(Strings))

VARIABLES world,    \* never changes
          phase,    \* what the library is doing
          argv,     \* the arguments it parses or parsed last
          next,     \* the argument, or the configuration line, that comes next
          hashmap,  \* the dictionary of parameters
          config,   \* the dictionary of configuration values
          limit,    \* bytes of the scratch areas
          ppath,    \* where profiles were read from, NULL if nowhere
          alg_id    \* the static alg_id of each collective

vars == << world, phase, argv, next, hashmap, config, limit, ppath, alg_id,
           my_rank, maps, report >>

Phases == {"off", "parsing", "configuring", "running", "overriding", "over"}

str(piece) == << piece >>
MSG == str("size_msg_buffer_bytes")
INT == str("size_int_buffer_bytes")

DefaultMsg == str("100000000")
DefaultInt == str("200000")

(* Empty lines and comments are ignored, as are lines of one word; what    *)
(* follows the second word is not read.                                    *)
IsSetting(line) == Len(line) >= 2 /\ line[1][1] # "#"

(* The texts that may have to be taken for numbers.                        *)
Texts ==
  {DefaultMsg, DefaultInt} \cup
  UNION {{Files[f][i][2] : i \in {k \in DOMAIN Files[f] : IsSetting(Files[f][k])}} :
           f \in DOMAIN Files}

ASSUME AtolAssumption == \A text \in Texts : atol(text) \in Int
ASSUME UlongAssumption == ULONG_MAX \in Nat

(* The provers do not know that what stands between quotes is a string.    *)
ASSUME LiteralsAssumption ==
  {"dummy", "config_file", "profile_path", "size_msg_buffer_bytes",
   "size_int_buffer_bytes", "100000000", "200000"} \subseteq STRING

-------------------------------------------------------------------------------
Init ==
  /\ world \in Worlds
  /\ phase = "off" /\ argv = << >> /\ next = 1
  /\ hashmap = Cleaned /\ config = Cleaned
  /\ limit = [msg |-> 0, int |-> 0]
  /\ ppath = NULL
  /\ alg_id = [cid \in Cids |-> 0]
  /\ StoreInit

(* MPI_Init up to the loop over the arguments: those that PGMPI_PARAMS has *)
(* take the place of the program's.                                        *)
MPI_Init ==
  /\ phase = "off"
  /\ argv' = IF world.params_set THEN EnvArgs(world.params) ELSE world.argv
  /\ hashmap' = Fresh
  /\ next' = 1 /\ phase' = "parsing"
  /\ UNCHANGED << world, config, limit, ppath, alg_id, storeVars >>

(* A pass of the loop in parse_cli_arguments.                              *)
ParseArgument ==
  /\ phase \in {"parsing", "overriding"} /\ next <= Len(argv)
  /\ hashmap' = IF Additions(argv[next]) = {} THEN hashmap
                ELSE LET a == CHOOSE a \in Additions(argv[next]) : TRUE
                     IN  Added(hashmap, a[1], a[2])
  /\ next' = next + 1
  /\ UNCHANGED << world, phase, argv, config, limit, ppath, alg_id, storeVars >>

(* pgmpi_config_init.                                                      *)
DefaultConfig == Added(Added(Fresh, MSG, DefaultMsg), INT, DefaultInt)

(* A slip ConfigFile could have: the environment before the parameters.    *)
EnvironmentFile ==
  IF world.config # NULL THEN world.config ELSE Value(hashmap, str("config_file"))

(* The configuration file: a parameter, else PGMPI_CONFIG_FILE, else none. *)
ConfigFile ==
  IF HasKey(hashmap, str("config_file")) THEN Value(hashmap, str("config_file"))
  ELSE world.config

(* A file that cannot be opened is passed over.                            *)
ConfigLines ==
  IF ConfigFile \in DOMAIN Files THEN Files[ConfigFile] ELSE << >>

(* All arguments parsed: pgmpi_init_algid_maps, then the defaults of       *)
(* fill_and_read_pgmpi_config.                                             *)
StartConfiguration ==
  /\ phase = "parsing" /\ next > Len(argv)
  /\ InitMaps(world.rank)
  /\ config' = DefaultConfig
  /\ next' = 1 /\ phase' = "configuring"
  /\ UNCHANGED << world, argv, hashmap, limit, ppath, alg_id >>

(* A pass of the loop in pgmpi_config_read.                                *)
ReadLine ==
  /\ phase = "configuring" /\ next <= Len(ConfigLines)
  /\ LET line == ConfigLines[next]
     IN  config' = IF IsSetting(line) THEN Added(config, line[1], line[2]) ELSE config
  /\ next' = next + 1
  /\ UNCHANGED << world, phase, argv, hashmap, limit, ppath, alg_id, storeVars >>

(* A long assigned to an unsigned long.                                    *)
Unsigned(n) == n % (ULONG_MAX + 1)

(* pgmpi_config_get_long_value, and 0 for a value that is not there.       *)
LongValue(key) == IF HasKey(config, key) THEN Unsigned(atol(Value(config, key))) ELSE 0

(* A slip that pass_cli_arguments_to_modules could have: a module without  *)
(* a parameter is reset.                                                   *)
ToAllModules ==
  [cid \in Cids |->
     IF HasKey(hashmap, str(modules[cid].cli_prefix))
     THEN AlgIdFrom(cid, Value(hashmap, str(modules[cid].cli_prefix))) ELSE 0]

(* pass_cli_arguments_to_modules: the parse function of every module whose *)
(* prefix is a key; the others keep their alg_id.                          *)
ToModules ==
  [cid \in Cids |->
     IF HasKey(hashmap, str(modules[cid].cli_prefix))
     THEN AlgIdFrom(cid, Value(hashmap, str(modules[cid].cli_prefix)))
     ELSE alg_id[cid]]

(* fill_lookup_table: a parameter, else PGMPI_PROFILE_PATH.                *)
ProfilePath ==
  IF HasKey(hashmap, str("profile_path")) THEN Value(hashmap, str("profile_path"))
  ELSE world.profiles

ContextInit ==
  IF world.context = "CLI"
  THEN alg_id' = ToModules /\ UNCHANGED ppath
  ELSE ppath' = ProfilePath /\ UNCHANGED alg_id

(* The file is read: the rest of init_pgtune_lib.                          *)
FinishInit ==
  /\ phase = "configuring" /\ next > Len(ConfigLines)
  /\ limit' = [msg |-> LongValue(MSG), int |-> LongValue(INT)]
  /\ ContextInit
  /\ phase' = "running"
  /\ UNCHANGED << world, argv, next, hashmap, config, storeVars >>

-------------------------------------------------------------------------------
(* A collective call, as far as it is traced.  The tuned library looks the *)
(* algorithm up first.  The default is called for id 0, and for another id *)
(* when the mock-up gives up.                                              *)
Call ==
  /\ phase = "running"
  /\ \E c \in world.calls, id \in world.ids, default \in BOOLEAN :
       /\ ValidId(c.cid, id)
       /\ alg_id' = IF world.context = "TUNED" THEN [alg_id EXCEPT ![c.cid] = id] ELSE alg_id
       /\ alg_id'[c.cid] = 0 => default
       /\ Save(c.cid, c.size, alg_id'[c.cid], default)
  /\ UNCHANGED << world, phase, argv, next, hashmap, config, limit, ppath >>

(* An application that links against the modules calls set_algid.          *)
SetAlgId ==
  /\ phase = "running"
  /\ \E c \in world.calls, id \in world.ids :
       alg_id' = IF ValidId(c.cid, id) THEN [alg_id EXCEPT ![c.cid] = id] ELSE alg_id
  /\ UNCHANGED << world, phase, argv, next, hashmap, config, limit, ppath, storeVars >>

(* pgtune_override_argv_parameter: a new dictionary, the loop over the     *)
(* arguments, context_init.  The configuration is not read again.          *)
Override ==
  /\ phase = "running"
  /\ argv' \in world.overrides
  /\ hashmap' = Fresh
  /\ next' = 1 /\ phase' = "overriding"
  /\ UNCHANGED << world, config, limit, ppath, alg_id, storeVars >>

FinishOverride ==
  /\ phase = "overriding" /\ next > Len(argv)
  /\ ContextInit
  /\ phase' = "running"
  /\ UNCHANGED << world, argv, next, hashmap, config, limit, storeVars >>

(* MPI_Finalize. *)
MPI_Finalize ==
  /\ phase = "running"
  /\ PrintAndFree
  /\ hashmap' = Cleaned /\ config' = Cleaned
  /\ ppath' = NULL
  /\ phase' = "over"
  /\ UNCHANGED << world, argv, next, limit, alg_id >>

Next ==
  \/ MPI_Init \/ ParseArgument \/ StartConfiguration \/ ReadLine \/ FinishInit
  \/ Call \/ SetAlgId \/ Override \/ FinishOverride \/ MPI_Finalize

Spec == Init /\ [][Next]_vars

-------------------------------------------------------------------------------
TypeOK ==
  /\ world \in Worlds /\ phase \in Phases /\ next \in Nat \ {0}
  /\ argv \in Seq(Strings)
  /\ \A d \in {hashmap, config} :
       d.size \in Nat /\ d.data \in Seq([key : Strings, value : Strings])
  /\ limit \in [msg : 0 .. ULONG_MAX, int : 0 .. ULONG_MAX]
  /\ ppath \in Strings
  /\ \A cid \in Cids : alg_id[cid] \in 0 .. NbChoices(cid) - 1
  /\ my_rank \in {-1, world.rank}
  /\ my_rank # 0 => maps = NoMaps /\ report = {}

Live == phase \notin {"off", "over"}

(* While the library lives its dictionaries have room for one more element *)
(* and hold each key once.  An element is written before the allocation is *)
(* enlarged, with no test in between, through any number of arguments,     *)
(* configuration lines and overrides.                                      *)
DictionariesSound ==
  /\ Live => Sound(hashmap)
  /\ Live /\ phase # "parsing" => Sound(config)

(* What the dictionary says of a key is what the last argument parsed that *)
(* gives it a value says, and nothing is left in it from arguments that    *)
(* have been overridden.                                                   *)
ParsedArgs == 1 .. (IF phase \in {"parsing", "overriding"} THEN next - 1 ELSE Len(argv))

LastArgumentCounts ==
  Live =>
    /\ \A j \in ParsedArgs : \A a \in Additions(argv[j]) :
         (\A k \in ParsedArgs : k > j => \A b \in Additions(argv[k]) : b[1] # a[1])
           => HasKey(hashmap, a[1]) /\ Value(hashmap, a[1]) = a[2]
    /\ \A i \in DOMAIN hashmap.data :
         \E j \in ParsedArgs : \E a \in Additions(argv[j]) : a[1] = hashmap.data[i].key

(* The words of PGMPI_PARAMS become arguments, whole and in their order:   *)
(* they are counted by one loop and taken by another.  Only the last one   *)
(* can be lost, when blanks follow it or when it is a single character     *)
(* behind a blank.  If it is the only word, the library writes it past the *)
(* end of its array (pgmpi_mpihook.c:151), and nothing is claimed.         *)
Pieces(s)  == {i \in DOMAIN s : s[i] # " "}
Starts(s)  == {i \in Pieces(s) : i - 1 \notin Pieces(s)}
Lost(s) ==
  {i \in Starts(s) : /\ \A j \in Starts(s) : j <= i
                    /\ \/ s[Len(s)] = " "
                       \/ i = Len(s) /\ i > 1 /\ s[i] \in Characters}
Heard(s) == Starts(s) \ Lost(s)
RoomForWords(s) == Starts(s) # {} => Heard(s) # {}
EnvironmentHeard ==
  phase \in {"parsing", "configuring"} /\ world.params_set /\ RoomForWords(world.params) =>
    /\ Len(argv) = 1 + Cardinality(Heard(world.params))
    /\ \A i \in Heard(world.params) :
         LET word == argv[1 + Cardinality({k \in Heard(world.params) : k <= i})]
         IN  /\ word = SubSeq(world.params, i, i + Len(word) - 1)
             /\ Pieces(word) = DOMAIN word
             /\ i + Len(word) \notin Pieces(world.params)

(* The arguments, read off their text: those that give a value to key, by  *)
(* --module or by an option of its own, and what the last of them says.    *)
Gives(arg, options, key) ==
  \/ Len(arg) >= 2 /\ arg[1] \in options /\ arg[2] = "="
  \/ Len(arg) >= 5 /\ SubSeq(arg, 1, 4) = << "--module", "=", key, "=" >>
Given(options, key) == {j \in DOMAIN argv : Gives(argv[j], options, key)}
Text(options, key) ==
  LET arg == argv[CHOOSE j \in Given(options, key) : \A k \in Given(options, key) : k <= j]
  IN  SubSeq(arg, IF arg[1] \in options THEN 3 ELSE 5, Len(arg))

(* What the text of an argument says can be read off it when an argument   *)
(* of --module has at most one more "=", behind its key, and the options   *)
(* of a collective begin with <name>:<value>, which a "," ends.            *)
PlainOptions(text) ==
  /\ Len(text) >= 3 /\ text[2] = ":"
  /\ {text[1], text[3]} \cap {":", ","} = {}
  /\ Len(text) > 3 => text[4] = ","
Prefixes == {modules[cid].cli_prefix : cid \in Cids}
Plain(arg) ==
  Len(arg) >= 2 /\ arg[1] = "--module" /\ arg[2] = "=" =>
    /\ Len(arg) >= 3 => arg[3] # "="
    /\ \A i, j \in 4 .. Len(arg) : arg[i] = "=" /\ arg[j] = "=" => i = j
    /\ Len(arg) >= 5 /\ arg[3] \in Prefixes /\ arg[4] = "=" =>
         PlainOptions(SubSeq(arg, 5, Len(arg)))
PlainWorlds ==
  \A w \in Worlds : \A args \in {w.argv, EnvArgs(w.params)} \cup w.overrides :
    \A i \in DOMAIN args : Plain(args[i])

(* The algorithm that the text after a module's prefix asks for: that of   *)
(* its first option, if this is "alg".                                     *)
Meant(cid, text) ==
  IF Len(text) >= 3 /\ SubSeq(text, 1, 2) = << "alg", ":" >>
  THEN AlgIdOf(cid, text[3]) ELSE 0

(* When the library has been given parameters, by MPI_Init or an override, *)
(* a collective they mention uses the algorithm that the last mention asks *)
(* for and the others go on with theirs; the tuned library reads profiles  *)
(* from the last path given, and its algorithms do not change.             *)
ArgumentsDecide ==
  [][phase # "running" /\ phase' = "running" =>
       IF world.context = "TUNED"
       THEN /\ alg_id' = alg_id
            /\ ppath' = IF Given({"--ppath"}, "profile_path") = {} THEN world.profiles
                        ELSE Text({"--ppath"}, "profile_path")
       ELSE \A cid \in Cids :
              LET prefix == modules[cid].cli_prefix
              IN  alg_id'[cid] = IF Given({}, prefix) = {} THEN alg_id[cid]
                                 ELSE Meant(cid, Text({}, prefix))]_vars

(* The scratch areas have the sizes that the last lines about them in the  *)
(* file given last say, or the default ones, and an override changes       *)
(* nothing about that.  A negative size is a huge one.                     *)
TextFile ==
  IF Given({"--config"}, "config_file") = {} THEN world.config
  ELSE Text({"--config"}, "config_file")
TextLines == IF TextFile \in DOMAIN Files THEN Files[TextFile] ELSE << >>
Setting(key, default) ==
  LET says == {i \in DOMAIN TextLines : Len(TextLines[i]) >= 2 /\ TextLines[i][1] = key}
  IN  IF says = {} THEN default
      ELSE TextLines[CHOOSE i \in says : \A j \in says : j <= i][2]

FileDecides ==
  [][limit' = IF phase = "configuring" /\ phase' = "running"
              THEN [msg |-> Unsigned(atol(Setting(MSG, DefaultMsg))),
                    int |-> Unsigned(atol(Setting(INT, DefaultInt)))]
              ELSE limit]_vars
================================================================================
