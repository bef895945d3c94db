# PGMPITuneLib: a TLA+ verification project

PGMPITuneLib intercepts nine MPI collectives. A wrapper picks an algorithm for
each call: the MPI library's own implementation, or a *mock-up* that computes
the same result with other collectives. There are two libraries built from the
same files: PGMPITuneCLI, in which the user names the algorithms on the command
line, and PGMPITuneD, in which performance profiles choose them by message size.

This directory holds the TLA+ model of that code, the TLC runs that check it on
small instances, and TLAPS proofs for all instances.

## 1. Inventory

| component | files (under `src/src/`) | state | operations | here |
|---|---|---|---|---|
| buffer manager | `bufmanager/pgmpi_buf.c` | four in-use flags, two offsets, two limits, two memory areas | allocate, free, grab first/second of an area, release an area | `BufferPool`, `BufManager`; `Lending` (its users) |
| mock-ups | `collectives/*_impl.c` | none of their own; borrow buffers | 23 functions: grab, call collectives, copy, release | `Mockups` (control), `Semantics` (contents) |
| wrappers | `collectives/<collective>.c` | a static `alg_id` each | intercept, look up, switch, fall back, trace; `parse`, `set_algid` | `Interception` |
| tuned context, replacement table | `pgmpi_mpihook_tuned.c`, `tuning/pgmpi_function_replacer.c` | table collective -> profile | fill at `MPI_Init` and on override, look up, free | `Profile`; `Interception` (the answers) |
| CLI context | `pgmpi_mpihook_cli.c` | none | pass parameters to modules | `Library` |
| algorithm trace | `pgmpi_algid_store.c` | on process 0: map per collective, message size -> algorithm | save, print at `MPI_Finalize` | `AlgidTrace` (abstract), `AlgidStore`; `Interception` (what is saved) |
| profiles and their reader | `tuning/pgmpi_profile*.c` | ranges of message sizes with an algorithm | read directory, read file, find first match | `Profile` |
| hash table | `map/hashtable_int.c` | bins of chained pairs | create, set, get, keys | `HashTable`, `IntHash` |
| parameter dictionary | `util/keyvalue_store.c` | growing array of pairs | init, add, get, clean up | `Dictionary` |
| CLI parsing | `util/pgmpi_parse_cli.c`, `pgmpi_mpihook.c` | none | split arguments, module options and `PGMPI_PARAMS` | `CommandLine` |
| module registry | `collectives/collective_modules.c`, the tables in `collectives/<collective>.c` | constant tables | find algorithm by name, test an id | `Registry` |
| lifecycle | `pgmpi_mpihook.c` | the dictionary, the configuration | init, finalize, override parameters | `Library` |
| configuration | `config/*.c` | dictionary of values | defaults, read file, look up | `Library` |
| logging, `pgmpi_info` | `log/`, `pgmpi_info.c` | | output | not modelled |

**How they interact.** The application calls `MPI_X`; the wrapper of `X` asks the
context for an algorithm (tuned) or uses the one set before (CLI), runs the
mock-up, and on any error, or if none is selected, calls `PMPI_X`. The mock-up borrows
buffers from the buffer manager and calls collectives through the macro
`PGMPI(call)`. In the tuned library the macro expands to the plain call, so **the
calls of a mock-up are intercepted again**: wrappers nest, on one set of
buffers and one static `alg_id` per collective. In the CLI library
(`-DUSE_PMPI`) it expands to `PMPI_X`.

**What is hard.** Nothing in a process is concurrent, but every process decides
on its own, and MPI only works if all of them decide alike. The difficult
behaviour is: re-entrancy of wrappers and of the buffer manager; failing half
way through a mock-up; recursion that profiles can make circular; state read
again after a nested call; agreement between processes; the rounding of
sizes and offsets; offsets, counts and operand orders that only some numbers of
processes bring out; string functions with a state of their own (`strtok`); and
parameters that come from five places, of which the last or the first one counts. `PROJECT.json` lists each hazard with its line and its properties.

**What makes each component correct.** Buffers in use never overlap, lie in
allocated memory, and belong to one mock-up; no flag stays set after its mock-up;
nesting ends; processes post matching operations; the default replaces a mock-up
only for lack of memory; the trace names what ran and loses nothing; a mock-up leaves
the result of the function it replaces; the parameters given last decide; and the
application sees plain MPI.

## 2. Modules

| module | what it is |
|---|---|
| `BufferPool` | the buffer manager's variables and functions as operators on a *pool* record: `Fits` is the test of the grab functions, `Grabbed` and `Released` their effect |
| `BufManager` | the buffer manager as a state machine, with the memory really behind an area (`malloc` may fail, the int area is whole ints) and the *regions* its users have been told to use |
| `Mockups` | all 23 mock-ups as scripts of instructions `Grab`, `Call`, `Mpi`, `Release`, with the sizes the code computes (`Padded`, `RecvCount`); the switches; `HeldAfter`, the buffers a script holds at a point |
| `PlainMPI` | abstract specification: processes enter and leave calls, a call can be left when all members have entered it, and then it is |
| `Interception` | the processes: a stack of wrapper frames each, scratch memory, static `alg_id`s, the profile as far as it has been looked up, the trace |
| `Lending` | `Interception` as the user of `BufManager`: a history variable says which bytes behind its pools are handed out, and to each process belongs a buffer manager, `Manager(r)` |
| `Profile` | one process filling its table from a directory of profile files, in two passes, and the look-up as the operator `Answer` |
| `Semantics` | the contents of buffers: each mock-up as steps that move and reduce elements, MPI functions by their definition, and what the replaced function would leave (`Expected`) |
| `Registry` | prefixes, algorithm names and ids of the nine modules |
| `Dictionary` | the parameter dictionary as operators on a record: elements and allocated room |
| `CommandLine` | what is taken out of strings: arguments, options of a module, the words of `PGMPI_PARAMS` (uses `Dictionary`, `Registry`) |
| `HashTable`, `IntHash` | the table with chains, for any hash function; the hash function on 32-bit integers |
| `AlgidTrace` | abstract specification: per collective and size the algorithm of the last call, all reported at the end |
| `AlgidStore` | the trace on process 0: a hash table per collective, made when first needed |
| `Library` | one process from `MPI_Init` to `MPI_Finalize`: composes `CommandLine` and `AlgidStore` with the configuration, the contexts and overrides |
| `BufManagerProofs`, `InterceptionProofs`, `SemanticsProofs`, `EquivalenceProofs`, `AgreementProofs`, `ProfileProofs`, `DataProofs`, `LibraryProofs` | theorems and proofs |
| `MCBufManager`, `MCInterception`, `MCLending`, `MCProfile`, `MCSemantics`, `MCLibrary` | instances for TLC |

**State and code in `Interception`.** A frame is a wrapper that has not returned:
its arguments, the algorithm its switch selected, `default` (the variable
`call_default`), and `ip`, how far it is in what it executes. `BeginCall`,
`SkipCall` and `SetAlgId` are steps of the application; `CallInner` is the macro
`PGMPI`; both calls share `Intercept`, the wrapper up to and including its
switch. `TakeBuffer` and `GiveUp` are the two outcomes of a grab, `GiveBack` a
release, `Return` the end of a wrapper with its trace. `Post` and `Meet` are MPI.
All nine wrappers are the same but for their switch, so they are one set of
actions; the switches are operators of `Mockups`.

**State and code in `Lending`.** Its steps are those of `Interception`; `Record` writes down
what a successful grab tells its caller, the start and the end of the buffer, until a release clears
the flag. `Manager(r)` is `BufManager` with the pool of process `r`, with memory behind both areas and
with `lent[r]` as its regions. `BufManager` assumes something of its users:
guards (`GrabSecond` and `Release` need the first buffer) and a set of requests (whole ints). `LawfulUse` says
that the mock-ups are such users: each step of a process takes or releases a buffer as `BufManager` allows, or leaves scratch memory
alone. It begins where `Allocate` ends.

**State and code in `Profile`.** `FillNothing` and `OpenDirectory` are the two ways
`fill_lookup_table` goes; the second ends with the first pass, which counts and
allocates. `SkipEntry`, `ReadProfile` and `Die` are one round of the second
pass: an entry that is no profile, a profile that is accepted or rejected, and a file at
which the process exits or an assertion stops it (the build does not define
`NDEBUG`). `AddProfiles` is the loop that fills the table. Filling starts again when the
application overrides the parameters. A file is a record of what its lines say;
`Rejected` and `Fatal` follow the order of the reader's checks. The element of a range
that the reader skips holds any member of `Garbage`.
`Interception` takes from this module that look-ups are a function of collective and size, give the default for an empty
message or another number of processes, and name existing algorithms (`TypeOK` of
`Profile` proves the last but for uninitialised ranges).

**State and code in `Semantics`.** `call` is the call of the application, `mem` the
user's buffers and the borrowed ones of every process. A step is one
MPI call or one piece of local work (`memcpy`, `memset`, `MPI_Reduce_local`) of the mock-up;
it is a set of *moves*: elements at one place become the reduction of those at others.
`Proceed` makes the moves of the next step on all processes. This is enough because processes share no memory and a
buffer in a collective is left alone until the others have read it: any
interleaving moves the same values. That processes do agree on their steps is what `Interception`
checks. `TypeOK` says that the calls are those of the scripts in `Mockups`, and the borrowed buffers
are as long as those scripts request, so the two descriptions cannot drift apart.

**State and code in `Library`.** `MPI_Init` is `check_and_override_lib_env_params` up to the
argument loop; `ParseArgument` a pass of that loop (in `MPI_Init` and in
`pgtune_override_argv_parameter`); `StartConfiguration` the algorithm maps and the
default values; `ReadLine` a pass of the loop of the configuration reader; `FinishInit` the scratch limits and `context_init`.
`Call` is a collective as far as the trace is concerned, `SetAlgId` the modules' `set_algid`,
`Override` and `FinishOverride` the override, `MPI_Finalize` printing and freeing.
The variable `hashmap` is the dictionary of that name in `pgmpi_mpihook.c`.

**Choices of abstraction.**
- An element in `Semantics` is a word over the values that processes passed; reducing
  is concatenation, the freest associative operation that does not
  commute. A result right for words is right for every such operation. `MPI_BOR` with
  zeros, by which two mock-ups gather, concatenates with the empty word.
- A string in `CommandLine` is a sequence of separators and pieces between them. A
  configuration line is the sequence of its words.
- A program is a sequence of items that is decided as the first process reaches
  each, so all processes run the same program and any program is covered.
- Profiles are files read at `MPI_Init`. The model reveals an entry when it is
  first looked up, and keeps it; all processes read the same files.
- MPI is strict: an operation ends when all members of the communicator have
  posted it. A program that is correct under this MPI is correct under one that
  lets some members leave earlier.
- An operation is its name and the bytes a process passes. A scatter is
  identified without bytes, since the count passed on non-root processes
  is ignored by MPI.
- `ran` is a history variable: what `store` ought to be.

## 3. Runs

| run | instance | checks |
|---|---|---|
| `buffers` | limits and requests up to 9 bytes, any history | `TypeOK`, `Disjoint`, `InsideMemory` |
| `nesting` | tuned, 2 processes, one call of any collective, 1 or 2 elements of 2 bytes, every algorithm possible for every look-up, areas of 11 and 18 bytes; `Interception` with the history of `Lending` | `TypeOK`, `Exclusive`, `NestingBounded`, `NoMismatch`, `OwnBytes`; `GetsOn`: each step of a process in a call leaves less to do; `LawfulUse`: what a process does to its scratch memory is a run of `BufManager` |
| `transparent` | tuned, 2 processes, two calls, profiles with Allgather -> Bcast -> Allgather and the like | `Transparent`: `Interception` with fairness implements `PlainMPI` |
| `cli` | CLI, 2 processes, three items: choose an algorithm or call, on the world or on process 0 alone; limit of 3 bytes | `NoOrphans`, `TraceTruth`, `FallsBackOnlyOverLimit`, `LeavesAfterAllEntered`: every step is a step of `PlainMPI`; `HeldUpByMembers`: nobody waits for ever on the library's account |
| `cli_subcomm` | CLI, `Reduce_as_Reduce_scatter_Gatherv`, on the world and on process 0 alone | violates `NoMismatch` |
| `tuned_trace` | tuned, with tracing | violates `TraceTruth` |
| `tuned_scatter` | tuned, one scatter, the non-root passes a send count of its own | violates `NoMismatch` |
| `profiles` | every directory of up to three entries out of eleven, filled twice | `TypeOK`, `PassesAgree`, `LookupsTrue` |
| `profile_rejected` | a profile of Allgather and a rejected file | violates `LookupsTrue` |
| `semantics` | all 23 mock-ups, 1 to 4 processes, every root, 0 to 7 elements, 0 to 17 where chunks are dealt out | `TypeOK`, `Equivalent`, `InBounds`, `UserDataOnly` |
| `scan_order` | the scan, with an operation that does not commute | violates `Equivalent` |
| `library` | both libraries, some 500 combinations of arguments, `PGMPI_PARAMS` and files, overrides, `set_algid` and calls in any order | `TypeOK`, `DictionariesSound`, `LastArgumentCounts`, `EnvironmentHeard`, `ChainsKept`, `ArgumentsDecide`, `FileDecides`, `Traces`: `Library` implements `AlgidTrace` |

**Bounds.** *9 bytes*: two ints and one byte, so that a limit can hold no int, one
or two, with and without a remainder; two buffers of an area fit in many ways.
*Two processes*: padding, disagreement and sub-communicators all occur; the model
treats all members alike, and the proofs cover any number. *One call* in
`nesting`: inside it look-ups nest as deep as the code allows. *11 and 18 bytes*: a mock-up that the call itself selects gets all
its buffers, and the second int buffer ends at the last whole int, two bytes before the limit. A mock-up inside another may fail at its
first grab, because the outer one holds the buffer, or later: a reduce in a gather has two int
buffers when it is refused the message buffer, and a broadcast of the gathered vector gets that vector's buffer but not the chunk's.
The proofs are for all limits. *1 or 2 elements*: with padding to two processes and without. *Three items*
in `cli`: choose, call, call again with whatever the first call left behind.
*3 bytes*: the first message buffer of a padded mock-up and its chunk of one element
fit exactly; four elements do not.

*Three entries* in `profiles`: a profile, another, and one file of any other kind, in all orders.
*Width 5*: an int holds up to 15, above the ends of all ranges; calls are looked up at
each size from 0 to 9, inside ranges, at their ends, between and behind them.

*Four processes* in `semantics`: a process has others on both sides of it, and roots are first,
inner and last. *7 elements*: every remainder modulo up to four processes, twice over.
*17 elements*: chunks of four for each of four processes, and one element left for
the first of them; all smaller counts give every other way to deal chunks and a rest.
*A batch of 2* in `library` (4 in the code): the dictionary grows with the second and
the fourth key. *100 bins*, as in the code, and sizes 16, 36 and 120, which its hash
function puts into one bin; `MCLibrary` asserts that, and that on small,
negative and large keys every bin exists.

*Letters `x`*: pieces of a string that are one character long. Such a piece, or a separator, makes a word of one
character, and the loop that counts the words of `PGMPI_PARAMS` does not count a last word of one character behind a blank
(`pgmpi_mpihook.c:110-115`: the last character counts *or* a word that begins behind a blank does). Nor does it count
a last word that blanks follow. So with several words the last one is dropped in these cases, and `EnvironmentHeard` says exactly which
words are heard. If the only word of the string is concerned (`" x"`, `"--verbose "`), the library writes
past its array (`:151`); the property claims nothing then, and the run leaves such strings out (`RoomForWords`).
A `PGMPI_PARAMS` that is set but empty takes the arguments' place as well, with a dummy and no words.
*`ULONG_MAX` 2^30 - 1*: the sizes in the configuration are unsigned, so that the -32 of a file becomes a limit near the
largest number; TLC's integers have 32 bits, so the run's bound is smaller than the machine's.

The run `profiles` keeps to directories with at most one accepted profile per collective and no
rejected file beside a profile of Allgather, files without dangling references, and
messages that an int can count (`Unambiguous` and `Countable` in `Profile`; ranges start at 0 or above, and an
empty message gets the default whatever they say); `profile_rejected` drops the second of these. The size of a larger message is cut to
an int (`pgmpi_algid_store.c:135`), so that it can pass for a small one.
Two profiles of one collective for different numbers of processes are excluded because the
table has one place per collective and keeps the one `readdir` lists last
(`pgmpi_function_replacer.c:111`); a dangling reference, because the skipped
range stays uninitialised and look-ups compare with it (`pgmpi_profile_reader.c:173`).

The run `cli` leaves out one algorithm, `Reduce_as_Reduce_scatter_Gatherv`: it is the
mock-up that under these limits fails after earlier grabs have succeeded, and
`cli_subcomm` shows what follows. The same can happen to the mock-ups that take
two message buffers, under limits that hold the first but not both.
`NoMismatch` is checked where all processes pass the same counts; `tuned_scatter` is
the exception.

**Deadlock** is checked in every run of `Interception`: a run that ends has all
processes through with their program (`Finished`). That check sees only states in which nobody can move;
`HeldUpByMembers` says of each waiting process by whom it is kept, so it also sees two members of a communicator that wait for
each other while others go on. `MCBufManager.cfg` turns the
check off because a process stops after `MPI_Finalize`; in `Profile` the step `Stop`
marks the two ways a process may end. `MCSemantics` and `MCLibrary` turn it off because a
call returns and a process is over after `MPI_Finalize`.

**Fairness.** `FairSpec` assumes weak fairness of `Proceed(r)` (a process inside a
call keeps running; wrappers have no loops that wait) and of `Meet(comm)` (MPI
completes an operation all members have posted). Nothing is assumed of the
application: it may stop making calls. `Library` and `Semantics` state no fairness: what
they promise is about results.

## 4. What is proved

All proofs are for arbitrary constants, from the assumptions declared in the modules
(`MaxBytesAssumption`; `RanksAssumption`, `FlagsAssumption`, `SizesAssumption`,
`CandidatesAssumption`, `ItemsAssumption`; `CallsAssumption`; `BatchAssumption`, `MapSizeAssumption`, `WorldsAssumption`,
`HashAssumption`, `FilesAssumption`, `AtolAssumption`, `UlongAssumption`, `LiteralsAssumption`): finitely many processes, profiles and
parameters name algorithms that exist, counts are natural numbers, an element has at least
one byte, dictionaries grow by at least one element, and the hash function gives the sizes of calls a bin that exists.
The last is a fact about the C function that the proofs do not show; `MCLibrary` evaluates the function.
`AtolAssumption` says that `atol` returns a number, `UlongAssumption` that the largest unsigned long is a natural number, and `LiteralsAssumption` tells the provers that seven literals of
`Library` are strings.

- `BufManagerProofs`: `TypeCorrect`, `BuffersDisjoint`, `BuffersInsideMemory`.
  The invariant that carries them relates each region to the pool: a region's
  buffer is in use, the offset of an area is the end of the first region in the
  area's units, and a region ends within the limit in whole units.
- `SemanticsProofs`: `NeverOutOfBounds`, for any number of processes, any count and any root (`CallsAssumption` says only that a root is
  one of the processes and that the collective has the algorithm). Room for every element that any of the 23 mock-ups moves was requested,
  or passed by the user. The arithmetic is stated apart: a block fits (`BlockFits`), the displacements of a vector collective,
  which are sums over the processes before one, have a closed form (`BeforeIs`, by the least process for which they had not), the chunks dealt out
  round robin end within the vector and none is larger than process 0's (`DealtOut`), and padding makes chunks that
  fill the padded buffer exactly (`ChunksFill`). How long the scratch buffers are is read off the scripts of `Mockups` (`RoomsNone` to
  `RoomsParts`). Then for each MPI function what its arguments must have room for (`GatherWithin` and the like), and each mock-up
  from these. The invariant only has to say that buffers keep their length.
- `EquivalenceProofs`: `EquivalentUnlessOrderedScan`, `AlwaysEquivalent`, `OnlyUserData` and `TypeCorrect`. The first two: each of the 23 mock-ups computes what the function it
  stands for would, for any number of processes, any count and any root. The first theorem says it of each call that is no
  scan with an operation that does not commute (`OrderFree`); the second, of all calls of an application without such scans. The
  hypothesis is needed: run `scan_order` is the counterexample.
  `Equivalent` is about the end of a call, so it is far from inductive, and an invariant for every step of every mock-up
  would be as long as the mock-ups. Instead `Replayed` says that there is a list `h` of memories, one
  more than steps taken: it begins with the buffers the user passed, each next one is what the next step makes of the one before
  (`After`), and `mem` is the last one. This is inductive for any script, and turns a claim about a behaviour into one about a list
  (`StepsRight`): after the steps `s1`, ..., `sk` of a mock-up, the last memory is right. That is shown mock-up by mock-up, one
  lemma each, from lemmas about what one MPI function leaves at a place (`Gathered`, `Scattered`, `Reduced` and the like).
  Below these: what a step leaves at a place is what the one move that covers it brings there, or what was there before; the
  position `q * n + i` has one `q` and one `i` (the quotient and the remainder, `ByBlocks`); and a concatenation of `p` words, of which all but
  one are empty, is that one, which is why `MPI_BOR` with zeros gathers. `FlattenSeq` is a recursive function over
  the sequence; `FlattenIs` characterises it by the list of its partial results, again by the least place where two such lists would differ.

  `OnlyUserData`: whatever an operation of the user's is applied to, in the first step of a mock-up or in a later one, is a value that some
  process passed, never what was in a buffer when the buffer manager handed it out. It follows from the same invariant (`StepsClean`): the first step of a mock-up can
  only reduce the send buffers, and of the later steps only five reduce anything, always the third. What these read is
  filled by the two steps before: one block and zeros (`OwnPure`), the vector and its padding (`PaddedPure`; this is where each element behind the vector
  is found to be the first element, `PaddingWritten`), or the partial results of a scan, process 0's included (`ScanPure`).

  `TypeCorrect` is the `TypeOK` of `Semantics`. Half of it is about the mock-ups alone: each is described twice, as a script in `Mockups` (what
  `Interception` runs) and as steps in `Semantics` (what they compute), and the two make the same calls in the same
  order, with the same amounts of data (`StepsMatch`, case by case; `MatchOne` and `MatchTwo` for scripts with one and with two calls). The other half is that a
  buffer only ever holds words over what processes passed. The invariant `TInv` adds to `Replayed` that the memories are typed; a step keeps
  that because what it brings to a place is the concatenation of words, and a concatenation is a word (`FlattenTyped`, by the list of
  partial results again: each is a word if the one before is, `GrowsAll`).
- `InterceptionProofs`: `ScriptsDisciplined`. Every mock-up, for all counts, element
  sizes and numbers of processes, takes the first buffer of an area before the
  second and releases an area only while it holds the first. It takes each buffer
  once, the first one before anything else, has given all back at its end, and
  calls at least one collective. There are seven
  shapes of script; each mock-up is an instance of one. `FirstRecvCountLargest`: no process reduces more elements than process 0, for
  whose number every process asks for memory (`reduce_impl.c:210`).

  `TypeCorrect` and `ExclusiveBuffers`, for both libraries.
  `Exclusive` is not inductive. `IInv` adds that every frame runs an algorithm its
  collective has (so its script is disciplined), that every frame but the
  innermost is at a call (so what it holds is the same when it goes on), and that
  a process that has posted is at that operation. The heart of it: whoever holds the
  second buffer of an area holds the first (`SecondNeedsFirst`), so
  while one mock-up has any buffer of an area, no other gets past its first grab, and a
  release by a frame that holds the first buffer clears only its own flags.
  `NestingAlwaysBounded`: at most four wrappers, for all profiles, circular ones included. The invariant `AllLinked` adds that
  each wrapper on a stack is the one its caller called. A wrapper that waits for another has the first message
  buffer, or it is Allgather or Allreduce in a mock-up that calls only Gather, Bcast and Reduce, and these
  have it when they wait (`SuspendedHolds`, from the scripts by `CallsHold`). So of any two wrappers in a row that wait, one has the
  buffer, and by `IInv` no two on a stack have it: four cannot wait (`AtMostFour`).
  `CallsEnd` is `GetsOn`: what is left to do in a call (`LeftToDo`) becomes less whenever the stack of the process changes.
  It is a number with one digit per wrapper on the stack, the outermost first: the instructions its script has left, and one less
  while the wrapper waits for another. No script has more than seven instructions (`Disciplined`) and no stack more than
  four wrappers, so a digit below 11 and four of them are enough. A wrapper that gives up starts over, but as the
  default, which is shorter than anything left of a mock-up (`LeftGivenUp`); a nested call lowers the digit of its caller, whatever
  it adds behind it (`LoweredPush`). So a call is less than 11 to the power of 4 instructions, for any profiles, with and without memory.

  Then what ran, and why. `CliTraceTruth`, for the library with `~Tuned`. The invariant `CliInv` adds to `IInv` that
  a process is in at most one wrapper and that the static `alg_id` is still what
  its switch has read. In the tuned library both fail, and so does the property (run `tuned_trace`).
  `NoOrphansWhenRoomy`, for both libraries, and `FallsBackWhenRoomy`, for `~Tuned`, hold when the scratch areas are `Roomy`:
  a mock-up that can be selected and gets its first buffer gets all of them. The condition is about
  limits, counts and algorithms only (run `cli` meets it), and without it the properties fail
  (section 5). A first grab may still fail, for its size or because an outer mock-up holds the buffer. The invariant `RoomInv` ties what a frame has taken to the pool: the
  offset of an area is the size of the one first buffer that is held (`Fitted`), each flag that is set belongs to a frame, and each
  frame runs a request that `Roomy` speaks of, nested ones included. From these, whoever gives up is at its first
  instruction and holds nothing (`GivesUpAtFirst`), so the early return that releases nothing leaves nothing; and in the CLI
  library, where nothing else is held, that first instruction asks for more than the limit (`GivesUpOverLimit`).
  Last, the bytes. `BytesAreOwn` (`OwnBytes`): every running mock-up, at whatever depth, has as many bytes as it has asked for, they are allocated, and
  no other buffer in use shares one of them. `UseIsLawful` (`LawfulUse`): on each process the grabs and releases of all mock-ups together are a run of
  `BufManager`, which has what is proved of `BufManager` hold of the program, `InsideMemory` and `Disjoint` among it. Both hold for both libraries, any profiles, programs and limits.
  The flags are not enough for this: the offset of an area says where a second buffer starts, and a nested first
  grab would move it. The invariant `LentInv` adds to `IInv` that each buffer in use has a stretch of whole units within the limit (so
  within the memory, when the limit is not a whole number of ints), that the first of an area ends, and the second
  begins, at the offset, and that a frame's buffers are as long as its script asked for. `HandManaged` keeps it in a grab; that a second grab
  comes from the holder of the first, so that the offset is still the one this mock-up has set, is `IInv` again. Buffers that a failed
  mock-up leaves in use stay lent, and nobody else is given their bytes. That requests are whole ints is `ScriptsWhole`, mock-up by mock-up.
- `AgreementProofs`: that processes which decide alone decide alike. `DecideAlike` is `NoMismatch`, and `NobodyLeavesEarly`
  is `LeavesAfterAllEntered`, for both libraries, any number of processes, any program, any profiles and any limits, if all pass the
  same counts (`SameCounts`) and either every call is on the world (`OnWorld`) or the areas are `Roomy`. Without the
  first `tuned_scatter`, without the second `cli_subcomm` violates `NoMismatch`. The argument: the *view* of a process is its
  place in the program, stack, `alg_id`s and scratch memory. What a process does on its own (`Goes`: enter the next call, look up, grab,
  give up, release, go into a nested call, return) depends on nothing but its view and the profile, which is the same file for all (`Functional`). So the views that a process passes through are a path
  with one way on from each view, and the invariant `Paired` says that any two processes are on one path, one of them perhaps behind
  (`OnePath`; `PathLeaves` and `PathGrows` keep it when the one behind, or the one ahead, goes on). A
  process stops at an operation of MPI until all members have posted theirs, so when two wait on one path neither is behind: they
  wait at the same operation (`AgreeWaiting`). With sub-communicators the
  members of one pair may pass calls that the other skips; `Roomy` is what makes these leave nothing behind.

  From the same invariant, `WaitsForMembers` (`HeldUpByMembers`) and `SomebodyGoesOn`: the library does not deadlock. A path never goes back in the
  program, and what leaves a place between two calls goes on in it (`PathOnward`). So a member that has come as far in the program as a
  process that waits is in the same call (`WaitsForAbreast`); if all members are and all wait, they wait at the same operation.
  Of all processes that wait, one with the least step is kept by nobody who waits, which gives the second theorem. For the
  refinement, `Met` says that a process past its first operation has seen all members enter the call, because that operation
  ended only when all had posted it, and every script has one.
  Each step is then a step of `PlainMPI` or leaves it alone (`StepsSeen`).
- `ProfileProofs`: `TypeCorrect` and `ArrayFits`, for directories of any length. The invariant
  counts: `cur` is the number of profiles among the entries passed, and the array
  has as many places as the directory has profiles; so there is room
  for the next one (`RoomForNext`). `LookupsAlwaysTrue`: if every directory is `Unambiguous` (see section 3) and every message asked about `Countable` (its bytes fit an `int`), look-ups give
  what the files say, in any order of `readdir` and after any overrides. Its invariant `LInv`: whatever is in the array comes
  from a file (`FromFiles`), every accepted file read so far is in it (`FilesIn`), and the table
  has the one profile about a collective (`TableFor`).

- `DataProofs`: lemmas about the operators. What an addition, or
  `ht_set`, makes look-ups say of this key and of every other, and that it keeps the structure in order (`AddedSays`,
  `SetSays`, `GetSays`). What `strtok` takes out of a string (`FirstToken`), and from this what loops that call it again
  and again do: `WordList` is the words of a string written down without recursion, by the place where each begins, and
  `WordsByToken` says that `strtok` takes them one by one; so the recursive function in `EnvArgs` gives these words
  (`EnvArgsAre`), and `compute_argc`, the other loop, counts them, or all but the last when the end of the string does not count (`ArgcCounts`). The nested `strtok` of module options ends on every
  string (`TokenShort`), and what it makes of options that begin with one of the form `<name>:<value>` is `LeadingOption`.
  How recursion is reasoned about: the provers have no induction over data, so a claim about all strings is proved by a shortest
  counterexample (`LeastNat`), and that a recursive function is defined at all, by building it
  from functions on strings up to each length (`ResultsAgree`, `SomeResults`, `AllResults`).
- `LibraryProofs`: every property of the run `library`, for any environments, files, calls and overrides, any batch and
  number of bins, any hash function. `DictionariesAlwaysSound`, `LastArgumentAlwaysCounts`, `EnvironmentAlwaysHeard`,
  `ChainsAlwaysKept`, `LibraryTypes` and the refinement
  `TraceImplemented` (`Spec => Trace!Spec`) are about any arguments. There is an invariant for each: `DictionariesInv` adds the dictionary's type;
  `ArgumentsInv` adds that the loop is somewhere in the arguments, and `Counts` says of the arguments
  parsed so far what `LastArgumentCounts` says in the end, so that one more argument is one step
  (`CountsOneMore`); `EnvironmentInv` says where the arguments came from, and `HeardWordsTaken` what they then are:
  no word is lost of a string whose end counts, and the last one of any other (`LastWordLost`), so as many words are counted as are heard
  (`HeardCounted`);
  `TypeInv` adds that values of the configuration are among `Texts`, which can be read as numbers;
  `TraceInv` adds that only process 0 has tables and that they are in order
  (`TablesInv`), from which the lines printed are exactly what the tables say (`AllLinesSay`),
  so that saving an algorithm is `Keep`.
  `FileAlwaysDecides` and `ArgumentsAlwaysDecide` have the hypothesis `PlainWorlds`. These two properties read the
  arguments off their text (`Given`, `Text`, `Meant`) to compare it with what the library makes of it by tokens, and the text can be read in
  this simple way only when an argument of `--module` has at most one more "=", behind its key, and a collective's options begin with one of the form
  `<name>:<value>`. For other text the two theorems say nothing; what the library does with it is in the model all the same, and in the theorems
  above. `LookedUp` joins the two readings: a dictionary for which `Counts` holds has a
  parameter if and only if some argument gives it one, with the text of the last that does. `PlainInv`
  carries the hypothesis to the arguments being parsed, and `ConfigurationInv` says of the configuration after `n` lines what
  `FileDecides` says in the end, so that a line more is one step (`ReadOneMore`).

The conditions `SameCounts`, `OnWorld`, `Roomy`, `Unambiguous`, `Countable` and `PlainWorlds` are no assumptions of the model: they are hypotheses of the theorems. That states satisfy
them is checked too: `MCInterception` asserts (`CliRoomy`, `CircleRoomy`) that the instances of `cli` and `transparent`
are roomy, with the set of requests spelled out, and `MCLibrary` (`WorldsArePlain`) that all arguments of `library` are plain.

Only model-checked:
- `Transparent`: its safety half is `LeavesAfterAllEntered`, which is proved. That every call is left in the end is liveness, outside
  TLAPS's reach, but what it rests on is proved, for any number of processes: while a process waits in a call that all members
  have begun, MPI can complete the operation or a member is at work in that call (`WaitsForMembers`), and whoever goes on has less left to do
  (`CallsEnd`). What remains is the use of fairness: that a process which can go on does.

## 5. What the violations show

1. **Leaked buffers.** A mock-up that fails a later grab returns without releasing
   the earlier ones (`reduce_impl.c:215-217`; the same pattern in the mock-ups
   with two message buffers). From then on, mock-ups of that area fall back to the
   default even when they need less than the limit, against `README.md:126-128` of
   the repository. The flags clear only when another mock-up releases that area, which
   none can, because none gets its first buffer.
2. **Disagreement after a leak.** If that call was on a smaller communicator, only
   its members have the flags set, and in the next call on a larger one they run
   the default while the others run the mock-up; `reduce_impl.c:210-211` intends
   all processes to obtain the same status.
3. **Trace of nested calls.** The trace uses the static `alg_id` after the mock-up
   has run (`bcast.c:162-165`); a nested call of the same collective has changed it.
4. **Scatter.** The look-up uses `sendcount` (`scatter.c:114`), which means nothing
   on processes other than the root.
5. **Profiles.** A rejected file leaves a zeroed profile, which is Allgather's by its cid and
   hides a valid one (`pgmpi_profile_reader.c:242`).
6. **Scan.** `MPI_Scan_as_Exscan_Reduce_local` passes its own contribution as the first operand
   of `MPI_Reduce_local` and the result of the lower ranks as the second (`scan_impl.c:52`). For an operation that
   does not commute this is the wrong order, against the "semantically equivalent implementations" of `README.md:8-10`
   of the repository. With operations that commute the mock-up is right (`semantics`, and for any instance `AlwaysEquivalent`). No other mock-up depends on commutativity.

## 6. Not modelled

- Logging (`log/`, a vendored library) and `pgmpi_info`: output only.
- The optional lane and circulant algorithms: they need external libraries.
- Operations that nothing calls: removing from, printing and listing a dictionary, `ht_free`,
  `set_max_size_msg_buf` and `set_max_size_int_buf` (which change a limit without allocating anew).
- Parsing of single lines of profiles; files whose lines do not parse.
- `MPI_Init_thread`: the library does not intercept it, and nothing is initialised.
- Calls of the application with `MPI_IN_PLACE`, or with send and receive types that differ. The mock-ups take a
  send buffer for memory and one count for both sides; such calls are outside what they support.
- Calls whose counts differ where MPI looks at them only at the root: the mock-ups of a gather use `recvcount` on every
  process (`gather_impl.c:69-75`), those of a scatter `sendcount` (`scatter_impl.c:55`, `:97`); the models have one count for a call.
- A directory of profiles that changes between the two passes over it: `PassesAgree` is about one that stays as it is.
- Several threads: the wrappers keep static state without locks.
- What user-supplied data types do; operations are words, the freest there are.

What the hazards in `PROJECT.json` without a property have in common is that nothing in the code prevents
them: they are limits of the library that a run could only confirm.
