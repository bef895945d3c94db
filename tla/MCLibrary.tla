------------------------------ MODULE MCLibrary ------------------------------
(* Instances of Library for TLC. *)
EXTENDS Library, IntHash, TLC

Scripts == INSTANCE Mockups

(* The registered algorithms are those that the wrappers have cases for.   *)
Names == << "Allgather", "Allreduce", "Alltoall", "Bcast", "Gather", "Reduce",
            "Reduce_scatter_block", "Scan", "Scatter" >>
ASSUME \A cid \in Cids : 0 .. NbChoices(cid) - 1 = Scripts!AlgIds(Names[cid])

(* Three sizes of messages that the hash function puts into one bin.       *)
Sizes == {16, 36, 120}
BinsOfSizes == [size \in Sizes |-> IntHashOf(INITIAL_MAP_SIZE, size)]
ASSUME \A s, t \in Sizes : BinsOfSizes[s] = BinsOfSizes[t]

(* No key is put into a bin the table does not have, negative ones, for    *)
(* which % can be negative, and large ones included.                       *)
Probes == -300..300 \cup {2 ^ i + j : i \in 9..30, j \in {-1, 0, 1}}
ASSUME \A key \in Probes :
         IntHashOf(INITIAL_MAP_SIZE, key) \in Bins(INITIAL_MAP_SIZE)

MCHash(size, key) == BinsOfSizes[key]

Module(key, text)  == << "--module", "=", key, "=" >> \o text
Alg(name)          == << "alg", ":", name >>

(* Arguments for two collectives, with further options behind and in front *)
(* of the algorithm, an unknown algorithm and no algorithm; two files by   *)
(* two options; a path; and words that are for the program.                *)
Args ==
  {Module("bcast", Alg("bcast_as_allgatherv")),
   Module("bcast", Alg("bcast_as_scatter_allgather") \o << ",", "seg", ":", "64" >>),
   Module("bcast", << "seg", ":", "64", "," >> \o Alg("bcast_as_allgatherv")),
   Module("bcast", Alg("no_such_algorithm")),
   Module("scan", Alg("scan_as_exscan_reducelocal")),
   Module("config_file", << "other.conf" >>),
   << "--config", "=", "some.conf" >>,
   << "--ppath", "=", "profiles" >>,
   << "bcast", "=" >> \o Alg("bcast_as_allgatherv"),
   << "--module", "=", "bcast" >>,
   << "--verbose" >>}

Blank == << " " >>
Program == << "program" >>

(* The program's arguments, or PGMPI_PARAMS with at most two arguments,    *)
(* two of them a single character, and blanks in front of, between and     *)
(* behind them.                                                            *)
ArgLists == {<< Program >>} \cup {<< Program, a >> : a \in Args}
              \cup {<< Program, a, b >> : a \in Args, b \in Args}
Few == {Module("bcast", Alg("bcast_as_allgatherv")), << "--config", "=", "some.conf" >>,
        << "--verbose" >>, << "x" >>, << "=" >>}
Params == {<< >>, Blank} \cup
  {before \o a \o behind : before \in {<< >>, Blank}, a \in Few,
                           behind \in {<< >>, Blank}} \cup
  {before \o a \o between \o b \o behind :
     before \in {<< >>, Blank}, a \in Few, b \in Few,
     between \in {Blank, Blank \o Blank}, behind \in {<< >>, Blank}}

Process(context, rank, args) ==
  [context |-> context, rank |-> rank, argv |-> args,
   params_set |-> FALSE, params |-> NULL, config |-> NULL, profiles |-> NULL,
   calls |-> {}, ids |-> {}, overrides |-> {}]

(* All sorts of parameters, from the command line and by PGMPI_PARAMS.     *)
(* Strings with which the library writes past its array are left out.      *)
Starting ==
  {[Process("CLI", 0, args) EXCEPT !.config = conf] :
     args \in ArgLists, conf \in {NULL, << "some.conf" >>}}
  \cup {[Process("CLI", 0, << Program >>) EXCEPT !.params_set = TRUE, !.params = params] :
          params \in {s \in Params : RoomForWords(s)}}
  \cup {[Process("TUNED", 0, args) EXCEPT !.profiles = path] :
          args \in {<< Program >>, << Program, << "--ppath", "=", "profiles" >> >>,
                    << Program, Module("bcast", Alg("bcast_as_allgatherv")),
                       Module("profile_path", << "more" >>) >>},
          path \in {NULL, << "env_profiles" >>}}

(* Applications that override parameters again and again, and set ids.     *)
Overriding ==
  {[Process(context, 0, << Program, a >>) EXCEPT
      !.calls = [cid : {4, 8}, size : {16}], !.ids = {0, 1, 2, 5, -1},
      !.overrides = {<< >>, << Module("scan", Alg("default")) >>} \cup
        {<< Module("bcast", Alg("bcast_as_scatter_allgather")),
            << "--config", "=", "other.conf" >>, << "--ppath", "=", "more" >>, a >>}] :
     a \in Args, context \in {"CLI", "TUNED"}}

(* Applications that make calls of three sizes that one bin holds.         *)
Calling ==
  {[Process(context, rank, << Program >>) EXCEPT
      !.calls = [cid : {4}, size : Sizes] \cup {[cid |-> 8, size |-> 16]},
      !.ids = {0, 1}] :
     context \in {"CLI", "TUNED"}, rank \in {0, 1}}

MCWorlds == Starting \cup Overriding \cup Calling

some_conf ==
  << << << "#", "size_int_buffer_bytes" >>, << "1" >> >>,
     << MSG, << "64" >> >>, << >>, << << "unfinished" >> >>,
     << << "verbosity" >>, << "2" >> >>,
     << MSG, << "128" >>, << "bytes" >> >> >>
other_conf == << << INT, << "-32" >> >>, << MSG, << "none" >> >> >>

MCFiles == << "some.conf" >> :> some_conf @@ << "other.conf" >> :> other_conf

Numbers == "100000000" :> 100000000 @@ "200000" :> 200000 @@ "64" :> 64
             @@ "128" :> 128 @@ "-32" :> -32 @@ "2" :> 2 @@ "1" :> 1
MCatol(s) == IF Len(s) = 1 /\ s[1] \in DOMAIN Numbers THEN Numbers[s[1]] ELSE 0

(* The arguments are such that Given and Text can read them.               *)
ASSUME WorldsArePlain == PlainWorlds
================================================================================
