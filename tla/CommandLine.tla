----------------------------- MODULE CommandLine -----------------------------
(***************************************************************************)
(* How parameters are taken out of strings: src/src/util/pgmpi_parse_cli.c *)
(* and the splitting of PGMPI_PARAMS in src/src/pgmpi_mpihook.c.           *)
(*                                                                         *)
(* A string is a sequence of separators and of pieces of one or more other *)
(* characters.  No piece stands next to another.                           *)
(***************************************************************************)
EXTENDS Dictionary, Registry, FiniteSets

CONSTANT Letters   \* the pieces that are one character long

Separators == {" ", "=", ":", ","}
Characters == Separators \cup Letters

(* The first of some places.                                               *)
Least(T) == CHOOSE i \in T : \A j \in T : i <= j

(* strtok: the first token of s, empty when there is none, and what a next *)
(* call with NULL goes on from.                                            *)
strtok(s, delim) ==
  LET begins == {i \in DOMAIN s : s[i] # delim}
      begin  == Least(begins)
      ends   == {i \in begin .. Len(s) : s[i] = delim} \cup {Len(s) + 1}
      end    == Least(ends)
  IN  IF begins = {} THEN [token |-> << >>, rest |-> << >>]
      ELSE [token |-> SubSeq(s, begin, end - 1), rest |-> SubSeq(s, end + 1, Len(s))]

(* get_key_val_from_env splits at the first "=", unless it comes first.    *)
Equals(arg)  == {i \in DOMAIN arg : arg[i] = "="}
SplitAt(arg) == Least(Equals(arg))
IsPair(arg)  == Equals(arg) # {} /\ SplitAt(arg) > 1
KeyOf(arg)   == SubSeq(arg, 1, SplitAt(arg) - 1)
ValOf(arg)   == SubSeq(arg, SplitAt(arg) + 1, Len(arg))

(* What parse_cli_arguments adds to the dictionary for one argument: at    *)
(* most one key with its value.                                            *)
Additions(arg) ==
  LET first  == strtok(ValOf(arg), "=")
      second == strtok(first.rest, "=")
  IN  IF ~IsPair(arg) THEN {}
      ELSE IF KeyOf(arg) = << "--module" >>
      THEN {a \in {<< first.token, second.token >>} : a[1] # << >> /\ a[2] # << >>}
      ELSE IF KeyOf(arg) = << "--config" >> THEN {<< << "config_file" >>, ValOf(arg) >>}
      ELSE IF KeyOf(arg) = << "--ppath" >> THEN {<< << "profile_path" >>, ValOf(arg) >>}
      ELSE {}

(* parse_module_parameters: a pass of its loop takes a pair up to a ",".   *)
(* The strtok that splits the pair at ":" makes the one that splits the    *)
(* options forget where it was; the next pass goes on behind the value of  *)
(* the pair, inside it.                                                    *)
Pass(was) ==
  LET pair == strtok(was.rest, ",")
      key  == strtok(pair.token, ":")
      val  == strtok(key.rest, ":")
  IN  [rest |-> val.rest,
       dict |-> IF key.token # << >> /\ val.token # << >>
                THEN Added(was.dict, key.token, val.token) ELSE was.dict]

Strings == Seq(STRING)
Parses  == [rest : Strings,
            dict : [data : Seq([key : Strings, value : Strings]), size : Nat]]

WithOptions(dict, options) ==
  LET end[was \in Parses] == IF was.rest = << >> THEN was.dict ELSE end[Pass(was)]
  IN  end[[rest |-> options, dict |-> dict]]

(* pgmpi_parse_module_params_get_cid. *)
AlgIdFrom(cid, options) ==
  LET dict == WithOptions(Fresh, options)
      name == Value(dict, << "alg" >>)
  IN  IF Len(name) = 1 THEN AlgIdOf(cid, name[1]) ELSE 0

-------------------------------------------------------------------------------
(* PGMPI_PARAMS.                                                           *)

(* A slip compute_argc could have: counting blanks in front of words only. *)
compute_argc_blanks(s) ==
  Cardinality({i \in DOMAIN s :
    s[i] # " " /\ i > 1 /\ s[i - 1] = " " /\ \E j \in 1 .. i - 1 : s[j] # " "})

(* The last character counts as well when it is in a word, but not when a  *)
(* blank is in front of it.                                                *)
EndCounts(s) ==
  /\ s # << >> /\ s[Len(s)] # " "
  /\ \/ s[Len(s)] \notin Characters
     \/ Len(s) = 1
     \/ s[Len(s) - 1] # " "

(* compute_argc: a word counts when a blank and another word precede it,   *)
(* and so does the end of the string, unless it is a word of one character *)
(* that begins behind a blank.                                             *)
compute_argc(s) ==
  compute_argc_blanks(s) + IF EndCounts(s) THEN 1 ELSE 0

(* The arguments that check_and_override_lib_env_params makes: a dummy and *)
(* as many words as were counted.                                          *)
EnvArgs(s) ==
  LET words[t \in Strings] ==
        LET first == strtok(t, " ")
        IN  IF first.token = << >> THEN << >>
            ELSE << first.token >> \o words[first.rest]
  IN  [i \in 1 .. 1 + compute_argc(s) |-> IF i = 1 THEN << "dummy" >> ELSE words[s][i - 1]]
================================================================================
