------------------------------ MODULE AlgidStore ------------------------------
(***************************************************************************)
(* The trace of algorithms (src/src/pgmpi_algid_store.c): process 0 keeps  *)
(* a hash table per collective, made when the collective is first called,  *)
(* from message sizes to alg ids.                                          *)
(***************************************************************************)
EXTENDS HashTable, Registry

CONSTANT INITIAL_MAP_SIZE

ASSUME MapSizeAssumption == INITIAL_MAP_SIZE \in Nat \ {0}

VARIABLES my_rank,  \* -1 until the maps are initialised
          maps,     \* the tables made so far, by collective
          report    \* the lines printed

storeVars == << my_rank, maps, report >>

NoMaps == [cid \in {} |-> << >>]

StoreInit == my_rank = -1 /\ maps = NoMaps /\ report = {}

(* pgmpi_init_algid_maps on process rank.                                  *)
InitMaps(rank) == my_rank' = rank /\ maps' = NoMaps /\ UNCHANGED report

(* pgmpi_save_algid_for_msg_size.  ht_set runs on the existing table or on *)
(* a new one; a call that ended in the default counts as algorithm 0.      *)
MapOf(cid) ==
  IF cid \in DOMAIN maps THEN maps[cid] ELSE ht_create(INITIAL_MAP_SIZE)

Save(cid, size, alg, called_default) ==
  LET saved == IF called_default THEN 0 ELSE alg
      map   == ht_set(MapOf(cid), INITIAL_MAP_SIZE, size, saved)
  IN  /\ maps' = IF my_rank # 0 THEN maps
                 ELSE [c \in DOMAIN maps \cup {cid} |-> IF c = cid THEN map ELSE maps[c]]
      /\ UNCHANGED << my_rank, report >>

(* pgmpi_print_algids: a line for each key, with the name of the algorithm *)
(* that ht_get finds for it.                                               *)
Line(cid, size, alg) == [coll |-> cid, size |-> size, alg |-> alg]
LinesOf(cid) ==
  {Line(cid, size, ht_get(maps[cid], INITIAL_MAP_SIZE, size)) :
     size \in {k \in ht_get_keys(maps[cid]) : ht_found(maps[cid], INITIAL_MAP_SIZE, k)}}
Lines == UNION {LinesOf(cid) : cid \in DOMAIN maps}

(* Printing is followed at once by pgmpi_free_algid_maps.                  *)
PrintAndFree ==
  /\ report' = IF my_rank # 0 THEN report ELSE Lines
  /\ maps' = IF my_rank # 0 THEN maps ELSE NoMaps
  /\ UNCHANGED my_rank

-------------------------------------------------------------------------------
(* The trace as AlgidTrace sees it.                                        *)
Trace == INSTANCE AlgidTrace WITH kept <- Lines, reported <- report
Traces == Trace!Spec

(* Every table is in order: see Chained in HashTable.                      *)
ChainsKept ==
  \A cid \in DOMAIN maps :
    /\ DOMAIN maps[cid] = Bins(INITIAL_MAP_SIZE)
    /\ Chained(maps[cid], INITIAL_MAP_SIZE)
================================================================================
