----------------------------- MODULE ElMetaData -----------------------------
(***************************************************************************)
(* The MetaData and MetaDataInteger operations of el_storage              *)
(* (src/testdata/ref/sc5000/firmware-1.4.0/p.db.sql, lines 548-744).      *)
(*                                                                         *)
(* Each table holds at most one row per (track id, type): a REPLACE or an  *)
(* INSERT OR REPLACE on the same key replaces the row.  A row's text or    *)
(* value may be NULL.  The per-slot setters write one row; the bulk        *)
(* setters write the whole canonical set of rows in one statement, so the  *)
(* write is one atomic step.  The readers filter out NULL rows.            *)
(*                                                                         *)
(* A table is modelled as a function from (id, type) to Absent (no row),   *)
(* Null (a row whose text is NULL) or a value.  Type tags are the          *)
(* enumerators of metadata_str_type / metadata_int_type.                   *)
(***************************************************************************)
EXTENDS Integers, FiniteSets

CONSTANTS
    Ids,          \* track ids
    TEXTS,        \* strings a caller stores; "1" is the hardware literal
    INTS,         \* integers a caller stores; 1 is the hardware literal
    SingleTypes,  \* string types the per-slot setter is exercised on
    SingleInts,   \* integer types the per-slot setter is exercised on
    Null,         \* SQL NULL / an empty optional
    Absent        \* no row for this (id, type)

ASSUME NullAssumption ==
    /\ Null \notin TEXTS /\ Null \notin INTS /\ Null # Absent
    /\ Absent \notin TEXTS /\ Absent \notin INTS

\* The string types the bulk setter takes from its caller, and the slots it
\* fills on its own: NULL in unknown_8, unknown_9 and unknown_17, the
\* string "1" in unknown_15 and unknown_16 (lines 633-652).
NamedStr == {"title", "artist", "album", "genre", "comment", "publisher",
             "composer", "duration_mm_ss", "ever_played", "file_extension"}
FixedStr == [unknown_8 |-> Null, unknown_9 |-> Null, unknown_15 |-> "1",
             unknown_16 |-> "1", unknown_17 |-> Null]
StrTypes == NamedStr \cup DOMAIN FixedStr

\* The same for the integer bulk setter (lines 726-743).
NamedInt == {"musical_key", "rating", "last_played_ts", "last_modified_ts",
             "last_accessed_ts", "last_play_hash"}
FixedInt == [unknown_6 |-> Null, unknown_7 |-> Null, unknown_8 |-> Null,
             unknown_9 |-> Null, unknown_11 |-> 1, unknown_12 |-> 1]
IntTypes == NamedInt \cup DOMAIN FixedInt

ASSUME TypesAssumption ==
    /\ SingleTypes \subseteq StrTypes
    /\ SingleInts \subseteq IntTypes
    /\ "1" \in TEXTS
    /\ 1 \in INTS

\* What a bulk setter's caller passes: a value or nullopt per named type.
\* The inputs are all-null, title and artist set (scenario S4), or all set.
BulkInputs(named, vals) ==
    {[t \in named |-> IF t \in s THEN a ELSE Null] :
        s \in {{}, {"title", "artist", "musical_key", "rating"} \cap named,
               named},
        a \in vals}

\* The row set one bulk statement writes for a track.
Canonical(x, fixed) ==
    [t \in DOMAIN x \cup DOMAIN fixed |->
        IF t \in DOMAIN x THEN x[t] ELSE fixed[t]]

\* Mutant of NonNullRows: the IS NOT NULL filter is left out.
NonNullRowsUnfiltered(row) ==
    {<<t, IF row[t] = Absent THEN Null ELSE row[t]>> :
        t \in {u \in DOMAIN row : row[u] # Absent}}

\* The rows of one track a SELECT ... AND text IS NOT NULL returns.
NonNullRows(row) == {<<t, row[t]>> : t \in {u \in DOMAIN row : row[u] \notin {Null, Absent}}}

\* A per-type SELECT ... IS NOT NULL: the value, or nullopt.
Slot(row, t) == IF row[t] \in {Null, Absent} THEN Null ELSE row[t]

-----------------------------------------------------------------------------
VARIABLES
    meta,       \* MetaData: id -> type -> text, Null or Absent
    metaInt,    \* MetaDataInteger: id -> type -> value, Null or Absent
    res,        \* the reader called last and what it returned
    bulkIn,     \* history: per id, the caller's input to the last string
                \* bulk write, or Absent once a per-slot write followed it
    bulkIntIn   \* history: the same for the integer bulk write

vars == <<meta, metaInt, res, bulkIn, bulkIntIn>>

\* A library whose tracks have no metadata yet.
Init ==
    /\ meta = [i \in Ids |-> [t \in StrTypes |-> Absent]]
    /\ metaInt = [i \in Ids |-> [t \in IntTypes |-> Absent]]
    /\ res = Null
    /\ bulkIn = [i \in Ids |-> Absent]
    /\ bulkIntIn = [i \in Ids |-> Absent]

\* get_all_meta_data: every non-NULL string row of the track.
get_all_meta_data(id) ==
    /\ res' = [op |-> "all", val |-> NonNullRows(meta[id])]
    /\ UNCHANGED <<meta, metaInt, bulkIn, bulkIntIn>>

\* get_meta_data: the text of one type, nullopt when absent or NULL.
get_meta_data(id, t) ==
    /\ res' = [op |-> "one", val |-> Slot(meta[id], t)]
    /\ UNCHANGED <<meta, metaInt, bulkIn, bulkIntIn>>

\* set_meta_data(id, type, optional content) and its string overload: one
\* REPLACE INTO MetaData, binding NULL for an empty optional.
set_meta_data(id, t, c) ==
    /\ meta' = [meta EXCEPT ![id][t] = c]
    /\ bulkIn' = [bulkIn EXCEPT ![id] = Absent]
    /\ UNCHANGED <<metaInt, res, bulkIntIn>>

\* set_meta_data(id, title, ..., file_extension): one INSERT OR REPLACE of
\* the fifteen canonical rows.
set_meta_data_bulk(id, x) ==
    /\ meta' = [meta EXCEPT ![id] = Canonical(x, FixedStr)]
    /\ bulkIn' = [bulkIn EXCEPT ![id] = x]
    /\ UNCHANGED <<metaInt, res, bulkIntIn>>

get_all_meta_data_integer(id) ==
    /\ res' = [op |-> "all_int", val |-> NonNullRows(metaInt[id])]
    /\ UNCHANGED <<meta, metaInt, bulkIn, bulkIntIn>>

get_meta_data_integer(id, t) ==
    /\ res' = [op |-> "one_int", val |-> Slot(metaInt[id], t)]
    /\ UNCHANGED <<meta, metaInt, bulkIn, bulkIntIn>>

set_meta_data_integer(id, t, c) ==
    /\ metaInt' = [metaInt EXCEPT ![id][t] = c]
    /\ bulkIntIn' = [bulkIntIn EXCEPT ![id] = Absent]
    /\ UNCHANGED <<meta, res, bulkIn>>

\* set_meta_data_integer(id, musical_key, ..., last_play_hash): one INSERT
\* OR REPLACE of the twelve canonical rows, in the hardware's order.
set_meta_data_integer_bulk(id, x) ==
    /\ metaInt' = [metaInt EXCEPT ![id] = Canonical(x, FixedInt)]
    /\ bulkIntIn' = [bulkIntIn EXCEPT ![id] = x]
    /\ UNCHANGED <<meta, res, bulkIn>>

Next ==
    \E id \in Ids :
        \/ get_all_meta_data(id)
        \/ \E t \in StrTypes : get_meta_data(id, t)
        \/ \E t \in SingleTypes, c \in TEXTS \cup {Null} : set_meta_data(id, t, c)
        \/ \E x \in BulkInputs(NamedStr, TEXTS) : set_meta_data_bulk(id, x)
        \/ get_all_meta_data_integer(id)
        \/ \E t \in IntTypes : get_meta_data_integer(id, t)
        \/ \E t \in SingleInts, c \in INTS \cup {Null} :
              set_meta_data_integer(id, t, c)
        \/ \E x \in BulkInputs(NamedInt, INTS) :
              set_meta_data_integer_bulk(id, x)

Spec == Init /\ [][Next]_vars

-----------------------------------------------------------------------------
TypeOK ==
    /\ meta \in [Ids -> [StrTypes -> TEXTS \cup {Null, Absent}]]
    /\ metaInt \in [Ids -> [IntTypes -> INTS \cup {Null, Absent}]]
    /\ bulkIn \in [Ids -> [NamedStr -> TEXTS \cup {Null}] \cup {Absent}]
    /\ bulkIntIn \in [Ids -> [NamedInt -> INTS \cup {Null}] \cup {Absent}]

(***************************************************************************)
(* What spec 4.E says a track's rows hold after the canonical write: the   *)
(* caller's values (or NULL), the literal "1" (1) in unknown_15 and        *)
(* unknown_16 (unknown_11 and unknown_12), explicit NULL in the other      *)
(* unknown slots; and what a reader returns of a row set: the non-NULL     *)
(* rows.                                                                   *)
(***************************************************************************)
StrAfterBulk(x) ==
    [t \in StrTypes |-> IF t \in NamedStr THEN x[t]
                        ELSE IF t \in {"unknown_15", "unknown_16"} THEN "1"
                        ELSE Null]

IntAfterBulk(x) ==
    [t \in IntTypes |-> IF t \in NamedInt THEN x[t]
                        ELSE IF t \in {"unknown_11", "unknown_12"} THEN 1
                        ELSE Null]

Readable(row) == {<<t, row[t]>> : t \in {u \in DOMAIN row : row[u] # Null}}

(***************************************************************************)
(* MetaDataRoundTrip: until a per-slot setter writes to the track again,   *)
(* both readers of each table return what the last canonical bulk write   *)
(* was given: get_all_meta_data(_integer) lists the caller's non-null      *)
(* values and the two literal rows and none of the NULL slots, and         *)
(* get_meta_data(_integer) returns the slot's value or nullopt.  It spans *)
(* the writer's hand-bound fifteen (twelve) rows and the readers' IS NOT   *)
(* NULL filters, across any number of rewrites of other tracks.            *)
(***************************************************************************)
MetaDataRoundTrip ==
    [][\A id \in Ids :
         /\ bulkIn[id] # Absent =>
               /\ get_all_meta_data(id) =>
                     res'.val = Readable(StrAfterBulk(bulkIn[id]))
               /\ \A t \in StrTypes :
                     get_meta_data(id, t) => res'.val = StrAfterBulk(bulkIn[id])[t]
         /\ bulkIntIn[id] # Absent =>
               /\ get_all_meta_data_integer(id) =>
                     res'.val = Readable(IntAfterBulk(bulkIntIn[id]))
               /\ \A t \in IntTypes :
                     get_meta_data_integer(id, t) =>
                        res'.val = IntAfterBulk(bulkIntIn[id])[t]]_vars

(***************************************************************************)
(* CanonicalCount: after the bulk write, reading all string metadata of    *)
(* the track yields exactly 15 rows (spec 8.5 and scenario S4).            *)
(***************************************************************************)
CanonicalCount ==
    [][\A id \in Ids :
         get_all_meta_data(id) /\ bulkIn[id] # Absent =>
            Cardinality(res'.val) = 15]_vars
=============================================================================
