--------------------------- MODULE SchemaValidate ---------------------------
(***************************************************************************)
(* The lockstep schema validator of libdjinterop                           *)
(* (src/unnamed/part_001, schema_validate_utils.hpp).                      *)
(*                                                                         *)
(* The constructors master_list, table_info, index_list and index_info run *)
(* a catalog query and insert every row into a std::set ordered by one key *)
(* (item name, column name, index name, column rank).  A schema definition *)
(* then walks its reference list and the set in lockstep: for every        *)
(* expected entry it calls validate(iter, end, expected...), which throws  *)
(* database_inconsistency at the first difference, and advances iter; at   *)
(* the end validate_no_more(iter, end) throws when entries are left over.  *)
(*                                                                         *)
(* The std::set is modelled by its in-order contents: a sequence of        *)
(* entries with strictly increasing keys, and an iterator by a position in *)
(* it (Len + 1 is end()).  An entry is a key and a tuple of attributes;    *)
(* the strings of db_name and table_name, which are the same for every     *)
(* entry of one list, are left out.  Names are abstracted to members of    *)
(* KEYS, ordered as std::string's operator< orders them.                   *)
(***************************************************************************)
EXTENDS Integers, Sequences, FiniteSetsExt

CONSTANTS
    KEYS,     \* item names, column names, index names or column ranks
    VALS,     \* the values an attribute (type, nullability, ...) takes
    NoKey     \* the absent key in an error report

ASSUME KeysAssumption == KEYS \subseteq Nat
ASSUME NoKeyAssumption == NoKey \notin KEYS

(***************************************************************************)
(* The four catalog lists.  Attributes are positional; "checked" lists the *)
(* attribute positions that validate() compares, in the order it compares *)
(* them, and "fieldErr" the error each comparison raises.  "keyErr" is the *)
(* error raised when the entry under the iterator has another key.         *)
(*   master_list_entry : <<table_name>>                                    *)
(*   table_info_entry  : <<col_id, col_type, nullable, default_value,      *)
(*                         part_of_pk>>                                    *)
(*   index_list_entry  : <<index_id, unique, creation_method,              *)
(*                         partial_index>>                                 *)
(*   index_info_entry  : <<col_table_id, col_name>>  (key: col_index_id)   *)
(***************************************************************************)
Kinds == {"master_list", "table_info", "index_list", "index_info"}

NAttrs == [master_list |-> 1, table_info |-> 5, index_list |-> 4,
           index_info |-> 2]

Checked == [master_list |-> <<>>,
            table_info  |-> <<2, 3, 4, 5>>,
            index_list  |-> <<2, 3, 4>>,
            index_info  |-> <<2>>]

\* The set of entries of one kind: a key and its attributes.
Entry(kind) == [key : KEYS, attrs : [1 .. NAttrs[kind] -> VALS]]

\* A reference entry: the key and the expected value of each checked field.
RefEntry(kind) == [key : KEYS, exp : [1 .. Len(Checked[kind]) -> VALS]]

\* Sequences in strictly increasing key order: the iteration order of the
\* std::set that operator< (on the key alone) induces.  An entry comes
\* before every entry of a greater key.
Sorted(s) == \A j, k \in 1 .. Len(s) : j < k => s[j].key < s[k].key

\* Every content a catalog std::set can have: the constructors insert each
\* row of the catalog query, whose keys SQLite keeps unique.
CatalogSets(kind) ==
    {s \in UNION {[1 .. n -> Entry(kind)] : n \in 0 .. Cardinality(KEYS)} :
        Sorted(s)}

\* Every reference list a schema definition can hold, in canonical order.
RefLists(kind) ==
    {s \in UNION {[1 .. n -> RefEntry(kind)] : n \in 0 .. Cardinality(KEYS)} :
        Sorted(s)}

(***************************************************************************)
(* Outcomes of one validate() call.  An error names the key found under    *)
(* the iterator and the key expected (NoKey when the message names none).  *)
(***************************************************************************)
OK == [tag |-> "ok", found |-> NoKey, expected |-> NoKey]

Err(tag, found, expected) == [tag |-> tag, found |-> found, expected |-> expected]

FieldTags == {"wrong_type", "wrong_nullability", "wrong_default", "wrong_pk",
              "wrong_uniqueness", "wrong_creation_method", "wrong_partiality",
              "wrong_name"}

ErrorTags == {"missing", "wrong_order", "wrong_rank", "more_entries"}
                 \cup FieldTags

\* The first of the checked fields (in the order validate() compares them)
\* whose observed value differs from the expected one, raising tags[j].
FieldCheck(kind, e, x, tags) ==
    LET bad == {j \in 1 .. Len(Checked[kind]) :
                    e.attrs[Checked[kind][j]] # x.exp[j]}
    IN  IF bad = {} THEN OK ELSE Err(tags[Min(bad)], e.key, x.key)

\* validate(master_list::const_iterator ...): missing, wrong order.
ValidateMaster(obs, p, x) ==
    IF p > Len(obs) THEN Err("missing", NoKey, x.key)
    ELSE IF obs[p].key # x.key THEN Err("wrong_order", obs[p].key, x.key)
    ELSE OK

\* Mutant of ValidateColumn: the type and nullability checks raise each
\* other's error.
ValidateColumnSwapped(obs, p, x) ==
    IF p > Len(obs) THEN Err("missing", NoKey, x.key)
    ELSE IF obs[p].key # x.key THEN Err("wrong_order", obs[p].key, x.key)
    ELSE FieldCheck("table_info", obs[p], x,
             <<"wrong_nullability", "wrong_type", "wrong_default", "wrong_pk">>)

\* Mutant of ValidateColumn: the column's attributes are never compared.
ValidateColumnKeyOnly(obs, p, x) ==
    IF p > Len(obs) THEN Err("missing", NoKey, x.key)
    ELSE IF obs[p].key # x.key THEN Err("wrong_order", obs[p].key, x.key)
    ELSE OK

\* validate(table_info::const_iterator ...): missing, wrong order, then
\* type, nullability, default value and PK membership, in that order.
ValidateColumn(obs, p, x) ==
    IF p > Len(obs) THEN Err("missing", NoKey, x.key)
    ELSE IF obs[p].key # x.key THEN Err("wrong_order", obs[p].key, x.key)
    ELSE FieldCheck("table_info", obs[p], x,
             <<"wrong_type", "wrong_nullability", "wrong_default", "wrong_pk">>)

\* validate(index_list::const_iterator ...): missing, wrong order, then
\* uniqueness, creation method and partiality.
ValidateIndex(obs, p, x) ==
    IF p > Len(obs) THEN Err("missing", NoKey, x.key)
    ELSE IF obs[p].key # x.key THEN Err("wrong_order", obs[p].key, x.key)
    ELSE FieldCheck("index_list", obs[p], x,
             <<"wrong_uniqueness", "wrong_creation_method", "wrong_partiality">>)

\* validate(index_info::const_iterator ...): missing, wrong rank (the key),
\* then the column name ("in wrong order" in the message).
ValidateIndexCol(obs, p, x) ==
    IF p > Len(obs) THEN Err("missing", NoKey, x.key)
    ELSE IF obs[p].key # x.key THEN Err("wrong_rank", obs[p].key, x.key)
    ELSE FieldCheck("index_info", obs[p], x, <<"wrong_name">>)

\* Overload resolution on the iterator type.
Validate(kind, obs, p, x) ==
    CASE kind = "master_list" -> ValidateMaster(obs, p, x)
      [] kind = "table_info"  -> ValidateColumn(obs, p, x)
      [] kind = "index_list"  -> ValidateIndex(obs, p, x)
      [] kind = "index_info"  -> ValidateIndexCol(obs, p, x)

\* Mutant of ValidateNoMore: the check for left-over entries is dropped.
ValidateNoMoreNoCheck(obs, p) == OK

\* validate_no_more(iter, end, ...).
ValidateNoMore(obs, p) ==
    IF p # Len(obs) + 1 THEN Err("more_entries", obs[p].key, NoKey) ELSE OK

-----------------------------------------------------------------------------
(***************************************************************************)
(* The walk a schema definition performs over one list.                    *)
(***************************************************************************)
VARIABLES
    kind,    \* which catalog list is being validated
    obs,     \* the in-order contents of the std::set read from the catalog
    ref,     \* the reference list of the schema definition
    p,       \* the iterator into obs
    i,       \* the position in ref
    result   \* "running", or the outcome of the walk

vars == <<kind, obs, ref, p, i, result>>

Running == [tag |-> "running", found |-> NoKey, expected |-> NoKey]

Init ==
    /\ kind \in Kinds
    /\ obs \in CatalogSets(kind)
    /\ ref \in RefLists(kind)
    /\ p = 1
    /\ i = 1
    /\ result = Running

\* One validate() call that does not throw, followed by ++iter.
StepOk ==
    /\ result = Running
    /\ i <= Len(ref)
    /\ Validate(kind, obs, p, ref[i]) = OK
    /\ p' = p + 1
    /\ i' = i + 1
    /\ UNCHANGED <<kind, obs, ref, result>>

\* One validate() call that throws database_inconsistency.
StepFail ==
    /\ result = Running
    /\ i <= Len(ref)
    /\ Validate(kind, obs, p, ref[i]) # OK
    /\ result' = Validate(kind, obs, p, ref[i])
    /\ UNCHANGED <<kind, obs, ref, p, i>>

\* validate_no_more() once the reference list is exhausted.
Finish ==
    /\ result = Running
    /\ i > Len(ref)
    /\ result' = ValidateNoMore(obs, p)
    /\ UNCHANGED <<kind, obs, ref, p, i>>

Next == StepOk \/ StepFail \/ Finish

Spec == Init /\ [][Next]_vars

-----------------------------------------------------------------------------
TypeOK ==
    /\ kind \in Kinds
    /\ obs \in Seq(Entry(kind))
    /\ ref \in Seq(RefEntry(kind))
    /\ p \in 1 .. Len(obs) + 1
    /\ i \in 1 .. Len(ref) + 1
    /\ result \in {Running, OK}
                    \cup [tag : ErrorTags, found : KEYS \cup {NoKey},
                          expected : KEYS \cup {NoKey}]

\* The reference definition of an exact match, on keys and checked fields.
ObsKeys == {obs[j].key : j \in 1 .. Len(obs)}
RefKeys == {ref[j].key : j \in 1 .. Len(ref)}

ObsAt(k) == CHOOSE j \in 1 .. Len(obs) : obs[j].key = k
RefAt(k) == CHOOSE j \in 1 .. Len(ref) : ref[j].key = k

FieldDiffers(k, j) == obs[ObsAt(k)].attrs[Checked[kind][j]] # ref[RefAt(k)].exp[j]

\* The keys at which the catalog and the reference disagree.
DiffKeys ==
    (ObsKeys \ RefKeys) \cup (RefKeys \ ObsKeys)
        \cup {k \in ObsKeys \cap RefKeys :
                \E j \in 1 .. Len(Checked[kind]) : FieldDiffers(k, j)}

Done == result # Running

\* The error spec 4.C names for a difference in each checked field, in the
\* order of Checked: type, nullability, default, primary key of a column;
\* uniqueness, creation method, partiality of an index; name of an index
\* column.
FieldError ==
    [master_list |-> <<>>,
     table_info  |-> <<"wrong_type", "wrong_nullability", "wrong_default", "wrong_pk">>,
     index_list  |-> <<"wrong_uniqueness", "wrong_creation_method", "wrong_partiality">>,
     index_info  |-> <<"wrong_name">>]

(***************************************************************************)
(* ValidateExact: the walk over a catalog list accepts exactly the         *)
(* catalogs equal to the reference on every key and every checked field,   *)
(* and when it throws, the object its message names is the first           *)
(* difference in canonical order; a field error is the error of the first *)
(* differing field in the order validate() compares fields.  This is what *)
(* validate() overloads and validate_no_more together promise (spec 4.C,   *)
(* 8.2): a missed comparison, a missed end check or a stray ++iter break   *)
(* it.                                                                     *)
(***************************************************************************)
ValidateExact ==
    Done =>
        /\ (result = OK) <=> (DiffKeys = {})
        /\ result # OK =>
              Min({result.found, result.expected} \ {NoKey}) = Min(DiffKeys)
        /\ result.tag \in FieldTags =>
              \E j \in 1 .. Len(Checked[kind]) :
                 /\ FieldDiffers(result.expected, j)
                 /\ \A jj \in 1 .. j - 1 : ~FieldDiffers(result.expected, jj)
                 /\ result.tag = FieldError[kind][j]

(***************************************************************************)
(* The inductive invariant behind soundness: the iterator and the         *)
(* reference position move together, everything passed so far matched on  *)
(* key and checked fields, and acceptance happens only at both ends.       *)
(***************************************************************************)
Matched(j) ==
    /\ obs[j].key = ref[j].key
    /\ \A f \in 1 .. Len(Checked[kind]) :
          obs[j].attrs[Checked[kind][f]] = ref[j].exp[f]

IInv ==
    /\ TypeOK
    /\ p = i
    /\ \A j \in 1 .. i - 1 : Matched(j)
    /\ result = OK => i = Len(ref) + 1 /\ p = Len(obs) + 1

\* ValidateSound: a catalog the walk accepts has the reference's entries,
\* position by position, on every key and every checked field.
ValidateSound ==
    result = OK =>
        /\ Len(obs) = Len(ref)
        /\ \A j \in 1 .. Len(ref) : Matched(j)
=============================================================================
