---------------------------- MODULE ElMetaDataProofs ----------------------------
(***************************************************************************)
(* Proofs about the MetaData and MetaDataInteger operations: the tables    *)
(* keep their types, and after a canonical bulk write both readers return *)
(* what spec 4.E says it writes, for every set of ids, texts and integers. *)
(***************************************************************************)
EXTENDS ElMetaData, TLAPS

\* A bulk input fills every named type with a caller value or NULL.
LEMMA BulkInputType ==
    ASSUME NEW named, NEW vals, NEW x \in BulkInputs(named, vals)
    PROVE  x \in [named -> vals \cup {Null}]
  BY DEF BulkInputs

\* The canonical row set of a bulk write covers every type of its table.
LEMMA CanonicalType ==
    ASSUME NEW named, NEW fixed, NEW V,
           NEW x \in [named -> V], \A t \in DOMAIN fixed : fixed[t] \in V
    PROVE  Canonical(x, fixed) \in [named \cup DOMAIN fixed -> V]
  BY DEF Canonical

LEMMA FixedTypes ==
    /\ \A t \in DOMAIN FixedStr : FixedStr[t] \in TEXTS \cup {Null}
    /\ \A t \in DOMAIN FixedInt : FixedInt[t] \in INTS \cup {Null}
  BY TypesAssumption DEF FixedStr, FixedInt

LEMMA TypeInit == Init => TypeOK
  BY DEF Init, TypeOK

LEMMA TypeStep == TypeOK /\ [Next]_vars => TypeOK'
  <1>. SUFFICES ASSUME TypeOK, [Next]_vars PROVE TypeOK'  OBVIOUS
  <1>1. ASSUME NEW id \in Ids, NEW x \in BulkInputs(NamedStr, TEXTS),
               set_meta_data_bulk(id, x)
        PROVE  TypeOK'
    <2>1. x \in [NamedStr -> TEXTS \cup {Null}]  BY BulkInputType
    <2>2. Canonical(x, FixedStr) \in [StrTypes -> TEXTS \cup {Null}]
      BY <2>1, FixedTypes, CanonicalType DEF StrTypes
    <2>. QED  BY <1>1, <2>1, <2>2 DEF set_meta_data_bulk, TypeOK
  <1>2. ASSUME NEW id \in Ids, NEW x \in BulkInputs(NamedInt, INTS),
               set_meta_data_integer_bulk(id, x)
        PROVE  TypeOK'
    <2>1. x \in [NamedInt -> INTS \cup {Null}]  BY BulkInputType
    <2>2. Canonical(x, FixedInt) \in [IntTypes -> INTS \cup {Null}]
      BY <2>1, FixedTypes, CanonicalType DEF IntTypes
    <2>. QED  BY <1>2, <2>1, <2>2 DEF set_meta_data_integer_bulk, TypeOK
  <1>3. ASSUME NEW id \in Ids, NEW t \in SingleTypes, NEW c \in TEXTS \cup {Null},
               set_meta_data(id, t, c)
        PROVE  TypeOK'
    BY <1>3, TypesAssumption DEF set_meta_data, TypeOK
  <1>4. ASSUME NEW id \in Ids, NEW t \in SingleInts, NEW c \in INTS \cup {Null},
               set_meta_data_integer(id, t, c)
        PROVE  TypeOK'
    BY <1>4, TypesAssumption DEF set_meta_data_integer, TypeOK
  <1>5. ASSUME NEW id \in Ids,
               \/ get_all_meta_data(id)
               \/ \E t \in StrTypes : get_meta_data(id, t)
               \/ get_all_meta_data_integer(id)
               \/ \E t \in IntTypes : get_meta_data_integer(id, t)
        PROVE  TypeOK'
    BY <1>5 DEF get_all_meta_data, get_meta_data, get_all_meta_data_integer,
                get_meta_data_integer, TypeOK
  <1>6. CASE UNCHANGED vars  BY <1>6 DEF vars, TypeOK
  <1>. QED  BY <1>1, <1>2, <1>3, <1>4, <1>5, <1>6 DEF Next

\* The MetaData tables and the bulk-write history keep their types.
THEOREM TypeCorrect == Spec => []TypeOK
  BY TypeInit, TypeStep, PTL DEF Spec

(***************************************************************************)
(* The canonical row sets are the ones spec 4.E describes.                 *)
(***************************************************************************)
LEMMA CanonicalStr ==
    ASSUME NEW x \in [NamedStr -> TEXTS \cup {Null}]
    PROVE  Canonical(x, FixedStr) = StrAfterBulk(x)
  BY DEF Canonical, FixedStr, StrAfterBulk, StrTypes, NamedStr

LEMMA CanonicalInt ==
    ASSUME NEW x \in [NamedInt -> INTS \cup {Null}]
    PROVE  Canonical(x, FixedInt) = IntAfterBulk(x)
  BY DEF Canonical, FixedInt, IntAfterBulk, IntTypes, NamedInt

LEMMA AfterBulkTypes ==
    /\ \A x \in [NamedStr -> TEXTS \cup {Null}] :
          StrAfterBulk(x) \in [StrTypes -> TEXTS \cup {Null}]
    /\ \A x \in [NamedInt -> INTS \cup {Null}] :
          IntAfterBulk(x) \in [IntTypes -> INTS \cup {Null}]
  BY TypesAssumption DEF StrAfterBulk, IntAfterBulk

\* On a row set with no missing row, both readers return the non-NULL rows.
LEMMA ReadsOfFullRow ==
    ASSUME NEW T, NEW V, Absent \notin V, NEW row \in [T -> V \cup {Null}]
    PROVE  /\ NonNullRows(row) = Readable(row)
           /\ \A t \in T : Slot(row, t) = row[t]
  <1>1. \A u \in T : row[u] # Absent  BY NullAssumption
  <1>2. NonNullRows(row) = Readable(row)  BY <1>1 DEF NonNullRows, Readable
  <1>3. \A t \in T : Slot(row, t) = row[t]  BY <1>1 DEF Slot
  <1>. QED  BY <1>2, <1>3

(***************************************************************************)
(* BulkInv: while the last write to a track's table was a bulk write, the  *)
(* track's rows are the canonical set of its input.                        *)
(***************************************************************************)
BulkInv ==
    /\ TypeOK
    /\ \A id \in Ids :
          /\ bulkIn[id] # Absent => meta[id] = Canonical(bulkIn[id], FixedStr)
          /\ bulkIntIn[id] # Absent => metaInt[id] = Canonical(bulkIntIn[id], FixedInt)

LEMMA BulkInit == Init => BulkInv
  BY TypeInit DEF Init, BulkInv

LEMMA BulkStep == BulkInv /\ [Next]_vars => BulkInv'
  <1>. SUFFICES ASSUME BulkInv, [Next]_vars PROVE BulkInv'  OBVIOUS
  <1>0. TypeOK /\ TypeOK'  BY TypeStep DEF BulkInv
  <1>1. ASSUME NEW id \in Ids, NEW x \in BulkInputs(NamedStr, TEXTS),
               set_meta_data_bulk(id, x)
        PROVE  BulkInv'
    BY <1>0, <1>1 DEF set_meta_data_bulk, BulkInv, TypeOK
  <1>2. ASSUME NEW id \in Ids, NEW x \in BulkInputs(NamedInt, INTS),
               set_meta_data_integer_bulk(id, x)
        PROVE  BulkInv'
    BY <1>0, <1>2 DEF set_meta_data_integer_bulk, BulkInv, TypeOK
  <1>3. ASSUME NEW id \in Ids, NEW t \in SingleTypes, NEW c \in TEXTS \cup {Null},
               set_meta_data(id, t, c)
        PROVE  BulkInv'
    BY <1>0, <1>3 DEF set_meta_data, BulkInv, TypeOK
  <1>4. ASSUME NEW id \in Ids, NEW t \in SingleInts, NEW c \in INTS \cup {Null},
               set_meta_data_integer(id, t, c)
        PROVE  BulkInv'
    BY <1>0, <1>4 DEF set_meta_data_integer, BulkInv, TypeOK
  <1>5. ASSUME NEW id \in Ids,
               \/ get_all_meta_data(id)
               \/ \E t \in StrTypes : get_meta_data(id, t)
               \/ get_all_meta_data_integer(id)
               \/ \E t \in IntTypes : get_meta_data_integer(id, t)
        PROVE  BulkInv'
    BY <1>0, <1>5 DEF get_all_meta_data, get_meta_data, get_all_meta_data_integer,
                      get_meta_data_integer, BulkInv
  <1>6. CASE UNCHANGED vars  BY <1>0, <1>6 DEF vars, BulkInv
  <1>. QED  BY <1>1, <1>2, <1>3, <1>4, <1>5, <1>6 DEF Next

\* Under BulkInv, the string readers of a track last written in bulk.
LEMMA StrReads ==
    ASSUME BulkInv, NEW id \in Ids, bulkIn[id] # Absent
    PROVE  /\ NonNullRows(meta[id]) = Readable(StrAfterBulk(bulkIn[id]))
           /\ \A t \in StrTypes : Slot(meta[id], t) = StrAfterBulk(bulkIn[id])[t]
  <1>1. bulkIn[id] \in [NamedStr -> TEXTS \cup {Null}]  BY DEF BulkInv, TypeOK
  <1>2. meta[id] = StrAfterBulk(bulkIn[id])  BY <1>1, CanonicalStr DEF BulkInv
  <1>3. StrAfterBulk(bulkIn[id]) \in [StrTypes -> TEXTS \cup {Null}]
    BY <1>1, AfterBulkTypes
  <1>4. Absent \notin TEXTS  BY NullAssumption
  <1>. QED  BY <1>2, <1>3, <1>4, ReadsOfFullRow

LEMMA IntReads ==
    ASSUME BulkInv, NEW id \in Ids, bulkIntIn[id] # Absent
    PROVE  /\ NonNullRows(metaInt[id]) = Readable(IntAfterBulk(bulkIntIn[id]))
           /\ \A t \in IntTypes : Slot(metaInt[id], t) = IntAfterBulk(bulkIntIn[id])[t]
  <1>1. bulkIntIn[id] \in [NamedInt -> INTS \cup {Null}]  BY DEF BulkInv, TypeOK
  <1>2. metaInt[id] = IntAfterBulk(bulkIntIn[id])  BY <1>1, CanonicalInt DEF BulkInv
  <1>3. IntAfterBulk(bulkIntIn[id]) \in [IntTypes -> INTS \cup {Null}]
    BY <1>1, AfterBulkTypes
  <1>4. Absent \notin INTS  BY NullAssumption
  <1>. QED  BY <1>2, <1>3, <1>4, ReadsOfFullRow

(***************************************************************************)
(* MetaDataRoundTrip for every set of ids, texts and integers: until a     *)
(* per-slot write, both readers of each table return the caller's values, *)
(* the literal rows and no NULL slot of the last canonical bulk write.     *)
(***************************************************************************)
THEOREM MetaDataRoundTripHolds == Spec => MetaDataRoundTrip
  <1>1. BulkInv =>
          [\A id \in Ids :
             /\ bulkIn[id] # Absent =>
                   /\ get_all_meta_data(id) =>
                         res'.val = Readable(StrAfterBulk(bulkIn[id]))
                   /\ \A t \in StrTypes :
                         get_meta_data(id, t) => res'.val = StrAfterBulk(bulkIn[id])[t]
             /\ bulkIntIn[id] # Absent =>
                   /\ get_all_meta_data_integer(id) =>
                         res'.val = Readable(IntAfterBulk(bulkIntIn[id]))
                   /\ \A t \in IntTypes :
                         get_meta_data_integer(id, t) =>
                            res'.val = IntAfterBulk(bulkIntIn[id])[t]]_vars
    <2>. SUFFICES ASSUME BulkInv, NEW id \in Ids
                  PROVE  /\ bulkIn[id] # Absent =>
                              /\ get_all_meta_data(id) =>
                                    res'.val = Readable(StrAfterBulk(bulkIn[id]))
                              /\ \A t \in StrTypes :
                                    get_meta_data(id, t) =>
                                       res'.val = StrAfterBulk(bulkIn[id])[t]
                         /\ bulkIntIn[id] # Absent =>
                              /\ get_all_meta_data_integer(id) =>
                                    res'.val = Readable(IntAfterBulk(bulkIntIn[id]))
                              /\ \A t \in IntTypes :
                                    get_meta_data_integer(id, t) =>
                                       res'.val = IntAfterBulk(bulkIntIn[id])[t]
      OBVIOUS
    <2>1. bulkIn[id] # Absent =>
             /\ get_all_meta_data(id) => res'.val = Readable(StrAfterBulk(bulkIn[id]))
             /\ \A t \in StrTypes :
                   get_meta_data(id, t) => res'.val = StrAfterBulk(bulkIn[id])[t]
      BY StrReads DEF get_all_meta_data, get_meta_data
    <2>2. bulkIntIn[id] # Absent =>
             /\ get_all_meta_data_integer(id) =>
                   res'.val = Readable(IntAfterBulk(bulkIntIn[id]))
             /\ \A t \in IntTypes :
                   get_meta_data_integer(id, t) => res'.val = IntAfterBulk(bulkIntIn[id])[t]
      BY IntReads DEF get_all_meta_data_integer, get_meta_data_integer
    <2>. QED  BY <2>1, <2>2
  <1>2. Spec => []BulkInv  BY BulkInit, BulkStep, PTL DEF Spec
  <1>. QED  BY <1>1, <1>2, PTL DEF MetaDataRoundTrip
=============================================================================
