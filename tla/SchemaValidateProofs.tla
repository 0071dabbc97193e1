------------------------ MODULE SchemaValidateProofs ------------------------
(***************************************************************************)
(* Proofs about the lockstep schema validator: the walk is type correct,   *)
(* and a catalog list it accepts equals the reference list position by     *)
(* position on every key and checked field, for every set of keys and      *)
(* attribute values.                                                       *)
(***************************************************************************)
EXTENDS SchemaValidate, TLAPS

\* The constants' assumptions and the shape of every list kind.
LEMMA KindFacts ==
    /\ \A k \in Kinds : Len(Checked[k]) \in 0 .. 4
    /\ \A k \in Kinds : Checked[k] \in Seq(1 .. NAttrs[k])
    /\ \A k \in Kinds : NAttrs[k] \in Nat
  BY DEF Kinds, Checked, NAttrs

\* A nonempty set of field positions has a first position (Min of
\* FiniteSetsExt), which is how FieldCheck picks the field it reports.
LEMMA FirstField ==
    ASSUME NEW S \in SUBSET (1 .. 4), S # {}
    PROVE  /\ Min(S) \in S
           /\ \A y \in S : Min(S) <= y
  <1>1. \E m \in S : \A y \in S : m <= y
    <2>0. 1 \in S \/ 2 \in S \/ 3 \in S \/ 4 \in S
      <3>1. PICK z \in S : TRUE  OBVIOUS
      <3>. QED  BY <3>1
    <2>1. CASE 1 \in S  BY <2>1
    <2>2. CASE 1 \notin S /\ 2 \in S  BY <2>2
    <2>3. CASE 1 \notin S /\ 2 \notin S /\ 3 \in S  BY <2>3
    <2>4. CASE 1 \notin S /\ 2 \notin S /\ 3 \notin S /\ 4 \in S  BY <2>4
    <2>. QED  BY <2>0, <2>1, <2>2, <2>3, <2>4
  <1>. QED  BY <1>1 DEF Min

\* The outcome of FieldCheck is OK or an error raising one of the tags.
LEMMA FieldCheckType ==
    ASSUME NEW k \in Kinds, NEW e \in Entry(k), NEW x \in RefEntry(k),
           NEW tags \in [1 .. Len(Checked[k]) -> FieldTags]
    PROVE  FieldCheck(k, e, x, tags)
              \in {OK} \cup [tag : FieldTags, found : KEYS, expected : KEYS]
  <1>. DEFINE bad == {j \in 1 .. Len(Checked[k]) :
                        e.attrs[Checked[k][j]] # x.exp[j]}
  <1>0. Len(Checked[k]) \in 0 .. 4  BY KindFacts
  <1>1. bad \in SUBSET (1 .. 4)  BY <1>0
  <1>2. CASE bad = {}  BY <1>2 DEF FieldCheck
  <1>3. CASE bad # {}
    <2>1. Min(bad) \in 1 .. Len(Checked[k])  BY <1>1, <1>3, FirstField
    <2>. QED  BY <2>1 DEF FieldCheck, Err, Entry, RefEntry
  <1>. QED  BY <1>2, <1>3

ErrSet == [tag : ErrorTags, found : KEYS \cup {NoKey},
           expected : KEYS \cup {NoKey}]

\* Every validate() overload returns OK or a database_inconsistency.
LEMMA ValidateType ==
    ASSUME NEW k \in Kinds, NEW s \in Seq(Entry(k)), NEW q \in 1 .. Len(s) + 1,
           NEW x \in RefEntry(k)
    PROVE  Validate(k, s, q, x) \in {OK} \cup ErrSet
  <1>1. [tag : FieldTags, found : KEYS, expected : KEYS] \subseteq ErrSet
    BY DEF ErrSet, ErrorTags
  <1>0. x.key \in KEYS  BY DEF RefEntry
  <1>2. CASE q > Len(s)
    <2>1. Err("missing", NoKey, x.key) \in ErrSet
      BY <1>0 DEF Err, ErrSet, ErrorTags
    <2>. QED  BY <1>2, <2>1 DEF Validate, ValidateMaster, ValidateColumn,
                 ValidateIndex, ValidateIndexCol, Kinds
  <1>4. CASE q <= Len(s) /\ s[q].key # x.key
    <2>0. s[q] \in Entry(k)  BY <1>4
    <2>1. s[q].key \in KEYS  BY <2>0 DEF Entry
    <2>2. Err("wrong_order", s[q].key, x.key) \in ErrSet
      BY <1>0, <2>1 DEF Err, ErrSet, ErrorTags
    <2>3. Err("wrong_rank", s[q].key, x.key) \in ErrSet
      BY <1>0, <2>1 DEF Err, ErrSet, ErrorTags
    <2>. QED  BY <1>4, <2>2, <2>3 DEF Validate, ValidateMaster, ValidateColumn,
                 ValidateIndex, ValidateIndexCol, Kinds
  <1>3. CASE q <= Len(s) /\ s[q].key = x.key
    <2>1. s[q] \in Entry(k)  BY <1>3
    <2>2. CASE k = "master_list"
      BY <2>2, <1>3 DEF Validate, ValidateMaster
    <2>3. CASE k = "table_info"
      <3>1. <<"wrong_type", "wrong_nullability", "wrong_default", "wrong_pk">>
               \in [1 .. Len(Checked[k]) -> FieldTags]
        BY <2>3 DEF Checked, FieldTags
      <3>. QED  BY <2>1, <2>3, <3>1, <1>3, <1>1, FieldCheckType
                DEF Validate, ValidateColumn, Kinds
    <2>4. CASE k = "index_list"
      <3>1. <<"wrong_uniqueness", "wrong_creation_method", "wrong_partiality">>
               \in [1 .. Len(Checked[k]) -> FieldTags]
        BY <2>4 DEF Checked, FieldTags
      <3>. QED  BY <2>1, <2>4, <3>1, <1>3, <1>1, FieldCheckType
                DEF Validate, ValidateIndex, Kinds
    <2>5. CASE k = "index_info"
      <3>1. <<"wrong_name">> \in [1 .. Len(Checked[k]) -> FieldTags]
        BY <2>5 DEF Checked, FieldTags
      <3>. QED  BY <2>1, <2>5, <3>1, <1>3, <1>1, FieldCheckType
                DEF Validate, ValidateIndexCol, Kinds
    <2>. QED  BY <2>2, <2>3, <2>4, <2>5 DEF Kinds
  <1>. QED  BY <1>2, <1>3, <1>4

\* A validate() call that does not throw has found the expected key under
\* the iterator, with every checked field equal to the expected value.
LEMMA ValidateOk ==
    ASSUME NEW k \in Kinds, NEW s \in Seq(Entry(k)), NEW q \in 1 .. Len(s) + 1,
           NEW x \in RefEntry(k),
           Validate(k, s, q, x) = OK
    PROVE  /\ q <= Len(s)
           /\ s[q].key = x.key
           /\ \A f \in 1 .. Len(Checked[k]) :
                 s[q].attrs[Checked[k][f]] = x.exp[f]
  <1>0. x.key \in KEYS  BY DEF RefEntry
  <1>1. q <= Len(s)
    BY <1>0, NoKeyAssumption DEF Validate, ValidateMaster, ValidateColumn,
       ValidateIndex, ValidateIndexCol, Kinds, OK, Err
  <1>2. s[q] \in Entry(k)  BY <1>1
  <1>3. s[q].key = x.key
    BY <1>1, <1>2, NoKeyAssumption DEF Validate, ValidateMaster,
       ValidateColumn, ValidateIndex, ValidateIndexCol, Kinds, OK, Err, Entry
  \* FieldCheck returns OK only when no checked field differs: an error
  \* carries the found key, which is not NoKey.
  <1>4. ASSUME NEW tags, FieldCheck(k, s[q], x, tags) = OK
        PROVE  \A f \in 1 .. Len(Checked[k]) :
                  s[q].attrs[Checked[k][f]] = x.exp[f]
    BY <1>2, <1>4, NoKeyAssumption DEF FieldCheck, OK, Err, Entry
  <1>5. \A f \in 1 .. Len(Checked[k]) : s[q].attrs[Checked[k][f]] = x.exp[f]
    <2>1. CASE k = "master_list"
      BY <2>1 DEF Checked
    <2>2. CASE k = "table_info"
      BY <1>1, <1>3, <1>4, <2>2 DEF Validate, ValidateColumn
    <2>3. CASE k = "index_list"
      BY <1>1, <1>3, <1>4, <2>3 DEF Validate, ValidateIndex
    <2>4. CASE k = "index_info"
      BY <1>1, <1>3, <1>4, <2>4 DEF Validate, ValidateIndexCol
    <2>. QED  BY <2>1, <2>2, <2>3, <2>4 DEF Kinds
  <1>. QED  BY <1>1, <1>3, <1>5

-----------------------------------------------------------------------------
\* The initial states and the steps of the walk keep TypeOK.
LEMMA TypeInit == Init => TypeOK
  <1>. SUFFICES ASSUME Init PROVE TypeOK  OBVIOUS
  <1>1. obs \in Seq(Entry(kind))
    <2>1. PICK n \in 0 .. Cardinality(KEYS) : obs \in [1 .. n -> Entry(kind)]
      BY DEF Init, CatalogSets
    <2>. QED  BY <2>1
  <1>2. ref \in Seq(RefEntry(kind))
    <2>1. PICK n \in 0 .. Cardinality(KEYS) : ref \in [1 .. n -> RefEntry(kind)]
      BY DEF Init, RefLists
    <2>. QED  BY <2>1
  <1>. QED  BY <1>1, <1>2 DEF Init, TypeOK, Running

LEMMA TypeStep == TypeOK /\ [Next]_vars => TypeOK'
  <1>. SUFFICES ASSUME TypeOK, [Next]_vars PROVE TypeOK'  OBVIOUS
  <1>1. CASE StepOk
    <2>1. i <= Len(ref) /\ Validate(kind, obs, p, ref[i]) = OK  BY <1>1 DEF StepOk
    <2>2. ref[i] \in RefEntry(kind)  BY <2>1 DEF TypeOK
    <2>3. p <= Len(obs)  BY <2>1, <2>2, ValidateOk DEF TypeOK
    <2>. QED  BY <1>1, <2>1, <2>3 DEF StepOk, TypeOK
  <1>2. CASE StepFail
    <2>1. i <= Len(ref)  BY <1>2 DEF StepFail
    <2>2. ref[i] \in RefEntry(kind)  BY <2>1 DEF TypeOK
    <2>3. Validate(kind, obs, p, ref[i]) \in {OK} \cup ErrSet
      BY <2>2, ValidateType DEF TypeOK
    <2>. QED  BY <1>2, <2>3 DEF StepFail, TypeOK, ErrSet
  <1>3. CASE Finish
    <2>1. CASE p = Len(obs) + 1
      BY <1>3, <2>1 DEF Finish, ValidateNoMore, TypeOK
    <2>2. CASE p # Len(obs) + 1
      <3>1. obs[p] \in Entry(kind)  BY <2>2 DEF TypeOK
      <3>2. obs[p].key \in KEYS  BY <3>1 DEF Entry
      <3>. QED  BY <1>3, <2>2, <3>2 DEF Finish, ValidateNoMore, TypeOK, Err,
                   ErrorTags
    <2>. QED  BY <2>1, <2>2
  <1>4. CASE UNCHANGED vars  BY <1>4 DEF vars, TypeOK
  <1>. QED  BY <1>1, <1>2, <1>3, <1>4 DEF Next

\* Type correctness of the validation walk.
THEOREM TypeCorrect == Spec => []TypeOK
  BY TypeInit, TypeStep, PTL DEF Spec


(***************************************************************************)
(* Soundness of the validator: a catalog list the walk accepts matches the *)
(* reference list position by position.  ValidateSound alone is not        *)
(* inductive (it says nothing while the walk runs); IInv adds that the     *)
(* iterator and the reference position advance together and that every   *)
(* entry passed so far matched.                                            *)
(***************************************************************************)
LEMMA IInvInit == Init => IInv
  <1>. SUFFICES ASSUME Init PROVE IInv  OBVIOUS
  <1>1. TypeOK  BY TypeInit
  <1>. QED  BY <1>1 DEF Init, IInv, Running, OK

LEMMA IInvStep == IInv /\ [Next]_vars => IInv'
  <1>. SUFFICES ASSUME IInv, [Next]_vars PROVE IInv'  OBVIOUS
  <1>0. TypeOK /\ TypeOK'  BY TypeStep DEF IInv
  <1>1. CASE StepOk
    <2>1. i <= Len(ref) /\ Validate(kind, obs, p, ref[i]) = OK
      BY <1>1 DEF StepOk
    <2>2. ref[i] \in RefEntry(kind)  BY <2>1, <1>0 DEF TypeOK
    <2>3. /\ p <= Len(obs)
          /\ obs[p].key = ref[i].key
          /\ \A f \in 1 .. Len(Checked[kind]) :
                obs[p].attrs[Checked[kind][f]] = ref[i].exp[f]
      BY <2>1, <2>2, <1>0, ValidateOk DEF TypeOK
    <2>4. Matched(i)  BY <2>3 DEF IInv, Matched
    <2>5. \A j \in 1 .. i' - 1 : Matched(j)'
      <3>1. i' = i + 1 /\ obs' = obs /\ ref' = ref /\ kind' = kind
        BY <1>1 DEF StepOk
      <3>2. \A j \in 1 .. i : Matched(j)  BY <2>4, <1>0 DEF IInv, TypeOK
      <3>. QED  BY <3>1, <3>2, <1>0 DEF Matched, TypeOK
    <2>. QED  BY <1>1, <1>0, <2>5 DEF StepOk, IInv, Running, OK
  <1>2. CASE StepFail
    <2>1. result' # OK  BY <1>2 DEF StepFail
    <2>. QED  BY <1>0, <1>2, <2>1 DEF StepFail, IInv, Matched
  <1>3. CASE Finish
    <2>1. result' = OK => p = Len(obs) + 1
      BY <1>3 DEF Finish, ValidateNoMore, OK, Err
    <2>2. i = Len(ref) + 1  BY <1>3, <1>0 DEF Finish, TypeOK
    <2>. QED  BY <1>0, <1>3, <2>1, <2>2 DEF Finish, IInv, Matched
  <1>4. CASE UNCHANGED vars  BY <1>0, <1>4 DEF vars, IInv, Matched
  <1>. QED  BY <1>1, <1>2, <1>3, <1>4 DEF Next

\* The walk keeps the iterator in step with the reference list and accepts
\* only at both ends, for every key set and value set (the run checks it
\* on two keys and two values).
THEOREM InvariantHolds == Spec => []IInv
  BY IInvInit, IInvStep, PTL DEF Spec

\* ValidateSound: whatever the catalog, a list the walk accepts equals the
\* reference on every key and every field validate() compares.
THEOREM Soundness == Spec => []ValidateSound
  <1>1. IInv => ValidateSound  BY DEF IInv, ValidateSound
  <1>. QED  BY InvariantHolds, <1>1, PTL

-----------------------------------------------------------------------------
(***************************************************************************)
(* Exactness of the validator.  ValidateExact speaks of the final outcome  *)
(* only; EInv adds what the walk keeps true on the way: both lists stay    *)
(* sorted (they are never changed), and a finished walk's outcome is what  *)
(* the last validate() call, or validate_no_more, returned at the current  *)
(* positions.                                                              *)
(***************************************************************************)
LastCall ==
    IF i <= Len(ref) THEN Validate(kind, obs, p, ref[i]) ELSE ValidateNoMore(obs, p)

EInv ==
    /\ IInv
    /\ Sorted(obs)
    /\ Sorted(ref)
    /\ Done => result = LastCall
LEMMA EInvInit == Init => EInv
  <1>. SUFFICES ASSUME Init PROVE EInv  OBVIOUS
  <1>1. IInv  BY IInvInit
  <1>2. Sorted(obs) /\ Sorted(ref)  BY DEF Init, CatalogSets, RefLists
  <1>. QED  BY <1>1, <1>2 DEF Init, EInv, Done

LEMMA EInvStep == EInv /\ [Next]_vars => EInv'
  <1>. SUFFICES ASSUME EInv, [Next]_vars PROVE EInv'  OBVIOUS
  <1>1. IInv'  BY IInvStep DEF EInv
  <1>2. (Sorted(obs) /\ Sorted(ref))'
    BY DEF EInv, Next, StepOk, StepFail, Finish, vars
  <1>3. (Done => result = LastCall)'
    <2>1. CASE StepOk  BY <2>1 DEF StepOk, Done
    <2>2. CASE StepFail  BY <2>2 DEF StepFail, Done, LastCall
    <2>3. CASE Finish  BY <2>3 DEF Finish, Done, LastCall, EInv, IInv, TypeOK
    <2>4. CASE UNCHANGED vars  BY <2>4 DEF EInv, vars, Done, LastCall
    <2>. QED  BY <2>1, <2>2, <2>3, <2>4 DEF Next
  <1>. QED  BY <1>1, <1>2, <1>3 DEF EInv
\* The Min of FiniteSetsExt is the element below every other one.
LEMMA MinIs ==
    ASSUME NEW S \in SUBSET Nat, NEW m \in S, \A y \in S : m <= y
    PROVE  Min(S) = m
  <1>0. \E x \in S : \A y \in S : x <= y  OBVIOUS
  <1>1. Min(S) \in S /\ \A y \in S : Min(S) <= y  BY <1>0, Zenon DEF Min
  <1>2. Min(S) <= m /\ m <= Min(S) /\ Min(S) \in Nat  BY <1>1
  <1>. QED  BY <1>2

\* What EInv gives about the lists, unfolded.
LEMMA EFacts ==
    ASSUME EInv
    PROVE  /\ kind \in Kinds
           /\ obs \in Seq(Entry(kind)) /\ ref \in Seq(RefEntry(kind))
           /\ p = i /\ i \in 1 .. Len(ref) + 1 /\ i \in 1 .. Len(obs) + 1
           /\ \A j \in 1 .. Len(obs) : obs[j].key \in Nat
           /\ \A j \in 1 .. Len(ref) : ref[j].key \in Nat
           /\ \A j, k \in 1 .. Len(obs) : j < k => obs[j].key < obs[k].key
           /\ \A j, k \in 1 .. Len(ref) : j < k => ref[j].key < ref[k].key
           /\ \A j \in 1 .. i - 1 : Matched(j)
  <1>1. TypeOK /\ p = i /\ \A j \in 1 .. i - 1 : Matched(j)  BY DEF EInv, IInv
  <1>2. \A j \in 1 .. Len(obs) : obs[j].key \in KEYS
    <2>1. \A j \in 1 .. Len(obs) : obs[j] \in Entry(kind)  BY <1>1 DEF TypeOK
    <2>. QED  BY <2>1 DEF Entry
  <1>3. \A j \in 1 .. Len(ref) : ref[j].key \in KEYS
    <2>1. \A j \in 1 .. Len(ref) : ref[j] \in RefEntry(kind)  BY <1>1 DEF TypeOK
    <2>. QED  BY <2>1 DEF RefEntry
  <1>. QED  BY <1>1, <1>2, <1>3, KeysAssumption DEF TypeOK, EInv, Sorted

\* A key names one position of a sorted list: ObsAt and RefAt find it.
LEMMA AtIs ==
    ASSUME EInv
    PROVE  /\ \A j \in 1 .. Len(obs) : ObsAt(obs[j].key) = j
           /\ \A j \in 1 .. Len(ref) : RefAt(ref[j].key) = j
  <1>1. ASSUME NEW j \in 1 .. Len(obs) PROVE ObsAt(obs[j].key) = j
    <2>1. ObsAt(obs[j].key) \in 1 .. Len(obs) /\ obs[ObsAt(obs[j].key)].key = obs[j].key
      BY DEF ObsAt
    <2>. QED  BY <2>1, EFacts
  <1>2. ASSUME NEW j \in 1 .. Len(ref) PROVE RefAt(ref[j].key) = j
    <2>1. RefAt(ref[j].key) \in 1 .. Len(ref) /\ ref[RefAt(ref[j].key)].key = ref[j].key
      BY DEF RefAt
    <2>. QED  BY <2>1, EFacts
  <1>. QED  BY <1>1, <1>2

\* The entries the walk has passed are in both lists and differ nowhere.
LEMMA PrefixClean ==
    ASSUME EInv, NEW j \in 1 .. i - 1
    PROVE  /\ j \in 1 .. Len(obs) /\ j \in 1 .. Len(ref)
           /\ obs[j].key = ref[j].key
           /\ obs[j].key \notin DiffKeys
  <1>1. j \in 1 .. Len(obs) /\ j \in 1 .. Len(ref) /\ Matched(j)  BY EFacts
  <1>2. obs[j].key = ref[j].key  BY <1>1 DEF Matched
  <1>3. ObsAt(obs[j].key) = j /\ RefAt(obs[j].key) = j  BY <1>1, <1>2, AtIs
  <1>4. obs[j].key \in ObsKeys /\ obs[j].key \in RefKeys
    BY <1>1, <1>2 DEF ObsKeys, RefKeys
  <1>5. \A f \in 1 .. Len(Checked[kind]) : ~FieldDiffers(obs[j].key, f)
    BY <1>1, <1>3 DEF Matched, FieldDiffers
  <1>. QED  BY <1>1, <1>2, <1>4, <1>5 DEF DiffKeys

\* A difference lies at or after the current position in the list that
\* holds it, so it is no smaller than the key found there.
LEMMA DiffAbove ==
    ASSUME EInv, NEW k \in DiffKeys
    PROVE  /\ k \in ObsKeys \cup RefKeys
           /\ k \in Nat
           /\ k \in ObsKeys => i <= Len(obs) /\ obs[i].key <= k
           /\ k \in RefKeys => i <= Len(ref) /\ ref[i].key <= k
  <1>1. k \in ObsKeys \cup RefKeys  BY DEF DiffKeys
  <1>2. ASSUME k \in ObsKeys PROVE i <= Len(obs) /\ obs[i].key <= k
    <2>1. PICK j \in 1 .. Len(obs) : obs[j].key = k  BY <1>2 DEF ObsKeys
    <2>2. j >= i
      <3>1. SUFFICES ASSUME j < i PROVE FALSE  BY EFacts
      <3>. QED  BY <2>1, <3>1, PrefixClean, EFacts
    <2>. QED  BY <2>1, <2>2, EFacts
  <1>3. ASSUME k \in RefKeys PROVE i <= Len(ref) /\ ref[i].key <= k
    <2>1. PICK j \in 1 .. Len(ref) : ref[j].key = k  BY <1>3 DEF RefKeys
    <2>2. j >= i
      <3>1. SUFFICES ASSUME j < i PROVE FALSE  BY EFacts
      <3>2. j \in 1 .. i - 1  BY <3>1, EFacts
      <3>3. obs[j].key = ref[j].key /\ obs[j].key \notin DiffKeys
        BY <3>2, PrefixClean
      <3>. QED  BY <2>1, <3>3
    <2>. QED  BY <2>1, <2>2, EFacts
  <1>4. k \in Nat  BY <1>1, EFacts DEF ObsKeys, RefKeys
  <1>. QED  BY <1>1, <1>2, <1>3, <1>4
\* The walk ran out of catalog entries: the expected key is the first
\* difference.
LEMMA ExactMissing ==
    ASSUME EInv, i <= Len(ref), p > Len(obs)
    PROVE  /\ ref[i].key \in DiffKeys
           /\ \A k \in DiffKeys : ref[i].key <= k
  <1>1. Len(obs) = i - 1 /\ i \in 1 .. Len(ref)  BY EFacts
  <1>2. ref[i].key \notin ObsKeys
    <2>1. SUFFICES ASSUME NEW j \in 1 .. Len(obs), obs[j].key = ref[i].key
                   PROVE  FALSE
      BY DEF ObsKeys
    <2>2. j \in 1 .. i - 1  BY <1>1
    <2>3. obs[j].key = ref[j].key  BY <2>2, PrefixClean
    <2>4. ref[j].key < ref[i].key
      <3>1. \A a, b \in 1 .. Len(ref) : a < b => ref[a].key < ref[b].key
        BY EFacts
      <3>2. j \in 1 .. Len(ref) /\ j < i  BY <1>1, <2>2
      <3>. QED  BY <1>1, <3>1, <3>2
    <2>5. ref[i].key \in Nat /\ ref[j].key \in Nat  BY <1>1, <2>2, EFacts
    <2>. QED  BY <2>1, <2>3, <2>4, <2>5
  <1>3. ref[i].key \in RefKeys  BY <1>1 DEF RefKeys
  <1>4. ref[i].key \in DiffKeys  BY <1>2, <1>3 DEF DiffKeys
  <1>5. ASSUME NEW k \in DiffKeys PROVE ref[i].key <= k
    BY <1>1, DiffAbove
  <1>. QED  BY <1>4, <1>5

\* The catalog has another key under the iterator: the smaller of the two
\* keys is a difference, and no difference is smaller than both.
LEMMA ExactOrder ==
    ASSUME EInv, i <= Len(ref), p <= Len(obs), obs[p].key # ref[i].key
    PROVE  /\ obs[i].key < ref[i].key => obs[i].key \in DiffKeys
           /\ ref[i].key < obs[i].key => ref[i].key \in DiffKeys
           /\ \A k \in DiffKeys : obs[i].key <= k \/ ref[i].key <= k
  <1>1. i \in 1 .. Len(obs) /\ i \in 1 .. Len(ref) /\ p = i  BY EFacts
  <1>2. ASSUME obs[i].key < ref[i].key PROVE obs[i].key \in DiffKeys
    <2>1. obs[i].key \notin RefKeys
      <3>1. SUFFICES ASSUME NEW j \in 1 .. Len(ref), ref[j].key = obs[i].key
                     PROVE  FALSE
        BY DEF RefKeys
      <3>2. CASE j < i
        <4>1. j \in 1 .. i - 1  BY <3>2, <1>1
        <4>2. obs[j].key = ref[j].key  BY <4>1, PrefixClean
        <4>. QED  BY <4>1, <4>2, <3>1, <1>1, EFacts
      <3>3. CASE j >= i  BY <3>1, <3>3, <1>1, <1>2, EFacts
      <3>. QED  BY <3>2, <3>3, <1>1
    <2>2. obs[i].key \in ObsKeys  BY <1>1 DEF ObsKeys
    <2>. QED  BY <2>1, <2>2 DEF DiffKeys
  <1>3. ASSUME ref[i].key < obs[i].key PROVE ref[i].key \in DiffKeys
    <2>1. ref[i].key \notin ObsKeys
      <3>1. SUFFICES ASSUME NEW j \in 1 .. Len(obs), obs[j].key = ref[i].key
                     PROVE  FALSE
        BY DEF ObsKeys
      <3>2. CASE j < i
        <4>1. j \in 1 .. i - 1  BY <3>2, <1>1
        <4>2. obs[j].key = ref[j].key  BY <4>1, PrefixClean
        <4>3. j \in 1 .. Len(ref) /\ j < i  BY <4>1, <1>1
        <4>4. ref[j].key < ref[i].key  BY <4>3, <1>1, EFacts
        <4>. QED  BY <4>2, <4>3, <4>4, <3>1, <1>1, EFacts
      <3>3. CASE j >= i  BY <3>1, <3>3, <1>1, <1>3, EFacts
      <3>. QED  BY <3>2, <3>3, <1>1
    <2>2. ref[i].key \in RefKeys  BY <1>1 DEF RefKeys
    <2>. QED  BY <2>1, <2>2 DEF DiffKeys
  <1>4. ASSUME NEW k \in DiffKeys PROVE obs[i].key <= k \/ ref[i].key <= k
    BY DiffAbove
  <1>. QED  BY <1>2, <1>3, <1>4

\* The keys agree and field f differs: the key is the first difference,
\* and FieldDiffers at that key compares exactly these two entries.
LEMMA ExactField ==
    ASSUME EInv, i <= Len(ref), p <= Len(obs), obs[p].key = ref[i].key
    PROVE  /\ \A f \in 1 .. Len(Checked[kind]) :
                 FieldDiffers(ref[i].key, f)
                    <=> obs[i].attrs[Checked[kind][f]] # ref[i].exp[f]
           /\ (\E f \in 1 .. Len(Checked[kind]) : FieldDiffers(ref[i].key, f))
                 => ref[i].key \in DiffKeys
           /\ \A k \in DiffKeys : ref[i].key <= k
  <1>1. i \in 1 .. Len(obs) /\ i \in 1 .. Len(ref) /\ p = i  BY EFacts
  <1>2. ObsAt(ref[i].key) = i /\ RefAt(ref[i].key) = i  BY <1>1, AtIs
  <1>3. ref[i].key \in ObsKeys \cap RefKeys  BY <1>1 DEF ObsKeys, RefKeys
  <1>4. ASSUME NEW k \in DiffKeys PROVE ref[i].key <= k
    BY <1>1, DiffAbove
  <1>. QED  BY <1>2, <1>3, <1>4 DEF FieldDiffers, DiffKeys

\* validate_no_more with entries left: the first left-over key is the first
\* difference.
LEMMA ExactMore ==
    ASSUME EInv, i > Len(ref), p <= Len(obs)
    PROVE  /\ obs[p].key \in DiffKeys
           /\ \A k \in DiffKeys : obs[p].key <= k
  <1>1. i = Len(ref) + 1 /\ i \in 1 .. Len(obs) /\ p = i  BY EFacts
  <1>2. obs[i].key \notin RefKeys
    <2>1. SUFFICES ASSUME NEW j \in 1 .. Len(ref), ref[j].key = obs[i].key
                   PROVE  FALSE
      BY DEF RefKeys
    <2>2. j \in 1 .. i - 1  BY <1>1
    <2>3. obs[j].key = ref[j].key  BY <2>2, PrefixClean
    <2>. QED  BY <2>1, <2>2, <2>3, <1>1, EFacts
  <1>3. obs[i].key \in ObsKeys  BY <1>1 DEF ObsKeys
  <1>4. ASSUME NEW k \in DiffKeys PROVE obs[i].key <= k
    BY <1>1, DiffAbove
  <1>. QED  BY <1>1, <1>2, <1>3, <1>4 DEF DiffKeys

\* Both lists exhausted together: there is no difference at all.
LEMMA ExactAccept ==
    ASSUME EInv, i > Len(ref), p > Len(obs)
    PROVE  DiffKeys = {}
  <1>1. i = Len(ref) + 1 /\ i = Len(obs) + 1  BY EFacts
  <1>. QED  BY <1>1, DiffAbove
\* What each validate() overload returns, by the branch it takes.
LEMMA ValidateOutcome ==
    ASSUME NEW k \in Kinds, NEW s \in Seq(Entry(k)), NEW q \in 1 .. Len(s) + 1,
           NEW x \in RefEntry(k)
    PROVE  /\ q > Len(s) => Validate(k, s, q, x) = Err("missing", NoKey, x.key)
           /\ q <= Len(s) /\ s[q].key # x.key =>
                 Validate(k, s, q, x) \in {Err("wrong_order", s[q].key, x.key),
                                           Err("wrong_rank", s[q].key, x.key)}
           /\ q <= Len(s) /\ s[q].key = x.key =>
                 Validate(k, s, q, x) = FieldCheck(k, s[q], x, FieldError[k])
  <1>1. q > Len(s) => Validate(k, s, q, x) = Err("missing", NoKey, x.key)
    BY DEF Validate, ValidateMaster, ValidateColumn, ValidateIndex,
           ValidateIndexCol, Kinds
  <1>2. q <= Len(s) /\ s[q].key # x.key =>
           Validate(k, s, q, x) \in {Err("wrong_order", s[q].key, x.key),
                                     Err("wrong_rank", s[q].key, x.key)}
    BY DEF Validate, ValidateMaster, ValidateColumn, ValidateIndex,
           ValidateIndexCol, Kinds
  <1>3. ASSUME q <= Len(s), s[q].key = x.key
        PROVE  Validate(k, s, q, x) = FieldCheck(k, s[q], x, FieldError[k])
    <2>1. CASE k = "master_list"
      <3>1. FieldCheck(k, s[q], x, FieldError[k]) = OK  BY <2>1 DEF FieldCheck, Checked
      <3>2. Validate(k, s, q, x) = OK  BY <1>3, <2>1 DEF Validate, ValidateMaster
      <3>. QED  BY <3>1, <3>2
    <2>2. CASE k = "table_info"
      BY <1>3, <2>2 DEF Validate, ValidateColumn, FieldError
    <2>3. CASE k = "index_list"
      BY <1>3, <2>3 DEF Validate, ValidateIndex, FieldError
    <2>4. CASE k = "index_info"
      BY <1>3, <2>4 DEF Validate, ValidateIndexCol, FieldError
    <2>. QED  BY <2>1, <2>2, <2>3, <2>4 DEF Kinds
  <1>. QED  BY <1>1, <1>2, <1>3

\* EInv implies ValidateExact, branch by branch of the last call.
LEMMA ExactFromInv == EInv => ValidateExact
  <1>. SUFFICES ASSUME EInv, Done
                PROVE  /\ (result = OK) <=> (DiffKeys = {})
                       /\ result # OK =>
                             Min({result.found, result.expected} \ {NoKey})
                                = Min(DiffKeys)
                       /\ result.tag \in FieldTags =>
                             \E j \in 1 .. Len(Checked[kind]) :
                                /\ FieldDiffers(result.expected, j)
                                /\ \A jj \in 1 .. j - 1 :
                                      ~FieldDiffers(result.expected, jj)
                                /\ result.tag = FieldError[kind][j]
    BY DEF ValidateExact
  <1>0. /\ kind \in Kinds /\ obs \in Seq(Entry(kind)) /\ ref \in Seq(RefEntry(kind))
        /\ p = i /\ p \in 1 .. Len(obs) + 1 /\ i \in 1 .. Len(ref) + 1
    BY EFacts
  <1>1. result = LastCall  BY DEF EInv
  <1>2. DiffKeys \subseteq Nat  BY DiffAbove
  <1>3. /\ \A j \in 1 .. Len(obs) : obs[j].key \in KEYS
        /\ \A j \in 1 .. Len(ref) : ref[j].key \in KEYS
    <2>1. \A j \in 1 .. Len(obs) : obs[j] \in Entry(kind)  BY <1>0
    <2>2. \A j \in 1 .. Len(ref) : ref[j] \in RefEntry(kind)  BY <1>0
    <2>. QED  BY <2>1, <2>2 DEF Entry, RefEntry
  <1>4. OK.tag \notin FieldTags  BY DEF OK, FieldTags
  <1>5. CASE i <= Len(ref) /\ p > Len(obs)
    <2>. DEFINE r == ref[i].key
    <2>1. result = Err("missing", NoKey, r)
      BY <1>0, <1>1, <1>5, ValidateOutcome DEF LastCall
    <2>2. r \in DiffKeys /\ \A k \in DiffKeys : r <= k  BY <1>5, ExactMissing
    <2>3. Min(DiffKeys) = r  BY <1>2, <2>2, MinIs
    <2>4. {NoKey, r} \ {NoKey} = {r}  BY <1>0, <1>3, <1>5, NoKeyAssumption
    <2>0. i \in 1 .. Len(ref)  BY <1>0, <1>5
    <2>6. r \in Nat  BY <2>0, <1>3, KeysAssumption
    <2>5. Min({r}) = r  BY <2>6, MinIs
    <2>. QED  BY <2>1, <2>2, <2>3, <2>4, <2>5 DEF Err, OK, FieldTags
  <1>6. CASE i <= Len(ref) /\ p <= Len(obs) /\ obs[p].key # ref[i].key
    <2>. DEFINE o == obs[i].key  r == ref[i].key  m == IF o < r THEN o ELSE r
    <2>a. i \in 1 .. Len(obs) /\ i \in 1 .. Len(ref)  BY <1>0, <1>6
    <2>0. o \in KEYS /\ r \in KEYS /\ o \in Nat /\ r \in Nat
      BY <2>a, <1>3, KeysAssumption
    <2>1. result \in {Err("wrong_order", o, r), Err("wrong_rank", o, r)}
      BY <1>0, <1>1, <1>6, ValidateOutcome DEF LastCall
    <2>2. m \in DiffKeys /\ \A k \in DiffKeys : m <= k
      <3>1. /\ o < r => o \in DiffKeys
            /\ r < o => r \in DiffKeys
            /\ \A k \in DiffKeys : o <= k \/ r <= k
        BY <1>6, ExactOrder
      <3>2. o # r  BY <1>0, <1>6
      <3>3. CASE o < r
        <4>1. m = o  BY <3>3
        <4>2. \A k \in DiffKeys : o <= k  BY <1>2, <2>0, <3>1, <3>3
        <4>. QED  BY <3>1, <3>3, <4>1, <4>2
      <3>4. CASE r < o
        <4>1. m = r  BY <2>0, <3>4
        <4>2. \A k \in DiffKeys : r <= k  BY <1>2, <2>0, <3>1, <3>4
        <4>. QED  BY <3>1, <3>4, <4>1, <4>2
      <3>. QED  BY <2>0, <3>2, <3>3, <3>4
    <2>3. Min(DiffKeys) = m  BY <1>2, <2>2, MinIs
    <2>4. {o, r} \ {NoKey} = {o, r}  BY <2>0, NoKeyAssumption
    <2>5. Min({o, r}) = m  BY <2>0, MinIs
    <2>6. /\ result # OK /\ result.tag \notin FieldTags
          /\ result.found = o /\ result.expected = r
      BY <2>1 DEF Err, OK, FieldTags
    <2>. QED  BY <2>2, <2>3, <2>4, <2>5, <2>6
  <1>7. CASE i <= Len(ref) /\ p <= Len(obs) /\ obs[p].key = ref[i].key
    <2>. DEFINE r == ref[i].key
                bad == {j \in 1 .. Len(Checked[kind]) :
                           obs[i].attrs[Checked[kind][j]] # ref[i].exp[j]}
    <2>a. i \in 1 .. Len(obs) /\ i \in 1 .. Len(ref)  BY <1>0, <1>7
    <2>0. r \in KEYS /\ r \in Nat /\ obs[i].key = r
      BY <2>a, <1>0, <1>3, <1>7, KeysAssumption
    <2>. DEFINE tags == FieldError[kind]
    <2>1. result = FieldCheck(kind, obs[i], ref[i], tags)
      BY <1>0, <1>1, <1>7, ValidateOutcome DEF LastCall
    <2>2. result # OK  BY <1>0, <1>7 DEF EInv, IInv
    <2>3. /\ bad # {}
          /\ result = Err(tags[Min(bad)], r, r)
          /\ Min(bad) \in bad
          /\ \A y \in bad : Min(bad) <= y
      <3>1. /\ bad = {} => FieldCheck(kind, obs[i], ref[i], tags) = OK
            /\ bad # {} =>
                  /\ FieldCheck(kind, obs[i], ref[i], tags)
                        = Err(tags[Min(bad)], obs[i].key, ref[i].key)
                  /\ Min(bad) \in bad
                  /\ \A y \in bad : Min(bad) <= y
        <4>1. Len(Checked[kind]) \in 0 .. 4  BY <1>0, KindFacts
        <4>2. bad \in SUBSET (1 .. 4)  BY <4>1
        <4>3. bad # {} => Min(bad) \in bad /\ \A y \in bad : Min(bad) <= y
          BY <4>2, FirstField
        <4>. QED  BY <4>3 DEF FieldCheck
      <3>2. bad # {}  BY <3>1, <2>1, <2>2
      <3>. QED  BY <3>1, <3>2, <2>0, <2>1
    <2>4. /\ \A f \in 1 .. Len(Checked[kind]) : FieldDiffers(r, f) <=> f \in bad
          /\ r \in DiffKeys
          /\ \A k \in DiffKeys : r <= k
      <3>1. /\ \A f \in 1 .. Len(Checked[kind]) :
                  FieldDiffers(r, f) <=> obs[i].attrs[Checked[kind][f]] # ref[i].exp[f]
            /\ (\E f \in 1 .. Len(Checked[kind]) : FieldDiffers(r, f)) => r \in DiffKeys
            /\ \A k \in DiffKeys : r <= k
        BY <1>7, ExactField
      <3>. QED  BY <3>1, <2>3
    <2>5. Min(DiffKeys) = r  BY <1>2, <2>4, MinIs
    <2>6. {r, r} \ {NoKey} = {r}  BY <2>0, NoKeyAssumption
    <2>7. Min({r}) = r  BY <2>0, MinIs
    <2>8. \E j \in 1 .. Len(Checked[kind]) :
             /\ FieldDiffers(r, j)
             /\ \A jj \in 1 .. j - 1 : ~FieldDiffers(r, jj)
             /\ result.tag = tags[j]
      <3>1. Min(bad) \in 1 .. Len(Checked[kind]) /\ FieldDiffers(r, Min(bad))
        BY <2>3, <2>4
      <3>2. \A jj \in 1 .. Min(bad) - 1 : ~FieldDiffers(r, jj)
        <4>1. SUFFICES ASSUME NEW jj \in 1 .. Min(bad) - 1
                       PROVE  ~FieldDiffers(r, jj)
          OBVIOUS
        <4>2. Len(Checked[kind]) \in 0 .. 4  BY <1>0, KindFacts
        <4>3. jj \in 1 .. Len(Checked[kind])  BY <3>1, <4>2
        <4>4. jj \notin bad
          <5>1. Min(bad) \in Nat /\ jj < Min(bad)  BY <3>1, <4>2
          <5>2. ASSUME jj \in bad PROVE FALSE
            <6>1. Min(bad) <= jj  BY <2>3, <5>2
            <6>. QED  BY <6>1, <5>1
          <5>. QED  BY <5>2
        <4>. QED  BY <2>4, <4>3, <4>4
      <3>3. result.tag = tags[Min(bad)]  BY <2>3 DEF Err
      <3>. QED  BY <3>1, <3>2, <3>3
    <2>. QED  BY <2>2, <2>3, <2>4, <2>5, <2>6, <2>7, <2>8 DEF Err
  <1>8. CASE i > Len(ref) /\ p <= Len(obs)
    <2>. DEFINE o == obs[p].key
    <2>a. p \in 1 .. Len(obs)  BY <1>0, <1>8
    <2>0. o \in KEYS /\ o \in Nat  BY <2>a, <1>3, KeysAssumption
    <2>1. result = Err("more_entries", o, NoKey)
      BY <1>0, <1>1, <1>8 DEF LastCall, ValidateNoMore
    <2>2. o \in DiffKeys /\ \A k \in DiffKeys : o <= k  BY <1>8, ExactMore
    <2>3. Min(DiffKeys) = o  BY <1>2, <2>2, MinIs
    <2>4. {o, NoKey} \ {NoKey} = {o}  BY <2>0, NoKeyAssumption
    <2>5. Min({o}) = o  BY <2>0, MinIs
    <2>. QED  BY <2>1, <2>2, <2>3, <2>4, <2>5 DEF Err, OK, FieldTags
  <1>9. CASE i > Len(ref) /\ p > Len(obs)
    <2>1. result = OK  BY <1>0, <1>1, <1>9 DEF LastCall, ValidateNoMore
    <2>2. DiffKeys = {}  BY <1>9, ExactAccept
    <2>. QED  BY <1>4, <2>1, <2>2
  <1>10. \/ i <= Len(ref) /\ p > Len(obs)
         \/ i <= Len(ref) /\ p <= Len(obs) /\ obs[p].key # ref[i].key
         \/ i <= Len(ref) /\ p <= Len(obs) /\ obs[p].key = ref[i].key
         \/ i > Len(ref) /\ p <= Len(obs)
         \/ i > Len(ref) /\ p > Len(obs)
    BY <1>0
  <1>. QED  BY <1>5, <1>6, <1>7, <1>8, <1>9, <1>10, Zenon
(***************************************************************************)
(* ValidateExact for every set of keys and attribute values: a finished    *)
(* walk accepts exactly the catalogs with no difference from the           *)
(* reference, an error names the smallest differing key, and a field       *)
(* error the first differing field in validate()'s order.  The run checks  *)
(* it on two keys and two values.                                          *)
(***************************************************************************)
THEOREM ValidateExactHolds == Spec => []ValidateExact
  <1>1. Spec => []EInv  BY EInvInit, EInvStep, PTL DEF Spec
  <1>2. EInv => ValidateExact  BY ExactFromInv
  <1>. QED  BY <1>1, <1>2, PTL
=============================================================================
