--------------------------- MODULE ElStorageProofs ---------------------------
(***************************************************************************)
(* Proofs about ElStorage for every track-id bound, value set and set of   *)
(* version triples: the tables stay well typed, StoreInv is inductive, and *)
(* the Track and PerformanceData round trips hold.                         *)
(***************************************************************************)
EXTENDS ElStorage, FiniteSetTheorems, TLAPS

\* A version-like record: what VGeq and the dispatch operators look at.
IsVer(v) == v.maj \in Nat /\ v.min \in Nat /\ v.pat \in Nat

(***************************************************************************)
(* The three hand-written track dispatches (create_track, get_track,       *)
(* update_track) all name exactly the columns the version has.             *)
(***************************************************************************)
LEMMA TrackDispatch ==
  ASSUME NEW v, IsVer(v)
  PROVE  /\ CreateTrackFields(v) = FieldsOf(v)
         /\ GetTrackFields(v) = FieldsOf(v)
         /\ UpdateTrackFields(v) = FieldsOf(v)
  <1>. DEFINE F == FieldsOf(v)
  <1>1. CASE VGeq(v, version_1_18_0_fw)
    <2>1. VGeq(v, version_1_15_0) /\ VGeq(v, version_1_7_1)
      BY <1>1 DEF IsVer, VGeq, version_1_18_0_fw, version_1_15_0, version_1_7_1, Ver
    <2>2. F = OptFields  BY <1>1, <2>1 DEF FieldsOf, OptFields
    <2>. QED  BY <1>1, <2>2 DEF CreateTrackFields, GetTrackFields, UpdateTrackFields
  <1>2. CASE ~VGeq(v, version_1_18_0_fw) /\ VGeq(v, version_1_15_0)
    <2>1. VGeq(v, version_1_7_1)
      BY <1>2 DEF IsVer, VGeq, version_1_15_0, version_1_7_1, Ver
    <2>2. F = {"fileBytes", "pdbImportKey", "uri"}
      BY <1>2, <2>1 DEF FieldsOf, OptFields
    <2>. QED  BY <1>2, <2>2 DEF CreateTrackFields, GetTrackFields, UpdateTrackFields
  <1>3. CASE ~VGeq(v, version_1_15_0) /\ VGeq(v, version_1_7_1)
    <2>1. ~VGeq(v, version_1_18_0_fw)
      BY <1>3 DEF IsVer, VGeq, version_1_18_0_fw, version_1_15_0, Ver
    <2>2. F = {"pdbImportKey"}  BY <1>3, <2>1 DEF FieldsOf, OptFields
    <2>. QED  BY <1>3, <2>1, <2>2 DEF CreateTrackFields, GetTrackFields, UpdateTrackFields
  <1>4. CASE ~VGeq(v, version_1_7_1)
    <2>1. ~VGeq(v, version_1_18_0_fw) /\ ~VGeq(v, version_1_15_0)
      BY <1>4 DEF IsVer, VGeq, version_1_18_0_fw, version_1_15_0, version_1_7_1, Ver
    <2>2. F = {}  BY <1>4, <2>1 DEF FieldsOf, OptFields
    <2>. QED  BY <1>4, <2>1, <2>2 DEF CreateTrackFields, GetTrackFields, UpdateTrackFields
  <1>. QED  BY <1>1, <1>2, <1>3, <1>4

\* The two performance-data dispatches name exactly the flag columns the
\* version has.
LEMMA PerfDispatch ==
  ASSUME NEW v, IsVer(v)
  PROVE  /\ GetPerfFlags(v) = FlagsOf(v)
         /\ SetPerfFlags(v) = FlagsOf(v)
  <1>1. CASE VGeq(v, version_1_11_1)
    <2>1. VGeq(v, version_1_7_1)
      BY <1>1 DEF IsVer, VGeq, version_1_11_1, version_1_7_1, Ver
    <2>2. FlagsOf(v) = {"rekordbox", "traktor"}  BY <1>1, <2>1 DEF FlagsOf
    <2>. QED  BY <1>1, <2>2 DEF GetPerfFlags, SetPerfFlags
  <1>2. CASE ~VGeq(v, version_1_11_1) /\ VGeq(v, version_1_7_1)
    <2>1. FlagsOf(v) = {"rekordbox"}  BY <1>2 DEF FlagsOf
    <2>. QED  BY <1>2, <2>1 DEF GetPerfFlags, SetPerfFlags
  <1>3. CASE ~VGeq(v, version_1_7_1)
    <2>1. ~VGeq(v, version_1_11_1)
      BY <1>3 DEF IsVer, VGeq, version_1_11_1, version_1_7_1, Ver
    <2>2. FlagsOf(v) = {}  BY <1>3, <2>1 DEF FlagsOf
    <2>. QED  BY <1>3, <2>1, <2>2 DEF GetPerfFlags, SetPerfFlags
  <1>. QED  BY <1>1, <1>2, <1>3

(***************************************************************************)
(* Type correctness.                                                       *)
(***************************************************************************)
LEMMA InputsTyped ==
  /\ TrackInputs \subseteq TrackRows
  /\ PerfInputs \subseteq PerfRows
  BY DEF TrackInputs, PerfInputs, TrackRows, PerfRows, OptFields

LEMMA BindTyped ==
  ASSUME NEW x \in TrackRows, NEW S
  PROVE  Bind(x, S) \in TrackRows
  BY DEF Bind, TrackRows

LEMMA BindPerfTyped ==
  ASSUME NEW x \in PerfRows, NEW S
  PROVE  BindPerf(x, S) \in PerfRows
  BY DEF BindPerf, PerfRows

\* A version a caller may ask for has its triple in TRIPLES.
LEMMA NewVersionTriple ==
  ASSUME NEW v \in NewVersions
  PROVE  Triple(v) \in TRIPLES
  <1>1. CASE v \in {w \in SupportedVersions : Triple(w) \in TRIPLES}  BY <1>1
  <1>2. CASE v \in {Ver(t, "") : t \in TRIPLES \ {<<1, 18, 0>>}}
    <2>1. PICK t \in TRIPLES : v = Ver(t, "")  BY <1>2
    <2>2. t \in Nat \X Nat \X Nat  BY <2>1, TriplesAssumption
    <2>3. t = <<t[1], t[2], t[3]>>  BY <2>2
    <2>. QED  BY <2>1, <2>3 DEF Triple, Ver
  <1>. QED  BY <1>1, <1>2 DEF NewVersions

LEMMA TypeInit == Init => TypeOK
  BY DEF Init, TypeOK, NoRow, Closed

LEMMA TypeStep == TypeOK /\ [Next]_vars => TypeOK'
  <1>. SUFFICES ASSUME TypeOK, [Next]_vars PROVE TypeOK'  OBVIOUS
  <1>1. CASE open_existing
    <2>1. CASE UNCHANGED handle  BY <1>1, <2>1 DEF open_existing, TypeOK
    <2>2. CASE /\ get_version(dir) \in SupportedVersions
               /\ handle' = [open |-> TRUE, version |-> get_version(dir)]
      <3>1. handle' \in [open : {TRUE}, version : SupportedVersions]  BY <2>2
      <3>. QED  BY <1>1, <3>1 DEF open_existing, TypeOK
    <2>. QED  BY <1>1, <2>1, <2>2 DEF open_existing
  <1>2. ASSUME NEW v \in NewVersions, open_new(v) PROVE TypeOK'
    <2>1. CASE v \notin SupportedVersions
      BY <1>2, <2>1 DEF open_new, TypeOK, Dirs
    <2>2. CASE v \in SupportedVersions
      <3>1. Triple(v) \in TRIPLES  BY NewVersionTriple
      <3>2. /\ dir' = [exists |-> TRUE, music |-> Triple(v), perf |-> Triple(v),
                        extType |-> IF v = version_1_18_0_fw THEN "NUMERIC"
                                    ELSE "INTEGER"]
            /\ handle' = [open |-> TRUE, version |-> v]
            /\ track' = NoRow /\ perf' = NoRow
            /\ wTrack' = NoRow /\ wPerf' = NoRow
        BY <1>2, <2>2 DEF open_new
      <3>3. dir' \in Dirs  BY <3>1, <3>2 DEF Dirs
      <3>. QED  BY <2>2, <3>2, <3>3 DEF TypeOK, NoRow
    <2>. QED  BY <2>1, <2>2
  <1>3. CASE close  BY <1>3 DEF close, TypeOK, Closed
  <1>4. ASSUME NEW x \in TrackInputs, create_track(x) PROVE TypeOK'
    <2>1. x \in TrackRows  BY InputsTyped
    <2>2. PICK id \in TrackIds :
             /\ track' = [track EXCEPT ![id] = Bind(x, CreateTrackFields(version))]
             /\ wTrack' = [wTrack EXCEPT ![id] = x]
      BY <1>4 DEF create_track
    <2>3. Bind(x, CreateTrackFields(version)) \in TrackRows  BY <2>1, BindTyped
    <2>. QED  BY <1>4, <2>1, <2>2, <2>3 DEF create_track, TypeOK
  <1>5. ASSUME NEW id \in TrackIds, get_track(id) PROVE TypeOK'
    BY <1>5 DEF get_track, TypeOK
  <1>6. ASSUME NEW id \in TrackIds, NEW x \in TrackInputs, update_track(id, x)
        PROVE TypeOK'
    <2>1. x \in TrackRows  BY InputsTyped
    <2>2. CASE track[id] = Null  BY <1>6, <2>2 DEF update_track, TypeOK
    <2>3. CASE track[id] # Null
      <3>1. track[id] \in TrackRows  BY <2>3 DEF TypeOK
      <3>2. track' \in [TrackIds -> TrackRows \cup {Null}]
        BY <1>6, <2>1, <2>3, <3>1 DEF update_track, TypeOK, TrackRows
      <3>3. wTrack' \in [TrackIds -> TrackRows \cup {Null}]
        BY <1>6, <2>1, <2>3 DEF update_track, TypeOK
      <3>. QED  BY <1>6, <3>2, <3>3 DEF update_track, TypeOK
    <2>. QED  BY <2>2, <2>3
  <1>7. ASSUME NEW id \in TrackIds, clear_performance_data(id) PROVE TypeOK'
    BY <1>7 DEF clear_performance_data, TypeOK
  <1>8. ASSUME NEW id \in TrackIds, get_performance_data(id) PROVE TypeOK'
    BY <1>8 DEF get_performance_data, TypeOK
  <1>9. ASSUME NEW id \in TrackIds, NEW x \in PerfInputs,
               set_performance_data(id, x)
        PROVE TypeOK'
    <2>1. x \in PerfRows  BY InputsTyped
    <2>2. BindPerf(x, SetPerfFlags(version)) \in PerfRows  BY <2>1, BindPerfTyped
    <2>3. CASE SetPerfFlags(version) \subseteq PerfColumns(dir.perf)
      BY <1>9, <2>1, <2>2, <2>3 DEF set_performance_data, TypeOK
    <2>4. CASE ~(SetPerfFlags(version) \subseteq PerfColumns(dir.perf))
      BY <1>9, <2>4 DEF set_performance_data, TypeOK
    <2>. QED  BY <2>3, <2>4
  <1>10. CASE UNCHANGED vars  BY <1>10 DEF vars, TypeOK
  <1>. QED  BY <1>1, <1>2, <1>3, <1>4, <1>5, <1>6, <1>7, <1>8, <1>9, <1>10 DEF Next

\* The tables, the handle and the history keep their types, whatever the
\* track-id bound, the values and the version triples.
THEOREM TypeCorrect == Spec => []TypeOK
  BY TypeInit, TypeStep, PTL DEF Spec

(***************************************************************************)
(* Versions and the directory.                                             *)
(***************************************************************************)
LEMMA SupportedIsVer ==
  \A v \in SupportedVersions : IsVer(v)
  <1>1. ASSUME NEW a \in Nat, NEW b \in Nat, NEW c \in Nat, NEW var
        PROVE  IsVer(Ver(<<a, b, c>>, var))
    BY DEF IsVer, Ver
  <1>. QED  BY <1>1 DEF SupportedVersions, version_1_6_0, version_1_7_1,
         version_1_9_1, version_1_11_1, version_1_13_0, version_1_13_1,
         version_1_13_2, version_1_15_0, version_1_17_0, version_1_18_0_fw,
         version_1_18_0_ep

LEMMA TripleVer ==
  ASSUME NEW t \in TRIPLES
  PROVE  IsVer(Ver(t, "")) /\ Triple(Ver(t, "")) = t
  <1>1. t \in Nat \X Nat \X Nat  BY TriplesAssumption
  <1>2. t = <<t[1], t[2], t[3]>>  BY <1>1
  <1>. QED  BY <1>1, <1>2 DEF IsVer, Ver, Triple

\* The dispatch operators see only the triple of a version.
LEMMA SameTriple ==
  ASSUME NEW v, NEW w, IsVer(v), IsVer(w), Triple(v) = Triple(w)
  PROVE  FieldsOf(v) = FieldsOf(w) /\ FlagsOf(v) = FlagsOf(w)
  <1>1. v.maj = w.maj /\ v.min = w.min /\ v.pat = w.pat  BY DEF Triple
  <1>. QED  BY <1>1 DEF FieldsOf, FlagsOf, VGeq

\* get_version, once its two checks pass, names a stated triple, and the
\* version it returns has that triple (whichever variant it picks).
LEMMA OpenedVersion ==
  ASSUME NEW d \in Dirs, ~VersionInconsistent(d)
  PROVE  d.music \in TRIPLES /\ Triple(get_version(d)) = d.music
  <1>1. d.music # NoTable
    <2>. SUFFICES ASSUME d.music = NoTable PROVE FALSE  OBVIOUS
    <2>. DEFINE T == {s \in {"music", "perf"} : d[s] # NoTable}
    <2>1. T \subseteq {"perf"}  OBVIOUS
    <2>2. IsFiniteSet({"perf"}) /\ Cardinality({"perf"}) = 1  BY FS_Singleton
    <2>3. Cardinality(T) <= 1  BY <2>1, <2>2, FS_Subset
    <2>4. Cardinality(T) = 2  BY DEF VersionInconsistent
    <2>. QED  BY <2>3, <2>4
  <1>2. d.music \in TRIPLES  BY <1>1 DEF Dirs
  <1>3. CASE d.music = <<1, 18, 0>>
    BY <1>2, <1>3 DEF get_version, music_version, Triple, version_1_18_0_ep,
                version_1_18_0_fw, Ver
  <1>4. CASE d.music # <<1, 18, 0>>
    <2>1. get_version(d) = Ver(d.music, "")  BY <1>4 DEF get_version, music_version
    <2>. QED  BY <1>2, <2>1, TripleVer
  <1>. QED  BY <1>2, <1>3, <1>4

\* Under StoreInv, an open handle's dispatch names the columns of the
\* version the directory states.
LEMMA OpenDispatch ==
  ASSUME StoreInv, IsOpen
  PROVE  /\ CreateTrackFields(version) = FieldsOf(DirVersion)
         /\ GetTrackFields(version) = FieldsOf(DirVersion)
         /\ UpdateTrackFields(version) = FieldsOf(DirVersion)
         /\ GetPerfFlags(version) = FlagsOf(DirVersion)
         /\ SetPerfFlags(version) = FlagsOf(DirVersion)
         /\ FieldsOf(version) = FieldsOf(DirVersion)
         /\ FlagsOf(version) = FlagsOf(DirVersion)
  <1>1. version \in SupportedVersions
    <2>1. handle \in {Closed} \cup [open : {TRUE}, version : SupportedVersions]
      BY DEF StoreInv, TypeOK
    <2>2. handle # Closed  BY DEF IsOpen, Closed
    <2>3. handle \in [open : {TRUE}, version : SupportedVersions]  BY <2>1, <2>2
    <2>. QED  BY <2>3 DEF version
  <1>2. IsVer(version)  BY <1>1, SupportedIsVer
  <1>3. dir.music \in TRIPLES /\ Triple(version) = dir.music  BY DEF StoreInv
  <1>4. IsVer(DirVersion) /\ Triple(DirVersion) = dir.music
    BY <1>3, TripleVer DEF DirVersion
  <1>5. FieldsOf(version) = FieldsOf(DirVersion) /\ FlagsOf(version) = FlagsOf(DirVersion)
    BY <1>2, <1>3, <1>4, SameTriple
  <1>. QED  BY <1>2, <1>5, TrackDispatch, PerfDispatch

LEMMA BindIdem ==
  ASSUME NEW w, NEW S
  PROVE  Bind(Bind(w, S), S) = Bind(w, S)
  BY DEF Bind

LEMMA BindPerfIdem ==
  ASSUME NEW w, NEW S
  PROVE  BindPerf(BindPerf(w, S), S) = BindPerf(w, S)
  BY DEF BindPerf

\* update_track on an existing row writes the SET columns and keeps the
\* others, which the row's last write left NULL.
LEMMA UpdateKeepsProjection ==
  ASSUME NEW x, NEW w, NEW F
  PROVE  [base |-> x.base,
          opt  |-> [f \in OptFields |->
                      IF f \in F THEN x.opt[f] ELSE Bind(w, F).opt[f]]]
         = Bind(x, F)
  BY DEF Bind

(***************************************************************************)
(* The inductive invariant, conjunct by conjunct.                          *)
(***************************************************************************)
HandleInv == IsOpen => dir.music \in TRIPLES /\ Triple(version) = dir.music

TrackInv(id) ==
  /\ (track[id] = Null) <=> (wTrack[id] = Null)
  /\ wTrack[id] # Null =>
        /\ dir.music \in TRIPLES
        /\ track[id] = Bind(wTrack[id], FieldsOf(DirVersion))

PerfInv(id) ==
  /\ (perf[id] = Null) <=> (wPerf[id] = Null)
  /\ wPerf[id] # Null =>
        /\ dir.music \in TRIPLES
        /\ perf[id] = BindPerf(wPerf[id], FlagsOf(DirVersion))

LEMMA StoreInvSplit ==
  StoreInv <=> TypeOK /\ HandleInv /\ \A id \in TrackIds : TrackInv(id) /\ PerfInv(id)
  BY DEF StoreInv, HandleInv, TrackInv, PerfInv

LEMMA StoreInvInit == Init => StoreInv
  <1>. SUFFICES ASSUME Init PROVE StoreInv  OBVIOUS
  <1>1. TypeOK  BY TypeInit
  <1>2. HandleInv  BY DEF Init, HandleInv, IsOpen, Closed
  <1>3. \A id \in TrackIds : TrackInv(id) /\ PerfInv(id)
    BY DEF Init, TrackInv, PerfInv, NoRow
  <1>. QED  BY <1>1, <1>2, <1>3, StoreInvSplit

LEMMA StoreInvStep == StoreInv /\ [Next]_vars => StoreInv'
  <1>. SUFFICES ASSUME StoreInv, [Next]_vars PROVE StoreInv'  OBVIOUS
  <1>0. /\ TypeOK /\ HandleInv /\ \A id \in TrackIds : TrackInv(id) /\ PerfInv(id)
        /\ TypeOK'
    BY StoreInvSplit, TypeStep
  <1>. SUFFICES HandleInv' /\ \A id \in TrackIds : TrackInv(id)' /\ PerfInv(id)'
    BY <1>0 DEF StoreInv, HandleInv, TrackInv, PerfInv
  <1>1. CASE open_existing
    <2>1. UNCHANGED <<dir, track, perf, wTrack, wPerf>>  BY <1>1 DEF open_existing
    <2>2. \A id \in TrackIds : TrackInv(id)' /\ PerfInv(id)'
      BY <1>0, <2>1 DEF TrackInv, PerfInv, DirVersion
    <2>3. HandleInv'
      <3>1. CASE UNCHANGED handle
        BY <1>1, <3>1 DEF open_existing, HandleInv, IsOpen
      <3>2. CASE /\ ~VersionInconsistent(dir)
                 /\ handle' = [open |-> TRUE, version |-> get_version(dir)]
        <4>1. dir.music \in TRIPLES /\ Triple(get_version(dir)) = dir.music
          BY <3>2, <1>0, OpenedVersion DEF TypeOK
        <4>. QED  BY <2>1, <3>2, <4>1 DEF HandleInv, IsOpen, version
      <3>. QED  BY <1>1, <3>1, <3>2 DEF open_existing
    <2>. QED  BY <2>2, <2>3
  <1>2. ASSUME NEW v \in NewVersions, open_new(v) PROVE HandleInv' /\ \A id \in TrackIds : TrackInv(id)' /\ PerfInv(id)'
    <2>1. dir.music = NoTable /\ ~IsOpen  BY <1>2 DEF open_new
    <2>2. \A id \in TrackIds : wTrack[id] = Null /\ wPerf[id] = Null
      BY <1>0, <2>1, NoTableAssumption DEF TrackInv, PerfInv
    <2>3. CASE v \notin SupportedVersions
      <3>1. /\ dir'.music = dir.music
            /\ UNCHANGED <<handle, track, perf, wTrack, wPerf>>
        BY <1>2, <2>3, <1>0 DEF open_new, TypeOK, Dirs
      <3>2. HandleInv'  BY <2>1, <3>1 DEF HandleInv, IsOpen
      <3>3. \A id \in TrackIds : TrackInv(id)' /\ PerfInv(id)'
        BY <1>0, <2>2, <3>1 DEF TrackInv, PerfInv
      <3>. QED  BY <3>2, <3>3
    <2>4. CASE v \in SupportedVersions
      <3>1. /\ dir'.music = Triple(v)
            /\ handle' = [open |-> TRUE, version |-> v]
            /\ track' = NoRow /\ perf' = NoRow
            /\ wTrack' = NoRow /\ wPerf' = NoRow
        BY <1>2, <2>4 DEF open_new
      <3>2. Triple(v) \in TRIPLES  BY NewVersionTriple
      <3>3. HandleInv'  BY <3>1, <3>2 DEF HandleInv, IsOpen, version
      <3>4. \A id \in TrackIds : TrackInv(id)' /\ PerfInv(id)'
        BY <3>1 DEF TrackInv, PerfInv, NoRow
      <3>. QED  BY <3>3, <3>4
    <2>. QED  BY <2>3, <2>4
  <1>3. CASE close
    <2>1. UNCHANGED <<dir, track, perf, wTrack, wPerf>> /\ ~IsOpen'
      BY <1>3 DEF close, IsOpen, Closed
    <2>. QED  BY <1>0, <2>1 DEF HandleInv, TrackInv, PerfInv, DirVersion
  <1>4. ASSUME NEW x \in TrackInputs, create_track(x)
        PROVE HandleInv' /\ \A id \in TrackIds : TrackInv(id)' /\ PerfInv(id)'
    <2>1. x \in TrackRows /\ x # Null  BY InputsTyped, NullRowAssumption
    <2>2. IsOpen /\ UNCHANGED <<dir, perf, handle, wPerf>>  BY <1>4 DEF create_track
    <2>3. PICK k \in TrackIds :
             /\ track' = [track EXCEPT ![k] = Bind(x, CreateTrackFields(version))]
             /\ wTrack' = [wTrack EXCEPT ![k] = x]
      BY <1>4 DEF create_track
    <2>4. CreateTrackFields(version) = FieldsOf(DirVersion)
      BY <2>2, OpenDispatch
    <2>5. Bind(x, FieldsOf(DirVersion)) \in TrackRows  BY <2>1, BindTyped
    <2>6. Bind(x, FieldsOf(DirVersion)) # Null  BY <2>5, NullRowAssumption
    <2>7. dir.music \in TRIPLES  BY <2>2, <1>0 DEF HandleInv
    <2>8. TrackInv(k)'  BY <2>1, <2>2, <2>3, <2>4, <2>6, <2>7, <1>0 DEF TrackInv, DirVersion, TypeOK
    <2>9. \A id \in TrackIds \ {k} : TrackInv(id)'
      BY <2>2, <2>3, <1>0 DEF TrackInv, DirVersion, TypeOK
    <2>10. \A id \in TrackIds : PerfInv(id)'  BY <2>2, <1>0 DEF PerfInv, DirVersion
    <2>11. HandleInv'  BY <2>2, <1>0 DEF HandleInv, IsOpen, version
    <2>. QED  BY <2>8, <2>9, <2>10, <2>11
  <1>5. ASSUME NEW id \in TrackIds, get_track(id)
        PROVE HandleInv' /\ \A j \in TrackIds : TrackInv(j)' /\ PerfInv(j)'
    <2>1. UNCHANGED <<dir, track, perf, handle, wTrack, wPerf>>  BY <1>5 DEF get_track
    <2>. QED  BY <1>0, <2>1 DEF HandleInv, TrackInv, PerfInv, DirVersion, IsOpen, version
  <1>6. ASSUME NEW id \in TrackIds, NEW x \in TrackInputs, update_track(id, x)
        PROVE HandleInv' /\ \A j \in TrackIds : TrackInv(j)' /\ PerfInv(j)'
    <2>1. x \in TrackRows /\ x # Null  BY InputsTyped, NullRowAssumption
    <2>2. IsOpen /\ UNCHANGED <<dir, perf, handle, wPerf>>  BY <1>6 DEF update_track
    <2>3. \A j \in TrackIds : PerfInv(j)'  BY <2>2, <1>0 DEF PerfInv, DirVersion
    <2>4. HandleInv'  BY <2>2, <1>0 DEF HandleInv, IsOpen, version
    <2>5. CASE track[id] = Null
      <3>1. UNCHANGED <<track, wTrack>>  BY <1>6, <2>5 DEF update_track
      <3>. QED  BY <1>0, <2>2, <2>3, <2>4, <3>1 DEF TrackInv, DirVersion
    <2>6. CASE track[id] # Null
      <3>. DEFINE F == FieldsOf(DirVersion)
      <3>1. wTrack[id] # Null /\ dir.music \in TRIPLES
            /\ track[id] = Bind(wTrack[id], F)
        BY <2>6, <1>0 DEF TrackInv
      <3>2. UpdateTrackFields(version) = F  BY <2>2, OpenDispatch
      <3>3. /\ track' = [track EXCEPT ![id] =
                   [base |-> x.base,
                    opt  |-> [f \in OptFields |->
                                IF f \in F THEN x.opt[f] ELSE track[id].opt[f]]]]
            /\ wTrack' = [wTrack EXCEPT ![id] = x]
        BY <1>6, <2>6, <3>2 DEF update_track
      <3>4. track'[id] = Bind(x, F)
        BY <3>1, <3>3, <1>0, UpdateKeepsProjection DEF TypeOK
      <3>5. Bind(x, F) # Null  BY <2>1, BindTyped, NullRowAssumption
      <3>6. TrackInv(id)'
        BY <2>1, <2>2, <3>1, <3>3, <3>4, <3>5, <1>0 DEF TrackInv, DirVersion, TypeOK
      <3>7. \A j \in TrackIds \ {id} : TrackInv(j)'
        BY <2>2, <3>3, <1>0 DEF TrackInv, DirVersion, TypeOK
      <3>. QED  BY <2>3, <2>4, <3>6, <3>7
    <2>. QED  BY <2>5, <2>6
  <1>7. ASSUME NEW id \in TrackIds, clear_performance_data(id)
        PROVE HandleInv' /\ \A j \in TrackIds : TrackInv(j)' /\ PerfInv(j)'
    <2>1. /\ UNCHANGED <<dir, track, handle, wTrack>>
          /\ perf' = [perf EXCEPT ![id] = Null]
          /\ wPerf' = [wPerf EXCEPT ![id] = Null]
      BY <1>7 DEF clear_performance_data
    <2>2. \A j \in TrackIds : PerfInv(j)'  BY <2>1, <1>0 DEF PerfInv, DirVersion, TypeOK
    <2>. QED  BY <1>0, <2>1, <2>2 DEF HandleInv, TrackInv, DirVersion, IsOpen, version
  <1>8. ASSUME NEW id \in TrackIds, get_performance_data(id)
        PROVE HandleInv' /\ \A j \in TrackIds : TrackInv(j)' /\ PerfInv(j)'
    <2>1. UNCHANGED <<dir, track, perf, handle, wTrack, wPerf>>
      BY <1>8 DEF get_performance_data
    <2>. QED  BY <1>0, <2>1 DEF HandleInv, TrackInv, PerfInv, DirVersion, IsOpen, version
  <1>9. ASSUME NEW id \in TrackIds, NEW x \in PerfInputs, set_performance_data(id, x)
        PROVE HandleInv' /\ \A j \in TrackIds : TrackInv(j)' /\ PerfInv(j)'
    <2>0. CASE ~(SetPerfFlags(version) \subseteq PerfColumns(dir.perf))
      <3>1. UNCHANGED <<dir, track, perf, handle, wTrack, wPerf>>
        BY <1>9, <2>0 DEF set_performance_data
      <3>. QED  BY <1>0, <3>1 DEF HandleInv, TrackInv, PerfInv, DirVersion, IsOpen, version
    <2>. SUFFICES ASSUME SetPerfFlags(version) \subseteq PerfColumns(dir.perf)
                  PROVE  HandleInv' /\ \A j \in TrackIds : TrackInv(j)' /\ PerfInv(j)'
      BY <2>0
    <2>1. x \in PerfRows /\ x # Null  BY InputsTyped, NullRowAssumption
    <2>2. /\ IsOpen /\ UNCHANGED <<dir, track, handle, wTrack>>
          /\ perf' = [perf EXCEPT ![id] = BindPerf(x, SetPerfFlags(version))]
          /\ wPerf' = [wPerf EXCEPT ![id] = x]
      BY <1>9 DEF set_performance_data
    <2>3. SetPerfFlags(version) = FlagsOf(DirVersion)  BY <2>2, OpenDispatch
    <2>4. BindPerf(x, FlagsOf(DirVersion)) # Null
      BY <2>1, BindPerfTyped, NullRowAssumption
    <2>5. dir.music \in TRIPLES  BY <2>2, <1>0 DEF HandleInv
    <2>6. \A j \in TrackIds : PerfInv(j)'
      BY <2>1, <2>2, <2>3, <2>4, <2>5, <1>0 DEF PerfInv, DirVersion, TypeOK
    <2>. QED  BY <1>0, <2>2, <2>6 DEF HandleInv, TrackInv, DirVersion, IsOpen, version
  <1>10. CASE UNCHANGED vars
    BY <1>0, <1>10 DEF vars, HandleInv, TrackInv, PerfInv, DirVersion, IsOpen, version
  <1>. QED  BY <1>1, <1>2, <1>3, <1>4, <1>5, <1>6, <1>7, <1>8, <1>9, <1>10 DEF Next

\* StoreInv (checked by the storage_roundtrip run on two ids and six
\* triples) holds for every bound, value set and set of triples: every row
\* is the last write projected on the directory's version.
THEOREM StoreInvariant == Spec => []StoreInv
  BY StoreInvInit, StoreInvStep, PTL DEF Spec

LEMMA TrackReadStep ==
  ASSUME StoreInv
  PROVE  \A id \in TrackIds :
            get_track(id) =>
               res' = IF wTrack[id] = Null THEN Res("track_deleted", Null)
                      ELSE Res("track", Bind(wTrack[id], FieldsOf(version)))
  <1>. SUFFICES ASSUME NEW id \in TrackIds, get_track(id)
                PROVE  res' = IF wTrack[id] = Null THEN Res("track_deleted", Null)
                              ELSE Res("track", Bind(wTrack[id], FieldsOf(version)))
    OBVIOUS
  <1>1. IsOpen  BY DEF get_track
  <1>2. TrackInv(id)  BY StoreInvSplit
  <1>3. CASE wTrack[id] = Null
    BY <1>2, <1>3 DEF get_track, TrackInv
  <1>4. CASE wTrack[id] # Null
    <2>. DEFINE F == FieldsOf(DirVersion)
    <2>1. track[id] # Null /\ track[id] = Bind(wTrack[id], F)
      BY <1>2, <1>4 DEF TrackInv
    <2>2. GetTrackFields(version) = F /\ FieldsOf(version) = F
      BY <1>1, OpenDispatch
    <2>3. res' = Res("track", Bind(Bind(wTrack[id], F), F))
      BY <2>1, <2>2 DEF get_track
    <2>. QED  BY <1>4, <2>2, <2>3, BindIdem
  <1>. QED  BY <1>3, <1>4

LEMMA PerfReadStep ==
  ASSUME StoreInv
  PROVE  \A id \in TrackIds :
            get_performance_data(id) /\ res'.tag = "perf" =>
               res' = Res("perf", IF wPerf[id] = Null THEN DefaultPerf
                                  ELSE BindPerf(wPerf[id], FlagsOf(version)))
  <1>. SUFFICES ASSUME NEW id \in TrackIds, get_performance_data(id), res'.tag = "perf"
                PROVE  res' = Res("perf", IF wPerf[id] = Null THEN DefaultPerf
                                  ELSE BindPerf(wPerf[id], FlagsOf(version)))
    OBVIOUS
  <1>0. GetPerfFlags(version) \subseteq PerfColumns(dir.perf)
    <2>. SUFFICES ASSUME ~(GetPerfFlags(version) \subseteq PerfColumns(dir.perf))
                  PROVE  FALSE
      OBVIOUS
    <2>. QED  BY DEF get_performance_data, Res
  <1>1. IsOpen  BY DEF get_performance_data
  <1>2. PerfInv(id)  BY StoreInvSplit
  <1>3. CASE wPerf[id] = Null
    BY <1>0, <1>2, <1>3 DEF get_performance_data, PerfInv
  <1>4. CASE wPerf[id] # Null
    <2>. DEFINE G == FlagsOf(DirVersion)
    <2>1. perf[id] # Null /\ perf[id] = BindPerf(wPerf[id], G)
      BY <1>2, <1>4 DEF PerfInv
    <2>2. GetPerfFlags(version) = G /\ FlagsOf(version) = G
      BY <1>1, OpenDispatch
    <2>3. res' = Res("perf", BindPerf(BindPerf(wPerf[id], G), G))
      BY <1>0, <2>1, <2>2 DEF get_performance_data
    <2>. QED  BY <1>4, <2>2, <2>3, BindPerfIdem
  <1>. QED  BY <1>3, <1>4

\* TrackRoundTrip for every bound, value set and set of triples: get_track
\* returns the last create or update projected on the handle's version,
\* and track_deleted exactly when no track was created, across reopens.
THEOREM TrackRoundTripHolds == Spec => TrackRoundTrip
  <1>1. StoreInv => [\A id \in TrackIds :
                        get_track(id) =>
                           res' = IF wTrack[id] = Null THEN Res("track_deleted", Null)
                                  ELSE Res("track", Bind(wTrack[id], FieldsOf(version)))]_vars
    BY TrackReadStep
  <1>. QED  BY StoreInvariant, <1>1, PTL DEF TrackRoundTrip

\* PerfRoundTrip for every bound: a get_performance_data that does not throw
\* returns the last row set without a throw, with the flags the version
\* lacks read as zero, or the default row.
THEOREM PerfRoundTripHolds == Spec => PerfRoundTrip
  <1>1. StoreInv => [\A id \in TrackIds :
                        get_performance_data(id) /\ res'.tag = "perf" =>
                           res' = Res("perf", IF wPerf[id] = Null THEN DefaultPerf
                                  ELSE BindPerf(wPerf[id], FlagsOf(version)))]_vars
    BY PerfReadStep
  <1>. QED  BY StoreInvariant, <1>1, PTL DEF PerfRoundTrip

(***************************************************************************)
(* Refinement: el_storage implements LibraryStore under the mapping of     *)
(* ElStorage (the library is the version the music store states, the       *)
(* stored rows are the tables, the output is the last row read).           *)
(***************************************************************************)
\* What the mapping's version is: the music store's triple, as a plain
\* version, and never Null.
LEMMA MusicVersion ==
  ASSUME NEW t \in TRIPLES
  PROVE  Ver(t, "") \in LibVersions /\ Ver(t, "") # Null
  BY NullVersionAssumption DEF LibVersions

LEMMA LibOfFacts ==
  /\ dir.music \in TRIPLES => LibOf = DirVersion /\ LibOf \in LibVersions /\ LibOf # Null
  /\ dir.music \notin TRIPLES => LibOf = Null
  /\ dir'.music = dir.music => LibOf' = LibOf
  <1>1. dir.music \in TRIPLES => DirVersion \in LibVersions /\ DirVersion # Null
    BY MusicVersion DEF DirVersion
  <1>2. dir'.music = dir.music => LibOf' = LibOf  BY DEF LibOf, DirVersion
  <1>. QED  BY <1>1, <1>2 DEF LibOf

\* A result that is not a row read maps to no output.
LEMMA AckOut ==
  ASSUME NEW tag \in {"version", "database_not_found", "database_inconsistency",
                      "unsupported_schema", "id", "done", "sqlite_error"}, NEW val
  PROVE  (IF Res(tag, val) # Null /\ Res(tag, val).tag \in {"track", "track_deleted", "perf"}
          THEN Res(tag, val) ELSE Null)
         = Null
  BY DEF Res

\* While a handle is open, the mapped library is the directory's version and
\* the handle's dispatch names its columns.
LEMMA OpenLib ==
  ASSUME StoreInv, IsOpen
  PROVE  /\ LibOf = DirVersion
         /\ LibOf # Null
         /\ FieldsOf(version) = FieldsOf(LibOf)
  <1>1. dir.music \in TRIPLES  BY DEF StoreInv
  <1>. QED  BY <1>1, LibOfFacts, OpenDispatch

LEMMA RefineInit == Init => Abstract!Init
  <1>. SUFFICES ASSUME Init PROVE Abstract!Init  OBVIOUS
  <1>1. LibOf \in LibVersions \cup {Null}  BY LibOfFacts
  <1>2. handle.open = FALSE  BY DEF Init, Closed
  <1>3. track = [i \in TrackIds |-> Null] /\ perf = [i \in TrackIds |-> Null]
    BY DEF Init, NoRow
  <1>4. ReadOut = Null  BY DEF Init, ReadOut
  <1>. QED  BY <1>1, <1>2, <1>3, <1>4 DEF Abstract!Init, Abstract!Empty

LEMMA RefineStep ==
  StoreInv /\ [Next]_vars => [Abstract!Next]_Abstract!vars
  <1>. SUFFICES ASSUME StoreInv, [Next]_vars PROVE [Abstract!Next]_Abstract!vars
    OBVIOUS
  <1>0. TypeOK  BY DEF StoreInv
  <1>1. CASE open_existing
    <2>1. ~handle.open /\ UNCHANGED <<dir, track, perf>>
      BY <1>1 DEF open_existing, IsOpen
    <2>2. CASE UNCHANGED handle /\ res'.tag # "version"
      <3>1. res' \in {Res(g, Null) : g \in {"database_not_found",
                       "database_inconsistency", "unsupported_schema"}}
        BY <1>1, <2>2 DEF open_existing, Res
      <3>2. ReadOut' = Null  BY <3>1, AckOut DEF ReadOut
      <3>3. Abstract!Fail  BY <2>1, <2>2, <3>2, LibOfFacts DEF Abstract!Fail
      <3>. QED  BY <3>3 DEF Abstract!Next
    <2>3. CASE /\ ~VersionInconsistent(dir)
               /\ handle' = [open |-> TRUE, version |-> get_version(dir)]
               /\ res' = Res("version", get_version(dir))
      <3>1. dir.music \in TRIPLES  BY <1>0, <2>3, OpenedVersion DEF TypeOK
      <3>2. LibOf # Null  BY <3>1, LibOfFacts
      <3>3. ReadOut' = Null  BY <2>3, AckOut DEF ReadOut
      <3>4. Abstract!Open  BY <2>1, <2>3, <3>2, <3>3, LibOfFacts DEF Abstract!Open
      <3>. QED  BY <3>4 DEF Abstract!Next
    <2>. QED  BY <1>1, <2>2, <2>3 DEF open_existing, Res
  <1>2. ASSUME NEW v \in NewVersions, open_new(v) PROVE [Abstract!Next]_Abstract!vars
    <2>1. dir.music = NoTable /\ ~handle.open  BY <1>2 DEF open_new, IsOpen
    <2>2. LibOf = Null  BY <2>1, NoTableAssumption DEF LibOf
    <2>3. CASE v \notin SupportedVersions
      <3>1. /\ dir'.music = dir.music
            /\ UNCHANGED <<handle, track, perf>>
            /\ res' = Res("unsupported_schema", Null)
        BY <1>0, <1>2, <2>3 DEF open_new, TypeOK, Dirs
      <3>2. ReadOut' = Null  BY <3>1, AckOut DEF ReadOut
      <3>3. Abstract!Fail  BY <2>1, <3>1, <3>2, LibOfFacts DEF Abstract!Fail
      <3>. QED  BY <3>3 DEF Abstract!Next
    <2>4. CASE v \in SupportedVersions
      <3>1. /\ dir'.music = Triple(v)
            /\ handle' = [open |-> TRUE, version |-> v]
            /\ track' = NoRow /\ perf' = NoRow
            /\ res' = Res("version", v)
        BY <1>2, <2>4 DEF open_new
      <3>2. Triple(v) \in TRIPLES  BY NewVersionTriple
      <3>3. LibOf' \in LibVersions
        <4>1. LibOf' = Ver(Triple(v), "")  BY <3>1, <3>2 DEF LibOf, DirVersion
        <4>. QED  BY <3>2, <4>1, MusicVersion
      <3>4. ReadOut' = Null  BY <3>1, AckOut DEF ReadOut
      <3>5. Abstract!Create(LibOf')
        BY <2>1, <2>2, <3>1, <3>3, <3>4 DEF Abstract!Create, Abstract!Empty, NoRow
      <3>. QED  BY <3>3, <3>5 DEF Abstract!Next
    <2>. QED  BY <2>3, <2>4
  <1>3. CASE close
    <2>1. /\ handle.open /\ ~handle'.open /\ res' = Null
          /\ UNCHANGED <<dir, track, perf>>
      BY <1>3 DEF close, IsOpen, Closed
    <2>2. Abstract!Close  BY <2>1, LibOfFacts DEF Abstract!Close, ReadOut
    <2>. QED  BY <2>2 DEF Abstract!Next
  <1>4. ASSUME NEW x \in TrackInputs, create_track(x) PROVE [Abstract!Next]_Abstract!vars
    <2>1. IsOpen /\ UNCHANGED <<dir, perf, handle>>  BY <1>4 DEF create_track
    <2>2. PICK k \in TrackIds :
             /\ track[k] = Null
             /\ track' = [track EXCEPT ![k] = Bind(x, CreateTrackFields(version))]
             /\ res' = Res("id", k)
      BY <1>4 DEF create_track
    <2>3. CreateTrackFields(version) = FieldsOf(LibOf)
      BY <2>1, OpenDispatch, OpenLib
    <2>4. ReadOut' = Null  BY <2>2, AckOut DEF ReadOut
    <2>5. Abstract!Insert(k, x)
      BY <2>1, <2>2, <2>3, <2>4, LibOfFacts DEF Abstract!Insert, ProjectTrack, IsOpen
    <2>. QED  BY <2>5 DEF Abstract!Next
  <1>5. ASSUME NEW id \in TrackIds, get_track(id) PROVE [Abstract!Next]_Abstract!vars
    <2>1. IsOpen /\ UNCHANGED <<dir, track, perf, handle>>  BY <1>5 DEF get_track
    <2>2. CASE track[id] = Null
      <3>1. res' = Res("track_deleted", Null)  BY <1>5, <2>2 DEF get_track
      <3>2. ReadOut' = Abstract!Read("track_deleted", Null)
        BY <3>1 DEF ReadOut, Res, Abstract!Read
      <3>3. Abstract!Get(id)
        BY <2>1, <2>2, <3>2, LibOfFacts DEF Abstract!Get, IsOpen
      <3>. QED  BY <3>3 DEF Abstract!Next
    <2>3. CASE track[id] # Null
      <3>. DEFINE F == FieldsOf(DirVersion)
      <3>1. track[id] = Bind(wTrack[id], F)
        BY <2>3, StoreInvSplit DEF TrackInv
      <3>2. GetTrackFields(version) = F  BY <2>1, OpenDispatch
      <3>3. res' = Res("track", track[id])
        BY <1>5, <2>3, <3>1, <3>2, BindIdem DEF get_track
      <3>4. ReadOut' = Abstract!Read("track", track[id])
        BY <3>3 DEF ReadOut, Res, Abstract!Read
      <3>5. Abstract!Get(id)
        BY <2>1, <2>3, <3>4, LibOfFacts DEF Abstract!Get, IsOpen
      <3>. QED  BY <3>5 DEF Abstract!Next
    <2>. QED  BY <2>2, <2>3
  <1>6. ASSUME NEW id \in TrackIds, NEW x \in TrackInputs, update_track(id, x)
        PROVE [Abstract!Next]_Abstract!vars
    <2>1. IsOpen /\ UNCHANGED <<dir, perf, handle>> /\ res' = Res("done", Null)
      BY <1>6 DEF update_track
    <2>2. ReadOut' = Null  BY <2>1, AckOut DEF ReadOut
    <2>3. track' = IF track[id] = Null THEN track
                   ELSE [track EXCEPT ![id] = ProjectTrack(x, LibOf)]
      <3>1. CASE track[id] = Null
        BY <1>6, <3>1 DEF update_track
      <3>2. CASE track[id] # Null
        <4>. DEFINE F == FieldsOf(DirVersion)
        <4>1. track[id] = Bind(wTrack[id], F)
          BY <3>2, StoreInvSplit DEF TrackInv
        <4>2. UpdateTrackFields(version) = F  BY <2>1, OpenDispatch
        <4>3. track' = [track EXCEPT ![id] =
                   [base |-> x.base,
                    opt  |-> [f \in OptFields |->
                                IF f \in F THEN x.opt[f] ELSE Bind(wTrack[id], F).opt[f]]]]
          BY <1>6, <3>2, <4>1, <4>2 DEF update_track
        <4>4. LibOf = DirVersion  BY <2>1, OpenLib
        <4>. QED  BY <3>2, <4>3, <4>4, UpdateKeepsProjection DEF ProjectTrack
      <3>. QED  BY <3>1, <3>2
    <2>4. Abstract!Update(id, x)
      BY <2>1, <2>2, <2>3, LibOfFacts DEF Abstract!Update, IsOpen
    <2>. QED  BY <2>4 DEF Abstract!Next
  <1>7. ASSUME NEW id \in TrackIds, clear_performance_data(id)
        PROVE [Abstract!Next]_Abstract!vars
    <2>1. /\ IsOpen /\ UNCHANGED <<dir, track, handle>>
          /\ perf' = [perf EXCEPT ![id] = Null] /\ res' = Res("done", Null)
      BY <1>7 DEF clear_performance_data
    <2>2. ReadOut' = Null  BY <2>1, AckOut DEF ReadOut
    <2>3. Abstract!PClear(id)
      BY <2>1, <2>2, LibOfFacts DEF Abstract!PClear, IsOpen
    <2>. QED  BY <2>3 DEF Abstract!Next
  <1>8. ASSUME NEW id \in TrackIds, get_performance_data(id)
        PROVE [Abstract!Next]_Abstract!vars
    <2>1. IsOpen /\ UNCHANGED <<dir, track, perf, handle>>
      BY <1>8 DEF get_performance_data
    <2>0. CASE ~(GetPerfFlags(version) \subseteq PerfColumns(dir.perf))
      <3>1. res' = Res("sqlite_error", Null)  BY <1>8, <2>0 DEF get_performance_data
      <3>2. ReadOut' = Null  BY <3>1, AckOut DEF ReadOut
      <3>3. Abstract!Fail  BY <2>1, <3>2, LibOfFacts DEF Abstract!Fail
      <3>. QED  BY <3>3 DEF Abstract!Next
    <2>. SUFFICES ASSUME GetPerfFlags(version) \subseteq PerfColumns(dir.perf)
                  PROVE  [Abstract!Next]_Abstract!vars
      BY <2>0
    <2>2. res' = Res("perf", IF perf[id] = Null THEN DefaultPerf ELSE perf[id])
      <3>1. CASE perf[id] = Null  BY <1>8, <2>1, <3>1 DEF get_performance_data
      <3>2. CASE perf[id] # Null
        <4>. DEFINE G == FlagsOf(DirVersion)
        <4>1. perf[id] = BindPerf(wPerf[id], G)
          BY <3>2, StoreInvSplit DEF PerfInv
        <4>2. GetPerfFlags(version) = G  BY <2>1, OpenDispatch
        <4>. QED  BY <1>8, <2>1, <3>2, <4>1, <4>2, BindPerfIdem DEF get_performance_data
      <3>. QED  BY <3>1, <3>2
    <2>3. ReadOut' = Abstract!Read("perf", IF perf[id] = Null THEN DefaultPerf ELSE perf[id])
      BY <2>2 DEF ReadOut, Res, Abstract!Read
    <2>4. Abstract!PGet(id)
      BY <2>1, <2>3, LibOfFacts DEF Abstract!PGet, IsOpen
    <2>. QED  BY <2>4 DEF Abstract!Next
  <1>9. ASSUME NEW id \in TrackIds, NEW x \in PerfInputs, set_performance_data(id, x)
        PROVE [Abstract!Next]_Abstract!vars
    <2>0. CASE ~(SetPerfFlags(version) \subseteq PerfColumns(dir.perf))
      <3>1. /\ IsOpen /\ UNCHANGED <<dir, track, perf, handle>>
            /\ res' = Res("sqlite_error", Null)
        BY <1>9, <2>0 DEF set_performance_data
      <3>2. ReadOut' = Null  BY <3>1, AckOut DEF ReadOut
      <3>3. Abstract!Fail  BY <3>1, <3>2, LibOfFacts DEF Abstract!Fail
      <3>. QED  BY <3>3 DEF Abstract!Next
    <2>. SUFFICES ASSUME SetPerfFlags(version) \subseteq PerfColumns(dir.perf)
                  PROVE  [Abstract!Next]_Abstract!vars
      BY <2>0
    <2>1. /\ IsOpen /\ UNCHANGED <<dir, track, handle>>
          /\ perf' = [perf EXCEPT ![id] = BindPerf(x, SetPerfFlags(version))]
          /\ res' = Res("done", Null)
      BY <1>9 DEF set_performance_data
    <2>2. SetPerfFlags(version) = FlagsOf(LibOf)
      BY <2>1, OpenDispatch, OpenLib
    <2>3. ReadOut' = Null  BY <2>1, AckOut DEF ReadOut
    <2>4. Abstract!PSet(id, x)
      BY <2>1, <2>2, <2>3, LibOfFacts DEF Abstract!PSet, ProjectPerf, IsOpen
    <2>. QED  BY <2>4 DEF Abstract!Next
  <1>10. CASE UNCHANGED vars
    BY <1>10, LibOfFacts DEF vars, Abstract!vars, ReadOut
  <1>. QED  BY <1>1, <1>2, <1>3, <1>4, <1>5, <1>6, <1>7, <1>8, <1>9, <1>10 DEF Next

\* LibraryStoreSpec (checked by the storage_roundtrip run) for every bound,
\* value set and set of triples: every step of el_storage is a step of the
\* abstract store or leaves it unchanged.
THEOREM Refinement == Spec => LibraryStoreSpec
  BY RefineInit, RefineStep, StoreInvariant, PTL DEF Spec, LibraryStoreSpec, Abstract!Spec
=============================================================================
