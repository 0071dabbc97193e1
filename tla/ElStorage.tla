------------------------------ MODULE ElStorage ------------------------------
(***************************************************************************)
(* The version-dispatched storage facade el_storage of libdjinterop        *)
(* (el_storage.cpp, found in src/testdata/ref/sc5000/firmware-1.4.0/       *)
(* p.db.sql): opening a library directory and detecting its schema version *)
(* (get_version), creating a new library, and the Track and               *)
(* PerformanceData operations whose SQL shape depends on the version.      *)
(*                                                                         *)
(* One handle works on one library directory; the handle can be dropped    *)
(* and the directory opened again.  Every statement is autocommit, so each *)
(* operation is one atomic step on the tables of the directory.            *)
(*                                                                         *)
(* Data are abstracted: of the fourteen Track columns every version has,   *)
(* one ("base") stands for all; the columns added later (pdbImportKey in   *)
(* 1.7.1, fileBytes and uri in 1.15.0, isBeatGridLocked in 1.18.0) are     *)
(* kept one by one, each holding a value of VALS or Null.  The six         *)
(* performance blobs are one abstract value; the encode/decode pair is     *)
(* taken as exact (its code is not part of this model).                    *)
(***************************************************************************)
EXTENDS Integers, FiniteSets

CONSTANTS
    MaxTrackId,   \* track ids are 1 .. MaxTrackId
    VALS,         \* values of a Track column
    BLOBS,        \* encoded performance blobs other than the default
    TRIPLES,      \* schema version triples found in Information rows
    Null,         \* SQL NULL / an empty optional
    NoTable       \* an Information table that does not exist

ASSUME MaxTrackIdAssumption == MaxTrackId \in Nat \ {0}
ASSUME NullAssumption == Null \notin VALS \cup BLOBS
ASSUME TriplesAssumption == TRIPLES \subseteq (Nat \X Nat \X Nat)
ASSUME NoTableAssumption == NoTable \notin TRIPLES

TrackIds == 1 .. MaxTrackId

(***************************************************************************)
(* Semantic versions (semantic_version.hpp, enginelibrary.hpp; not in      *)
(* src/, modelled from spec 3): a triple and a variant tag, ordered by the  *)
(* triple alone.                                                           *)
(***************************************************************************)
Ver(t, var) == [maj |-> t[1], min |-> t[2], pat |-> t[3], var |-> var]

version_1_6_0     == Ver(<<1, 6, 0>>, "")
version_1_7_1     == Ver(<<1, 7, 1>>, "")
version_1_9_1     == Ver(<<1, 9, 1>>, "")
version_1_11_1    == Ver(<<1, 11, 1>>, "")
version_1_13_0    == Ver(<<1, 13, 0>>, "")
version_1_13_1    == Ver(<<1, 13, 1>>, "")
version_1_13_2    == Ver(<<1, 13, 2>>, "")
version_1_15_0    == Ver(<<1, 15, 0>>, "")
version_1_17_0    == Ver(<<1, 17, 0>>, "")
version_1_18_0_fw == Ver(<<1, 18, 0>>, "fw")
version_1_18_0_ep == Ver(<<1, 18, 0>>, "ep")

\* Null, which stands for no library, is not a version.
ASSUME NullVersionAssumption == \A t \in TRIPLES : Ver(t, "") # Null

\* The schema registry: the versions make_schema_creator_validator knows.
SupportedVersions ==
    {version_1_6_0, version_1_7_1, version_1_9_1, version_1_11_1,
     version_1_13_0, version_1_13_1, version_1_13_2, version_1_15_0,
     version_1_17_0, version_1_18_0_fw, version_1_18_0_ep}

Triple(v) == <<v.maj, v.min, v.pat>>

\* operator>= of semantic_version: lexicographic on the triple.
VGeq(a, b) ==
    \/ a.maj > b.maj
    \/ a.maj = b.maj /\ a.min > b.min
    \/ a.maj = b.maj /\ a.min = b.min /\ a.pat >= b.pat

(***************************************************************************)
(* Rows.                                                                   *)
(***************************************************************************)
OptFields == {"pdbImportKey", "fileBytes", "uri", "isBeatGridLocked"}

\* A track_row: the base columns and the later, optional ones.
TrackRows == [base : VALS \cup {Null}, opt : [OptFields -> VALS \cup {Null}]]

\* A performance_data_row: the blobs and the per-vendor flags whose columns
\* came later (hasRekordboxValues in 1.7.1, hasTraktorValues in 1.11.1).
PerfRows == [blobs : BLOBS \cup {Null}, rekordbox : {0, 1}, traktor : {0, 1}]

\* Null stands for a missing row as well as for a NULL column.
ASSUME NullRowAssumption == Null \notin TrackRows \cup PerfRows

\* performance_data_row{id}: default blobs and zero flags.
DefaultPerf == [blobs |-> Null, rekordbox |-> 0, traktor |-> 0]

\* The rows a caller passes in: every column set, to one value, so that a
\* column a statement leaves out reads back differently from one it keeps.
TrackInputs == {[base |-> a, opt |-> [f \in OptFields |-> a]] : a \in VALS}

PerfInputs == {[blobs |-> b, rekordbox |-> g, traktor |-> g] : b \in BLOBS, g \in {0, 1}}

\* The Information rows and the type of Track.isExternalTrack on disk.
Dirs == [exists : BOOLEAN, music : TRIPLES \cup {NoTable},
         perf : TRIPLES \cup {NoTable}, extType : {"NUMERIC", "INTEGER"}]

-----------------------------------------------------------------------------
(***************************************************************************)
(* Version dispatch, one operator per el_storage function.  Each gives the *)
(* optional columns the function's SQL names for the handle's version.     *)
(***************************************************************************)

\* create_track: the INSERT column list.
CreateTrackFields(v) ==
    IF VGeq(v, version_1_18_0_fw) THEN OptFields
    ELSE IF VGeq(v, version_1_15_0) THEN {"fileBytes", "pdbImportKey", "uri"}
    ELSE IF VGeq(v, version_1_7_1) THEN {"pdbImportKey"}
    ELSE {}

\* Mutant of GetTrackFields: the 1.15.0 branch's SELECT forgets uri.
GetTrackFieldsNoUri(v) ==
    IF VGeq(v, version_1_18_0_fw) THEN OptFields
    ELSE IF VGeq(v, version_1_15_0) THEN {"fileBytes", "pdbImportKey"}
    ELSE IF VGeq(v, version_1_7_1) THEN {"pdbImportKey"}
    ELSE {}

\* get_track: the SELECT column list (the others stay nullopt).
GetTrackFields(v) ==
    IF VGeq(v, version_1_18_0_fw) THEN OptFields
    ELSE IF VGeq(v, version_1_15_0) THEN {"fileBytes", "pdbImportKey", "uri"}
    ELSE IF VGeq(v, version_1_7_1) THEN {"pdbImportKey"}
    ELSE {}

\* Mutant of UpdateTrackFields: the 1.15.0 branch's SET list forgets uri.
UpdateTrackFieldsNoUri(v) ==
    IF VGeq(v, version_1_18_0_fw) THEN OptFields
    ELSE IF VGeq(v, version_1_15_0) THEN {"fileBytes", "pdbImportKey"}
    ELSE IF VGeq(v, version_1_7_1) THEN {"pdbImportKey"}
    ELSE {}

\* update_track: the UPDATE SET list.
UpdateTrackFields(v) ==
    IF VGeq(v, version_1_18_0_fw) THEN OptFields
    ELSE IF VGeq(v, version_1_15_0) THEN {"fileBytes", "pdbImportKey", "uri"}
    ELSE IF VGeq(v, version_1_7_1) THEN {"pdbImportKey"}
    ELSE {}

\* A row with only the named optional columns bound.
Bind(x, fields) ==
    [base |-> x.base,
     opt  |-> [f \in OptFields |-> IF f \in fields THEN x.opt[f] ELSE Null]]

\* get_performance_data / set_performance_data: the vendor flag columns
\* named by the SELECT and by the INSERT OR REPLACE.
GetPerfFlags(v) ==
    IF VGeq(v, version_1_11_1) THEN {"rekordbox", "traktor"}
    ELSE IF VGeq(v, version_1_7_1) THEN {"rekordbox"}
    ELSE {}

\* Mutant of SetPerfFlags: hasTraktorValues written only from 1.15.0 on.
SetPerfFlagsLate(v) ==
    IF VGeq(v, version_1_15_0) THEN {"rekordbox", "traktor"}
    ELSE IF VGeq(v, version_1_7_1) THEN {"rekordbox"}
    ELSE {}

SetPerfFlags(v) ==
    IF VGeq(v, version_1_11_1) THEN {"rekordbox", "traktor"}
    ELSE IF VGeq(v, version_1_7_1) THEN {"rekordbox"}
    ELSE {}

\* The vendor flag columns a version's PerformanceData table has (spec 3).
FlagsOf(v) ==
    {g \in {"rekordbox", "traktor"} :
        \/ g = "rekordbox" /\ VGeq(v, version_1_7_1)
        \/ g = "traktor" /\ VGeq(v, version_1_11_1)}

\* The flag columns of the PerformanceData table of a p.db whose Information
\* row states triple t.  A statement naming any other column fails to
\* prepare: SQLite reports "no such column" and the call throws.
PerfColumns(t) == FlagsOf(Ver(t, ""))

BindPerf(x, flags) ==
    [blobs     |-> x.blobs,
     rekordbox |-> IF "rekordbox" \in flags THEN x.rekordbox ELSE 0,
     traktor   |-> IF "traktor" \in flags THEN x.traktor ELSE 0]

\* get_version (lines 87-138) on the Information rows of a directory.  Both
\* statements that read a version triple select FROM music.Information, so
\* perfdata_version is the music store's triple.
music_version(d) == d.music
perfdata_version(d) == d.music

\* The two database_inconsistency throws of get_version: the table count
\* is not two, or the two triples differ.
VersionInconsistent(d) ==
    \/ Cardinality({s \in {"music", "perf"} : d[s] # NoTable}) # 2
    \/ music_version(d) # perfdata_version(d)

\* The version get_version returns once the checks pass: 1.18.0 is told
\* apart by the declared type of Track.isExternalTrack.
get_version(d) ==
    IF music_version(d) = <<1, 18, 0>>
    THEN IF d.extType = "NUMERIC" THEN version_1_18_0_ep ELSE version_1_18_0_fw
    ELSE Ver(music_version(d), "")

\* The versions a caller asks a new library to have: the supported ones
\* with a triple of TRIPLES, and plain triples the registry may not know.
NewVersions ==
    {v \in SupportedVersions : Triple(v) \in TRIPLES}
        \cup {Ver(t, "") : t \in TRIPLES \ {<<1, 18, 0>>}}

-----------------------------------------------------------------------------
VARIABLES
    dir,      \* the library directory: Information rows, isExternalTrack type
    track,    \* the Track table: id -> track row, or Null when no row
    perf,     \* the PerformanceData table: id -> row, or Null when no row
    handle,   \* the el_storage object: closed, or open with its version
    res,      \* the result (or the exception) of the last operation
    wTrack,   \* history: the track row last passed to create/update_track
    wPerf     \* history: the row last passed to set_performance_data

vars == <<dir, track, perf, handle, res, wTrack, wPerf>>

Closed == [open |-> FALSE, version |-> Null]

NoRow == [i \in TrackIds |-> Null]

\* A return value or a thrown exception, tagged.
Res(tag, val) == [tag |-> tag, val |-> val]

\* The library directory may already hold a library of any version, written
\* by a player or another program, or nothing.
Init ==
    /\ dir \in Dirs
    /\ ~dir.exists => dir.music = NoTable /\ dir.perf = NoTable
    /\ track = NoRow
    /\ perf = NoRow
    /\ handle = Closed
    /\ res = Null
    /\ wTrack = NoRow
    /\ wPerf = NoRow

IsOpen == handle.open
version == handle.version

(***************************************************************************)
(* el_storage(directory): make_attached_db(directory, true), get_version,  *)
(* then make_schema_creator_validator(version).                            *)
(***************************************************************************)
open_existing ==
    /\ ~IsOpen
    /\ \/ /\ ~dir.exists
          /\ res' = Res("database_not_found", Null)
          /\ UNCHANGED handle
       \/ /\ dir.exists /\ VersionInconsistent(dir)
          /\ res' = Res("database_inconsistency", Null)
          /\ UNCHANGED handle
       \/ /\ dir.exists /\ ~VersionInconsistent(dir)
          /\ get_version(dir) \notin SupportedVersions
          /\ res' = Res("unsupported_schema", Null)
          /\ UNCHANGED handle
       \/ /\ dir.exists /\ ~VersionInconsistent(dir)
          /\ get_version(dir) \in SupportedVersions
          /\ handle' = [open |-> TRUE, version |-> get_version(dir)]
          /\ res' = Res("version", get_version(dir))
    /\ UNCHANGED <<dir, track, perf, wTrack, wPerf>>

(***************************************************************************)
(* el_storage(directory, version): make_attached_db(directory, false)      *)
(* creates the directory when absent; the schema's create() (not in src/;  *)
(* spec 4.C) materialises every table and the Information rows on an      *)
(* empty store.  It is only modelled on a directory without a library.    *)
(* Per spec 3, the firmware variant types its boolean columns NUMERIC.     *)
(***************************************************************************)
open_new(v) ==
    /\ ~IsOpen
    /\ dir.music = NoTable /\ dir.perf = NoTable
    /\ IF v \notin SupportedVersions
       THEN /\ res' = Res("unsupported_schema", Null)
            /\ dir' = [dir EXCEPT !.exists = TRUE]
            /\ UNCHANGED <<handle, track, perf, wTrack, wPerf>>
       ELSE /\ dir' = [exists |-> TRUE, music |-> Triple(v), perf |-> Triple(v),
                       extType |-> IF v = version_1_18_0_fw THEN "NUMERIC"
                                   ELSE "INTEGER"]
            /\ handle' = [open |-> TRUE, version |-> v]
            /\ track' = NoRow
            /\ perf' = NoRow
            /\ wTrack' = NoRow
            /\ wPerf' = NoRow
            /\ res' = Res("version", v)

\* The handle is destroyed; the directory keeps what was written.
close ==
    /\ IsOpen
    /\ handle' = Closed
    /\ res' = Null
    /\ UNCHANGED <<dir, track, perf, wTrack, wPerf>>

(***************************************************************************)
(* Track operations.                                                       *)
(***************************************************************************)

\* create_track: INSERT, then last_insert_rowid(), the next rowid.
create_track(x) ==
    /\ IsOpen
    /\ \E id \in TrackIds :
         /\ track[id] = Null
         /\ \A j \in TrackIds : j < id => track[j] # Null
         /\ track' = [track EXCEPT ![id] = Bind(x, CreateTrackFields(version))]
         /\ wTrack' = [wTrack EXCEPT ![id] = x]
         /\ res' = Res("id", id)
    /\ UNCHANGED <<dir, perf, handle, wPerf>>

\* get_track: SELECT ... WHERE id = ?; track_deleted when no row.
get_track(id) ==
    /\ IsOpen
    /\ res' = IF track[id] = Null THEN Res("track_deleted", Null)
              ELSE Res("track", Bind(track[id], GetTrackFields(version)))
    /\ UNCHANGED <<dir, track, perf, handle, wTrack, wPerf>>

\* update_track: UPDATE ... WHERE id = ?, which changes no row when the
\* track does not exist.
update_track(id, x) ==
    /\ IsOpen
    /\ IF track[id] = Null
       THEN UNCHANGED <<track, wTrack>>
       ELSE LET set == UpdateTrackFields(version) IN
            /\ track' = [track EXCEPT ![id] =
                   [base |-> x.base,
                    opt  |-> [f \in OptFields |->
                                IF f \in set THEN x.opt[f] ELSE @.opt[f]]]]
            /\ wTrack' = [wTrack EXCEPT ![id] = x]
    /\ res' = Res("done", Null)
    /\ UNCHANGED <<dir, perf, handle, wPerf>>

(***************************************************************************)
(* PerformanceData operations.                                             *)
(***************************************************************************)

\* clear_performance_data: DELETE FROM PerformanceData WHERE id = ?.
clear_performance_data(id) ==
    /\ IsOpen
    /\ perf' = [perf EXCEPT ![id] = Null]
    /\ wPerf' = [wPerf EXCEPT ![id] = Null]
    /\ res' = Res("done", Null)
    /\ UNCHANGED <<dir, track, handle, wTrack>>

\* get_performance_data: the row read back, or performance_data_row{id}.
\* The SELECT is chosen by the handle's version but runs on the p.db, which
\* may state an older one (get_version never reads it), and then throws.
get_performance_data(id) ==
    /\ IsOpen
    /\ \/ /\ GetPerfFlags(version) \subseteq PerfColumns(dir.perf)
          /\ res' = Res("perf", IF perf[id] = Null THEN DefaultPerf
                                ELSE BindPerf(perf[id], GetPerfFlags(version)))
       \/ /\ ~(GetPerfFlags(version) \subseteq PerfColumns(dir.perf))
          /\ res' = Res("sqlite_error", Null)
    /\ UNCHANGED <<dir, track, perf, handle, wTrack, wPerf>>

\* set_performance_data: INSERT OR REPLACE of the whole row; on a p.db
\* without the columns it names, it throws and writes nothing.
set_performance_data(id, x) ==
    /\ IsOpen
    /\ \/ /\ SetPerfFlags(version) \subseteq PerfColumns(dir.perf)
          /\ perf' = [perf EXCEPT ![id] = BindPerf(x, SetPerfFlags(version))]
          /\ wPerf' = [wPerf EXCEPT ![id] = x]
          /\ res' = Res("done", Null)
       \/ /\ ~(SetPerfFlags(version) \subseteq PerfColumns(dir.perf))
          /\ res' = Res("sqlite_error", Null)
          /\ UNCHANGED <<perf, wPerf>>
    /\ UNCHANGED <<dir, track, handle, wTrack>>

Next ==
    \/ open_existing
    \/ \E v \in NewVersions : open_new(v)
    \/ close
    \/ \E x \in TrackInputs : create_track(x)
    \/ \E id \in TrackIds :
          \/ get_track(id)
          \/ \E x \in TrackInputs : update_track(id, x)
          \/ clear_performance_data(id)
          \/ get_performance_data(id)
          \/ \E x \in PerfInputs : set_performance_data(id, x)

Spec == Init /\ [][Next]_vars

-----------------------------------------------------------------------------
TypeOK ==
    /\ dir \in Dirs
    /\ track \in [TrackIds -> TrackRows \cup {Null}]
    /\ perf \in [TrackIds -> PerfRows \cup {Null}]
    /\ handle \in {Closed} \cup [open : {TRUE}, version : SupportedVersions]
    /\ wTrack \in [TrackIds -> TrackRows \cup {Null}]
    /\ wPerf \in [TrackIds -> PerfRows \cup {Null}]

(***************************************************************************)
(* The columns a version has, from spec 3: the projection every read must  *)
(* return.                                                                 *)
(***************************************************************************)
FieldsOf(v) ==
    {f \in OptFields :
        \/ f = "pdbImportKey" /\ VGeq(v, version_1_7_1)
        \/ f \in {"fileBytes", "uri"} /\ VGeq(v, version_1_15_0)
        \/ f = "isBeatGridLocked" /\ VGeq(v, version_1_18_0_fw)}

(***************************************************************************)
(* TrackRoundTrip: get_track returns what create_track or update_track     *)
(* last stored for that id, projected on the columns of the handle's       *)
(* version, and raises track_deleted exactly when no track was created     *)
(* (spec 8.4).  It spans the three hand-written copies of the version      *)
(* dispatch in create_track, update_track and get_track, and the handle    *)
(* being closed and the library reopened in between.                       *)
(***************************************************************************)
TrackRoundTrip ==
    [][\A id \in TrackIds :
         get_track(id) =>
            res' = IF wTrack[id] = Null THEN Res("track_deleted", Null)
                   ELSE Res("track", Bind(wTrack[id], FieldsOf(version)))]_vars

(***************************************************************************)
(* PerfRoundTrip: a get_performance_data that returns a row returns the    *)
(* row last set for the id by a set_performance_data that did not throw,   *)
(* with the vendor flags the version has no column for read as zero, and   *)
(* the default row when none was set or it was cleared (spec 3, 8.6).  It  *)
(* spans the two hand-written dispatches and reopens in between; a call    *)
(* on a p.db without the named columns throws and is not a read.           *)
(***************************************************************************)
PerfRoundTrip ==
    [][\A id \in TrackIds :
         get_performance_data(id) /\ res'.tag = "perf" =>
            res' = Res("perf", IF wPerf[id] = Null THEN DefaultPerf
                               ELSE BindPerf(wPerf[id], FlagsOf(version)))]_vars

(***************************************************************************)
(* StoreInv: what the tables hold is what was last passed in, projected   *)
(* on the columns of the version stated in the directory; a row exists    *)
(* exactly when one was written; an open handle's version has the         *)
(* directory's triple.  It ties the three copies of the track dispatch    *)
(* and the two of the performance dispatch to one another and to the     *)
(* version get_version reports on a later open.                           *)
(***************************************************************************)
DirVersion == Ver(dir.music, "")

StoreInv ==
    /\ TypeOK
    /\ IsOpen => dir.music \in TRIPLES /\ Triple(version) = dir.music
    /\ \A id \in TrackIds :
          /\ (track[id] = Null) <=> (wTrack[id] = Null)
          /\ wTrack[id] # Null =>
                /\ dir.music \in TRIPLES
                /\ track[id] = Bind(wTrack[id], FieldsOf(DirVersion))
          /\ (perf[id] = Null) <=> (wPerf[id] = Null)
          /\ wPerf[id] # Null =>
                /\ dir.music \in TRIPLES
                /\ perf[id] = BindPerf(wPerf[id], FlagsOf(DirVersion))

(***************************************************************************)
(* The refinement mapping onto LibraryStore, the abstract promise of the   *)
(* facade: the library's version is the one its music store states, the  *)
(* stored rows are the tables, and the visible output is the last row     *)
(* read.                                                                   *)
(***************************************************************************)
ProjectTrack(x, v) == Bind(x, FieldsOf(v))

ProjectPerf(x, v) == BindPerf(x, FlagsOf(v))

LibOf == IF dir.music \in TRIPLES THEN DirVersion ELSE Null

\* The versions a library in a directory may state.
LibVersions == {Ver(t, "") : t \in TRIPLES}

ReadOut ==
    IF res # Null /\ res.tag \in {"track", "track_deleted", "perf"} THEN res
    ELSE Null

Abstract == INSTANCE LibraryStore WITH
    Ids <- TrackIds, Versions <- LibVersions,
    TInputs <- TrackInputs, PInputs <- PerfInputs, DefaultP <- DefaultPerf,
    Project <- ProjectTrack, ProjectP <- ProjectPerf,
    lib <- LibOf, open <- handle.open, store <- track, pstore <- perf,
    out <- ReadOut

(***************************************************************************)
(* LibraryStoreSpec: el_storage implements LibraryStore.  Every operation  *)
(* on Track and PerformanceData, opening, creating and closing included,  *)
(* is a step of the abstract store or leaves it unchanged, so a read       *)
(* always returns the stored row projected on the library's version.  It   *)
(* covers the five hand-written version dispatches, the version detection *)
(* on reopen, and the failed opens and creates that must change nothing.  *)
(***************************************************************************)
LibraryStoreSpec == Abstract!Spec

(***************************************************************************)
(* VersionsAgree: a library opens only when the music and performance      *)
(* stores state the same schema version (spec 3 and 4.D step 2).           *)
(***************************************************************************)
VersionsAgree ==
    [][open_existing /\ handle'.open => dir.music = dir.perf]_vars

(***************************************************************************)
(* VariantDetection: a 1.18.0 library whose Track.isExternalTrack is typed *)
(* NUMERIC opens as the firmware variant, otherwise as the desktop one     *)
(* (spec 4.D step 3).                                                      *)
(***************************************************************************)
VariantDetection ==
    [][open_existing /\ handle'.open /\ dir.music = <<1, 18, 0>> =>
         handle'.version = IF dir.extType = "NUMERIC" THEN version_1_18_0_fw
                           ELSE version_1_18_0_ep]_vars
=============================================================================
