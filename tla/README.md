# Formal models of libdjinterop's Engine Library storage

This directory holds TLA+ models of the Engine Library storage layer of
libdjinterop, as far as its source is in `src/`, and of the build
configuration that decides whether the library and its users compile and
what a shared build exports. It contains TLC configurations that
model-check the models on small instances. It also contains TLAPS proofs,
for every instance, of every safety property that a passing run checks:
- the validator's exactness;
- the storage's round-trip invariant, and that the storage implements an
  abstract versioned store;
- the MetaData round trip: after a canonical bulk write, both readers
  return what spec 4.E says the write stores;
- the build's export set and test build, under the compiler condition
  that each depends on.

## The system and its parts

An Engine Library is a directory holding two SQLite databases: the music
store `m.db` and the performance store `p.db`. Both carry an `Information`
row with a schema version. `el_storage`
(`src/testdata/ref/sc5000/firmware-1.4.0/p.db.sql`, from line 36; the file
holds `el_storage.cpp` after an 8-line SQL dump) works as follows:

- It attaches both databases (`make_attached_db`).
- It detects the version (`get_version`), or creates a new library of a
  given version.
- It then issues version-specific SQL for Track, MetaData, MetaDataInteger
  and PerformanceData.

The schema definitions check a store against their reference catalog.
They use the helpers in `src/unnamed/part_001` (`schema_validate_utils.hpp`):

- four catalog lists, each read into a `std::set`;
- a `validate` overload per list;
- `validate_no_more`.

| Part | Source | Module | Status |
|---|---|---|---|
| Catalog lists, `validate`, `validate_no_more` | part_001 | `SchemaValidate` | modelled |
| Version detection, opening and creating a library | p.db.sql 40-164 | `ElStorage` | modelled (in-memory constructor not yet) |
| Track and PerformanceData operations | p.db.sql 166-546, 747-936 | `ElStorage` | modelled |
| MetaData and MetaDataInteger operations | p.db.sql 548-744 | `ElMetaData` | modelled |
| Schema registry, per-version `create()` | not in src/ | `ElStorage` (effect only) | partly, from the spec |
| Semantic versions, named version constants | not in src/ | `ElStorage` | from the spec |
| Blob codecs | not in src/ | none | not modelled: an exact encode/decode pair is assumed |
| Build configuration: config.hpp, CMakeLists.txt, util.hpp's declarations | src/include/djinterop/config.hpp, src/CMakeLists.txt, src/src/djinterop/impl/util.hpp | `BuildConfig` | modelled |
| Nix recipe | src/unnamed/part_000 (default.nix) | none | not modelled: it only declares a meson/ninja build with its dependencies, and has no state or logic |

`src/include/djinterop/config.hpp` is not written by hand: CMake
generates it (CMakeLists.txt:93-95, `configure_file`) from
`config.hpp.in`, which is not under src/. The model follows the generated
header in src/.

The build parts interact with the library through the preprocessor.
Every translation unit that includes a public header preprocesses
`config.hpp` in its own macro environment. CMake sets that environment:
the language standard, `/Zc:__cplusplus`, `DJINTEROP_SOURCE` and the
visibility preset.

## Modules

### `SchemaValidate`: the lockstep validator

State:

- `kind`: which catalog list is validated.
- `obs`: the in-order contents of the `std::set`. It is a sequence with
  strictly increasing keys, because `operator<` compares the key alone
  (lines 69-87).
- `ref`: the schema definition's reference list.
- `p`: the iterator, where `Len(obs)+1` is `end()`.
- `i`: the position in `ref`.
- `result`.

Each `validate` overload (lines 197-286) is an operator. It has the same
early returns in the same order:

1. `missing`;
2. `wrong_order` (for `index_info`, `wrong_rank`);
3. the field comparisons, in source order.

`FieldCheck` returns the error that the overload assigns to the first
differing field.

The walk itself is in the schema definitions, which are not in src/, so
it is modelled from spec 4.C:

- `StepOk` is a `validate` that does not throw, followed by `++iter`.
- `StepFail` is a `validate` that throws.
- `Finish` is `validate_no_more`.

Names are abstracted to naturals, so `<` stands for `std::string`'s order.
Strings that are equal for a whole list (db_name, table_name) are left out.

### `ElStorage`: opening a library, Track and PerformanceData

State:

- `dir`: the directory's Information tables, as version triples or
  `NoTable`, and the declared type of `Track.isExternalTrack`.
- `track`, `perf`: the two tables.
- `handle`: closed, or open with its version.
- `res`: the last result or exception.
- `wTrack`, `wPerf`: history variables holding the rows last passed in.

Actions, one per code path:

- `open_existing` is `el_storage(directory)`. It has every throw of
  `make_attached_db` and `get_version`.
- `open_new` is `el_storage(directory, version)`. Its `create()` part
  comes from the spec.
- `close`.
- One action per Track and PerformanceData method.

Every statement is autocommit, so each method is one step.

`get_performance_data` and `set_performance_data` choose their SQL by the
handle's version. That version is what `get_version` read from the music
store alone, but the SQL runs on the `p.db`. When the `p.db` states an
older version, its PerformanceData table lacks a flag column that the
statement names. SQLite then fails to prepare the statement ("no such
column"), and the call throws. The model has this path: `PerfColumns`
gives the flag columns of the `p.db`'s version (spec 3). When the named
flags are not among them, the action sets `res` to `sqlite_error` and
writes nothing. Such a library opens because of finding 1.

Data are abstracted:

- One column stands for the fourteen Track columns all versions share.
- The four later columns (pdbImportKey, fileBytes, uri, isBeatGridLocked)
  are kept one by one.
- The six blobs are one value.
- Each of the three version dispatches (`CreateTrackFields`,
  `GetTrackFields`, `UpdateTrackFields`) gives the set of optional columns
  its SQL names.

### `LibraryStore`: what the storage facade promises

`LibraryStore` is an abstract specification of the Track and
PerformanceData part of the facade, with no SQL, no version dispatch and
no version detection. Its state:

- `lib`: the library's version, or `Null`;
- `open`: whether a handle is open;
- `store` and `pstore`: each maps an id to its row;
- `out`: what the last read returned.

A row is stored as the caller's row projected on the version's columns.
An operation that throws (`Fail`) changes nothing a later read can see.
This covers an open or a create that fails, and a call on an open
library that throws.

`ElStorage` implements it. The refinement mapping `Abstract` (in
`ElStorage`) maps the variables as follows:

- `lib` is the version `get_version` would detect, or `Null` when the
  directory has no music `Information` table (`LibOf`);
- `open` is the handle's flag;
- the tables map to themselves;
- `out` is the result of a read, and `Null` after any other step.

Every `ElStorage` step is one abstract step or a stutter:

- `open_existing` maps to `Open`, and to `Fail` when it throws.
- `open_new` maps to `Create`, and to `Fail` for an unsupported version.
  That case creates the directory but no library
  (`make_attached_db` runs before the version is rejected).
- Each table method maps to the abstract operation of the same meaning.
- A performance-data call that throws maps to `Fail`.

### `ElMetaData`: MetaData and MetaDataInteger

Each table is a function from (id, type) to `Absent` (no row), `Null` (a
row with NULL text) or a value. The operations are:

- the per-slot setters, which do REPLACE;
- the bulk setters, which do one INSERT OR REPLACE of 15 or 12 rows, with
  the literals and NULLs of the unknown slots;
- the readers, which filter on `IS NOT NULL`.

A bulk write is one step, because it is one statement. Two history
variables, `bulkIn` and `bulkIntIn`, hold the caller's input to the last
bulk write of each table, until a per-slot setter writes to that track.

### `BuildConfig`: config.hpp and the CMake build

State:

- `build`: unconfigured, or a compiler and `BUILD_SHARED_LIBS`;
- `lib`: not built, or whether it compiled and which functions it exports;
- `consumers`: the translation units compiled against it.

A compiler is abstracted to what the two files test: `_WIN32`, CMake's
`MSVC`, `__GNUC__` (clang reports 4), and whether CMake has a flag for
`CXX_VISIBILITY_PRESET`. The MC module uses four compilers: gcc, clang,
MSVC and MinGW.

The `config.hpp` macros are operators of a macro environment, with the
same tests in the same order:

- the C++17 guard (`CxxGuard`);
- `DJINTEROP_SYMBOL_IMPORT`, `DJINTEROP_SYMBOL_EXPORT` and
  `DJINTEROP_SYMBOL_LOCAL`;
- `DJINTEROP_PUBLIC`.

`Cplusplus` models how MSVC reports `__cplusplus` as 199711 unless it is
given `/Zc:__cplusplus`.

The actions:

- `configure`;
- `build_library`, with the C++17 setting, the directory's flags, the
  `DJINTEROP_SOURCE` definition and hidden visibility;
- `build_test` (`add_djinterop_test`);
- `build_external`, a project using the exported target with its own
  standard and flags;
- `clean`.

## Runs

| Run | Checks | Result |
|---|---|---|
| `validate_exact` (`SchemaValidate.cfg`) | `ValidateExact`, `IInv` | pass, 698,608 states |
| `storage_roundtrip` (`ElStorage.cfg`) | `TrackRoundTrip`, `PerfRoundTrip`, `LibraryStoreSpec`, `StoreInv` | pass, 21,750 states |
| `metadata_roundtrip` (`ElMetaData.cfg`) | `MetaDataRoundTrip` | pass, 21,696 states |
| `versions_agree` | `VersionsAgree` | violation: code bug |
| `variant_detection` | `VariantDetection` | violation: divergence from spec |
| `metadata_canonical_count` | `CanonicalCount` | violation: divergence from spec |
| `build_config` (`BuildConfig.cfg`) | `ApiExported`, `TestsBuild` | pass, 121 states |
| `external_cxx17` (`BuildConfig_external.cfg`) | `ExternalCxx17Compiles` | violation: code bug |
| `consumers_import` (`BuildConfig_import.cfg`) | `ConsumersImport` | violation: divergence from comment |

**ValidateExact.** The walk accepts exactly the catalogs that equal the
reference on every key and compared field. On an error, the object it
names is the smallest differing key. A field error is the error that spec
4.C assigns (`FieldError`) to the first differing field, in the order
`validate` compares the fields. A swapped pair of checks breaks it.

**IInv.** The iterator and the reference position move together, and
everything passed has matched.

**TrackRoundTrip.** `get_track` returns the row last given to
`create_track` or `update_track`, projected on the columns of the version
(spec 3), or throws `track_deleted`. This holds across closing and
reopening.

**PerfRoundTrip.** A `get_performance_data` that returns a row returns
the row last set by a `set_performance_data` that did not throw. Flags the
version lacks read as 0, and a missing row reads as the default row. The
calls that throw on a mismatched `p.db` are excluded, and they must leave
no trace in later reads.

**StoreInv.** Every stored row is the last write projected on the
version the directory states, a row exists exactly when one was written,
and an open handle's version has the directory's triple. It ties together
the three copies of the track dispatch and the two copies of the
performance dispatch.

**LibraryStoreSpec.** `el_storage` implements `LibraryStore`. This
covers the partial failure of `el_storage(directory, version)`: an
unsupported version leaves a created directory behind. The property
requires that no later open sees a library there, and that no row
appears.

**MetaDataRoundTrip.** After a canonical bulk write, and until a per-slot
setter writes to that track, both readers of each table return what spec
4.E says the write stores:
- `get_all_meta_data` (and the integer variant) lists the caller's
  non-null values and the two literal rows ("1" in unknown_15 and
  unknown_16; 1 in unknown_11 and unknown_12), and no NULL slot;
- `get_meta_data` (and the integer variant) returns each slot's value,
  or nullopt.

The expected rows (`StrAfterBulk`, `IntAfterBulk`) come from the spec, not
from the writer's code. So a literal dropped from the writer, a
caller's value bound to the wrong slot, or a reader without its NULL
filter breaks the property.

Each property of a passing run has a mutant in PROJECT.json that breaks
it: a dropped check, two swapped error tags, a dropped column, a threshold moved by one version, a
dropped NULL filter, an export test off by one, a dropped
`/Zc:__cplusplus`.

**ApiExported.** A compiled shared library exports exactly the
`DJINTEROP_PUBLIC` functions. None is hidden by the visibility preset, and
neither `DJINTEROP_LOCAL` functions nor `util.hpp`'s unannotated helpers
leak. This relies on `config.hpp`'s `__GNUC__ >= 4` test matching every
compiler that CMake builds with hidden visibility.

**TestsBuild.** With every compiler and library kind, the library and
every in-tree test compile and link. The tests see `__cplusplus` through
the directory's flags, so the C++17 guard depends on `/Zc:__cplusplus`
reaching them.

### Bounds

- **SchemaValidate:** two keys and two values. Every sorted list of length
  0 to 2 is covered, on both sides, for all four kinds, so every error path
  and every field position is reached.
- **ElStorage:**
  - Version triples on both sides of each threshold (1.6.0, 1.7.1, 1.11.1,
    1.15.0, 1.18.0), plus an unknown 2.0.0.
  - Two track ids, so that a read hits an id with no row while another
    has one.
  - Two values per column. Inputs set every column, so a column a statement
    drops reads back differently.
  - Initial directories: every combination of the Information tables,
    including a missing one.
- **BuildConfig:** one public and one local symbol, plus the two
  `util.hpp` helpers. The four compilers cover every branch of the
  `config.hpp` tests. External consumers use C++14 and C++17, with and
  without `/Zc:__cplusplus`.
- **ElMetaData:** one track and two values. The per-slot setters are
  exercised on an unknown slot. There, a per-slot write undoes a literal,
  and a later bulk write restores it.

No run assumes fairness. All properties are safety properties, and the
code has no concurrency or retries. One handle issues autocommit
statements in program order.

### Findings

1. **Code bug.** `get_version` reads `perfdata_version` from
   `music.Information` (p.db.sql:114-117). The mismatch check can never
   fire, so a library whose `p.db` states another version opens. When that
   `p.db` is older than the music store, every `get_performance_data` and
   `set_performance_data` then throws, because the SQL names a flag
   column the `p.db` lacks.
2. **Divergence from the spec.** NUMERIC `isExternalTrack` yields
   `version_1_18_0_ep` (p.db.sql:133). Spec 4.D step 3 says it yields the
   firmware variant. The two cannot both be right. Under the spec's
   `create()`, a 1.18.0-fw library would reopen as ep.
3. **Divergence from the spec.** After the bulk `set_meta_data`,
   `get_all_meta_data` returns at most 12 rows, because NULL rows are
   filtered (p.db.sql:552). Spec 4.E agrees with the code: it says 15 rows
   are written, and that the bulk get returns the rows with non-null text.
   `MetaDataRoundTrip` checks that. Spec 8.5 and scenario S4 claim
   exactly 15 rows read back.
4. **Code bug.** An external MSVC project in C++17 mode, without
   `/Zc:__cplusplus`, fails `config.hpp`'s guard (config.hpp:22).
   `CMakeLists.txt` adds the flag to its own `CMAKE_CXX_FLAGS` only, and
   not to the exported target's usage requirements.
5. **Divergence from a comment.** `DJINTEROP_SOURCE` is a PUBLIC
   compile definition (CMakeLists.txt:82). So consumers, in-tree tests
   included, see `DJINTEROP_PUBLIC` as the export attribute. The comment
   at config.hpp:42 says it is defined only when building the library.
   On Windows, consumers therefore declare the API `dllexport` instead of
   `dllimport`.

## Proofs

TLAPS checks every proof. No theorem module reaches a RECURSIVE
definition.

### `SchemaValidateProofs`

These hold for every set of keys and values. The assumptions are
`KEYS ⊆ Nat` and `NoKey ∉ KEYS`.

- **`TypeCorrect`:** `Spec => []TypeOK`.
- **`InvariantHolds`:** `Spec => []IInv`.
- **`Soundness`:** `Spec => []ValidateSound`. An accepted catalog equals
  the reference position by position.

`ValidateSound` is not inductive, because it says nothing while the walk
runs. `IInv` strengthens it with three facts:

- `p = i`;
- every entry before `i` matched on key and compared fields;
- acceptance implies both lists are exhausted.

The step proof has one case per action:

- `StepOk` uses lemma `ValidateOk`: a `validate` that does not throw means
  the entry matched.
- `StepFail` never produces OK.
- `Finish` accepts only at `end()`.

`FirstField` shows that the `Min` of a nonempty subset of 1..4 is in it
and is least.

- **`ValidateExactHolds`:** `Spec => []ValidateExact`. A finished walk
  accepts exactly the catalogs with no difference. An error names the
  smallest differing key, and a field error is `FieldError`'s error for
  the first differing field. `ValidateOutcome` shows that each overload's
  field check raises the errors of `FieldError`, in order.

`ValidateExact` speaks only of the final outcome. Its inductive invariant
`EInv` adds three things to `IInv`:

- both lists are sorted;
- the lists never change;
- a finished walk's result is what the last call returned at the
  current positions (`LastCall`).

TLC checked `EInv` on the `validate_exact` instance before it was proved.
`ExactFromInv` then derives `ValidateExact` from `EInv`, one case per
branch of the last call:

- `ExactMissing`: `missing`;
- `ExactOrder`: `wrong_order` or `wrong_rank`;
- `ExactField`: a field error;
- `ExactMore`: `more_entries`;
- `ExactAccept`: acceptance.

Three lemmas carry the key-order argument:

- `AtIs`: in a sorted list, a key names one position.
- `PrefixClean`: no entry the walk has passed is a difference.
- `DiffAbove`: every difference lies at or after the current position,
  so it is no smaller than the key found there.

For these proofs, `Sorted` is stated pairwise. Every entry comes before
every entry of a greater key. This describes the same sequences as
comparing neighbours; TLC finds the same 698,608 states either way. The
pairwise form avoids an induction over positions, which the provers
cannot do.

### `ElStorageProofs`

These hold for every track-id bound, value set and set of version
triples. The assumptions:

- `TRIPLES ⊆ Nat³`;
- `NoTable ∉ TRIPLES`;
- `Null` is neither a row nor a value.

The theorems:

- **`TypeCorrect`:** `Spec => []TypeOK`.
- **`StoreInvariant`:** `Spec => []StoreInv`.
- **`TrackRoundTripHolds`:** `Spec => TrackRoundTrip`.
- **`PerfRoundTripHolds`:** `Spec => PerfRoundTrip`.
- **`Refinement`:** `Spec => LibraryStoreSpec`. It needs one more
  assumption, `NullVersionAssumption`: no version built from a triple is
  `Null`.

The argument:

1. `TrackDispatch` and `PerfDispatch` show that each of the five
   hand-written dispatches names exactly the columns that spec 3 gives the
   version (`FieldsOf`, `FlagsOf`). Each is a case split on the
   thresholds.
2. `SameTriple` shows that the dispatch depends only on the triple. So the
   `_fw` and `_ep` tags of 1.18.0 dispatch alike.
3. `OpenedVersion` shows that, once `get_version`'s checks pass, the music
   store states a triple and the returned version has it. The
   table-count check is discharged with `FS_Subset` and `FS_Singleton`.
4. `StoreInv` is inductive. Each action is a case:
   - `update_track` keeps the projection (`UpdateKeepsProjection`),
     because the columns it does not SET are NULL.
   - `open_new` runs only on a directory with no library, so no row
     exists there.
5. The round trips follow from `StoreInv`, because projecting twice
   changes nothing (`BindIdem`, `BindPerfIdem`). A performance-data call
   that throws writes neither the table nor `wPerf`, so `StoreInv` is kept.
   A read that throws is outside `PerfRoundTrip`.
6. The refinement is proved in two parts. `RefineInit` shows that an
   initial state maps to an abstract initial one. `RefineStep` shows,
   under `StoreInv`, that every step maps to an abstract step or a
   stutter. It has one case per action and one sub-case per code path of
   the opens and of the performance-data calls (a throw maps to `Fail`).
   `StoreInv` is what makes the mapped table writes equal the
   abstract projections. `LibOfFacts` shows that the mapped version
   changes only when `open_new` creates a library.

### `ElMetaDataProofs`

These hold for every set of track ids, texts and integers, under
`NullAssumption` and `TypesAssumption`.

- **`TypeCorrect`:** `Spec => []TypeOK`. A bulk write's canonical row set
  covers every type of its table (`CanonicalType`).
- **`MetaDataRoundTripHolds`:** `Spec => MetaDataRoundTrip`. Its
  inductive invariant `BulkInv` says that, while `bulkIn[id]` is set, the
  track's rows are `Canonical` of that input, and likewise for the
  integer table. A per-slot write clears the history, and a bulk write
  sets both sides at once. From `BulkInv`:
  - `CanonicalStr` and `CanonicalInt` show that the writer's row set is
    the spec's (`StrAfterBulk`, `IntAfterBulk`);
  - `ReadsOfFullRow` shows that, on a row set with no missing row, the
    bulk reader returns the non-NULL rows and the per-type reader returns
    the slot.

### `BuildConfigProofs`

These hold for every set of compilers and of public and local functions.

- **`BuildInvariant`:** `Spec => []BInv`. The invariant says:
  - an unconfigured directory holds no library;
  - nothing is compiled before the library;
  - the library is what `build_library` makes of the current
    configuration (`Built`).
- **`TestsBuildHolds`:** `Spec => []TestsBuild`, under the hypothesis
  `VisibilityCompatible`. It says that every non-Windows compiler CMake
  hides symbols with reports `__GNUC__ >= 4`. Without it, a public
  function expands to no attribute, is hidden by the preset, and the
  tests do not link.
- **`ApiExportedHolds`:** `Spec => []ApiExported`, under the hypothesis
  `GnuCompatible`. It says that every non-Windows compiler reports
  `__GNUC__ >= 4` and has the visibility flag. Without the flag, the
  unannotated `util.hpp` helpers are exported. Without `__GNUC__ >= 4`,
  `DJINTEROP_LOCAL` hides nothing.

The two hypotheses are theorem hypotheses, not module assumptions. They
are the exact conditions under which `config.hpp`'s tests match the
CMake build, and the four compilers of the TLC instance meet both.

### Checked only by TLC

- Liveness: none is claimed. Every operation is a synchronous call that
  returns or throws, so there is nothing a fairness assumption would be
  about.
- That the violation runs really fail (`VersionsAgree`,
  `VariantDetection`, `CanonicalCount`, `ExternalCxx17Compiles`,
  `ConsumersImport`). Each is shown by a TLC counterexample.
- Anything about ENABLED.
- What recursive definitions compute for every input.

## Not modelled

- The in-memory constructor (p.db.sql 159-164). It is a `make_attached_db`
  on `:memory:` followed by the same `create()` as `open_new`.
- A transaction guard, and crashes. The bulk MetaData writes are single
  statements, so a crash cannot split them. Nothing in src/ opens a
  transaction.
- More than one handle on a directory. The code has no locking of its
  own and leaves it to SQLite.
- default.nix (a meson/ninja build), and the pkg-config and package
  files CMake configures, which are not in src/.

## Plan for the next sittings

1. Model the in-memory constructor.
2. Model `create()` failing half-way, against the hazard at
   p.db.sql:155.
