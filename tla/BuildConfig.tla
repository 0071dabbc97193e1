----------------------------- MODULE BuildConfig -----------------------------
(***************************************************************************)
(* How the CMake build (src/CMakeLists.txt) and the configuration header   *)
(* (src/include/djinterop/config.hpp) decide, together, whether the        *)
(* library and the programs that use it compile, and which functions a     *)
(* shared build of the library exports.                                    *)
(*                                                                         *)
(* A build directory is configured with one compiler and a choice of      *)
(* BUILD_SHARED_LIBS, the library is compiled, and then consumers are      *)
(* compiled against it: the unit tests of the same CMake directory, or an  *)
(* external project that links the exported target DjInterop::DjInterop   *)
(* with its own language standard and flags.  Every translation unit that  *)
(* includes a public header preprocesses config.hpp in its own macro       *)
(* environment.                                                            *)
(*                                                                         *)
(* A compiler is abstracted to the facts config.hpp and CMakeLists.txt     *)
(* test: whether it defines _WIN32, whether CMake sees it as MSVC, its     *)
(* __GNUC__ (0 when undefined), and whether CMake turns                    *)
(* CXX_VISIBILITY_PRESET into a flag for it.                               *)
(***************************************************************************)
EXTENDS Integers, FiniteSets

CONSTANTS
    Compilers,     \* the compilers a build directory may be configured with
    PublicSyms,    \* functions the public headers declare DJINTEROP_PUBLIC
    LocalSyms,     \* functions declared DJINTEROP_LOCAL
    Unconfigured,  \* a build directory not configured yet
    NotBuilt       \* a library not compiled yet

ASSUME CompilersAssumption ==
    Compilers \subseteq [win : BOOLEAN, msvc : BOOLEAN, gnuc : Nat,
                         vispreset : BOOLEAN]

\* The helpers util.hpp declares (lines 25-27): compiled into the library,
\* declared with no visibility macro.
UtilSyms == {"get_filename", "get_file_extension"}

AllSyms == PublicSyms \cup LocalSyms \cup UtilSyms

\* Values of __cplusplus: C++14 and C++17 mode, and what MSVC reports in
\* every mode unless it is given /Zc:__cplusplus.
Cxx14 == 201402
Cxx17 == 201703
MsvcLegacy == 199711

\* The value of __cplusplus a compiler defines in language mode std.
Cplusplus(c, std, zc) == IF c.msvc /\ ~zc THEN MsvcLegacy ELSE std

-----------------------------------------------------------------------------
(***************************************************************************)
(* config.hpp, preprocessed in a macro environment env: its __cplusplus,   *)
(* whether _WIN32 or __CYGWIN__ is defined, __GNUC__, and whether          *)
(* DJINTEROP_SOURCE is defined.  An attribute is "dllimport",              *)
(* "dllexport", "default" or "hidden" visibility, or "none" (the macro     *)
(* expands to nothing).                                                    *)
(***************************************************************************)

\* Lines 22-24: the header refuses to compile below C++17.
CxxGuard(env) == env.cplusplus >= Cxx17

\* Lines 26-40.
DJINTEROP_SYMBOL_IMPORT(env) ==
    IF env.win THEN "dllimport" ELSE IF env.gnuc >= 4 THEN "default" ELSE "none"

\* Mutant of DJINTEROP_SYMBOL_EXPORT: the GCC test is off by one.
SymbolExportGnuc5(env) ==
    IF env.win THEN "dllexport" ELSE IF env.gnuc > 4 THEN "default" ELSE "none"

DJINTEROP_SYMBOL_EXPORT(env) ==
    IF env.win THEN "dllexport" ELSE IF env.gnuc >= 4 THEN "default" ELSE "none"

DJINTEROP_SYMBOL_LOCAL(env) ==
    IF ~env.win /\ env.gnuc >= 4 THEN "hidden" ELSE "none"

\* Lines 42-47: export when building the library, import otherwise.
DJINTEROP_PUBLIC(env) ==
    IF env.source THEN DJINTEROP_SYMBOL_EXPORT(env) ELSE DJINTEROP_SYMBOL_IMPORT(env)

\* The attribute a declaration of symbol s carries in environment env.
Attr(env, s) ==
    IF s \in PublicSyms THEN DJINTEROP_PUBLIC(env)
    ELSE IF s \in LocalSyms THEN DJINTEROP_SYMBOL_LOCAL(env)
    ELSE "none"

-----------------------------------------------------------------------------
(***************************************************************************)
(* CMakeLists.txt.                                                         *)
(***************************************************************************)

\* Mutant of ZcFlag: /Zc:__cplusplus is not added for MSVC.
ZcFlagDropped(c) == FALSE

\* Lines 31-34: CMAKE_CXX_FLAGS gains /Zc:__cplusplus under MSVC, for every
\* target of this directory.
ZcFlag(c) == c.msvc

\* Lines 29-30 and 82: the library is compiled as C++17, with DJINTEROP_SOURCE.
LibraryEnv(c) ==
    [cplusplus |-> Cplusplus(c, Cxx17, ZcFlag(c)), win |-> c.win,
     gnuc |-> c.gnuc, source |-> TRUE]

\* Line 82 makes DJINTEROP_SOURCE a PUBLIC definition, so every target that
\* links DjInterop, in this directory or through the exported target, is
\* compiled with it too.
ConsumerEnv(c, std, zc) ==
    [cplusplus |-> Cplusplus(c, std, zc), win |-> c.win, gnuc |-> c.gnuc,
     source |-> TRUE]

\* Lines 140-141: default visibility is hidden where the compiler has a flag.
VisibilityHidden(c) == c.vispreset

\* Whether a shared library built by c exports a symbol of attribute a.
Exports(c, a) ==
    \/ a \in {"dllexport", "default"}
    \/ a = "none" /\ ~c.win /\ ~VisibilityHidden(c)

-----------------------------------------------------------------------------
VARIABLES
    build,      \* Unconfigured, or the compiler and BUILD_SHARED_LIBS
    lib,        \* NotBuilt, or whether it compiled and what it exports
    consumers   \* the consumers compiled against the library so far

vars == <<build, lib, consumers>>

Init ==
    /\ build = Unconfigured
    /\ lib = NotBuilt
    /\ consumers = {}

\* cmake -DBUILD_SHARED_LIBS=... with compiler c (lines 29-37).
configure(c, shared) ==
    /\ build = Unconfigured
    /\ build' = [compiler |-> c, shared |-> shared]
    /\ UNCHANGED <<lib, consumers>>

\* Compiling and linking the DjInterop target (lines 46-82, 140-141).
build_library ==
    /\ build # Unconfigured
    /\ lib = NotBuilt
    /\ LET c == build.compiler
           env == LibraryEnv(c)
       IN lib' = [compiled |-> CxxGuard(env),
                  exported |-> IF CxxGuard(env) /\ build.shared
                               THEN {s \in AllSyms : Exports(c, Attr(env, s))}
                               ELSE {}]
    /\ UNCHANGED <<build, consumers>>

\* A consumer that includes the public headers and calls the public API: it
\* compiles when config.hpp passes its guard, and links when every public
\* function resolves (from the archive, or from the shared library's exports).
Consumer(intree, std, zc) ==
    LET env == ConsumerEnv(build.compiler, std, zc)
    IN [intree |-> intree, std |-> std, env |-> env, compiled |-> CxxGuard(env),
        public |-> DJINTEROP_PUBLIC(env),
        resolved |-> ~build.shared \/ PublicSyms \subseteq lib.exported]

\* add_djinterop_test (lines 209-230): a test of this directory, compiled
\* with its C++17 setting and flags.
build_test ==
    /\ lib # NotBuilt /\ lib.compiled
    /\ consumers' = consumers \cup {Consumer(TRUE, Cxx17, ZcFlag(build.compiler))}
    /\ UNCHANGED <<build, lib>>

\* An external project using DjInterop::DjInterop (lines 143-147, 183-186),
\* with its own language mode and flags.
build_external(std, zc) ==
    /\ lib # NotBuilt /\ lib.compiled
    /\ consumers' = consumers \cup {Consumer(FALSE, std, zc)}
    /\ UNCHANGED <<build, lib>>

\* Removing the build directory.
clean ==
    /\ build # Unconfigured
    /\ build' = Unconfigured
    /\ lib' = NotBuilt
    /\ consumers' = {}

Next ==
    \/ \E c \in Compilers, shared \in BOOLEAN : configure(c, shared)
    \/ build_library
    \/ build_test
    \/ \E std \in {Cxx14, Cxx17}, zc \in BOOLEAN : build_external(std, zc)
    \/ clean

Spec == Init /\ [][Next]_vars

-----------------------------------------------------------------------------
\* The attributes a visibility macro expands to.
AttrValues == {"dllimport", "dllexport", "default", "hidden", "none"}

TypeOK ==
    /\ build \in {Unconfigured} \cup [compiler : Compilers, shared : BOOLEAN]
    /\ lib \in {NotBuilt} \cup [compiled : BOOLEAN, exported : SUBSET AllSyms]
    /\ consumers \subseteq [intree : BOOLEAN, std : {Cxx14, Cxx17}, env : [cplusplus : Nat,
                               win : BOOLEAN, gnuc : Nat, source : BOOLEAN],
                            compiled : BOOLEAN, public : AttrValues,
                            resolved : BOOLEAN]

(***************************************************************************)
(* ApiExported: a shared library, once compiled, exports exactly the       *)
(* functions declared DJINTEROP_PUBLIC: none of them is hidden by the      *)
(* hidden visibility preset, and neither the DJINTEROP_LOCAL functions nor *)
(* the unannotated helpers of util.hpp leak into its ABI.  It depends on   *)
(* config.hpp's compiler tests agreeing with the compilers CMake builds    *)
(* with hidden visibility (clang reports __GNUC__ 4).                      *)
(***************************************************************************)
ApiExported ==
    lib # NotBuilt /\ lib.compiled /\ build.shared =>
        lib.exported = PublicSyms

(***************************************************************************)
(* TestsBuild: with every compiler and library kind, the library compiles, *)
(* and every unit test of the directory compiles and links against it.     *)
(* The tests preprocess config.hpp with the directory's flags, so its      *)
(* C++17 guard must accept what the compiler reports there.                *)
(***************************************************************************)
TestsBuild ==
    /\ lib # NotBuilt => lib.compiled
    /\ \A k \in consumers : k.intree => k.compiled /\ k.resolved

(***************************************************************************)
(* ExternalCxx17Compiles: an external project that compiles in C++17 mode  *)
(* can include the public headers (config.hpp's "needs at least a C++17    *)
(* compliant compiler").                                                   *)
(***************************************************************************)
ExternalCxx17Compiles ==
    \A k \in consumers : ~k.intree /\ k.std = Cxx17 => k.compiled

(***************************************************************************)
(* ConsumersImport: config.hpp's comment says DJINTEROP_SOURCE is defined  *)
(* when building the library, as opposed to using it, so a consumer sees   *)
(* DJINTEROP_PUBLIC as the import attribute.                               *)
(***************************************************************************)
ConsumersImport ==
    \A k \in consumers :
        k.compiled => k.public = DJINTEROP_SYMBOL_IMPORT(k.env)
=============================================================================
