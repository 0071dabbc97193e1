--------------------------- MODULE BuildConfigProofs ---------------------------
(***************************************************************************)
(* Proofs about the build configuration: for every set of compilers that   *)
(* meets the condition config.hpp relies on, and every set of public and   *)
(* local functions, the in-tree tests build and a shared library exports   *)
(* exactly its public API.                                                 *)
(***************************************************************************)
EXTENDS BuildConfig, TLAPS

\* What build_library leaves in lib for build directory b.
Built(b) ==
    [compiled |-> CxxGuard(LibraryEnv(b.compiler)),
     exported |-> IF CxxGuard(LibraryEnv(b.compiler)) /\ b.shared
                  THEN {s \in AllSyms : Exports(b.compiler,
                                                Attr(LibraryEnv(b.compiler), s))}
                  ELSE {}]

(***************************************************************************)
(* The inductive invariant: an unconfigured directory holds no library, no *)
(* consumer is compiled before the library, and the library is what       *)
(* build_library made of the current configuration.  The configuration    *)
(* and the library only change together, through clean.                   *)
(***************************************************************************)
BInv ==
    /\ TypeOK
    /\ build = Unconfigured => lib = NotBuilt
    /\ lib = NotBuilt => consumers = {}
    /\ lib # NotBuilt => lib = Built(build)

\* The attribute strings and the library environment's shape.
LEMMA EnvFacts ==
    ASSUME NEW c \in Compilers
    PROVE  /\ LibraryEnv(c).source = TRUE
           /\ LibraryEnv(c).win = c.win
           /\ LibraryEnv(c).gnuc = c.gnuc
           /\ CxxGuard(LibraryEnv(c))
  BY CompilersAssumption DEF LibraryEnv, Cplusplus, ZcFlag, CxxGuard, Cxx17,
                             MsvcLegacy

\* A consumer record built in any configuration has the type TypeOK gives.
LEMMA ConsumerType ==
    ASSUME NEW c \in Compilers, NEW intree \in BOOLEAN,
           NEW std \in {Cxx14, Cxx17}, NEW zc \in BOOLEAN, NEW shared,
           NEW l \in [compiled : BOOLEAN, exported : SUBSET AllSyms]
    PROVE  LET env == ConsumerEnv(c, std, zc)
           IN  [intree |-> intree, std |-> std, env |-> env,
                compiled |-> CxxGuard(env), public |-> DJINTEROP_PUBLIC(env),
                resolved |-> ~shared \/ PublicSyms \subseteq l.exported]
                  \in [intree : BOOLEAN, std : {Cxx14, Cxx17},
                       env : [cplusplus : Nat, win : BOOLEAN, gnuc : Nat,
                              source : BOOLEAN],
                       compiled : BOOLEAN, public : AttrValues, resolved : BOOLEAN]
  <1>. DEFINE env == ConsumerEnv(c, std, zc)
  <1>1. env \in [cplusplus : Nat, win : BOOLEAN, gnuc : Nat, source : BOOLEAN]
    BY CompilersAssumption DEF ConsumerEnv, Cplusplus, Cxx14, Cxx17, MsvcLegacy
  <1>2. CxxGuard(env) \in BOOLEAN  BY DEF CxxGuard
  <1>3. DJINTEROP_PUBLIC(env) \in AttrValues
    BY DEF DJINTEROP_PUBLIC, DJINTEROP_SYMBOL_EXPORT, DJINTEROP_SYMBOL_IMPORT,
           AttrValues
  <1>. QED  BY <1>1, <1>2, <1>3

LEMMA BInvInit == Init => BInv
  BY DEF Init, BInv, TypeOK

LEMMA BInvStep == BInv /\ [Next]_vars => BInv'
  <1>. SUFFICES ASSUME BInv, [Next]_vars PROVE BInv'  OBVIOUS
  <1>1. ASSUME NEW c \in Compilers, NEW shared \in BOOLEAN, configure(c, shared)
        PROVE  BInv'
    BY <1>1 DEF configure, BInv, TypeOK
  <1>2. CASE build_library
    <2>1. build \in [compiler : Compilers, shared : BOOLEAN]
      BY <1>2 DEF build_library, BInv, TypeOK
    <2>2. lib' = Built(build)  BY <1>2 DEF build_library, Built
    <2>3. Built(build) \in [compiled : BOOLEAN, exported : SUBSET AllSyms]
      BY <2>1, EnvFacts DEF Built
    <2>. QED  BY <1>2, <2>2, <2>3 DEF build_library, BInv, TypeOK
  <1>3. CASE build_test
    <2>1. build \in [compiler : Compilers, shared : BOOLEAN]
          /\ lib \in [compiled : BOOLEAN, exported : SUBSET AllSyms]
      BY <1>3 DEF build_test, BInv, TypeOK
    <2>2. ZcFlag(build.compiler) \in BOOLEAN
      BY <2>1, CompilersAssumption DEF ZcFlag
    <2>3. Consumer(TRUE, Cxx17, ZcFlag(build.compiler))
             \in [intree : BOOLEAN, std : {Cxx14, Cxx17},
                  env : [cplusplus : Nat, win : BOOLEAN, gnuc : Nat,
                         source : BOOLEAN],
                  compiled : BOOLEAN, public : AttrValues, resolved : BOOLEAN]
      BY <2>1, <2>2, ConsumerType DEF Consumer
    <2>. QED  BY <1>3, <2>3 DEF build_test, BInv, TypeOK
  <1>4. ASSUME NEW std \in {Cxx14, Cxx17}, NEW zc \in BOOLEAN,
               build_external(std, zc)
        PROVE  BInv'
    <2>1. build \in [compiler : Compilers, shared : BOOLEAN]
          /\ lib \in [compiled : BOOLEAN, exported : SUBSET AllSyms]
      BY <1>4 DEF build_external, BInv, TypeOK
    <2>3. Consumer(FALSE, std, zc)
             \in [intree : BOOLEAN, std : {Cxx14, Cxx17},
                  env : [cplusplus : Nat, win : BOOLEAN, gnuc : Nat,
                         source : BOOLEAN],
                  compiled : BOOLEAN, public : AttrValues, resolved : BOOLEAN]
      BY <2>1, ConsumerType DEF Consumer
    <2>. QED  BY <1>4, <2>3 DEF build_external, BInv, TypeOK
  <1>5. CASE clean  BY <1>5 DEF clean, BInv, TypeOK
  <1>6. CASE UNCHANGED vars  BY <1>6 DEF vars, BInv, TypeOK, Built
  <1>. QED  BY <1>1, <1>2, <1>3, <1>4, <1>5, <1>6 DEF Next

\* The build configuration invariant holds in every reachable state.
THEOREM BuildInvariant == Spec => []BInv
  BY BInvInit, BInvStep, PTL DEF Spec

-----------------------------------------------------------------------------
(***************************************************************************)
(* The conditions on the compilers.  config.hpp gives exported functions   *)
(* default visibility only when __GNUC__ >= 4, and hides DJINTEROP_LOCAL   *)
(* ones under the same test; CMakeLists.txt line 140 hides everything else *)
(* only where CMake has a visibility flag for the compiler.                *)
(*                                                                         *)
(* VisibilityCompatible: a non-Windows compiler CMake hides symbols with   *)
(* reports __GNUC__ >= 4 (GCC 4 and later, Clang).  GnuCompatible: every   *)
(* non-Windows compiler reports __GNUC__ >= 4 and has the visibility flag. *)
(***************************************************************************)
VisibilityCompatible ==
    \A c \in Compilers : ~c.win /\ c.vispreset => c.gnuc >= 4

GnuCompatible ==
    \A c \in Compilers : ~c.win => c.gnuc >= 4 /\ c.vispreset

\* A public function is exported by the shared library built by c.
LEMMA PublicExported ==
    ASSUME VisibilityCompatible, NEW c \in Compilers, NEW s \in PublicSyms
    PROVE  Exports(c, Attr(LibraryEnv(c), s))
  <1>1. Attr(LibraryEnv(c), s) = DJINTEROP_SYMBOL_EXPORT(LibraryEnv(c))
    BY EnvFacts DEF Attr, DJINTEROP_PUBLIC
  <1>. QED
    BY <1>1, EnvFacts, CompilersAssumption DEF VisibilityCompatible,
       DJINTEROP_SYMBOL_EXPORT, Exports, VisibilityHidden

\* Neither a local function nor an unannotated one is exported.
LEMMA OthersHidden ==
    ASSUME GnuCompatible, NEW c \in Compilers, NEW s \in AllSyms \ PublicSyms
    PROVE  ~Exports(c, Attr(LibraryEnv(c), s))
  <1>1. Attr(LibraryEnv(c), s) \in {"hidden", "none"}
    BY EnvFacts DEF Attr, DJINTEROP_SYMBOL_LOCAL
  <1>2. Attr(LibraryEnv(c), s) = "none" => c.win \/ VisibilityHidden(c)
    BY EnvFacts, CompilersAssumption DEF GnuCompatible, VisibilityHidden
  <1>. QED  BY <1>1, <1>2 DEF Exports

LEMMA TestsInit == Init => TestsBuild
  BY DEF Init, TestsBuild

LEMMA TestsStep ==
    ASSUME VisibilityCompatible
    PROVE  BInv /\ TestsBuild /\ [Next]_vars => TestsBuild'
  <1>. SUFFICES ASSUME BInv, TestsBuild, [Next]_vars PROVE TestsBuild'  OBVIOUS
  <1>0. BInv'  BY BInvStep
  <1>1. lib' # NotBuilt => lib'.compiled
    <2>. SUFFICES ASSUME lib' # NotBuilt PROVE lib'.compiled  OBVIOUS
    <2>1. build'.compiler \in Compilers /\ lib' = Built(build')
      BY <1>0 DEF BInv, TypeOK
    <2>2. CxxGuard(LibraryEnv(build'.compiler))  BY <2>1, EnvFacts
    <2>. QED  BY <2>1, <2>2 DEF Built
  <1>2. CASE build_test
    <2>1. build \in [compiler : Compilers, shared : BOOLEAN] /\ lib = Built(build)
      BY <1>2 DEF build_test, BInv, TypeOK
    <2>. DEFINE c == build.compiler
    <2>2. CxxGuard(ConsumerEnv(c, Cxx17, ZcFlag(c)))
      BY <2>1, CompilersAssumption DEF ConsumerEnv, Cplusplus, ZcFlag, CxxGuard,
         Cxx17, MsvcLegacy
    <2>3. build.shared => PublicSyms \subseteq lib.exported
      BY <2>1, EnvFacts, PublicExported DEF Built, AllSyms
    <2>4. LET k == Consumer(TRUE, Cxx17, ZcFlag(c)) IN k.compiled /\ k.resolved
      BY <2>2, <2>3 DEF Consumer
    <2>5. consumers' = consumers \cup {Consumer(TRUE, Cxx17, ZcFlag(c))}
      BY <1>2 DEF build_test
    <2>. QED  BY <1>1, <2>4, <2>5 DEF TestsBuild
  <1>3. ASSUME NEW std \in {Cxx14, Cxx17}, NEW zc \in BOOLEAN,
               build_external(std, zc)
        PROVE  TestsBuild'
    <2>1. consumers' = consumers \cup {Consumer(FALSE, std, zc)}
      BY <1>3 DEF build_external
    <2>2. ~Consumer(FALSE, std, zc).intree  BY DEF Consumer
    <2>. QED  BY <1>1, <2>1, <2>2 DEF TestsBuild
  <1>4. CASE clean  BY <1>4 DEF clean, TestsBuild
  <1>5. ASSUME NEW c \in Compilers, NEW shared \in BOOLEAN, configure(c, shared)
        PROVE  TestsBuild'
    BY <1>5 DEF configure, TestsBuild
  <1>6. CASE build_library  BY <1>1, <1>6 DEF build_library, TestsBuild
  <1>7. CASE UNCHANGED vars  BY <1>7 DEF vars, TestsBuild
  <1>. QED  BY <1>2, <1>3, <1>4, <1>5, <1>6, <1>7 DEF Next

\* TestsBuild: on every compiler whose visibility flag comes with
\* __GNUC__ >= 4, the library and every in-tree test compile and link,
\* static or shared: /Zc:__cplusplus reaches the tests under MSVC, and the
\* shared library exports every function the tests call.
THEOREM TestsBuildHolds ==
    ASSUME VisibilityCompatible
    PROVE  Spec => []TestsBuild
  <1>1. Init => BInv /\ TestsBuild  BY BInvInit, TestsInit
  <1>2. BInv /\ TestsBuild /\ [Next]_vars => (BInv /\ TestsBuild)'
    BY BInvStep, TestsStep
  <1>. QED  BY <1>1, <1>2, PTL DEF Spec

\* ApiExported: on Windows and on every GCC-compatible compiler, a shared
\* library exports exactly the DJINTEROP_PUBLIC functions: none hidden by
\* the visibility preset, no DJINTEROP_LOCAL or util.hpp helper leaked.
THEOREM ApiExportedHolds ==
    ASSUME GnuCompatible
    PROVE  Spec => []ApiExported
  <1>1. VisibilityCompatible  BY DEF GnuCompatible, VisibilityCompatible
  <1>2. BInv => ApiExported
    <2>. SUFFICES ASSUME BInv, lib # NotBuilt, lib.compiled, build.shared
                  PROVE  lib.exported = PublicSyms
      BY DEF ApiExported
    <2>1. build \in [compiler : Compilers, shared : BOOLEAN] /\ lib = Built(build)
      BY DEF BInv, TypeOK
    <2>2. lib.exported = {s \in AllSyms : Exports(build.compiler,
                             Attr(LibraryEnv(build.compiler), s))}
      BY <2>1, EnvFacts DEF Built
    <2>3. \A s \in PublicSyms : Exports(build.compiler,
                                    Attr(LibraryEnv(build.compiler), s))
      BY <1>1, <2>1, PublicExported
    <2>4. \A s \in AllSyms \ PublicSyms :
             ~Exports(build.compiler, Attr(LibraryEnv(build.compiler), s))
      BY <2>1, OthersHidden
    <2>. QED  BY <2>2, <2>3, <2>4 DEF AllSyms
  <1>. QED  BY <1>2, BuildInvariant, PTL
=============================================================================
