----------------------------- MODULE Detection -----------------------------
(***************************************************************************)
(* One detection of the toolchains of a host: Detector of                  *)
(* pkg/runtimes/cpp/native/detector.go, and CppDiscoverer, which registers *)
(* a runtime for each.                                                     *)
(*                                                                         *)
(* The detector asks a compiler by running it, again and again.  A run     *)
(* that fails is no error: where every candidate has failed the detector   *)
(* goes on with a default.  The loops are nested; what is left of those of *)
(* one executable is a list of tasks, and a step is a run of the compiler  *)
(* for the first of them.  The daemon detects when it starts, under a      *)
(* context that is never done.                                             *)
(*                                                                         *)
(* An executable is a record: "of" is the compiler it is named after,      *)
(* "suffix" the rest of its name, "works" says that it compiles a program, *)
(* "archs" and "stdlibs" which programs.  The probe for musl adds "-lc" to *)
(* the one for glibc, which every C compiler links anyway.                 *)
(***************************************************************************)
EXTENDS Naturals, Sequences

CONSTANT Hosts  \* the hosts to detect on

Unknown   == "unknown"
Compilers == <<"gcc", "g++", "clang", "clang++">>
CRuntimes == <<"glibc", "musl">>
Archs     == <<"x86_64", "aarch64", "arm">>

ASSUME HostsAssumption ==
  Hosts \subseteq
    [path : Seq([of : STRING, suffix : STRING, version : STRING, works : BOOLEAN,
                 archs : SUBSET {"x86_64", "aarch64", "arm"},
                 stdlibs : SUBSET {"libstdc++", "libc++"}]),
     archiver : BOOLEAN, glibc : STRING]

VARIABLES
  host,       \* the executables along PATH, whether there is an archiver, glibc's version
  unseen,     \* the places in PATH of the compilers that have not been asked yet
  left,       \* the tasks that are left of the one that is being asked
  tried,      \* how many candidates have been tried for the first task
  passed,     \* those that have passed
  toolchains, \* what has been detected
  registry,   \* the toolchains with a registered runtime
  detected    \* whether the detection has ended

askVars    == <<unseen, left, tried, passed>>
detectVars == <<host, askVars, toolchains, registry, detected>>

LanguageOf(name) == IF name \in {"gcc", "clang"} THEN "c" ELSE "cpp"
CompilerOf(name) == IF name \in {"gcc", "g++"} THEN "gcc" ELSE "clang"

\* "gcc" and "gcc-13" are the compiler, "gcc-ar" is a tool of its own.
IsValidCompiler(x) == x.of \in {"gcc", "g++", "clang", "clang++"} /\ x.suffix # "ar"

\* Without an archiver no compiler is of use.
FindCompilerPaths ==
  {i \in DOMAIN host.path : host.archiver /\ IsValidCompiler(host.path[i])}

DetectInit ==
  /\ host \in Hosts
  /\ unseen = FindCompilerPaths /\ left = <<>> /\ tried = 0 /\ passed = <<>>
  /\ toolchains = <<>> /\ registry = {} /\ detected = FALSE

----------------------------------------------------------------------------
\* The place of a compiler's name in the loop over them.
Turn(name) == CHOOSE n \in DOMAIN Compilers : Compilers[n] = name

\* LookPath: the one that the shell would run.
IsDefault(i) ==
  LET Plain(j) == host.path[j].of = host.path[i].of /\ host.path[j].suffix = ""
  IN Plain(i) /\ \A j \in 1..(i - 1) : ~ Plain(j)

\* The default comes first among those of one name, then they go along PATH.
ComesBefore(i, j) ==
  \/ Turn(host.path[i].of) < Turn(host.path[j].of)
  \/ /\ host.path[i].of = host.path[j].of
     /\ IsDefault(i) \/ (~ IsDefault(j) /\ i < j)

DetectCompilerToolchains ==
  /\ left = <<>>
  /\ \E i \in unseen :
       /\ \A j \in unseen \ {i} : ComesBefore(i, j)
       /\ left' = <<[of |-> host.path[i], step |-> "cruntimes", cruntime |-> Unknown,
                     arch |-> Unknown, stdlib |-> "unspecified"]>>
       /\ unseen' = unseen \ {i}
  /\ UNCHANGED <<host, tried, passed, toolchains, registry, detected>>

----------------------------------------------------------------------------
(***************************************************************************)
(* For a task the compiler is run with one candidate after the other; then *)
(* the task goes on with each one that passed, or with the default.        *)
(***************************************************************************)
\* libc++ is looked for with clang only.
Stdlibs(x) ==
  IF CompilerOf(x.of) = "clang" THEN <<"libstdc++", "libc++">> ELSE <<"libstdc++">>

Candidates(t) ==
  CASE t.step = "cruntimes" -> CRuntimes
    [] t.step = "archs"     -> Archs
    [] OTHER                -> Stdlibs(t.of)

\* testCRuntime, testArchitecture and testCppStdlib.
Passes(t, c) ==
  CASE t.step = "cruntimes" -> t.of.works
    [] t.step = "archs"     -> c \in t.of.archs
    [] OTHER                -> c \in t.of.stdlibs

Default(t) ==
  CASE t.step = "cruntimes" -> "glibc"
    [] t.step = "archs"     -> "x86_64"
    [] OTHER                -> "libstdc++"

\* The task that remains when v is chosen.
Chosen(t, v) ==
  CASE t.step = "cruntimes" -> [t EXCEPT !.step = "archs", !.cruntime = v]
    [] t.step = "archs"     ->
         [t EXCEPT !.step = IF LanguageOf(t.of.of) = "cpp" THEN "stdlibs" ELSE "build",
                   !.arch = v]
    [] OTHER                -> [t EXCEPT !.step = "build", !.stdlib = v]

\* A run of a compiler.
TryCandidate ==
  /\ left # <<>> /\ Head(left).step # "build" /\ tried < Len(Candidates(Head(left)))
  /\ LET c == Candidates(Head(left))[tried + 1]
     IN passed' = IF Passes(Head(left), c) THEN Append(passed, c) ELSE passed
  /\ tried' = tried + 1
  /\ UNCHANGED <<host, unseen, left, toolchains, registry, detected>>

\* Fault: where nothing was found nothing is tried.
OrDefault_None(variants, default) == variants

OrDefault(variants, default) == IF variants = <<>> THEN <<default>> ELSE variants

ForEachFound ==
  /\ left # <<>> /\ Head(left).step # "build" /\ tried = Len(Candidates(Head(left)))
  /\ LET variants == OrDefault(passed, Default(Head(left)))
     IN left' = [i \in 1..Len(variants) |-> Chosen(Head(left), variants[i])] \o Tail(left)
  /\ tried' = 0 /\ passed' = <<>>
  /\ UNCHANGED <<host, unseen, toolchains, registry, detected>>

\* No version is read from the file name of musl.
CRuntimeVersion(r) == IF r = "glibc" THEN host.glibc ELSE Unknown

Toolchain(t) ==
  [language |-> LanguageOf(t.of.of), compiler |-> CompilerOf(t.of.of), path |-> t.of,
   version  |-> t.of.version, cruntime |-> t.cruntime,
   cversion |-> CRuntimeVersion(t.cruntime), stdlib |-> t.stdlib, arch |-> t.arch]

\* What tells toolchains apart: the fields of the runtime's ID.
Key(t) ==
  <<t.language, t.compiler, t.version, t.cruntime, t.cversion, t.stdlib, t.arch>>

BuildToolchain ==
  /\ left # <<>> /\ Head(left).step = "build"
  /\ LET t == Toolchain(Head(left))
     IN toolchains' = IF \E i \in DOMAIN toolchains : Key(toolchains[i]) = Key(t)
                      THEN toolchains ELSE Append(toolchains, t)
  /\ left' = Tail(left)
  /\ UNCHANGED <<host, unseen, tried, passed, registry, detected>>

\* Register refuses an ID that is taken.
RegisterAll ==
  /\ left = <<>> /\ unseen = {} /\ ~ detected
  /\ registry' = {toolchains[i] : i \in {j \in DOMAIN toolchains :
                    \A h \in 1..(j - 1) : Key(toolchains[h]) # Key(toolchains[j])}}
  /\ detected' = TRUE
  /\ UNCHANGED <<host, askVars, toolchains>>

DetectNext ==
  DetectCompilerToolchains \/ TryCandidate \/ ForEachFound \/ BuildToolchain \/ RegisterAll

DetectSpec == DetectInit /\ [][DetectNext]_detectVars

----------------------------------------------------------------------------
\* The compilers of the host, of which nothing is known without an archiver.
Executables == {host.path[i] : i \in FindCompilerPaths}

\* A set of variants, or the default.
Either(S, default) == IF S = {} THEN {default} ELSE S

\* What an executable can be used for, with these variants.
KeysWith(x, cruntimes, archs, stdlibs) ==
  {<<LanguageOf(x.of), CompilerOf(x.of), x.version, r, CRuntimeVersion(r), l, a>> :
     r \in cruntimes, l \in stdlibs, a \in archs}

HostCRuntimes(x) == IF x.works THEN {"glibc", "musl"} ELSE {"glibc"}
HostArchs(x)     == Either(x.archs, "x86_64")
HostStdlibs(x) ==
  IF LanguageOf(x.of) = "c" THEN {"unspecified"}
  ELSE Either(IF CompilerOf(x.of) = "clang" THEN x.stdlibs ELSE x.stdlibs \ {"libc++"},
              "libstdc++")

\* What there is to detect on the host: for each compiler each combination.
HostKeys ==
  UNION {KeysWith(x, HostCRuntimes(x), HostArchs(x), HostStdlibs(x)) : x \in Executables}

(***************************************************************************)
(* A detection registers what there is on the host, each of it once: every *)
(* combination a compiler was found to build, whichever candidates failed, *)
(* in whatever order the names lie along PATH.                             *)
(***************************************************************************)
DetectsTheHost ==
  detected =>
    /\ {Key(t) : t \in registry} = HostKeys
    /\ \A t, u \in registry : Key(t) = Key(u) => t = u
=============================================================================
