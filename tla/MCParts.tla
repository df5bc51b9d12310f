------------------------------ MODULE MCParts ------------------------------
\* Model checking of the components that share no state with one another:
\* "part" says which of them runs, and the others stay as they start.
EXTENDS RuntimeCache, Detection, PeerQuery, Logging, Staging, CommandLine, Archive,
        Lifecycle

CONSTANT Considered(_)  \* bound: the command lines of a compiler to look at

\* Of the arguments that are treated alike, one is enough.
MCFlags ==
  {"-o", "-I", "-lm", "-Ldir", "-c", "-shared", "-O2", "-m64", "-march=arm",
   "-march", "-stdlib=libc++", "-v13", "a.c", "a.o", "arm"}
MCDefines   == {"-o", "a.c", "-D", "X=2", "-DX", "-DX=2"}
MCArguments == MCFlags \cup MCDefines

\* Four arguments of any kind; a source, an output and defines of a macro
\* take six.
MCConsidered(l) ==
  \/ Len(l) <= 4 /\ \A i \in DOMAIN l : l[i] \in MCFlags
  \/ \A i \in DOMAIN l : l[i] \in MCDefines

MCToolchains ==
  [language : {"c", "cpp"}, compiler : {"gcc"}, version : {<<10, 2, 1>>, <<13>>},
   cruntime : {"glibc"}, cversion : {<<2, 31>>, <<>>, <<1, 2, 3, 4>>},
   stdlib : {"libstdc++", "libc++"}, arch : {"x86_64", "arm"}]

MCArFiles == {<<"lib.a">>, <<"a.o">>, <<"s", "o">>}
MCArArguments ==
  {<<"r", "c">>, <<"-", "r", "a">>, <<"@", "objs">>, <<"-", "-", "plugin">>} \cup MCArFiles

Exe(of, suffix, version, archs, stdlibs) ==
  [of |-> of, suffix |-> suffix, version |-> version, works |-> archs # {},
   archs |-> archs, stdlibs |-> stdlibs]

\* Several names of a compiler and a clang that builds everything; versions
\* that cannot be told; compilers that do not work; no archiver.
MCHosts ==
  {[path |-> <<Exe("gcc", "12", "12", {"x86_64"}, {}),
               Exe("gcc", "ar", "13", {"x86_64"}, {}),
               Exe("gcc", "", "13", {"x86_64"}, {}),
               Exe("gcc", "13", "13", {"x86_64"}, {}),
               Exe("clang++", "", "16", {"x86_64", "arm"}, {"libstdc++", "libc++"})>>,
    archiver |-> TRUE, glibc |-> "2.31"],
   [path |-> <<Exe("g++", "", "13", {"x86_64"}, {"libstdc++"}),
               Exe("clang", "", Unknown, {"aarch64", "arm"}, {})>>,
    archiver |-> TRUE, glibc |-> Unknown],
   [path |-> <<Exe("gcc", "", "13", {}, {}), Exe("g++", "", "13", {}, {})>>,
    archiver |-> TRUE, glibc |-> "2.31"],
   [path |-> <<Exe("gcc", "", "13", {"x86_64"}, {})>>,
    archiver |-> FALSE, glibc |-> "2.31"]}

VARIABLE part

\* What a component that does not run leaves open is fixed; so is what the
\* clients want: one runtime that may be installed, or, for a query, any.
PartsInit ==
  /\ part \in {"cache", "detect", "query", "logging", "staging", "line",
              "archive", "life"}
  /\ CacheInit /\ DetectInit /\ QueryInit /\ LoggingInit /\ StagingInit /\ LineInit
  /\ ArInit /\ LifeInit
  /\ \A c \in Callers :
       wants[c] = IF c \in Archivers THEN NativeRuntimes
                  ELSE {CHOOSE r \in NativeRuntimes : TRUE}
  /\ part # "cache" => installed = {}
  /\ part # "detect" => host = CHOOSE h \in Hosts : TRUE
  /\ part # "query" => ~ mutual /\ reachable = {}
  /\ part # "staging" => runtime = "cpp"
  /\ part # "life" => mode = "command"

Stay(p, vars) == part # p => UNCHANGED vars

PartsNext ==
  /\ UNCHANGED part
  /\ \/ part = "cache" /\ CacheNext
     \/ part = "detect" /\ DetectNext
     \/ part = "query" /\ QueryNext
     \/ part = "logging" /\ LoggingNext
     \/ part = "staging" /\ StagingNext
     \/ part = "line" /\ LineNext /\ Considered(line')
     \/ part = "archive" /\ ArNext
     \/ part = "life" /\ LifeNext
  /\ Stay("cache", cacheVars) /\ Stay("detect", detectVars) /\ Stay("query", queryVars)
  /\ Stay("logging", loggingVars) /\ Stay("staging", stagingVars)
  /\ Stay("line", lineVars) /\ Stay("archive", arVars) /\ Stay("life", lifeVars)

\* QueryFairness, asked for of its own part only; what LifeFairness asks
\* for is enabled in no other part.
PartsFairness ==
  /\ \A k \in Frames :
       /\ WF_queryVars(part = "query" /\ CallOther(k))
       /\ WF_queryVars(part = "query" /\ Answer(k))
       /\ WF_queryVars(part = "query" /\ PassCancel(k))
  /\ LifeFairness

PartsSpec ==
  /\ PartsInit
  /\ [][PartsNext]_<<part, cacheVars, detectVars, queryVars, loggingVars, stagingVars,
                    lineVars, arVars, lifeVars>>
  /\ PartsFairness

(***************************************************************************)
(* The variables of the components with the most state have their types:   *)
(* the runtime cache, the logging registry and the staged jobs.            *)
(***************************************************************************)
PartsTypeOK == CacheTypeOK /\ LoggingTypeOK /\ StagingTypeOK
=============================================================================
