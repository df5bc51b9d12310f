---------------------------- MODULE CommandLine ----------------------------
(***************************************************************************)
(* What a compiler driver makes of its command line: the arguments it      *)
(* parses, the job and the compiler's own command line made from them, and *)
(* the runtime it asks the daemon for.  pkg/drivers/cpp/gcc_common,        *)
(* pkg/runtime and the executor of pkg/runtimes/cpp/native.                *)
(*                                                                         *)
(* A step is one pass of the parser's loop, over the next argument of any  *)
(* command line; what has been read so far is a command line too.  An      *)
(* argument stands for all those that are treated like it.  A runtime ID   *)
(* is the sequence of its fields, a version the sequence of its numbers,   *)
(* empty when unknown.                                                     *)
(***************************************************************************)
EXTENDS Naturals, Sequences, FiniteSets, Functions, OptionValues
LOCAL INSTANCE SequencesExt

CONSTANTS Arguments,  \* the arguments to choose from
          Toolchains, \* the toolchains detected on the host
          MaxArgs     \* bound: the length of a command line

ValueOptions  == {"-o", "-I", "-D", "-l", "-L"}
CompilerFlags == {"-O2", "-m64", "-m32", "-march=arm", "-std=c99"}
OtherFlags    == {"-fopt", "-march", "-stdlib=libc++", "-v13"}
Files         == {"a.c", "a.o", "a.a", "arm", "X=2"}
KnownArguments ==
  {"-c", "-shared", "-Iinc", "-DX", "-DX=2", "-lm", "-Ldir"}
    \cup ValueOptions \cup CompilerFlags \cup OtherFlags \cup Files

Architectures == {"x86_64", "aarch64", "arm"}

ASSUME CommandLineAssumption ==
  /\ Arguments \subseteq KnownArguments /\ MaxArgs \in Nat
  /\ Toolchains \subseteq
       [language : {"c", "cpp"}, compiler : STRING, version : Seq(Nat),
        cruntime : STRING, cversion : Seq(Nat), stdlib : STRING, arch : Architectures]

VARIABLES
  line,   \* the arguments of the driver, as far as they have been read
  parsed  \* ParsedArgs, with what the loop carries to its next pass

lineVars == <<line, parsed>>

----------------------------------------------------------------------------
(***************************************************************************)
(* ParseCommandLine: one pass, where the value of an option is the next    *)
(* argument, whatever it is.                                               *)
(***************************************************************************)
Fields == {"SourceFiles", "ObjectFiles", "LibraryFiles", "IncludeDirs", "Defines",
           "Libraries", "LibraryDirs", "CompilerFlags", "LinkerFlags"}

\* The field of ParsedArgs that an argument goes to, or none.
FieldOf(a) ==
  CASE a \in {"-I", "-Iinc"} -> "IncludeDirs"
    [] a \in {"-D", "-DX", "-DX=2"} -> "Defines"
    [] a \in {"-l", "-lm"}   -> "Libraries"
    [] a \in {"-L", "-Ldir"} -> "LibraryDirs"
    [] a \in CompilerFlags   -> "CompilerFlags"
    [] a \in OtherFlags \cup {"-shared"} -> "LinkerFlags"
    [] a = "a.c" -> "SourceFiles"
    [] a = "a.o" -> "ObjectFiles"
    [] a = "a.a" -> "LibraryFiles"
    [] OTHER -> "none"

\* What is entered there: the value that the argument carries, or itself.
Carried(a) ==
  CASE a = "-Iinc" -> "inc" [] a = "-DX" -> "X" [] a = "-DX=2" -> "X=2"
    [] a = "-lm"   -> "m"   [] a = "-Ldir" -> "dir" [] OTHER -> a

\* The option that waits for its value is part of what has been parsed.
Nothing == [list |-> [f \in Fields |-> <<>>], compileOnly |-> FALSE,
            shared |-> FALSE, output |-> "", option |-> ""]

Into(p, f, v) == IF f = "none" THEN p ELSE [p EXCEPT !.list[f] = Append(@, v)]

\* Fault: an option takes its value and leaves it where it is.
ParseArgument_KeepsValue(p, a) ==
  IF p.option = "-o" THEN Into([p EXCEPT !.output = a, !.option = ""], FieldOf(a), Carried(a))
  ELSE IF p.option # "" THEN Into([p EXCEPT !.option = ""], FieldOf(p.option), a)
  ELSE IF a \in ValueOptions THEN [p EXCEPT !.option = a]
  ELSE IF a = "-c" THEN [p EXCEPT !.compileOnly = TRUE]
  ELSE Into([p EXCEPT !.shared = @ \/ a = "-shared"], FieldOf(a), Carried(a))

ParseArgument(p, a) ==
  IF p.option = "-o" THEN [p EXCEPT !.output = a, !.option = ""]
  ELSE IF p.option # "" THEN Into([p EXCEPT !.option = ""], FieldOf(p.option), a)
  ELSE IF a \in ValueOptions THEN [p EXCEPT !.option = a]
  ELSE IF a = "-c" THEN [p EXCEPT !.compileOnly = TRUE]
  ELSE Into([p EXCEPT !.shared = @ \/ a = "-shared"], FieldOf(a), Carried(a))

LineInit == line = <<>> /\ parsed = Nothing

ParseCommandLine(a) ==
  /\ Len(line) < MaxArgs
  /\ line' = Append(line, a) /\ parsed' = ParseArgument(parsed, a)

LineNext == \E a \in Arguments : ParseCommandLine(a)
LineSpec == LineInit /\ [][LineNext]_lineVars

\* ModeLink; a command line with sources compiles, with or without "-c".
IsLink(p) ==
  ~ p.compileOnly /\ p.list["SourceFiles"] = <<>> /\ p.list["ObjectFiles"] # <<>>

----------------------------------------------------------------------------
(***************************************************************************)
(* The job that CreateCppJob makes of it, and the command that the         *)
(* executor of the runtime runs for the job: the fields in their order.    *)
(***************************************************************************)
CompileFields == <<"SourceFiles", "IncludeDirs", "Defines", "CompilerFlags">>
LinkFields    == <<"ObjectFiles", "LibraryFiles", "Libraries", "LinkerFlags">>

JobFields(p) == IF IsLink(p) THEN LinkFields ELSE CompileFields

\* ExecuteCompileJob and ExecuteLinkJob refuse a job without one of these.
Runs(p) == p.output # "" /\ p.list[Head(JobFields(p))] # <<>>

\* A define "KEY=VALUE" or just "KEY"; an option's value may be any argument.
MacroOf(d) ==
  CASE d = "X=2" -> "X" [] d = "-DX=2" -> "-DX" [] d = "-march=arm" -> "-march"
    [] d = "-std=c99" -> "-std" [] d = "-stdlib=libc++" -> "-stdlib" [] OTHER -> d

ValueOf(d) ==
  CASE d \in {"X=2", "-DX=2"} -> "2" [] d = "-march=arm" -> "arm"
    [] d = "-std=c99" -> "c99" [] d = "-stdlib=libc++" -> "libc++" [] OTHER -> ""

\* Fault: the first define of a macro stays.
ConcreteDefines_First(p) ==
  LET l == p.list["Defines"] IN
  {<<MacroOf(l[k]), ValueOf(l[k])>> :
     k \in {k \in DOMAIN l : \A j \in DOMAIN l : j < k => MacroOf(l[j]) # MacroOf(l[k])}}

(***************************************************************************)
(* protoCompileJobToConcrete keeps the defines in a map, where the last    *)
(* one of a macro stays, and a define without a value has the empty one.   *)
(* For each <<m, v>> the compiler is given "-Dm=v".                        *)
(***************************************************************************)
ConcreteDefines(p) ==
  LET l == p.list["Defines"] IN
  {<<MacroOf(l[k]), ValueOf(l[k])>> :
     k \in {k \in DOMAIN l : \A j \in DOMAIN l : j > k => MacroOf(l[j]) # MacroOf(l[k])}}

----------------------------------------------------------------------------
(***************************************************************************)
(* Runtimes.  The daemon names the runtime of a toolchain after what it    *)
(* detected; the driver names it after its configuration, and again after  *)
(* its flags.                                                              *)
(***************************************************************************)
\* NativeCppRuntime.RuntimeID, and the driver's ID of a configuration.
RuntimeID(t) ==
  IF t.language = "cpp"
  THEN <<"native_linux", t.language, t.compiler, t.version, t.cruntime, t.cversion,
         t.stdlib, t.arch>>
  ELSE <<"native_linux", t.language, t.compiler, t.version, t.cruntime, t.cversion,
         t.arch>>

FirstNumbers(v, n) == SubSeq(v, 1, IF Len(v) < n THEN Len(v) ELSE n)

\* Of a version the first three numbers are kept; an unknown one is zero.
ParseVersion(v) == IF v = <<>> THEN <<0>> ELSE FirstNumbers(v, 3)

\* Fault: the patch level is left out.
VersionToString_NoPatch(v) == FirstNumbers(v, 2)

VersionToString(v) == v

\* ParseRuntimeID: the number of fields tells C from C++.
ParseRuntimeID(id) ==
  [language |-> IF Len(id) = 7 THEN "c" ELSE "cpp",
   compiler |-> id[3], version |-> ParseVersion(id[4]),
   cruntime |-> id[5], cversion |-> ParseVersion(id[6]),
   stdlib |-> IF Len(id) = 7 THEN "unknown" ELSE id[7], arch |-> id[Len(id)]]

RuntimeToID(r) ==
  RuntimeID([r EXCEPT !.version = VersionToString(@), !.cversion = VersionToString(@)])

\* The flags in the order in which the driver passes them.
ToolArgs(p) == p.list["CompilerFlags"] \o p.list["LinkerFlags"]

\* ExtractCompilerFlags, as far as it changes the runtime; "-march" without
\* a value takes the next flag for one.
ExtractFlag(d, a) ==
  IF d.option # "" THEN [d EXCEPT !.arch = a, !.option = ""]
  ELSE CASE a = "-march=arm" -> [d EXCEPT !.arch = "arm"]
         [] a = "-m64" -> [d EXCEPT !.arch = "x86_64"]
         [] a = "-m32" -> [d EXCEPT !.arch = "i386"]
         [] a = "-march" -> [d EXCEPT !.option = a]
         [] a = "-stdlib=libc++" -> [d EXCEPT !.stdlib = "libc++"]
         [] a = "-v13" -> [d EXCEPT !.version = <<13>>]
         [] OTHER -> d

NoFlags == [arch |-> "", stdlib |-> "", version |-> <<>>, option |-> ""]

ExtractCompilerFlags(args) == [FoldLeft(ExtractFlag, NoFlags, args) EXCEPT !.option = ""]

\* ModifyRuntimeWithFlags.
ModifiedRuntime(r, d) ==
  [r EXCEPT !.version = IF d.version = <<>> THEN @ ELSE d.version,
            !.arch = IF d.arch = "" THEN @
                     ELSE IF d.arch \in Architectures THEN d.arch ELSE "unknown",
            !.stdlib = IF d.stdlib = "" THEN @ ELSE d.stdlib]

AskedID(id, d) ==
  IF d = NoFlags THEN id
  ELSE RuntimeToID(ModifiedRuntime(ParseRuntimeID(id), d))

----------------------------------------------------------------------------
(***************************************************************************)
(* The reading of a command line, argument by argument (OptionValues).     *)
(***************************************************************************)
\* The field that the argument at i belongs to: that of its option, or its own.
ReadField(args, i) ==
  IF IsValue(ValueOptions, args, i) THEN FieldOf(args[i - 1])
  ELSE IF args[i] \in ValueOptions THEN "none" ELSE FieldOf(args[i])

\* What the argument at i says: the value of its option is taken as it stands.
ReadValue(args, i) ==
  IF IsValue(ValueOptions, args, i) THEN args[i] ELSE Carried(args[i])

\* The arguments up to the one at i that belong to a field.
Read(args, i, f) == {j \in 1..i : ReadField(args, j) = f}

\* The values of "-o".
Outputs(args) == {i \in 1..Len(args) : IsValue(ValueOptions, args, i) /\ args[i - 1] = "-o"}

(***************************************************************************)
(* The parser takes a command line as it reads: each field has as many     *)
(* entries as arguments belong to it, and each of these is the entry at    *)
(* its place among them; so none is taken twice, for two things, or out of *)
(* order.  What names the output is the last value of "-o".                *)
(***************************************************************************)
ParsedAsItReads ==
  /\ \A f \in Fields : Len(parsed.list[f]) = Cardinality(Read(line, Len(line), f))
  /\ \A i \in 1..Len(line) :
       LET f == ReadField(line, i)
       IN f # "none" => parsed.list[f][Cardinality(Read(line, i, f))] = ReadValue(line, i)
  /\ IF Outputs(line) = {} THEN parsed.output = ""
     ELSE \E i \in Outputs(line) :
            parsed.output = line[i] /\ \A j \in Outputs(line) : j <= i

\* What a compiler makes of "-DX" is "-DX=1".
Meaning(d) == IF MacroOf(d) = d THEN "1" ELSE ValueOf(d)

\* The command says to the compiler that f has v, and means the same.
InCommand(p, f, v) ==
  IF f = "Defines" THEN ~ IsLink(p) /\ <<MacroOf(v), Meaning(v)>> \in ConcreteDefines(p)
  ELSE f \in Range(JobFields(p)) /\ v \in Range(p.list[f])

\* An argument after the one at i defines its macro again.
DefinedAgain(args, i) ==
  \E j \in (i + 1)..Len(args) :
    ReadField(args, j) = "Defines" /\ MacroOf(ReadValue(args, j)) = MacroOf(ReadValue(args, i))

(***************************************************************************)
(* A job that runs says to the compiler what the user said, but for these: *)
(* a compile job loses every flag that is not known for a compiler's and   *)
(* all that is to be linked, a link job every flag that is and the         *)
(* defines, and both the library directories.  Of the defines of one macro *)
(* a compile job keeps the last, and one without a value it makes empty,   *)
(* where job.proto says that defines are passed as -D flags.               *)
(***************************************************************************)
OnlyTheseAreLost ==
  Runs(parsed) =>
    \A i \in 1..Len(line) :
      LET f == ReadField(line, i)
          v == ReadValue(line, i)
      IN
      \/ f = "none"
      \/ InCommand(parsed, f, v)
      \/ f = "LibraryDirs"
      \/ IsLink(parsed) /\ f \in {"CompilerFlags", "IncludeDirs", "Defines"}
      \/ ~ IsLink(parsed) /\ f \in {"LinkerFlags", "Libraries", "ObjectFiles", "LibraryFiles"}
      \/ /\ ~ IsLink(parsed) /\ f = "Defines"
         /\ \/ DefinedAgain(line, i)
            \/ MacroOf(v) = v /\ <<v, "">> \in ConcreteDefines(parsed)

\* A toolchain whose versions are one to three numbers.
Plain(t) == \A v \in {t.version, t.cversion} : Len(v) \in 1..3

(***************************************************************************)
(* A driver that is configured for a toolchain asks the daemon for the     *)
(* runtime of that very toolchain as long as its flags say no other        *)
(* version, architecture or library, and for another one as soon as they   *)
(* do.  It misses the runtime of a toolchain whose versions are not plain  *)
(* when a flag that says the same makes it write the ID anew.              *)
(***************************************************************************)
AsksForItsToolchain ==
  LET d == ExtractCompilerFlags(ToolArgs(parsed)) IN
  \A t \in Toolchains :
    LET same == /\ d.arch \in {"", t.arch}
                /\ d.version \in {<<>>, t.version}
                /\ t.language = "cpp" => d.stdlib \in {"", t.stdlib}
    IN /\ ~ same => AskedID(RuntimeID(t), d) # RuntimeID(t)
       /\ same => \/ AskedID(RuntimeID(t), d) = RuntimeID(t)
                  \/ ~ Plain(t) /\ d # NoFlags
=============================================================================
