------------------------------ MODULE Archive ------------------------------
(***************************************************************************)
(* What the ar driver makes of its command line, and the command that the  *)
(* runtime executes for it: pkg/drivers/cpp/ar_common, and ExecuteArchive- *)
(* Job of pkg/runtimes/cpp/native/executor.go.                             *)
(*                                                                         *)
(* A step is one pass of the parser's loops, over the next argument of any *)
(* command line; what has been read so far is a command line too.  An      *)
(* argument is the sequence of its characters, of which only those that    *)
(* the parser looks at stand alone: <<"-", "r", "c">>, <<"lib.a">>,        *)
(* <<"-", "-", "plugin">>.  Paths are relative to the working directory.   *)
(***************************************************************************)
EXTENDS Naturals, Sequences, FiniteSets, Functions, OptionValues

CONSTANTS ArArguments, \* the arguments to choose from
          ArFiles,     \* those that name a file that exists
          MaxArArgs    \* bound: the length of a command line

ASSUME ArchiveAssumption == ArFiles \subseteq ArArguments /\ MaxArArgs \in Nat

VARIABLES
  arline,  \* the arguments of the driver, as far as they have been read
  archive  \* ParsedArgs, with what the loops carry to their next pass

arVars == <<arline, archive>>

----------------------------------------------------------------------------
ArCommands  == {"d", "m", "p", "q", "r", "s", "t", "x", "D", "M", "P", "Q", "R", "S", "T", "X"}
ArModifiers == {"a", "A", "b", "B", "c", "C", "D", "f", "F", "i", "I", "l", "L", "M", "N",
                "o", "O", "P", "s", "S", "T", "u", "U", "v", "V"}
ArValueOptions == {<<"-", "-", o>> : o \in {"plugin", "target", "output"}}

Undashed(a) == IF a # <<>> /\ Head(a) = "-" THEN Tail(a) ELSE a

IsCommandString(a) ==
  LET str == Undashed(a)
  IN /\ str # <<>> /\ Head(str) \in ArCommands
     /\ \A i \in 2..Len(str) : str[i] \in ArModifiers

\* What skipOption skips.
IsOption(a) == a # <<>> /\ Head(a) \in {"-", "@"} /\ ~ IsCommandString(a)

(***************************************************************************)
(* Options, the command with its modifiers, options, the archive: what is  *)
(* behind it are its members, also when they look like options.  A line    *)
(* without a command starts with the archive.                              *)
(***************************************************************************)
\* Fault: the value of an option is left where it is.
ParseArArgument_NoValue(p, a) ==
  IF p.next = "member" THEN [p EXCEPT !.inputs = Append(@, a)]
  ELSE IF p.next = "command" /\ IsCommandString(a)
       THEN [p EXCEPT !.flags = Undashed(a), !.next = "archive"]
  ELSE IF IsOption(a) THEN p
  ELSE [p EXCEPT !.output = a, !.next = "member"]

ParseArArgument(p, a) ==
  IF p.next = "member" THEN [p EXCEPT !.inputs = Append(@, a)]
  ELSE IF p.value THEN [p EXCEPT !.value = FALSE]
  ELSE IF p.next = "command" /\ IsCommandString(a)
       THEN [p EXCEPT !.flags = Undashed(a), !.next = "archive"]
  ELSE IF IsOption(a) THEN [p EXCEPT !.value = a \in ArValueOptions]
  ELSE [p EXCEPT !.output = a, !.next = "member"]

\* What the loops look for next, and whether an option waits for its value.
ArNothing ==
  [next |-> "command", value |-> FALSE, flags |-> <<>>, output |-> <<>>, inputs |-> <<>>]

ArInit == arline = <<>> /\ archive = ArNothing

ParseArCommandLine(a) ==
  /\ Len(arline) < MaxArArgs
  /\ arline' = Append(arline, a) /\ archive' = ParseArArgument(archive, a)

ArNext == \E a \in ArArguments : ParseArCommandLine(a)
ArSpec == ArInit /\ [][ArNext]_arVars

----------------------------------------------------------------------------
\* The driver refuses a line without an archive, and one with a member that
\* it cannot read.
ArJobMade ==
  Len(arline) >= 2 /\ archive.output # <<>> /\ Range(archive.inputs) \subseteq ArFiles

\* The runtime refuses a job without members; the flags become one argument.
ArRuns == ArJobMade /\ archive.inputs # <<>>

ArCommand ==
  (IF archive.flags = <<>> THEN <<>> ELSE <<archive.flags>>)
    \o <<archive.output>> \o archive.inputs

----------------------------------------------------------------------------
\* What ar itself reads: the arguments that are neither options nor values.
Operands(args) ==
  {i \in 1..Len(args) : ~ IsValue(ArValueOptions, args, i) /\ ~ IsOption(args[i])}

\* The place of an operand among them.
OperandsUpTo(args, i) == {j \in Operands(args) : j <= i}
Place(args, i) == Cardinality(OperandsUpTo(args, i))

\* The first of them is the command, if it is one.
Command(args) ==
  {i \in Operands(args) : Place(args, i) = 1 /\ IsCommandString(args[i])}

\* "[member-name] [count] archive-file": with these modifiers the archive is
\* behind the name of a member.
Positional(command) == Range(command) \cap {"a", "b", "i", "N"} # {}

(***************************************************************************)
(* The ar that runs in the end is given the operands that the user typed,  *)
(* in their order, and the job declares the archive as its output - unless *)
(* the command names a position: the member is then taken for the archive, *)
(* and it is its name under which the output is looked for.  (Members that *)
(* look like options are left to the ar that runs.)                        *)
(***************************************************************************)
ArchivesAsTyped ==
  ArRuns /\ (\A a \in Range(archive.inputs) : ~ IsOption(a)) =>
    LET typed == Operands(arline)
        Typed(n, a) == \E i \in typed : Place(arline, i) = n /\ arline[i] = a
        place == IF Command(arline) = {} THEN 1
                 ELSE IF Positional(archive.flags) THEN 3 ELSE 2
    IN /\ Len(ArCommand) = Cardinality(typed)
       /\ \A i \in typed : ArCommand[Place(arline, i)] =
            IF i \in Command(arline) THEN Undashed(arline[i]) ELSE arline[i]
       /\ \/ Typed(place, archive.output)
          \/ Positional(archive.flags) /\ Typed(2, archive.output)
=============================================================================
