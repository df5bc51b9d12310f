--------------------------- MODULE StagingProofs ---------------------------
(***************************************************************************)
(* What holds of the files of a job for any contents and any runtimes: the *)
(* five invariants of Staging.  The inductive invariant follows a job from *)
(* phase to phase: what its input says until it runs, where it runs, what  *)
(* the result says of the output, and what is left of the directory.       *)
(***************************************************************************)
EXTENDS Staging, TLAPS

Before == {"created", "embed", "stage", "run"}
Behind == {"collect", "clean", "finalize"}

Boxed == {"Workdir", "TempDir"} \cap wrappers # {}

\* A reference has no content, and what is no data is nothing.
ShapeOK ==
    /\ input.kind = "reference" => input.content = "nil"
    /\ input.kind = "none" => input = NoData
    /\ result.kind = "none" => result = NoData
    /\ result.kind # "reference"

\* A job that has not ended has no verdict.
NoVerdictYet == phase \in Before \cup Behind => verdict = "none"

\* Until it runs the input carries the hash that the client made.
InputOK == hashed # "absent" /\ phase \in Before => input.kind = "file" /\ input.hash = hashed

NotRunYet == phase \in Before => ranOn = "absent" /\ result = NoData

\* A job in a sandbox has moved there, and with it what the client hashed.
BoxOK ==
    Boxed =>
        /\ phase \in {"run"} \cup Behind => cwd = "box"
        /\ phase = "run" /\ hashed # "absent" => src["box"] = hashed

\* The result has the output of this run, unless the job ran elsewhere.
ResultOK ==
    phase \in Behind =>
        IF runtime = "remote" THEN result = NoData
        ELSE result.kind = "file" /\ result.hash = ranOn /\ ranOn \in OnDisk \ {"absent"}

\* Only the EmbedOutputs sandbox gives a result its content.
ContentOK == "EmbedOutputs" \notin wrappers => result.content = "nil"

BoxIsGone == phase = "finalize" /\ "TempDir" \in wrappers => out["box"] = "absent"

\* The C++ runtime is given file data or nothing, and runs with nothing.
CompilerOK ==
    runtime = "cpp" =>
        /\ phase = "run" => input = NoData \/ input.kind = "file"
        /\ phase \in Behind => input = NoData

Properties ==
    /\ RunsOnWhatWasHashed /\ CompletedOutputIsOfThisRun
    /\ TempDirDropsOutputs /\ NoInputReachesTheCompiler

StagingInv ==
    /\ StagingTypeOK /\ ShapeOK /\ NoVerdictYet /\ InputOK /\ NotRunYet /\ BoxOK
    /\ ResultOK /\ ContentOK /\ BoxIsGone /\ CompilerOK
    /\ Properties

----------------------------------------------------------------------------
\* The sandboxes of the two runtimes that have fixed ones.
LEMMA Wrapped ==
    ASSUME StagingTypeOK
    PROVE  /\ runtime = "cpp" => wrappers = {"TempDir"}
           /\ runtime = "remote" => wrappers = {"EmbedInputs"}
BY DEF StagingTypeOK, Wrappings

\* Before the first job there is no data and no verdict.
LEMMA StagingInvInit == StagingInit => StagingInv
<1> SUFFICES ASSUME StagingInit PROVE StagingInv
    OBVIOUS
<1> USE DEF StagingInit, NoData, Data
<1>1. runtime \in Runtimes /\ wrappers \in Wrappings(runtime)
    OBVIOUS
<1>2. src \in [Dirs -> OnDisk] /\ out \in [Dirs -> OnDisk]
    BY DEF OnDisk
<1>3. {input, result} \subseteq JobData /\ {hashed, ranOn} \subseteq OnDisk
    BY DEF JobData, OnDisk
<1>4. builds \in 0..MaxBuilds /\ edits \in 0..MaxEdits
    BY StagingAssumption
<1>5. StagingTypeOK
    BY <1>1, <1>2, <1>3, <1>4 DEF StagingTypeOK, Phases
<1>6. ShapeOK /\ NoVerdictYet /\ InputOK /\ NotRunYet /\ ContentOK
    BY DEF ShapeOK, NoVerdictYet, InputOK, NotRunYet, ContentOK, Before, Behind
<1>7. BoxOK /\ ResultOK /\ BoxIsGone /\ CompilerOK /\ Properties
    BY DEF BoxOK, ResultOK, BoxIsGone, CompilerOK, Properties, Before, Behind,
           RunsOnWhatWasHashed, CompletedOutputIsOfThisRun, TempDirDropsOutputs,
           NoInputReachesTheCompiler
<1> QED BY <1>5, <1>6, <1>7 DEF StagingInv

\* Others touch the client's directory, where no staged job looks.
LEMMA EditKeepsStagingInv == StagingInv /\ Edit => StagingInv'
<1> SUFFICES ASSUME StagingInv, Edit PROVE StagingInv'
    OBVIOUS
<1>1. /\ UNCHANGED <<wrappers, runtime, phase, client, declared, hashed, input, cwd,
                     result, verdict, ranOn, builds>>
      /\ edits < MaxEdits /\ edits' = edits + 1
    BY DEF Edit, routeVars, jobVars
<1>2. /\ src' \in [Dirs -> OnDisk] /\ out' \in [Dirs -> OnDisk]
      /\ src'["box"] = src["box"] /\ out'["box"] = out["box"]
    BY DEF Edit, StagingInv, StagingTypeOK, Dirs
<1>3. StagingTypeOK'
    BY <1>1, <1>2, StagingAssumption DEF StagingInv, StagingTypeOK
<1>4. (ShapeOK /\ NoVerdictYet /\ InputOK /\ NotRunYet /\ ContentOK /\ ResultOK
         /\ CompilerOK /\ Properties)'
    BY <1>1 DEF StagingInv, ShapeOK, NoVerdictYet, InputOK, NotRunYet, ContentOK, ResultOK,
                CompilerOK, Properties, RunsOnWhatWasHashed,
                CompletedOutputIsOfThisRun, TempDirDropsOutputs, NoInputReachesTheCompiler
<1>5. (BoxOK /\ BoxIsGone)'
    BY <1>1, <1>2 DEF StagingInv, BoxOK, Boxed, BoxIsGone
<1> QED BY <1>3, <1>4, <1>5 DEF StagingInv

\* A new job has not run, and its input says what was hashed.
LEMMA CreateKeepsStagingInv == StagingInv /\ CreateJob => StagingInv'
<1> SUFFICES ASSUME StagingInv, CreateJob PROVE StagingInv'
    OBVIOUS
<1> USE DEF CreateJob, routeVars
<1>1. src["work"] \in OnDisk
    BY DEF StagingInv, StagingTypeOK, Dirs
<1>2. input' \in Inputs(src["work"])
    OBVIOUS
<1>3. /\ input' \in JobData
      /\ input'.kind = "reference" => input'.content = "nil"
      /\ input'.kind = "none" => input' = NoData
      /\ input'.kind = "file" => src["work"] # "absent" /\ input'.hash = src["work"]
    BY <1>1, <1>2 DEF Inputs, JobData, OnDisk, Data, NoData, FileData, FileWithContent, Sent
<1>4. result' \in JobData /\ {hashed', ranOn'} \subseteq OnDisk
    BY <1>1 DEF JobData, OnDisk, NoData, Data
<1>5. builds' \in 0..MaxBuilds
    BY StagingAssumption DEF StagingInv, StagingTypeOK
<1>6. StagingTypeOK'
    BY <1>3, <1>4, <1>5 DEF StagingInv, StagingTypeOK, Phases
<1>7. (ShapeOK /\ NoVerdictYet /\ InputOK /\ NotRunYet /\ ContentOK)'
    BY <1>3 DEF ShapeOK, NoVerdictYet, InputOK, NotRunYet, ContentOK, NoData, Data
<1>8. phase' \in {"created", "embed"} /\ verdict' = "none" /\ ranOn' = "absent"
    OBVIOUS
<1>9. (BoxOK /\ ResultOK /\ BoxIsGone /\ CompilerOK /\ Properties)'
    BY <1>8 DEF BoxOK, ResultOK, BoxIsGone, CompilerOK, Properties, Behind,
                RunsOnWhatWasHashed, CompletedOutputIsOfThisRun, TempDirDropsOutputs,
                NoInputReachesTheCompiler
<1> QED BY <1>6, <1>7, <1>9 DEF StagingInv

\* A step that only moves the job on, or ends it, changes no file and no data.
LEMMA VerifyKeepsStagingInv == StagingInv /\ VerifyJobInputs => StagingInv'
<1> SUFFICES ASSUME StagingInv, VerifyJobInputs PROVE StagingInv'
    OBVIOUS
<1>1. /\ UNCHANGED <<wrappers, runtime, src, out, client, declared, hashed, input, cwd,
                     result, verdict, ranOn, builds, edits>>
      /\ phase = "created" /\ phase' \in {"embed", "idle"}
    BY DEF VerifyJobInputs, routeVars, jobVars
<1>2. StagingTypeOK'
    BY <1>1 DEF StagingInv, StagingTypeOK, Phases
<1>3. (ShapeOK /\ NoVerdictYet /\ InputOK /\ NotRunYet /\ ContentOK)'
    BY <1>1 DEF StagingInv, ShapeOK, NoVerdictYet, InputOK, NotRunYet, ContentOK, Before, Behind
<1>4. (BoxOK /\ ResultOK /\ BoxIsGone /\ CompilerOK /\ Properties)'
    BY <1>1 DEF StagingInv, BoxOK, ResultOK, BoxIsGone, CompilerOK, Properties, Behind,
                RunsOnWhatWasHashed, CompletedOutputIsOfThisRun, TempDirDropsOutputs,
                NoInputReachesTheCompiler
<1> QED BY <1>2, <1>3, <1>4 DEF StagingInv

\* A phase that does not apply changes the phase only.
LEMMA PassThroughKeepsStagingInv == StagingInv /\ PassThrough => StagingInv'
<1> SUFFICES ASSUME StagingInv, PassThrough PROVE StagingInv'
    OBVIOUS
<1>1. UNCHANGED <<wrappers, runtime, src, out, client, declared, hashed, input, cwd,
                  result, verdict, ranOn, builds, edits>>
    BY DEF PassThrough, routeVars, jobVars
<1>2. \/ phase = "embed" /\ phase' = "stage"
      \/ phase = "stage" /\ phase' = "run" /\ ~ Boxed
      \/ phase = "collect" /\ phase' = "clean"
      \/ phase = "clean" /\ phase' = "finalize" /\ "TempDir" \notin wrappers
    BY DEF PassThrough, Wrapper, After, Boxed
<1>3. StagingTypeOK'
    BY <1>1, <1>2 DEF StagingInv, StagingTypeOK, Phases
<1>4. (ShapeOK /\ NoVerdictYet /\ InputOK /\ NotRunYet /\ ContentOK)'
    BY <1>1, <1>2 DEF StagingInv, ShapeOK, NoVerdictYet, InputOK, NotRunYet, ContentOK,
                      Before, Behind
<1>5. (BoxOK /\ ResultOK /\ BoxIsGone)'
    BY <1>1, <1>2 DEF StagingInv, BoxOK, ResultOK, BoxIsGone, Boxed, Behind
<1>6. runtime = "cpp" => Boxed
    BY Wrapped DEF StagingInv, Boxed
<1>7. (CompilerOK /\ Properties)'
    BY <1>1, <1>2, <1>6 DEF StagingInv, CompilerOK, Properties, Behind,
           RunsOnWhatWasHashed, CompletedOutputIsOfThisRun, TempDirDropsOutputs,
           NoInputReachesTheCompiler
<1> QED BY <1>3, <1>4, <1>5, <1>7 DEF StagingInv

\* A job that fails, in whatever phase.
LEMMA FailureKeepsStagingInv ==
    ASSUME StagingInv, JobFails,
           UNCHANGED <<wrappers, runtime, client, declared, hashed, ranOn, input, result,
                       cwd, builds, edits>>,
           src' \in [Dirs -> OnDisk], out' \in [Dirs -> OnDisk]
    PROVE  StagingInv'
<1>1. phase' = "idle" /\ verdict' = "failed"
    BY DEF JobFails
<1>2. StagingTypeOK'
    BY <1>1 DEF StagingInv, StagingTypeOK, Phases
<1>3. (ShapeOK /\ NoVerdictYet /\ InputOK /\ NotRunYet /\ ContentOK)'
    BY <1>1 DEF StagingInv, ShapeOK, NoVerdictYet, InputOK, NotRunYet, ContentOK, Before, Behind
<1>4. (BoxOK /\ ResultOK /\ BoxIsGone /\ CompilerOK /\ Properties)'
    BY <1>1 DEF StagingInv, BoxOK, ResultOK, BoxIsGone, CompilerOK, Properties, Behind,
                RunsOnWhatWasHashed, CompletedOutputIsOfThisRun, TempDirDropsOutputs,
                NoInputReachesTheCompiler
<1> QED BY <1>2, <1>3, <1>4 DEF StagingInv

\* A run that fails leaves no result.
LEMMA RunFailsKeepsStagingInv == StagingInv /\ RunFails => StagingInv'
BY FailureKeepsStagingInv DEF RunFails, routeVars, jobVars, StagingInv, StagingTypeOK

\* Embedding keeps the hash of an input.
LEMMA EmbedInputsKeepsStagingInv == StagingInv /\ EmbedInputs => StagingInv'
<1> SUFFICES ASSUME StagingInv, EmbedInputs PROVE StagingInv'
    OBVIOUS
<1>1. /\ UNCHANGED <<wrappers, runtime, src, out, client, declared, hashed, cwd, result,
                     ranOn, builds, edits>>
      /\ phase = "embed" /\ input # NoData
    BY DEF EmbedInputs, routeVars, jobVars
<1>2. CASE ~ Readable(input, src[cwd])
    <2>1. JobFails /\ UNCHANGED input
        BY <1>2 DEF EmbedInputs
    <2> QED BY <1>1, <2>1, FailureKeepsStagingInv DEF StagingInv, StagingTypeOK
<1>3. CASE Readable(input, src[cwd])
    <2>1. input' = Embedded(input, src[cwd]) /\ phase' = "stage" /\ verdict' = verdict
        BY <1>3 DEF EmbedInputs
    <2>2. src[cwd] \in OnDisk /\ input \in JobData
        BY DEF StagingInv, StagingTypeOK, Dirs
    <2>3. /\ input' \in JobData /\ input'.kind = "file"
          /\ input.kind = "file" => input'.hash = input.hash
        BY <1>1, <1>3, <2>1, <2>2
           DEF StagingInv, ShapeOK, Embedded, Readable, JobData, OnDisk, Data, NoData, FileWithContent
    <2>4. StagingTypeOK'
        BY <1>1, <2>1, <2>3 DEF StagingInv, StagingTypeOK, Phases
    <2>5. (ShapeOK /\ NoVerdictYet /\ InputOK /\ NotRunYet /\ ContentOK)'
        BY <1>1, <2>1, <2>3 DEF StagingInv, ShapeOK, NoVerdictYet, InputOK, NotRunYet, ContentOK,
                                Before, Behind
    <2>6. (BoxOK /\ ResultOK /\ BoxIsGone /\ CompilerOK /\ Properties)'
        BY <1>1, <2>1 DEF StagingInv, BoxOK, ResultOK, BoxIsGone, CompilerOK, Properties,
                          NotRunYet, NoVerdictYet, Before, Behind,
                          RunsOnWhatWasHashed, CompletedOutputIsOfThisRun,
                          TempDirDropsOutputs, NoInputReachesTheCompiler
    <2> QED BY <2>4, <2>5, <2>6 DEF StagingInv
<1> QED BY <1>2, <1>3

\* What is staged has the hash of the input, whatever lay in the directory.
LEMMA StageInputsKeepsStagingInv == StagingInv /\ StageInputs => StagingInv'
<1> SUFFICES ASSUME StagingInv, StageInputs PROVE StagingInv'
    OBVIOUS
<1>1. /\ UNCHANGED <<wrappers, runtime, client, declared, hashed, result, ranOn, builds, edits>>
      /\ phase = "stage" /\ Boxed
    BY DEF StageInputs, routeVars, jobVars, Boxed
<1>2. BoxSrc \in OnDisk /\ BoxOut \in OnDisk /\ input \in JobData
    BY DEF BoxSrc, BoxOut, StagingInv, StagingTypeOK, Dirs, OnDisk
<1>3. Written(BoxSrc, input) \in OnDisk
    BY <1>2 DEF Written, JobData, OnDisk
<1>4. /\ src' \in [Dirs -> OnDisk] /\ out' \in [Dirs -> OnDisk]
      /\ src'["box"] = IF input.kind = "file" THEN Written(BoxSrc, input) ELSE BoxSrc
    BY <1>2, <1>3 DEF StageInputs, StagingInv, StagingTypeOK, Dirs
<1>5. CASE ~ (input = NoData \/ Materialized(BoxSrc, input))
    <2>1. JobFails /\ UNCHANGED <<cwd, input>>
        BY <1>5 DEF StageInputs
    <2> QED BY <1>1, <1>4, <2>1, FailureKeepsStagingInv
<1>6. CASE input = NoData \/ Materialized(BoxSrc, input)
    <2>1. /\ phase' = "run" /\ cwd' = "box" /\ verdict' = verdict
          /\ input' = IF input = NoData THEN NoData ELSE FileData(src'["box"])
        BY <1>6 DEF StageInputs
    <2>2. input # NoData => /\ input.kind = "file" /\ src'["box"] \in OnDisk \ {"absent"}
                           /\ input.hash \in {"nil", src'["box"]}
        BY <1>3, <1>4, <1>6 DEF Materialized
    <2>3. input' \in JobData /\ input' \in {NoData, FileData(src'["box"])}
        BY <2>1, <2>2 DEF JobData, OnDisk, FileData, NoData, Data
    <2>4. StagingTypeOK'
        BY <1>1, <1>4, <2>1, <2>3 DEF StagingInv, StagingTypeOK, Phases
    <2>5. hashed # "absent" => input # NoData /\ input.hash = hashed /\ hashed # "nil"
        BY <1>1, StagingAssumption DEF StagingInv, InputOK, Before, StagingTypeOK, OnDisk, NoData, Data
    <2>6. hashed # "absent" => src'["box"] = hashed /\ input' = FileData(hashed)
        BY <2>1, <2>2, <2>5
    <2>7. (ShapeOK /\ NoVerdictYet /\ InputOK /\ NotRunYet /\ ContentOK)'
        BY <1>1, <2>1, <2>3, <2>6
           DEF StagingInv, ShapeOK, NoVerdictYet, InputOK, NotRunYet, ContentOK, Before, Behind,
               FileData, NoData, Data
    <2>8. (BoxOK /\ ResultOK /\ BoxIsGone)'
        BY <1>1, <2>1, <2>6 DEF BoxOK, ResultOK, BoxIsGone, Behind
    <2>9. (CompilerOK /\ Properties)'
        BY <1>1, <2>1, <2>3 DEF StagingInv, CompilerOK, Properties, Behind, Before, NotRunYet,
               NoVerdictYet, FileData, Data, RunsOnWhatWasHashed,
               CompletedOutputIsOfThisRun, TempDirDropsOutputs, NoInputReachesTheCompiler
    <2> QED BY <2>4, <2>7, <2>8, <2>9 DEF StagingInv
<1> QED BY <1>5, <1>6

\* A program that is run leaves its output, and the result says what it is.
LEMMA RunInKeepsStagingInv ==
    ASSUME StagingInv, NEW d \in Dirs, NEW source \in OnDisk, RunIn(d, source),
           phase = "run", runtime # "remote",
           hashed # "absent" /\ Boxed => source = hashed,
           runtime = "cpp" => input = NoData
    PROVE  StagingInv'
<1>1. /\ UNCHANGED <<wrappers, runtime, src, client, declared, hashed, input, cwd, verdict,
                     builds, edits>>
      /\ phase' = "collect" /\ source # "absent" /\ ranOn' = source
      /\ result' = FileData(source) /\ out' = [out EXCEPT ![d] = source]
    BY DEF RunIn, routeVars, jobVars
<1>2. result' \in JobData /\ out' \in [Dirs -> OnDisk]
    BY <1>1 DEF StagingInv, StagingTypeOK, JobData, OnDisk, FileData, Data
<1>3. StagingTypeOK'
    BY <1>1, <1>2 DEF StagingInv, StagingTypeOK, Phases
<1>4. (ShapeOK /\ NoVerdictYet /\ InputOK /\ NotRunYet /\ ContentOK)'
    BY <1>1 DEF StagingInv, ShapeOK, NoVerdictYet, InputOK, NotRunYet, ContentOK, Before, Behind,
                FileData, Data
<1>5. (BoxOK /\ ResultOK /\ BoxIsGone /\ CompilerOK)'
    BY <1>1 DEF StagingInv, BoxOK, Boxed, ResultOK, BoxIsGone, CompilerOK, Behind, FileData, Data
<1>6. Properties'
    BY <1>1 DEF StagingInv, Properties, NoVerdictYet, Before, Boxed, RunsOnWhatWasHashed,
                CompletedOutputIsOfThisRun, TempDirDropsOutputs, NoInputReachesTheCompiler
<1> QED BY <1>3, <1>4, <1>5, <1>6 DEF StagingInv

\* A run in the working directory reads what was staged or edited there.
LEMMA RunInCwdKeepsStagingInv == StagingInv /\ RunInCwd => StagingInv'
<1> SUFFICES ASSUME StagingInv, RunInCwd PROVE StagingInv'
    OBVIOUS
<1>1. phase = "run" /\ runtime = "cwd" /\ RunIn(cwd, src[cwd])
    BY DEF RunInCwd
<1>2. cwd \in Dirs /\ src[cwd] \in OnDisk
    BY DEF StagingInv, StagingTypeOK, Dirs
<1>3. hashed # "absent" /\ Boxed => src[cwd] = hashed
    BY <1>1 DEF StagingInv, BoxOK, Boxed
<1> QED BY <1>1, <1>2, <1>3, RunInKeepsStagingInv

\* The compiler runs with no input, of which nothing was hashed.
LEMMA RunCompilerKeepsStagingInv == StagingInv /\ RunCompiler => StagingInv'
<1> SUFFICES ASSUME StagingInv, RunCompiler PROVE StagingInv'
    OBVIOUS
<1>1. /\ phase = "run" /\ runtime = "cpp" /\ RunIn("own", src["work"])
      /\ input.kind \in {"none", "reference"}
    BY DEF RunCompiler, Accepted
<1>2. "own" \in Dirs /\ src["work"] \in OnDisk
    BY DEF StagingInv, StagingTypeOK, Dirs
<1>3. input = NoData
    BY <1>1 DEF StagingInv, CompilerOK, ShapeOK
<1>4. hashed = "absent"
    BY <1>1, <1>3 DEF StagingInv, InputOK, Before
<1> QED BY <1>1, <1>2, <1>3, <1>4, RunInKeepsStagingInv

\* The worker runs on content that has the hash of the input.
LEMMA RunRemotelyKeepsStagingInv == StagingInv /\ RunRemotely => StagingInv'
<1> SUFFICES ASSUME StagingInv, RunRemotely PROVE StagingInv'
    OBVIOUS
<1>1. /\ UNCHANGED <<wrappers, runtime, src, out, client, declared, hashed, input, cwd,
                     result, verdict, builds, edits>>
      /\ phase = "run" /\ runtime = "remote" /\ phase' = "collect"
      /\ ranOn' = Sent(input).content
      /\ input = NoData \/ Materialized("absent", Sent(input))
    BY DEF RunRemotely, routeVars, jobVars
<1>2. ranOn' \in {"nil"} \cup Versions
    BY <1>1 DEF StagingInv, StagingTypeOK, JobData, Sent, Data
<1>3. hashed # "absent" => ranOn' = hashed
    <2> SUFFICES ASSUME hashed # "absent" PROVE ranOn' = hashed
        OBVIOUS
    <2>1. input.kind = "file" /\ input.hash = hashed /\ hashed # "nil"
        BY <1>1, StagingAssumption DEF StagingInv, InputOK, Before, StagingTypeOK, OnDisk
    <2>2. Materialized("absent", Sent(input)) /\ Sent(input).hash = hashed
        BY <1>1, <2>1 DEF NoData, Data, Sent
    <2> QED BY <1>1, <2>1, <2>2 DEF Materialized, Written
<1>4. StagingTypeOK'
    BY <1>1, <1>2 DEF StagingInv, StagingTypeOK, Phases, OnDisk
<1>5. (ShapeOK /\ NoVerdictYet /\ InputOK /\ NotRunYet /\ ContentOK)'
    BY <1>1 DEF StagingInv, ShapeOK, NoVerdictYet, InputOK, NotRunYet, ContentOK, Before, Behind
<1>6. runtime # "cpp" /\ ~ Boxed
    BY <1>1, Wrapped DEF StagingInv, Boxed
<1>7. (BoxOK /\ ResultOK /\ BoxIsGone /\ CompilerOK)'
    BY <1>1, <1>6 DEF StagingInv, NotRunYet, Before, BoxOK, Boxed, ResultOK, BoxIsGone, CompilerOK
<1>8. Properties'
    BY <1>1, <1>3, <1>6 DEF StagingInv, Properties, NoVerdictYet, Before, RunsOnWhatWasHashed,
           CompletedOutputIsOfThisRun, TempDirDropsOutputs, NoInputReachesTheCompiler
<1> QED BY <1>4, <1>5, <1>7, <1>8 DEF StagingInv

\* Embedding keeps the hash of the output.
LEMMA EmbedOutputsKeepsStagingInv == StagingInv /\ EmbedOutputs => StagingInv'
<1> SUFFICES ASSUME StagingInv, EmbedOutputs PROVE StagingInv'
    OBVIOUS
<1>1. /\ UNCHANGED <<wrappers, runtime, src, out, client, declared, hashed, input, cwd,
                     ranOn, builds, edits>>
      /\ phase = "collect" /\ "EmbedOutputs" \in wrappers /\ result # NoData
    BY DEF EmbedOutputs, routeVars, jobVars
<1>2. CASE ~ Readable(result, out[cwd])
    <2>1. JobFails /\ UNCHANGED result
        BY <1>2 DEF EmbedOutputs
    <2> QED BY <1>1, <2>1, FailureKeepsStagingInv DEF StagingInv, StagingTypeOK
<1>3. CASE Readable(result, out[cwd])
    <2>1. result' = Embedded(result, out[cwd]) /\ phase' = "clean" /\ verdict' = verdict
        BY <1>3 DEF EmbedOutputs
    <2>2. out[cwd] \in OnDisk /\ result \in JobData /\ result.kind = "file"
        BY <1>1 DEF StagingInv, ShapeOK, StagingTypeOK, JobData, Dirs
    <2>3. result' \in JobData /\ result'.kind = "file" /\ result'.hash = result.hash
        BY <1>3, <2>1, <2>2 DEF Embedded, Readable, JobData, OnDisk, Data
    <2>4. StagingTypeOK'
        BY <1>1, <2>1, <2>3 DEF StagingInv, StagingTypeOK, Phases
    <2>5. (ShapeOK /\ NoVerdictYet /\ InputOK /\ NotRunYet /\ ContentOK)'
        BY <1>1, <2>1, <2>3 DEF StagingInv, ShapeOK, NoVerdictYet, InputOK, NotRunYet, ContentOK,
                                Before, Behind
    <2>6. (BoxOK /\ ResultOK /\ BoxIsGone /\ CompilerOK)'
        BY <1>1, <2>1, <2>3 DEF StagingInv, BoxOK, Boxed, ResultOK, BoxIsGone, CompilerOK, Behind
    <2>7. Properties'
        BY <1>1, <2>1 DEF StagingInv, Properties, NoVerdictYet, Behind, RunsOnWhatWasHashed,
               CompletedOutputIsOfThisRun, TempDirDropsOutputs, NoInputReachesTheCompiler
    <2> QED BY <2>4, <2>5, <2>6, <2>7 DEF StagingInv
<1> QED BY <1>2, <1>3

\* The temporary directory is removed, with the outputs in it.
LEMMA RemoveTempDirKeepsStagingInv == StagingInv /\ RemoveTempDir => StagingInv'
<1> SUFFICES ASSUME StagingInv, RemoveTempDir PROVE StagingInv'
    OBVIOUS
<1>1. /\ UNCHANGED <<wrappers, runtime, client, declared, hashed, input, cwd, result, verdict,
                     ranOn, builds, edits>>
      /\ phase = "clean" /\ phase' = "finalize"
    BY DEF RemoveTempDir, routeVars, jobVars
<1>2. src' \in [Dirs -> OnDisk] /\ out' \in [Dirs -> OnDisk] /\ out'["box"] = "absent"
    BY DEF RemoveTempDir, StagingInv, StagingTypeOK, Dirs, OnDisk
<1>3. StagingTypeOK'
    BY <1>1, <1>2 DEF StagingInv, StagingTypeOK, Phases
<1>4. (ShapeOK /\ NoVerdictYet /\ InputOK /\ NotRunYet /\ ContentOK)'
    BY <1>1 DEF StagingInv, ShapeOK, NoVerdictYet, InputOK, NotRunYet, ContentOK, Before, Behind
<1>5. (BoxOK /\ ResultOK /\ BoxIsGone /\ CompilerOK)'
    BY <1>1, <1>2 DEF StagingInv, BoxOK, Boxed, ResultOK, BoxIsGone, CompilerOK, Behind
<1>6. Properties'
    BY <1>1 DEF StagingInv, Properties, NoVerdictYet, Behind, RunsOnWhatWasHashed,
                CompletedOutputIsOfThisRun, TempDirDropsOutputs, NoInputReachesTheCompiler
<1> QED BY <1>3, <1>4, <1>5, <1>6 DEF StagingInv

\* An output that is accepted has the hash that the result says, and none is
\* found in a directory that is gone.
LEMMA FinalizeKeepsStagingInv == StagingInv /\ FinalizeJobCompletion => StagingInv'
<1> SUFFICES ASSUME StagingInv, FinalizeJobCompletion PROVE StagingInv'
    OBVIOUS
<1>1. /\ UNCHANGED <<wrappers, runtime, src, client, declared, hashed, input, cwd, ranOn,
                     builds, edits>>
      /\ phase = "finalize"
    BY DEF FinalizeJobCompletion, routeVars, jobVars
<1> DEFINE made == MaterializedOutput(OutputData)
<1>2. /\ out[cwd] \in OnDisk /\ result \in JobData /\ OutputData \in JobData
      /\ OutputData.content \in {"nil", "empty"} => made = out[cwd]
      /\ OutputData.content \notin {"nil", "empty"} => made = OutputData.content
    BY DEF StagingInv, StagingTypeOK, Dirs, OutputData, MaterializedOutput, JobData, FileData, Data
<1>3. made \in OnDisk
    BY <1>2 DEF JobData, OnDisk
<1> HIDE DEF made
<1>4. CASE ~ declared
    <2>1. verdict' = "completed" /\ phase' = "idle" /\ result' = NoData /\ out' = out
        BY <1>4 DEF FinalizeJobCompletion
    <2>2. StagingTypeOK'
        BY <1>1, <2>1 DEF StagingInv, StagingTypeOK, Phases, JobData, NoData, Data
    <2>3. (ShapeOK /\ NoVerdictYet /\ InputOK /\ NotRunYet /\ ContentOK)'
        BY <1>1, <2>1 DEF StagingInv, ShapeOK, NoVerdictYet, InputOK, NotRunYet, ContentOK,
                          Before, Behind, NoData, Data
    <2>4. (BoxOK /\ ResultOK /\ BoxIsGone /\ CompilerOK)'
        BY <2>1 DEF BoxOK, ResultOK, BoxIsGone, CompilerOK, Behind
    <2>5. Properties'
        BY <1>1, <1>4, <2>1 DEF StagingInv, Properties, CompilerOK, Behind, RunsOnWhatWasHashed,
               CompletedOutputIsOfThisRun, TempDirDropsOutputs, NoInputReachesTheCompiler
    <2> QED BY <2>2, <2>3, <2>4, <2>5 DEF StagingInv
<1>5. CASE declared
    <2>1. out' = [out EXCEPT ![cwd] = made]
        BY <1>5 DEF FinalizeJobCompletion, made
    <2>2. out' \in [Dirs -> OnDisk] /\ out'[cwd] = made
        BY <1>3, <2>1 DEF StagingInv, StagingTypeOK, Dirs
    <2>3. CASE ~ OutputSaved(OutputData)
        <3>1. JobFails /\ UNCHANGED result
            BY <1>5, <2>3 DEF FinalizeJobCompletion
        <3> QED BY <1>1, <2>2, <3>1, FailureKeepsStagingInv DEF StagingInv, StagingTypeOK
    <2>4. CASE OutputSaved(OutputData)
        <3>1. /\ verdict' = "completed" /\ phase' \in {"idle", "outputs"}
              /\ result' = FileData(made)
            BY <1>5, <2>2, <2>4 DEF FinalizeJobCompletion
        <3>2. made \in Versions /\ OutputData.hash \in {"nil", made}
            BY <1>3, <2>4 DEF OutputSaved, Saved, OnDisk, made
        <3>3. runtime # "remote" => made = ranOn
            <4>1. runtime # "remote" => /\ result # NoData /\ result.hash = ranOn
                                       /\ ranOn # "nil"
                BY <1>1, StagingAssumption DEF StagingInv, ResultOK, Behind, OnDisk, NoData, Data
            <4> QED BY <3>2, <4>1 DEF OutputData
        <3>4. "TempDir" \in wrappers => "EmbedOutputs" \in wrappers
            <4> SUFFICES ASSUME "TempDir" \in wrappers, "EmbedOutputs" \notin wrappers
                         PROVE  FALSE
                OBVIOUS
            <4>1. cwd = "box" /\ out["box"] = "absent"
                BY <1>1 DEF StagingInv, BoxOK, BoxIsGone, Boxed, Behind
            <4>2. OutputData.content = "nil"
                BY DEF StagingInv, ContentOK, OutputData, FileData, Data
            <4> QED BY <1>2, <3>2, <4>1, <4>2, StagingAssumption
        <3>5. StagingTypeOK'
            BY <1>1, <2>2, <3>1, <3>2 DEF StagingInv, StagingTypeOK, Phases, JobData, FileData, Data
        <3>6. (ShapeOK /\ NoVerdictYet /\ InputOK /\ NotRunYet /\ ContentOK)'
            BY <1>1, <3>1 DEF StagingInv, ShapeOK, NoVerdictYet, InputOK, NotRunYet, ContentOK,
                              Before, Behind, FileData, Data
        <3>7. (BoxOK /\ ResultOK /\ BoxIsGone /\ CompilerOK)'
            BY <3>1 DEF BoxOK, ResultOK, BoxIsGone, CompilerOK, Behind
        <3>8. (RunsOnWhatWasHashed /\ TempDirDropsOutputs /\ NoInputReachesTheCompiler)'
            BY <1>1, <3>1, <3>4 DEF StagingInv, Properties, CompilerOK, Behind,
                   RunsOnWhatWasHashed, TempDirDropsOutputs, NoInputReachesTheCompiler
        <3>9. CompletedOutputIsOfThisRun'
            BY <1>1, <3>1, <3>2, <3>3, StagingAssumption
               DEF CompletedOutputIsOfThisRun, FileData, Data
        <3> QED BY <3>5, <3>6, <3>7, <3>8, <3>9 DEF StagingInv, Properties
    <2> QED BY <2>3, <2>4
<1> QED BY <1>4, <1>5

\* The driver looks for the output, and the job is over.
LEMMA WriteOutputsKeepsStagingInv == StagingInv /\ WriteJobOutputs => StagingInv'
<1> SUFFICES ASSUME StagingInv, WriteJobOutputs PROVE StagingInv'
    OBVIOUS
<1>1. /\ UNCHANGED <<wrappers, runtime, src, out, client, declared, hashed, input, cwd,
                     result, verdict, ranOn, builds, edits>>
      /\ phase = "outputs" /\ phase' = "idle"
    BY DEF WriteJobOutputs, routeVars, jobVars
<1>2. StagingTypeOK'
    BY <1>1 DEF StagingInv, StagingTypeOK, Phases
<1>3. (ShapeOK /\ NoVerdictYet /\ InputOK /\ NotRunYet /\ ContentOK)'
    BY <1>1 DEF StagingInv, ShapeOK, NoVerdictYet, InputOK, NotRunYet, ContentOK, Before, Behind
<1>4. (BoxOK /\ ResultOK /\ BoxIsGone /\ CompilerOK /\ Properties)'
    BY <1>1 DEF StagingInv, BoxOK, ResultOK, BoxIsGone, CompilerOK, Properties, Behind,
                RunsOnWhatWasHashed, CompletedOutputIsOfThisRun, TempDirDropsOutputs,
                NoInputReachesTheCompiler
<1> QED BY <1>2, <1>3, <1>4 DEF StagingInv

\* A step of another component changes nothing here.
LEMMA StutterKeepsStagingInv == StagingInv /\ UNCHANGED stagingVars => StagingInv'
BY DEF stagingVars, StagingInv, StagingTypeOK, ShapeOK, NoVerdictYet, InputOK, NotRunYet, BoxOK,
       Boxed, ResultOK, ContentOK, BoxIsGone, CompilerOK, Properties, RunsOnWhatWasHashed,
       CompletedOutputIsOfThisRun, TempDirDropsOutputs, NoInputReachesTheCompiler

\* Every step of a job, and every edit.
LEMMA StagingInvStep == StagingInv /\ [StagingNext]_stagingVars => StagingInv'
BY EditKeepsStagingInv, CreateKeepsStagingInv, VerifyKeepsStagingInv,
   PassThroughKeepsStagingInv, EmbedInputsKeepsStagingInv, StageInputsKeepsStagingInv,
   RunFailsKeepsStagingInv, RunInCwdKeepsStagingInv, RunCompilerKeepsStagingInv,
   RunRemotelyKeepsStagingInv, EmbedOutputsKeepsStagingInv, RemoveTempDirKeepsStagingInv,
   FinalizeKeepsStagingInv, WriteOutputsKeepsStagingInv, StutterKeepsStagingInv
   DEF StagingNext

----------------------------------------------------------------------------
\* The inductive invariant holds: a job keeps what it was made with.
THEOREM StagingInvariant == StagingSpec => []StagingInv
BY StagingInvInit, StagingInvStep, PTL DEF StagingSpec

\* Every variable has its type, whatever files and sandboxes there are.
THEOREM StagingTypeCorrect == StagingSpec => []StagingTypeOK
BY StagingInvariant, PTL DEF StagingInv

\* A staged job runs on the content that its client hashed.
THEOREM StagedRunsOnWhatWasHashed == StagingSpec => []RunsOnWhatWasHashed
BY StagingInvariant, PTL DEF StagingInv, Properties

\* The output that a completed job reports is that of its own run.
THEOREM ReportedOutputIsOfThisRun == StagingSpec => []CompletedOutputIsOfThisRun
BY StagingInvariant, PTL DEF StagingInv, Properties

\* The temporary directory is gone when the outputs are looked for.
THEOREM TempDirLosesOutputs == StagingSpec => []TempDirDropsOutputs
BY StagingInvariant, PTL DEF StagingInv, Properties

\* No compile or link job with an input completes.
THEOREM CompilerTakesNoInput == StagingSpec => []NoInputReachesTheCompiler
BY StagingInvariant, PTL DEF StagingInv, Properties
=============================================================================
