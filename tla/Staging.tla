------------------------------ MODULE Staging ------------------------------
(***************************************************************************)
(* The files of a job: from the client that hashes its source, through the *)
(* sandboxes around the runtime, to the outputs that the daemon verifies   *)
(* and the driver looks for.  pkg/staging/job_data_stager.go, pkg/sandbox, *)
(* the C++ and the remote runtime, Scheduler.FinalizeJobCompletion and the *)
(* driver.                                                                 *)
(*                                                                         *)
(* A job has at most one input, "src", and one output, "out".  A content   *)
(* is its own hash (SHA-256 is taken to be injective).  What is built from *)
(* a source is named like the source.  Jobs run one after the other; files *)
(* change while they do.                                                   *)
(***************************************************************************)
EXTENDS Naturals

CONSTANTS Versions,   \* contents of a file that are not empty
          Runtimes,   \* "cpp", "remote", and "cwd": one that takes any input
                      \* and works in the directory of the job
          MaxBuilds,  \* bound: the jobs
          MaxEdits    \* bound: the changes that others make

ASSUME StagingAssumption ==
  /\ Versions \cap {"absent", "empty", "nil"} = {}
  /\ Runtimes \subseteq {"cpp", "remote", "cwd"}
  /\ MaxBuilds \in Nat /\ MaxEdits \in Nat

\* The client's directory, the sandbox's, and the one that the executor of
\* the C++ runtime was made with.
Dirs == {"work", "box", "own"}

OnDisk == {"absent", "empty"} \cup Versions

\* JobData: a reference, or file data, which may carry its content and a hash.
Data(k, c, h) == [kind |-> k, content |-> c, hash |-> h]
NoData == Data("none", "nil", "nil")
JobData == [kind : {"none", "reference", "file"},
            content : {"nil", "empty"} \cup Versions,
            hash : {"nil", "empty"} \cup Versions]

FileData(c) == Data("file", "nil", c)         \* JobDataModeReference
FileWithContent(c) == Data("file", c, c)      \* JobDataModeContent

VARIABLES
  wrappers,  \* the sandboxes around the runtime
  runtime,   \* the runtime
  src,       \* the source in each directory
  out,       \* the output in each directory
  phase,     \* how far the job is
  client,    \* who submitted it
  input,     \* Job.Inputs
  declared,  \* whether Job.Outputs names the output
  cwd,       \* Job.Cwd
  result,    \* JobResult.Outputs
  verdict,   \* the status the job ended with
  hashed,    \* history: the content that the client hashed
  ranOn,     \* history: the source that the runtime found
  builds, edits

routeVars   == <<wrappers, runtime>>
jobVars     == <<client, declared, hashed>>
stagingVars == <<wrappers, runtime, src, out, phase, client, input, declared, cwd,
                 result, verdict, hashed, ranOn, builds, edits>>

Phases == {"idle", "created", "embed", "stage", "run", "collect", "clean",
           "finalize", "outputs"}

\* The sandboxes in the order of the calls, outermost first.  The C++ runtime
\* is wrapped in TempDir, the remote one in EmbedInputs.
Routes ==
  {w \in SUBSET {"EmbedInputs", "Workdir", "TempDir", "EmbedOutputs"} :
     ~ {"Workdir", "TempDir"} \subseteq w}

Wrappings(r) == IF r = "cpp" THEN {{"TempDir"}}
                ELSE IF r = "remote" THEN {{"EmbedInputs"}} ELSE Routes

StagingInit ==
  /\ runtime \in Runtimes /\ wrappers \in Wrappings(runtime)
  /\ src = [d \in Dirs |-> "absent"] /\ out = [d \in Dirs |-> "absent"]
  /\ phase = "idle" /\ client = "other" /\ declared = FALSE
  /\ input = NoData /\ cwd = "work" /\ result = NoData /\ verdict = "none"
  /\ hashed = "absent" /\ ranOn = "absent"
  /\ builds = 0 /\ edits = 0

----------------------------------------------------------------------------
(***************************************************************************)
(* The client.                                                             *)
(***************************************************************************)
\* Somebody changes, makes or removes a file in the client's directory.
Edit ==
  /\ edits < MaxEdits /\ edits' = edits + 1
  /\ \E c \in OnDisk :
       \/ src' = [src EXCEPT !["work"] = c] /\ UNCHANGED out
       \/ out' = [out EXCEPT !["work"] = c] /\ UNCHANGED src
  /\ UNCHANGED <<routeVars, phase, jobVars, input, cwd, result, verdict,
                 ranOn, builds>>

\* A message carries no empty content.
Sent(data) == IF data.content = "empty" THEN Data(data.kind, "nil", data.hash) ELSE data

\* What each kind of input is made from: CreateJobDataForFile reads the file,
\* a reference only names it.
Inputs(c) ==
  {NoData, Data("reference", "nil", "nil")}
    \cup (IF c = "absent" THEN {} ELSE {FileData(c), Sent(FileWithContent(c))})

CreateJob ==
  /\ phase = "idle" /\ builds < MaxBuilds
  /\ builds' = builds + 1
  /\ input' \in Inputs(src["work"])
  /\ hashed' = IF input'.kind = "file" THEN src["work"] ELSE "absent"
  /\ client' \in {"driver", "other"} /\ declared' \in BOOLEAN
  /\ client' = "driver" => input' = FileData(src["work"]) /\ declared'
  /\ phase' = IF client' = "driver" THEN "created" ELSE "embed"
  /\ cwd' = "work" /\ result' = NoData /\ verdict' = "none" /\ ranOn' = "absent"
  /\ UNCHANGED <<routeVars, src, out, edits>>

\* VerificationModeSaved: the file is there, unchanged and not empty.
Saved(d, data) == d # "absent" /\ d # "empty" /\ data.hash \in {"nil", d}

\* A driver verifies its inputs before it submits the job.
VerifyJobInputs ==
  /\ phase = "created"
  /\ phase' = IF Saved(src["work"], input) THEN "embed" ELSE "idle"
  /\ UNCHANGED <<routeVars, src, out, jobVars, input, cwd, result, verdict,
                 ranOn, builds, edits>>

----------------------------------------------------------------------------
(***************************************************************************)
(* The sandboxes.  An error of one is the failure of the job.              *)
(***************************************************************************)
\* FinalizeJobCompletion leaves a failed job as it is.
JobFails == phase' = "idle" /\ verdict' = "failed"

Wrapper == [embed |-> {"EmbedInputs"}, stage |-> {"Workdir", "TempDir"},
            collect |-> {"EmbedOutputs"}, clean |-> {"TempDir"}]

After == [embed |-> "stage", stage |-> "run", collect |-> "clean", clean |-> "finalize"]

\* A sandbox that is not there, or that has nothing to do.
PassThrough ==
  /\ phase \in {"embed", "stage", "collect", "clean"}
  /\ \/ Wrapper[phase] \cap wrappers = {}
     \/ phase = "embed" /\ input = NoData
     \/ phase = "collect" /\ result = NoData
  /\ phase' = After[phase]
  /\ UNCHANGED <<routeVars, src, out, jobVars, input, cwd, result, verdict,
                 ranOn, builds, edits>>

\* EmbedJobData: what has no content is read from the job's directory, and
\* file data keeps the hash it came with.
Embedded(data, c) ==
  IF data.kind = "reference" THEN FileWithContent(c)
  ELSE IF data.content \in {"nil", "empty"} THEN Data("file", c, data.hash)
  ELSE data

Readable(data, c) == c # "absent" \/ data.content \notin {"nil", "empty"}

EmbedInputs ==
  /\ phase = "embed" /\ "EmbedInputs" \in wrappers /\ input # NoData
  /\ IF Readable(input, src[cwd])
       THEN /\ input' = Embedded(input, src[cwd]) /\ phase' = "stage"
            /\ UNCHANGED verdict
       ELSE JobFails /\ UNCHANGED input
  /\ UNCHANGED <<routeVars, src, out, jobVars, cwd, result, ranOn, builds, edits>>

\* Fault: content that is missing is written too.
Written_NoContent(d, data) == IF d = "absent" THEN data.content ELSE d

\* WriteJobDataToFile into a directory: a file that is there is kept, one
\* without content is looked for in that very directory.
Written(d, data) == IF d = "absent" /\ data.content # "nil" THEN data.content ELSE d

\* Fault: a file that was written is not verified.
Materialized_Unverified(d, data) == data.kind = "file" /\ Written(d, data) # "absent"

Materialized(d, data) ==
  /\ data.kind = "file"
  /\ Written(d, data) # "absent"
  /\ data.hash \in {"nil", Written(d, data)}

\* The directory of a sandbox: a fresh one, or the one it was given.
BoxSrc == IF "TempDir" \in wrappers THEN "absent" ELSE src["box"]
BoxOut == IF "TempDir" \in wrappers THEN "absent" ELSE out["box"]

\* The inputs are written to the directory and made again from what is there.
StageInputs ==
  /\ phase = "stage" /\ {"Workdir", "TempDir"} \cap wrappers # {}
  /\ src' = [src EXCEPT !["box"] =
               IF input.kind = "file" THEN Written(BoxSrc, input) ELSE BoxSrc]
  /\ out' = [out EXCEPT !["box"] = BoxOut]
  /\ IF input = NoData \/ Materialized(BoxSrc, input)
       THEN /\ phase' = "run" /\ cwd' = "box"
            /\ input' = IF input = NoData THEN NoData ELSE FileData(src'["box"])
            /\ UNCHANGED verdict
       ELSE JobFails /\ UNCHANGED <<cwd, input>>
  /\ UNCHANGED <<routeVars, jobVars, result, ranOn, builds, edits>>

----------------------------------------------------------------------------
(***************************************************************************)
(* The runtimes.  What they run may fail.                                  *)
(***************************************************************************)
RunFails ==
  /\ phase = "run"
  /\ JobFails
  /\ UNCHANGED <<routeVars, src, out, jobVars, input, cwd, result, ranOn, builds, edits>>

\* A program that is run in directory d leaves its output there, and the
\* executor makes the outputs of the result from it.
RunIn(d, source) ==
  /\ source # "absent"
  /\ ranOn' = source
  /\ out' = [out EXCEPT ![d] = source]
  /\ result' = FileData(source)
  /\ phase' = "collect"
  /\ UNCHANGED <<routeVars, src, jobVars, input, cwd, verdict, builds, edits>>

RunInCwd == phase = "run" /\ runtime = "cwd" /\ RunIn(cwd, src[cwd])

\* Fault: any input is accepted.
Accepted_Any == TRUE

\* validateInputsAreReferences
Accepted == runtime = "cpp" => input.kind \in {"none", "reference"}

\* The compiler is run in the executor's directory.  A driver's job, which names
\* its source relative to the job's directory, has an input and is not accepted;
\* a client's job without inputs names the source by an absolute path.
RunCompiler ==
  phase = "run" /\ runtime = "cpp" /\ Accepted /\ RunIn("own", src["work"])

\* The worker stages what it was sent in a directory of its own; the result
\* of a remote job carries no outputs.
RunRemotely ==
  /\ phase = "run" /\ runtime = "remote"
  /\ input = NoData \/ Materialized("absent", Sent(input))
  /\ ranOn' = Sent(input).content
  /\ phase' = "collect"
  /\ UNCHANGED <<routeVars, src, out, jobVars, input, cwd, result, verdict, builds, edits>>

EmbedOutputs ==
  /\ phase = "collect" /\ "EmbedOutputs" \in wrappers /\ result # NoData
  /\ IF Readable(result, out[cwd])
       THEN /\ result' = Embedded(result, out[cwd]) /\ phase' = "clean"
            /\ UNCHANGED verdict
       ELSE JobFails /\ UNCHANGED result
  /\ UNCHANGED <<routeVars, src, out, jobVars, input, cwd, ranOn, builds, edits>>

\* Fault: the directory is left for the completion callback.
RemoveTempDir_Kept ==
  /\ phase = "clean" /\ "TempDir" \in wrappers
  /\ phase' = "finalize"
  /\ UNCHANGED <<routeVars, src, out, jobVars, input, cwd, result, verdict,
                 ranOn, builds, edits>>

\* Before the completion callback is called.
RemoveTempDir ==
  /\ phase = "clean" /\ "TempDir" \in wrappers
  /\ src' = [src EXCEPT !["box"] = "absent"]
  /\ out' = [out EXCEPT !["box"] = "absent"]
  /\ phase' = "finalize"
  /\ UNCHANGED <<routeVars, jobVars, input, cwd, result, verdict, ranOn, builds, edits>>

----------------------------------------------------------------------------
(***************************************************************************)
(* FinalizeJobCompletion, of the job whose directory the sandbox changed:  *)
(* an output with content is written, one without has to be there; what    *)
(* is reported has its hash and no content.                                *)
(***************************************************************************)
\* The output of the result, or what the job declared.
OutputData == IF result # NoData THEN result ELSE FileData("nil")

MaterializedOutput(data) ==
  IF data.content \in {"nil", "empty"} THEN out[cwd] ELSE data.content

\* Fault: an output that is there is taken for the one of the result.
OutputSaved_AnyHash(data) == MaterializedOutput(data) \notin {"absent", "empty"}

OutputSaved(data) == Saved(MaterializedOutput(data), data)

FinalizeJobCompletion ==
  /\ phase = "finalize"
  /\ IF ~ declared
       THEN /\ verdict' = "completed" /\ phase' = "idle" /\ result' = NoData
            /\ UNCHANGED out
       ELSE /\ out' = [out EXCEPT ![cwd] = MaterializedOutput(OutputData)]
            /\ IF OutputSaved(OutputData)
                 THEN /\ verdict' = "completed" /\ result' = FileData(out'[cwd])
                      /\ phase' = IF client = "driver" THEN "outputs" ELSE "idle"
                 ELSE JobFails /\ UNCHANGED result
  /\ UNCHANGED <<routeVars, src, jobVars, input, cwd, ranOn, builds, edits>>

\* The driver looks for the output: when it is missing or another one, it
\* warns, and exits with 0.
WriteJobOutputs ==
  /\ phase = "outputs"
  /\ phase' = "idle"
  /\ UNCHANGED <<routeVars, src, out, jobVars, input, cwd, result, verdict,
                 ranOn, builds, edits>>

StagingNext ==
  \/ Edit \/ CreateJob \/ VerifyJobInputs \/ PassThrough
  \/ EmbedInputs \/ StageInputs
  \/ RunFails \/ RunInCwd \/ RunCompiler \/ RunRemotely
  \/ EmbedOutputs \/ RemoveTempDir
  \/ FinalizeJobCompletion \/ WriteJobOutputs

StagingSpec == StagingInit /\ [][StagingNext]_stagingVars

----------------------------------------------------------------------------
\* Every variable has its type.
StagingTypeOK ==
  /\ runtime \in Runtimes /\ wrappers \in Wrappings(runtime)
  /\ src \in [Dirs -> OnDisk] /\ out \in [Dirs -> OnDisk]
  /\ phase \in Phases /\ client \in {"driver", "other"} /\ declared \in BOOLEAN
  /\ {input, result} \subseteq JobData
  /\ cwd \in {"work", "box"} /\ verdict \in {"none", "completed", "failed"}
  /\ hashed \in OnDisk /\ ranOn \in OnDisk \cup {"nil"}
  /\ builds \in 0..MaxBuilds /\ edits \in 0..MaxEdits

(***************************************************************************)
(* A job whose inputs a sandbox staged, here or on the worker, runs on the *)
(* content that its client hashed: not on an edit made after that, even    *)
(* before the input was embedded, nor on the file of an earlier job in the *)
(* same directory.                                                         *)
(***************************************************************************)
RunsOnWhatWasHashed ==
  {hashed, ranOn} \cap {"absent", "nil"} = {}
    /\ (runtime = "remote" \/ {"Workdir", "TempDir"} \cap wrappers # {})
    => ranOn = hashed

(***************************************************************************)
(* The output that a completed job reports is not empty and is that of     *)
(* this run: a file that lies there from an earlier job, or that somebody  *)
(* changed before it was hashed again, fails the job.  A remote job is the *)
(* exception: its result carries no hash to compare with.                  *)
(***************************************************************************)
CompletedOutputIsOfThisRun ==
  phase = "outputs" =>
    /\ result.hash \notin {"nil", "absent", "empty"}
    /\ runtime # "remote" => result.hash = ranOn

(***************************************************************************)
(* The temporary directory is gone when the outputs are looked for in it:  *)
(* a job that declares an output completes in a TempDir sandbox only if    *)
(* the output was embedded before.                                         *)
(***************************************************************************)
TempDirDropsOutputs ==
  "TempDir" \in wrappers /\ verdict = "completed" /\ declared
    => "EmbedOutputs" \in wrappers

(***************************************************************************)
(* The TempDir sandbox hands over file data, which the C++ runtime that it *)
(* is there for refuses: a compile or link job with an input never         *)
(* completes, whatever kind of input its client sends.                     *)
(***************************************************************************)
NoInputReachesTheCompiler ==
  runtime = "cpp" /\ verdict = "completed" => input = NoData
=============================================================================
