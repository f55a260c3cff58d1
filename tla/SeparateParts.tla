----------------------------- MODULE SeparateParts -----------------------------
(***************************************************************************)
(* The parts that are studied by themselves: the code registry, the frame  *)
(* readers, the window scheduler and the offline programs.  A behaviour is *)
(* one of Parts: one that keeps state takes the steps of its module; a     *)
(* pure function is given one of its inputs, and its answer kept.          *)
(***************************************************************************)
EXTENDS L0Windows, MainLoop, SassText, Classifier, SampleWindows, Splits,
        DatasetBuild, ThrottleRuns, CodeRegistry, FrameReader

CONSTANTS
  Parts,           \* names of the parts to run
  NoAnswer,
  Listings,        \* of kernels, for extract_main_loop
  KernelTables,    \* the known kernels of a capture: [kernel, loop] by number
  LaunchLists,     \* numbers of kernels, some of them not known
  TextLengths, WindowSizes,   \* in tokens
  CaptureTexts,    \* the model's answers to the chunks of a capture's texts
  SampleRuns,      \* [process, device]: the samples of a run
  CapturedSets,    \* sequences of captures, for a dataset
  WindowCounts,    \* how many windows each has
  SplitRatios,
  SafeNames, CanonicalNames, CompactNames, ContainedNames,  \* of kernels
  CodeEvents, Dumps,          \* code objects and what their dumps hold
  ToolSets, KernelLaunches

Files == INSTANCE KernelFiles WITH
  SafeName <- SafeNames, Canonical <- CanonicalNames, Compact <- CompactNames,
  Contained <- ContainedNames

ASSUME InputsAssumption ==
  /\ \A lines \in Listings : lines \in Seq(SassLine) /\ OnlyJumpsGoBack(lines)
  /\ \A kernels \in KernelTables : \A k \in DOMAIN kernels :
       kernels[k] \in [kernel : Seq(Line), loop : Seq(Line)]
  /\ LaunchLists \subseteq Seq(Nat)
  /\ TextLengths \subseteq Nat \ {0} /\ WindowSizes \subseteq Nat \ {0}
  /\ CaptureTexts \subseteq Seq(Seq([LabelIds -> 0..100])) \ {<<>>}
  /\ CapturedSets \subseteq Seq([workload : STRING, stem : STRING, capture : STRING,
                                 label : STRING, opt : STRING])
  /\ \A workloads \in CapturedSets, emitted \in WindowCounts :
       \A i \in DOMAIN workloads : emitted[i] \in Nat
  /\ SplitRatios \subseteq [SplitSet -> Nat]
  /\ None \notin Nat
  /\ CodeEvents \in Seq([id : Nat, dump : DOMAIN Dumps])
  /\ \A i, j \in DOMAIN CodeEvents : CodeEvents[i].id = CodeEvents[j].id => i = j
  /\ KernelLaunches \subseteq Seq([name : DOMAIN SafeNames, code : Nat])

VARIABLES part, input, answer

partVars == <<part, input, answer>>
ownVars == <<vars, buildVars, throttleVars, registryVars, frameVars>>
partsVars == <<partVars, ownVars>>

-----------------------------------------------------------------------------
PartsInit ==
  /\ part \in Parts /\ input = NoAnswer /\ answer = NoAnswer
  /\ Init /\ BuildInit /\ ThrottleInit /\ RegistryInit /\ FrameInit
  /\ part # "frames" => side = "processor"

Given(name) == part = name /\ answer = NoAnswer
Answers(value, result) ==
  /\ input' = value /\ answer' = result
  /\ UNCHANGED <<part, ownVars>>

ExtractLoops ==
  /\ Given("loops")
  /\ \E lines \in Listings : Answers(lines, ExtractMainLoop(lines))

RenderWindows ==
  /\ Given("texts")
  /\ \E kernels \in KernelTables, list \in LaunchLists :
       Answers([kernels |-> kernels, launches |-> list],
               WindowText(list, kernels))

CutText ==
  /\ Given("chunks")
  /\ \E n \in TextLengths, window \in WindowSizes :
       \E stride \in 0..(window - 1) :
         Answers([n |-> n, window |-> window, stride |-> stride],
                 Chunks(n, window, stride))

JudgeCapture ==
  /\ Given("verdicts")
  /\ \E texts \in CaptureTexts :
       Answers(texts, GroupPrediction(texts, "any_window_suspicious"))

Windowize ==
  /\ Given("samples")
  /\ \E run \in SampleRuns :
       Answers(run, BuildFeatures(run.process, run.device))

SplitDataset ==
  /\ Given("splits")
  /\ \E workloads \in CapturedSets, emitted \in WindowCounts, shares \in SplitRatios,
        l0, allTest \in BOOLEAN :
       LET dirs == [i \in DOMAIN workloads |->
                      BuiltDirectory(workloads[i], l0, emitted[i])]
       IN  \E shuffled \in Shuffles(LoadRecords(dirs)) :
             Answers([dirs |-> dirs, ratios |-> shares, allTest |-> allTest],
                     MakeSplits(dirs, shuffled, shares, allTest))

SplitKernels ==
  /\ Given("kernels")
  /\ \E list \in KernelLaunches, tools \in ToolSets :
       LET report == Files!Disassemble(Files!CopyCode(CodeEvents), Dumps, tools)
       IN  Answers([launches |-> list, report |-> report],
                   Files!SplitLaunched(list, report))

ScheduleWindows ==
  /\ part = "windows" /\ Next
  /\ UNCHANGED <<partVars, buildVars, throttleVars, registryVars, frameVars>>
BuildDataset ==
  /\ part = "build" /\ BuildNext
  /\ UNCHANGED <<partVars, vars, throttleVars, registryVars, frameVars>>
RunCaptures ==
  /\ part = "captures" /\ ThrottleNext
  /\ UNCHANGED <<partVars, vars, buildVars, registryVars, frameVars>>
RegisterCodes ==
  /\ part = "registry" /\ RegistryNext
  /\ UNCHANGED <<partVars, vars, buildVars, throttleVars, frameVars>>
ReadFrames ==
  /\ part = "frames" /\ FrameNext
  /\ UNCHANGED <<partVars, vars, buildVars, throttleVars, registryVars>>

PartsNext ==
  \/ ExtractLoops \/ RenderWindows \/ CutText \/ JudgeCapture \/ Windowize
  \/ SplitDataset \/ SplitKernels
  \/ ScheduleWindows \/ BuildDataset \/ RunCaptures
  \/ RegisterCodes \/ ReadFrames

PartsSpec == PartsInit /\ [][PartsNext]_partsVars

-----------------------------------------------------------------------------
Answered(name) == part = name /\ answer # NoAnswer

(* The main loop found in any kernel agrees with the kernel's control-flow *)
(* graph (extract_main_loop, build_cfg).                                   *)
MainLoopIsLoop == Answered("loops") => MainLoopFollowsGraph(input, answer)

(* Whatever is launched, what the scheduler and the classifier see of it   *)
(* fits the budget and shows the newest launch (render_workload_sass).     *)
WindowTextFits ==
  Answered("texts") => RenderedTextFits(input.launches, input.kernels)

(* Online and offline cut a text into the same chunks and judge them alike *)
(* (predict, _aggregate; chunk_token_ids, aggregate_group_predictions).    *)
OnlineJudgesLikeOffline ==
  /\ Answered("chunks") => ChunksAgree(input.n, input.window, input.stride)
  /\ Answered("verdicts") => VerdictsAgree(input)

(* The baselines' windows show the samples of a run in order, without      *)
(* losing more than the end, and alike for all of them (windowize.py).     *)
SampleWindowsComplete ==
  Answered("samples") => WindowsFollowSamples(input.process, input.device, answer)

(* Splits of what the dataset build wrote are complete and never divide a  *)
(* group (make_grouped_stratified_split, validate_splits).                 *)
GroupsStayWhole ==
  Answered("splits") =>
    SplitsKeepGroups(input.dirs, input.ratios, input.allTest, answer)

(* analysis/README.md:75: "Classification splits are workload-level and    *)
(* grouped by optimization-pair stem, so `_o2` and `_o3` variants stay in  *)
(* the same split."                                                        *)
PairsStayTogether == Answered("splits") => OptimizationPairsTogether(input.dirs, answer)

(* A launch is shown a kernel of its own code object                       *)
(* (split_launched_kernels, resolve_kernel_dir).                           *)
ResolvedKernelIsOwn ==
  Answered("kernels") => Files!ResolvedIsOwn(input.launches, input.report, answer)
=============================================================================
