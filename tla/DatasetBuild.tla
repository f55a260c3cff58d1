----------------------------- MODULE DatasetBuild -----------------------------
(***************************************************************************)
(* The dataset build (analysis/build_dataset.py): worker processes take    *)
(* captures from the manifest, build each in a temporary directory beside  *)
(* the final one and move it into place.  A build may be killed between    *)
(* any two steps and started again with other options; directories stay.   *)
(*                                                                         *)
(* What a capture's build comes to is given by Kind: "windows" or "quiet"  *)
(* (no L0 window passes the gate), "declared" (its manifest row counts no  *)
(* kernel launch), "empty" (its events have none), "unmapped" (no kernel   *)
(* could be found), "broken" (anything else fails).                        *)
(***************************************************************************)
EXTENDS Integers, Sequences, FiniteSets

CONSTANTS
  Captures,     \* rows of the capture manifests, numbered in their order
  Base,         \* capture -> safe_workload_name of its workload
  Prefix,       \* capture -> the first 12 characters of its id
  Kind,
  Builders,     \* worker processes (jobs)
  BuildOptions, \* command lines: [skip, l0, keep, dry]
  MaxBuilds,    \* bound: builds started
  NoCapture

ASSUME CapturesAssumption ==
  /\ Captures \subseteq Nat /\ NoCapture \notin Captures
  /\ Builders \subseteq Nat \ {0} /\ IsFiniteSet(Builders)
  /\ BuildOptions \subseteq
       [skip : BOOLEAN, l0 : BOOLEAN, keep : BOOLEAN, dry : BOOLEAN]
  /\ MaxBuilds \in Nat

VARIABLES
  options,      \* args of the build, <<>> before the first
  waiting,      \* captures no worker has taken
  job, step,    \* a worker's capture and control point
  pid,          \* a worker's process id
  directories,  \* output_dir/workloads: [workload, pid] -> [of, state]
  results,      \* capture -> status of process_capture, or "pending"
  builds,       \* builds started
  cutOff, left  \* history: directories that a kill found being removed,
                \* and temporary ones no worker will remove

jobVars == <<job, step, pid>>
historyVars == <<builds, cutOff, left>>
buildVars == <<options, waiting, jobVars, directories, results, historyVars>>

(* capture_spec_from_manifest_row: from the second row of a workload on    *)
(* the name has a part of the capture's id.                                *)
Workload(c) ==
  IF \E b \in Captures : b < c /\ Base[b] = Base[c] THEN <<Base[c], Prefix[c]>>
  ELSE <<Base[c]>>

NotAPid == 0
Final(c) == [workload |-> Workload(c), pid |-> NotAPid]
TempInPlace(c, p) == Final(c)   \* faulty: built where it will be read
Temp(c, p) == [workload |-> Workload(c), pid |-> pid[p]]

Exists(d) == d \in DOMAIN directories
Without(dirs, gone) == [d \in DOMAIN dirs \ gone |-> dirs[d]]
With(dirs, d, content) ==
  [e \in DOMAIN dirs \cup {d} |-> IF e = d THEN content ELSE dirs[e]]

BuildInit ==
  /\ options = <<>> /\ waiting = {}
  /\ job = [p \in Builders |-> NoCapture]
  /\ step = [p \in Builders |-> "idle"]
  /\ pid = [p \in Builders |-> p]
  /\ results = [c \in Captures |-> "pending"]
  /\ directories = <<>> /\ builds = 0 /\ cutOff = {} /\ left = {}

-----------------------------------------------------------------------------
(* iter_capture_results: captures are taken in order; jobs = 1 is one      *)
(* worker.                                                                 *)
TakeCapture(p) ==
  /\ step[p] = "idle" /\ waiting # {}
  /\ LET c == CHOOSE x \in waiting : \A y \in waiting : x <= y
     IN  /\ job' = [job EXCEPT ![p] = c]
         /\ waiting' = waiting \ {c}
  /\ step' = [step EXCEPT ![p] = "start"]
  /\ UNCHANGED <<options, pid, directories, results, historyVars>>

Answer(p, status) ==
  /\ results' = [results EXCEPT ![job[p]] = status]
  /\ step' = [step EXCEPT ![p] = "idle"]
  /\ UNCHANGED <<options, waiting, job, pid, builds, cutOff>>

Goto(p, label) ==
  /\ step' = [step EXCEPT ![p] = label]
  /\ UNCHANGED <<options, waiting, job, pid, results, builds, cutOff>>

(* remove_existing_workload_if_overwriting                                 *)
Overwritten(c) == IF options.skip THEN {} ELSE {Final(c)}

SkippedAs == [empty |-> "skipped_empty", unmapped |-> "skipped_unmapped"]

(* process_capture answers for an exception: the two kinds of capture that *)
(* are skipped by default take an existing workload with them, in a dry    *)
(* run too.                                                                *)
Raise(p, temps) ==
  LET c == job[p]
      skipped == Kind[c] \in {"empty", "unmapped"}
      kept == options.keep
  IN  /\ directories' = Without(directories,
                          (IF kept THEN {} ELSE temps) \cup
                          (IF skipped THEN Overwritten(c) ELSE {}))
      /\ left' = IF kept THEN left \cup temps ELSE left
      /\ Answer(p, IF skipped THEN SkippedAs[Kind[c]] ELSE "failed")

(* The checks before anything is built, and the temporary directory, which *)
(* replaces one of the same pid.                                           *)
SkipDeclared(p) ==
  /\ step[p] = "start" /\ Kind[job[p]] = "declared"
  /\ directories' = Without(directories, Overwritten(job[p]))
  /\ Answer(p, "skipped_empty")
  /\ UNCHANGED left

SkipExisting(p) ==
  /\ step[p] = "start" /\ Kind[job[p]] # "declared"
  /\ options.skip /\ Exists(Final(job[p]))
  /\ Answer(p, "skipped")
  /\ UNCHANGED <<directories, left>>

Goes(p) ==
  /\ step[p] = "start" /\ Kind[job[p]] # "declared"
  /\ ~(options.skip /\ Exists(Final(job[p])))

DryRun(p) ==
  /\ Goes(p) /\ options.dry
  /\ IF Kind[job[p]] = "empty" THEN Raise(p, {})
     ELSE Answer(p, "dry_run") /\ UNCHANGED <<directories, left>>

OpenTemp(p) ==
  /\ Goes(p) /\ ~options.dry
  /\ directories' = With(directories, Temp(job[p], p),
                         [of |-> job[p], state |-> "open"])
  /\ left' = left \ {Temp(job[p], p)}
  /\ Goto(p, "build")

(* _build_into_temp_dir or _build_l0_windows_from_capture, to the last     *)
(* file and its validation; a quiet capture gets a row of its own.         *)
Build(p) ==
  /\ step[p] = "build"
  /\ IF Kind[job[p]] \in {"windows", "quiet"}
     THEN /\ directories' = [directories EXCEPT ![Temp(job[p], p)].state = "whole"]
          /\ Goto(p, "look")
          /\ UNCHANGED left
     ELSE Raise(p, {Temp(job[p], p)})

(* A single-text build looks again for a workload to skip.                 *)
Look(p) ==
  /\ step[p] = "look"
  /\ IF /\ ~options.l0 /\ options.skip /\ Exists(Final(job[p]))
     THEN /\ directories' = Without(directories, {Temp(job[p], p)})
          /\ Answer(p, "skipped")
     ELSE /\ Goto(p, IF ~options.skip /\ Exists(Final(job[p]))
                     THEN "remove" ELSE "replace")
          /\ UNCHANGED directories
  /\ UNCHANGED left

(* shutil.rmtree takes a while, and fails if the directory or a file in it *)
(* is gone; temp_dir.replace fails on a directory that is not empty.       *)
BeginRemove(p) ==
  /\ step[p] = "remove"
  /\ IF Exists(Final(job[p]))
     THEN /\ directories' = [directories EXCEPT ![Final(job[p])].state = "torn"]
          /\ Goto(p, "removing")
          /\ UNCHANGED left
     ELSE Raise(p, {Temp(job[p], p)})

EndRemove(p) ==
  /\ step[p] = "removing"
  /\ IF Exists(Final(job[p])) /\ directories[Final(job[p])].state = "torn"
     THEN /\ directories' = Without(directories, {Final(job[p])})
          /\ Goto(p, "replace")
          /\ UNCHANGED left
     ELSE Raise(p, {Temp(job[p], p)})

Replace(p) ==
  LET temp == Temp(job[p], p)
      final == Final(job[p])
  IN  /\ step[p] = "replace"
      /\ \/ /\ ~(Exists(final) /\ directories[final].state # "torn")
            /\ directories' = Without(With(directories, final,
                                           directories[temp]), {temp} \ {final})
            /\ Answer(p, "created")
            /\ UNCHANGED left
         \/ Exists(final) /\ Raise(p, {temp})

(* A build is started, for the first time, or because the one before has   *)
(* ended or was killed; then its workers get new process ids or the same.  *)
Temps == {d \in DOMAIN directories : d.pid # NotAPid}
StartBuild ==
  /\ builds < MaxBuilds
  /\ builds' = builds + 1
  /\ options' \in BuildOptions
  /\ waiting' = Captures
  /\ job' = [p \in Builders |-> NoCapture]
  /\ step' = [p \in Builders |-> "idle"]
  /\ \E d \in {0, builds} : pid' = [p \in Builders |-> p + d * Cardinality(Builders)]
  /\ results' = [c \in Captures |-> "pending"]
  /\ cutOff' = cutOff \cup {d \in DOMAIN directories : directories[d].state = "torn"}
  /\ left' = left \cup Temps
  /\ UNCHANGED directories

Work(p) ==
  \/ TakeCapture(p) \/ SkipDeclared(p) \/ SkipExisting(p) \/ DryRun(p)
  \/ OpenTemp(p) \/ Build(p) \/ Look(p)
  \/ BeginRemove(p) \/ EndRemove(p) \/ Replace(p)

BuildNext == StartBuild \/ \E p \in Builders : Work(p)

BuildSpec == BuildInit /\ [][BuildNext]_buildVars

-----------------------------------------------------------------------------
BuildEnded ==
  builds > 0 /\ waiting = {} /\ \A p \in Builders : step[p] = "idle"

(* What a reader finds in a final directory is a validated workload, even  *)
(* while builds run, die and start again: unless it is being removed, or   *)
(* a kill interrupted its removal (process_capture).                       *)
FinalsWhole ==
  \A d \in DOMAIN directories : d.pid = NotAPid =>
    /\ directories[d].state # "open"
    /\ directories[d].state = "torn" =>
         \/ d \in cutOff
         \/ \E p \in Builders : step[p] = "removing" /\ Final(job[p]) = d

(* A build leaves behind no temporary directory of its own, which splits   *)
(* and evaluations would take for a workload, unless told to keep them.    *)
NoTempLeft == BuildEnded => Temps \subseteq left

(* When a build has ended, each capture whose workload no other shares is  *)
(* in the dataset if it says so, and if not it says why.                   *)
ResultsTrue ==
  LET own(c) == \A b \in Captures \ {c} : Workload(b) # Workload(c)
      whole(c) == Exists(Final(c)) /\ directories[Final(c)].state = "whole"
  IN  BuildEnded => \A c \in Captures :
        /\ results[c] # "pending"
        /\ own(c) /\ results[c] = "created" =>
             whole(c) /\ directories[Final(c)].of = c
        /\ results[c] = "skipped" => Exists(Final(c)) /\ options.skip
        /\ own(c) /\ Kind[c] \in {"windows", "quiet"} =>
             results[c] \in {"created", "skipped", "dry_run"}

(* Captures that share a workload's name never spoil it: one of them is    *)
(* there, unless a build that overwrites skipped another of the name.      *)
SharedNamesFilled ==
  LET skippedBy(c) == \E b \in Captures : /\ Workload(b) = Workload(c)
                                          /\ Kind[b] \notin {"windows", "quiet"}
  IN  BuildEnded /\ ~options.dry => \A c \in Captures :
        Kind[c] \in {"windows", "quiet"} /\ (options.skip \/ ~skippedBy(c))
          => /\ Exists(Final(c))
             /\ \/ directories[Final(c)].state = "whole"
                \/ options.skip /\ Final(c) \in cutOff

(* However builds interleave, die and start again, the dataset holds whole *)
(* workloads only, no build leaves its rubbish behind, and what it reports *)
(* of each capture is so (process_capture, iter_capture_results).          *)
NothingHalfBuilt ==
  FinalsWhole /\ NoTempLeft /\ ResultsTrue /\ SharedNamesFilled
=============================================================================
