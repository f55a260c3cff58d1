----------------------------- MODULE ThrottleRuns -----------------------------
(***************************************************************************)
(* The capture runs of the throttling experiment                           *)
(* (experiments/throttle_mining.py, run-captures): throttled miners are    *)
(* run one after the other, each run's captures are found among those the  *)
(* collector writes meanwhile, copied and entered in a manifest, by which  *)
(* a later command resumes.  A command may die between any two steps.      *)
(***************************************************************************)
EXTENDS Integers, Sequences, FiniteSets

CONSTANTS
  PlannedRuns,  \* planned_rows: numbers 1..n, one for each run_key
  MaxCommands,  \* bound: commands
  MaxCaptures,  \* bound: capture directories
  Other         \* any process the experiment did not start

ASSUME PlanAssumption == {PlannedRuns, MaxCommands, MaxCaptures} \subseteq Nat
ASSUME OtherAssumption == Other \notin Nat

VARIABLES
  phase,      \* of the command: "plan", "run", "wait", "copy" or "over"
  resuming,   \* history: --resume of each command so far
  existing,   \* existing_keys, read when the command starts
  current,    \* the planned run whose turn it is
  before,     \* captures that were there when the miner was started
  miners,     \* state of each process started: "running", "stopped", "exited"
  found,      \* wait_for_new_captures
  copied,     \* capture directories in the output directory
  manifest,   \* manifests.jsonl: [run, miner, captures]
  captured    \* the collector's: [owner, process, events], files that exist

commandVars == <<phase, resuming, existing, current, before, found>>
throttleVars == <<commandVars, miners, copied, manifest, captured>>

ThrottleInit ==
  /\ phase = "over" /\ resuming = <<>> /\ existing = {} /\ current = 1
  /\ before = {} /\ miners = <<>> /\ found = {}
  /\ copied = {} /\ manifest = <<>> /\ captured = <<>>

Miner == Len(miners)   \* the last one started
RunsOf(rows) == {rows[i].run : i \in DOMAIN rows}

-----------------------------------------------------------------------------
(* cmd_run_captures                                                        *)
StartCommand ==
  /\ phase = "over" /\ Len(resuming) < MaxCommands
  /\ phase' = (IF PlannedRuns = 0 THEN "over" ELSE "plan")
  /\ current' = 1
  /\ \E resume \in BOOLEAN :
       /\ resuming' = Append(resuming, resume)
       /\ existing' = IF resume THEN RunsOf(manifest) ELSE {}
  /\ UNCHANGED <<before, found, miners, copied, manifest, captured>>

NextRun ==
  IF current < PlannedRuns THEN phase' = "plan" /\ current' = current + 1
  ELSE phase' = "over" /\ UNCHANGED current

SkipRun ==
  /\ phase = "plan" /\ current \in existing
  /\ NextRun
  /\ UNCHANGED <<resuming, existing, before, found, miners, copied, manifest,
                 captured>>

(* run_capture                                                             *)
StartMiner ==
  /\ phase = "plan" /\ current \notin existing
  /\ before' = DOMAIN captured
  /\ miners' = Append(miners, "running")
  /\ phase' = "run"
  /\ UNCHANGED <<resuming, existing, current, found, copied, manifest, captured>>

(* drive_duty_cycle, and the SIGCONT after its loop.                       *)
Signal(from, to) ==
  /\ phase = "run" /\ miners[Miner] = from
  /\ miners' = [miners EXCEPT ![Miner] = to]
  /\ UNCHANGED <<commandVars, copied, manifest, captured>>
StopMiner == Signal("running", "stopped")
ContinueMiner == Signal("stopped", "running")

MinerEnded ==
  /\ phase = "run" /\ miners[Miner] = "exited"
  /\ phase' = "wait"
  /\ UNCHANGED <<resuming, existing, current, before, found, miners, copied,
                 manifest, captured>>

(* capture_matches: by the process id in process.json.                     *)
NewCaptures == DOMAIN captured \ before
MatchesProcess(c) == captured[c].process   \* faulty: of whatever process
Matches(c) == captured[c].process /\ captured[c].owner = Miner

Find(captures) ==
  /\ found' = captures
  /\ phase' = IF captures = {} THEN "over" ELSE "copy"
  /\ UNCHANGED <<resuming, existing, current, before, miners, copied, manifest,
                 captured>>

(* wait_for_new_captures: those that are ready once their events stopped   *)
(* growing, a pause included, or after a minute all that match.            *)
FindReady ==
  LET ready == {c \in NewCaptures : captured[c].events /\ Matches(c)}
  IN  phase = "wait" /\ ready # {} /\ Find(ready)
WaitTimesOut == phase = "wait" /\ Find({c \in NewCaptures : Matches(c)})

CopyCapture(c) ==
  /\ phase = "copy" /\ c \in found \ copied
  /\ copied' = copied \cup {c}
  /\ UNCHANGED <<commandVars, miners, manifest, captured>>

AppendRow ==
  /\ phase = "copy" /\ found \subseteq copied
  /\ manifest' = Append(manifest,
                        [run |-> current, miner |-> Miner, captures |-> found])
  /\ NextRun
  /\ UNCHANGED <<resuming, existing, before, found, miners, copied, captured>>

(* The command dies; its miner is in a session of its own and lives on.    *)
Die ==
  /\ phase # "over" /\ phase' = "over"
  /\ UNCHANGED <<resuming, existing, current, before, found, miners, copied,
                 manifest, captured>>

-----------------------------------------------------------------------------
(* Around the experiment: a miner exits, the collector opens captures and  *)
(* writes their files, also after the exit and for other processes.        *)
MinerExits(m) ==
  /\ miners[m] = "running"
  /\ miners' = [miners EXCEPT ![m] = "exited"]
  /\ UNCHANGED <<commandVars, copied, manifest, captured>>

OpenCapture(owner) ==
  /\ Len(captured) < MaxCaptures
  /\ captured' = Append(captured,
                        [owner |-> owner, process |-> FALSE, events |-> FALSE])
  /\ UNCHANGED <<commandVars, miners, copied, manifest>>

WriteFile(c) ==
  /\ \/ /\ ~captured[c].process
        /\ captured' = [captured EXCEPT ![c].process = TRUE]
     \/ /\ captured[c].process /\ ~captured[c].events
        /\ captured' = [captured EXCEPT ![c].events = TRUE]
  /\ UNCHANGED <<commandVars, miners, copied, manifest>>

ThrottleNext ==
  \/ StartCommand \/ SkipRun \/ StartMiner \/ StopMiner \/ ContinueMiner
  \/ MinerEnded \/ FindReady \/ WaitTimesOut \/ AppendRow \/ Die
  \/ \E c \in found : CopyCapture(c)
  \/ \E m \in DOMAIN miners : MinerExits(m)
  \/ \E owner \in DOMAIN miners \cup {Other} : OpenCapture(owner)
  \/ \E c \in DOMAIN captured : WriteFile(c)

ThrottleSpec == ThrottleInit /\ [][ThrottleNext]_throttleVars

-----------------------------------------------------------------------------
(* The manifest is right about what it holds, however commands die and are *)
(* resumed: a row's captures are copies of its own miner's and of no other *)
(* row's, so that nothing else is ever labelled as mining; commands that   *)
(* resume enter no run twice; and no miner is waited for while it is       *)
(* stopped (run_capture, capture_matches, existing_keys,                   *)
(* drive_duty_cycle).                                                      *)
ManifestHoldsOwnRuns ==
  /\ \A i \in DOMAIN manifest :
       /\ manifest[i].captures # {} /\ manifest[i].captures \subseteq copied
       /\ \A c \in manifest[i].captures : captured[c].owner = manifest[i].miner
  /\ \A i, j \in DOMAIN manifest : i < j =>
       /\ manifest[i].captures \cap manifest[j].captures = {}
       /\ manifest[i].run = manifest[j].run => \E k \in 2..Len(resuming) : ~resuming[k]
  /\ phase \in {"wait", "copy"} => miners[Miner] # "stopped"
=============================================================================
