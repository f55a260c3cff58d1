---------------------------- MODULE KernelAnalysis ----------------------------
(***************************************************************************)
(* The analysis of code objects in the online processor                    *)
(* (online/sassguard_online/processor.py) for one session: the queue of    *)
(* the analysis executor, its workers, the kernel directories they write,  *)
(* the artifacts launches are matched with, and the rendering of a window  *)
(* from the directories when its inference runs, possibly much later.      *)
(*                                                                         *)
(* A region under self.lock is one action.  An analysis writes the files   *)
(* of one kernel after the other without the lock; each file is one step,  *)
(* metadata.json two, since write_json truncates the file before it fills  *)
(* it and every reader parses the metadata of the whole session.  A        *)
(* kernel's text is known by the <<name, code>> it was disassembled from.  *)
(* Here a window is one launch (L0Windows has the scheduler).              *)
(***************************************************************************)
EXTENDS KernelFiles, FiniteSetsExt

CONSTANTS
  Codes,        \* code ids of the session's code objects, numbers
  Functions,    \* the functions disassembly finds in each, in order
  Names,        \* names launches carry
  Workers,      \* threads of self.executor
  CodeLimit,    \* kernel_analysis.max_code_queue_per_session
  MaxLaunches,  \* bound: launches of the session
  Torn          \* a metadata.json that was truncated and not yet filled

ASSUME CodesAssumption ==
  /\ Codes \subseteq Nat /\ CodeLimit \in Nat /\ MaxLaunches \in Nat

(* Disassembly yields a dict, so a code object's functions have different  *)
(* names; a marker is not the text of a kernel.                            *)
Labels == (DOMAIN SafeName) \X Codes
ASSUME FunctionsAssumption ==
  /\ DOMAIN Functions = Codes
  /\ \A c \in Codes :
       /\ Functions[c] \in Seq(DOMAIN SafeName)
       /\ \A i, j \in DOMAIN Functions[c] :
            Functions[c][i] = Functions[c][j] => i = j
ASSUME MarkersAssumption == None \notin Labels /\ Torn \notin Labels

VARIABLES
  active,     \* SessionState.active
  arrived,    \* code objects whose message was handled
  queue,      \* futures of self.executor that no worker has taken
  pc, code,   \* a worker's control point and code object
  dirs,       \* directories of its functions so far (used_kernel_dirs)
  built,      \* its artifacts so far
  files,      \* the session's kernel directories
  artifacts,  \* artifacts_by_code
  refused,    \* history: code objects turned away by the queue limit
  handled,    \* history: launches in the order they were handled
  windows     \* submitted windows: kernel id, and what was rendered

workerVars == <<pc, code, dirs, built>>
launchVars == <<handled, windows>>
vars == <<active, arrived, queue, workerVars, files, artifacts, refused,
          launchVars>>

Init ==
  /\ active = TRUE
  /\ arrived = {} /\ queue = <<>> /\ refused = {}
  /\ pc = [w \in Workers |-> "idle"]
  /\ code = [w \in Workers |-> None]
  /\ dirs = [w \in Workers |-> <<>>]
  /\ built = [w \in Workers |-> <<>>]
  /\ files = <<>>
  /\ artifacts = [c \in Codes |-> <<>>]
  /\ handled = <<>> /\ windows = <<>>

-----------------------------------------------------------------------------
(* The event worker: _submit_code_analysis.  What it calls pending are the *)
(* artifacts of analyses that are over.                                    *)
PendingCount == MapThenSumSet(LAMBDA c : Len(artifacts[c]), Codes)

SubmitCode(c) ==
  /\ active /\ c \notin arrived
  /\ arrived' = arrived \cup {c}
  /\ IF PendingCount > CodeLimit
     THEN refused' = refused \cup {c} /\ UNCHANGED queue
     ELSE queue' = Append(queue, c) /\ UNCHANGED refused
  /\ UNCHANGED <<active, workerVars, files, artifacts, launchVars>>

(* _mark_session_ended: cancels what no worker has started.                *)
EndSession ==
  /\ active
  /\ active' = FALSE
  /\ queue' = <<>>
  /\ windows' = [i \in DOMAIN windows |->
                   IF windows[i].state = "waiting"
                   THEN [windows[i] EXCEPT !.state = "skipped"] ELSE windows[i]]
  /\ UNCHANGED <<arrived, workerVars, files, artifacts, refused, handled>>

-----------------------------------------------------------------------------
(* The analysis workers: _analyze_code_object.                             *)
Goto(w, label) == pc' = [pc EXCEPT ![w] = label]

TakeCode(w) ==
  /\ pc[w] = "idle" /\ queue # <<>>
  /\ code' = [code EXCEPT ![w] = Head(queue)]
  /\ queue' = Tail(queue)
  /\ dirs' = [dirs EXCEPT ![w] = <<>>]
  /\ built' = [built EXCEPT ![w] = <<>>]
  /\ Goto(w, "check")
  /\ UNCHANGED <<active, arrived, files, artifacts, refused, launchVars>>

CheckSession(w) ==
  /\ pc[w] = "check"
  /\ Goto(w, IF active THEN "sass" ELSE "idle")
  /\ UNCHANGED <<active, arrived, queue, code, dirs, built, files, artifacts,
                 refused, launchVars>>

(* The source is missing, or no tool can read it.                          *)
AnalysisFails(w) ==
  /\ pc[w] = "sass" /\ dirs[w] = <<>>
  /\ Goto(w, "idle")
  /\ UNCHANGED <<active, arrived, queue, code, dirs, built, files, artifacts,
                 refused, launchVars>>

Name(w) == Functions[code[w]][Len(dirs[w])]
Dir(w) == dirs[w][Len(dirs[w])]
NewDir == [meta |-> None, sass |-> None, loop |-> None, norm |-> None,
           by |-> {}]

(* by is a history: the code objects that wrote to the directory.          *)
Set(w, dir, field, value) ==
  files' = [d \in DOMAIN files \cup {dir} |->
              IF d # dir THEN files[d]
              ELSE [(IF d \in DOMAIN files THEN files[d] ELSE NewDir)
                    EXCEPT ![field] = value, !.by = @ \cup {code[w]}]]

(* The next function's directory is chosen and its kernel.sass written.    *)
WriteSass(w) ==
  LET n    == Len(dirs[w]) + 1
      name == Functions[code[w]][n]
      same == {i \in 1..n : SafeName[Functions[code[w]][i]] = SafeName[name]}
      dir  == UniqueDir(SafeName[name], code[w], ToSet(dirs[w]), Cardinality(same))
  IN  /\ pc[w] = "sass" /\ n <= Len(Functions[code[w]])
      /\ dirs' = [dirs EXCEPT ![w] = Append(@, dir)]
      /\ Set(w, dir, "sass", <<name, code[w]>>)
      /\ Goto(w, "truncate")
      /\ UNCHANGED <<active, arrived, queue, code, built, artifacts, refused,
                     launchVars>>

TruncateMetadata(w) ==
  /\ pc[w] = "truncate"
  /\ Set(w, Dir(w), "meta", Torn)
  /\ Goto(w, "meta")
  /\ UNCHANGED <<active, arrived, queue, code, dirs, built, artifacts, refused,
                 launchVars>>

WriteMetadata(w) ==
  /\ pc[w] = "meta"
  /\ Set(w, Dir(w), "meta", <<Name(w), code[w]>>)
  /\ Goto(w, "loop")
  /\ UNCHANGED <<active, arrived, queue, code, dirs, built, artifacts, refused,
                 launchVars>>

(* build_cfg_for_kernel and extract_main_loop_for_kernel read kernel.sass. *)
ExtractLoop(w) ==
  /\ pc[w] = "loop"
  /\ Set(w, Dir(w), "loop", files[Dir(w)].sass)
  /\ Goto(w, "norm")
  /\ UNCHANGED <<active, arrived, queue, code, dirs, built, artifacts, refused,
                 launchVars>>

Normalize(w) ==
  /\ pc[w] = "norm"
  /\ Set(w, Dir(w), "norm", <<files[Dir(w)].sass, files[Dir(w)].loop>>)
  /\ Goto(w, "fragment")
  /\ UNCHANGED <<active, arrived, queue, code, dirs, built, artifacts, refused,
                 launchVars>>

(* load_kernel_metadata fails on a truncated file of any kernel.           *)
Metadata ==
  {[dir |-> d, name |-> files[d].meta[1], code |-> files[d].meta[2]] :
     d \in {x \in DOMAIN files : files[x].meta \notin {None, Torn}}}
Unreadable == \E d \in DOMAIN files : files[d].meta = Torn
(* Faulty: the lookup by name comes before the one by name and code.       *)
FoundByName(name, c, kernelId) ==
  LET rows == {r \in Metadata : r.name = name}
  IN  IF Unreadable THEN None
      ELSE IF rows # {} THEN FirstDir(rows)
      ELSE Resolve(Metadata, name, c, kernelId)

Found(name, c, kernelId) ==
  IF Unreadable THEN None ELSE Resolve(Metadata, name, c, kernelId)
Text(dir) == IF dir = None THEN None ELSE files[dir].norm

(* render_launch_fragment: the artifact is what the directories say now.   *)
MeasureKernel(w) ==
  LET dir == Found(Name(w), code[w], None)
      artifact == [name |-> Name(w), dir |-> Dir(w), id |-> files[dir].meta,
                   text |-> Text(dir), by |-> files[Dir(w)].by]
  IN  /\ pc[w] = "fragment"
      /\ IF Text(dir) = None
         THEN Goto(w, "idle") /\ UNCHANGED built
         ELSE /\ built' = [built EXCEPT ![w] = Append(@, artifact)]
              /\ Goto(w, IF Len(dirs[w]) = Len(Functions[code[w]])
                         THEN "finish" ELSE "sass")
      /\ UNCHANGED <<active, arrived, queue, code, dirs, files, artifacts,
                     refused, launchVars>>

(* The future's callback, _finish_code_analysis.                           *)
(* Faulty: the callback does not look at the session again.                *)
KeepsAll(w) == built[w]
Keeps(w) == IF active THEN built[w] ELSE <<>>

FinishAnalysis(w) ==
  /\ pc[w] = "finish"
  /\ Goto(w, "idle")
  /\ artifacts' = [artifacts EXCEPT ![code[w]] = @ \o Keeps(w)]
  /\ UNCHANGED <<active, arrived, queue, code, dirs, built, files, refused,
                 launchVars>>

-----------------------------------------------------------------------------
(* The artifact of this name in state.artifacts, if there is one: the last *)
(* that was put there.                                                     *)
Named(c, name) ==
  LET mine == {i \in DOMAIN artifacts[c] : artifacts[c][i].name = name}
  IN  IF mine = {} THEN <<>> ELSE <<artifacts[c][Max(mine)]>>

(* Faulty: no fallback to another kernel of the code object.               *)
ArtifactExact(c, name) == Named(c, name)

(* Faulty: the fallback looks at the kernels of every code object.         *)
ArtifactOfAny(c, name) ==
  LET all == UNION {ToSet(artifacts[d]) : d \in Codes}
  IN  CASE Named(c, name) # <<>> -> Named(c, name)
        [] Named(c, name) = <<>> /\ all # {} -> <<CHOOSE a \in all : TRUE>>
        [] OTHER -> <<>>

(* _artifact_for_launch: the artifact of this name, else the fallback      *)
(* among those of the code object, all taken as equally long; empty when   *)
(* the code object has none.                                               *)
Candidates(c) == [i \in DOMAIN artifacts[c] |->
                    [name |-> artifacts[c][i].name, size |-> 0]]

ArtifactFor(c, name) ==
  CASE Named(c, name) # <<>> -> Named(c, name)
    [] Named(c, name) = <<>> /\ artifacts[c] # <<>> ->
         Named(c, Candidates(c)[FallbackAt(name, Candidates(c))].name)
    [] OTHER -> <<>>

(* _handle_launches: a launch without an artifact is dropped.              *)
HandleLaunch(c, name) ==
  LET found == ArtifactFor(c, name)
      artifact == found[1]
  IN  /\ active /\ Len(handled) < MaxLaunches
      /\ handled' = Append(handled, [code |-> c, ready |-> found # <<>>])
      /\ windows' = IF found = <<>> THEN windows
                    ELSE Append(windows,
                           [code |-> c, name |-> artifact.name,
                            id |-> artifact.id, dir |-> artifact.dir,
                            state |-> "waiting", text |-> None, by |-> {}])
      /\ UNCHANGED <<active, arrived, queue, workerVars, files, artifacts,
                     refused>>

(* An inference worker: _run_l1_for_session looks at the session, then     *)
(* _render_window_text reads the directories without the lock.             *)
StartWindow(i) ==
  /\ windows[i].state = "waiting"
  /\ windows' = [windows EXCEPT ![i].state = "running"]
  /\ UNCHANGED <<active, arrived, queue, workerVars, files, artifacts, refused,
                 handled>>

RenderWindow(i) ==
  LET text == Text(Found(windows[i].name, windows[i].code, windows[i].id))
  IN  /\ windows[i].state = "running"
      /\ windows' = [windows EXCEPT ![i].text = text,
                       ![i].by = files[windows[i].dir].by,
                       ![i].state = IF text = None THEN "skipped" ELSE "shown"]
      /\ UNCHANGED <<active, arrived, queue, workerVars, files, artifacts,
                     refused, handled>>

Analyse(w) ==
  \/ TakeCode(w) \/ CheckSession(w) \/ AnalysisFails(w) \/ WriteSass(w)
  \/ TruncateMetadata(w) \/ WriteMetadata(w) \/ ExtractLoop(w) \/ Normalize(w)
  \/ MeasureKernel(w) \/ FinishAnalysis(w)

Next ==
  \/ \E c \in Codes : SubmitCode(c)
  \/ EndSession
  \/ \E w \in Workers : Analyse(w)
  \/ \E c \in Codes, name \in Names : HandleLaunch(c, name)
  \/ \E i \in DOMAIN windows : StartWindow(i) \/ RenderWindow(i)

Spec == Init /\ [][Next]_vars

-----------------------------------------------------------------------------
(* Types.                                                                  *)
Bases == {SafeName[n] : n \in DOMAIN SafeName}
Dirs == {<<b>> : b \in Bases} \cup (Bases \X Codes) \cup (Bases \X Codes \X Nat)
Texts == Labels \cup {None}
File == [meta : Texts \cup {Torn}, sass : Texts, loop : Texts,
         norm : (Texts \X Texts) \cup {None}, by : SUBSET Codes]
Artifact == [name : DOMAIN SafeName, dir : Dirs, id : Labels,
             text : Texts \X Texts, by : SUBSET Codes]
Window == [code : Codes, name : DOMAIN SafeName, id : Labels, dir : Dirs,
           state : {"waiting", "running", "skipped", "shown"},
           text : (Texts \X Texts) \cup {None}, by : SUBSET Codes]
ControlPoints == {"idle", "check", "sass", "truncate", "meta", "loop", "norm",
                  "fragment", "finish"}

TypeOK ==
  /\ active \in BOOLEAN
  /\ arrived \subseteq Codes /\ refused \subseteq Codes /\ queue \in Seq(Codes)
  /\ pc \in [Workers -> ControlPoints]
  /\ code \in [Workers -> Codes \cup {None}]
  /\ dirs \in [Workers -> Seq(Dirs)]
  /\ built \in [Workers -> Seq(Artifact)]
  /\ DOMAIN files \subseteq Dirs /\ \A d \in DOMAIN files : files[d] \in File
  /\ artifacts \in [Codes -> Seq(Artifact)]
  /\ handled \in Seq([code : Codes, ready : BOOLEAN])
  /\ windows \in Seq(Window)

(* Whatever two workers write and an inference reads meanwhile, a kernel   *)
(* is measured, identified and later rendered from its own text, unless    *)
(* another code object had written to its directory by then                *)
(* (_analyze_code_object, render_launch_fragment, _render_window_text).    *)
OwnKernelUnlessOverwritten ==
  /\ \A c \in Codes : \A i \in DOMAIN artifacts[c] :
       LET a == artifacts[c][i]
       IN  a.by = {c} => /\ a.id = <<a.name, c>>
                         /\ a.text = <<<<a.name, c>>, <<a.name, c>>>>
  /\ \A i \in DOMAIN windows :
       LET v == windows[i]
       IN  v.state = "shown" /\ v.by = {v.code}
             => v.text = <<<<v.name, v.code>>, <<v.name, v.code>>>>

(* Launches are dropped only until the analysis of their code object is    *)
(* over: once one of them was taken, the classifier misses none of them,   *)
(* whatever name they carry (_handle_launches, _artifact_for_launch).      *)
NoGapsOnceReady ==
  \A i, j \in DOMAIN handled :
    i < j /\ handled[i].code = handled[j].code /\ handled[i].ready
      => handled[j].ready

(* The queue limit is for good: a code object it turned away is never      *)
(* analysed, and none of its launches ever reaches the scheduler, through  *)
(* no other code object's kernel either (_submit_code_analysis).           *)
RefusedStaysDark ==
  \A c \in refused :
    /\ artifacts[c] = <<>>
    /\ \A i \in DOMAIN handled : handled[i].code = c => ~handled[i].ready

(* After the session's end, an analysis or an inference that was already   *)
(* running adds no kernel and starts no window (_finish_code_analysis,     *)
(* _mark_session_ended).                                                   *)
EndedSessionLearnsNothing ==
  [][~active => /\ artifacts' = artifacts
                /\ \A i \in DOMAIN windows :
                     windows[i].state = "skipped" => windows'[i] = windows[i]
                /\ Len(windows') = Len(windows)
                /\ \A i \in DOMAIN windows : windows[i].state # "waiting"]_vars

=============================================================================
