----------------------------- MODULE KernelFiles -----------------------------
(***************************************************************************)
(* From code objects to kernel directories and back from launches to them: *)
(* split_kernels.py, disassemble.py, the copying half of ingest.py and the *)
(* lookups of workload_sass.py (analysis/sassguard_analysis).              *)
(*                                                                         *)
(* A kernel name is a value whose three rewritings the constants give: its *)
(* directory name, its text with line endings made equal, its text without *)
(* white space.  A directory is <<base>>, <<base, code>> or                *)
(* <<base, code, index>>, for base, base__code_N and base__code_N_I.       *)
(* The body of a function is its dump and name: what a reader can tell     *)
(* apart.                                                                  *)
(***************************************************************************)
EXTENDS Integers, Sequences, FiniteSets, SequencesExt

CONSTANTS
  SafeName,     \* safe_kernel_dir
  Canonical,    \* canonical_kernel_name
  Compact,      \* compact_kernel_name
  Contained,    \* pairs of compact names, the first a part of the second
  None

-----------------------------------------------------------------------------
(* Text to functions.  A listing is a sequence of [name, size] blocks, in  *)
(* which a name may come twice.  Functions are a dict: the position of the *)
(* first, the value of the last.                                           *)
Put(functions, f) ==
  LET at == {i \in DOMAIN functions : functions[i].name = f.name}
  IN  IF at = {} THEN Append(functions, f)
      ELSE [i \in DOMAIN functions |-> IF i \in at THEN f ELSE functions[i]]

(* cuobjdump's parser leaves functions without instructions out.           *)
ParseDisassembly(listing, tool) ==
  FoldLeft(Put, <<>>,
           SelectSeq(listing, LAMBDA f : tool = "cuobjdump" => f.size > 0))

(* Python's max: the first of the largest, among the functions at these    *)
(* positions.                                                              *)
Largest(functions, at) ==
  CHOOSE i \in at : \A j \in at :
    \/ functions[j].size < functions[i].size
    \/ functions[j].size = functions[i].size /\ i <= j

(* The position of the function that stands in for a missing one.          *)
FallbackAt(name, functions) ==
  LET canonical == {i \in DOMAIN functions :
                      Canonical[functions[i].name] = Canonical[name]}
      related(f) == \/ <<Compact[name], Compact[f.name]>> \in Contained
                    \/ <<Compact[f.name], Compact[name]>> \in Contained
      substring == {i \in DOMAIN functions : related(functions[i])}
  IN  CASE canonical # {} -> Largest(functions, canonical)
        [] canonical = {} /\ substring # {} -> Largest(functions, substring)
        [] OTHER -> Largest(functions, DOMAIN functions)

SelectFallback(name, functions) == functions[FallbackAt(name, functions)]

(* Where a kernel of this code object goes, given the directories in use   *)
(* and how often this base was asked for, this time included.              *)
UniqueDir(base, code, used, count) ==
  LET free(i) == <<base, code, i>> \notin used
  IN  CASE <<base>> \notin used -> <<base>>
        [] <<base>> \in used /\ <<base, code>> \notin used -> <<base, code>>
        [] OTHER -> <<base, code,
                      CHOOSE i \in (count + 1)..(count + 1 + Cardinality(used)) :
                        free(i) /\ \A j \in (count + 1)..(i - 1) : ~free(j)>>

-----------------------------------------------------------------------------
(* copy_code_objects: events are [id, dump, path, ...]; a code object with *)
(* the checksum of an earlier one shares that one's dump.                  *)
CopyCode(events) ==
  [i \in DOMAIN events |->
     LET same == {j \in 1..i : events[j].dump = events[i].dump}
     IN  [id |-> events[i].id, dump |-> events[i].dump,
          path |-> events[CHOOSE j \in same : \A k \in same : j <= k].id]]

(* The tools tried for a format, in this order.                            *)
Commands(format) ==
  CASE format = "cubin"  -> <<"nvdisasm", "cuobjdump">>
    [] format = "fatbin" -> <<"cuobjdump">>
    [] OTHER -> <<>>

Earliest(S) == CHOOSE i \in S : \A j \in S : i <= j

(* disassemble_code_objects: the report's rows, in order of code id; works *)
(* maps a dump to its format, the tools that can read it, and its listing. *)
ReportRow(rows, code, works, tools) ==
  LET commands == Commands(works[code.dump].format)
      prior == {i \in DOMAIN rows : rows[i].dump = code.dump /\ rows[i].tool # None}
      able  == {i \in DOMAIN commands :
                  commands[i] \in tools \cap works[code.dump].readers}
      tool  == IF prior # {} THEN rows[Earliest(prior)].tool
               ELSE IF able # {} THEN commands[Earliest(able)] ELSE None
  IN  [id |-> code.id, dump |-> code.dump, path |-> code.path, tool |-> tool,
       functions |-> IF tool = None THEN <<>>
                     ELSE ParseDisassembly(works[code.dump].listing, tool)]

Disassemble(codes, works, tools) ==
  LET rows[i \in 0..Len(codes)] ==
        IF i = 0 THEN <<>>
        ELSE Append(rows[i - 1], ReportRow(rows[i - 1], codes[i], works, tools))
  IN  rows[Len(codes)]

-----------------------------------------------------------------------------
(* split_launched_kernels: one directory per launched (name, code), except *)
(* that a kernel already written from the same dump is reused.             *)
(* dirs: [name, code, path, dir]; written: the metadata and body of a      *)
(* directory; counts of a base: how often it was asked for.                *)
NoKernels == [dirs |-> <<>>, written |-> <<>>, missing |-> {}, asked |-> <<>>]

(* No two rows have one id.                                                *)
RowOf(report, code) ==
  LET rows == {i \in DOMAIN report : report[i].id = code}
  IN  IF rows = {} THEN [path |-> None, functions |-> <<>>]
      ELSE report[Earliest(rows)]

SplitKernel(acc, launch, report) ==
  LET row   == RowOf(report, launch.code)
      reuse == {i \in DOMAIN acc.dirs : acc.dirs[i].name = launch.name
                                        /\ acc.dirs[i].path = row.path}
      exact == {i \in DOMAIN row.functions :
                  row.functions[i].name = launch.name /\ row.functions[i].size > 0}
      match == IF exact # {} THEN row.functions[CHOOSE i \in exact : TRUE]
               ELSE SelectFallback(launch.name, row.functions)
      base  == SafeName[launch.name]
      asked == Append(acc.asked, base)
      count == Cardinality({i \in DOMAIN asked : asked[i] = base})
      used  == {acc.written[i].dir : i \in DOMAIN acc.written}
      fresh == UniqueDir(base, launch.code, used, count)
      entry(dir) == [name |-> launch.name, code |-> launch.code,
                     path |-> row.path, dir |-> dir]
  IN  IF reuse # {}
      THEN [acc EXCEPT !.dirs = Append(@, entry(acc.dirs[Earliest(reuse)].dir))]
      ELSE IF row.functions = <<>>
      THEN [acc EXCEPT !.missing = @ \cup {launch}]
      ELSE [acc EXCEPT !.dirs = Append(@, entry(fresh)),
                       !.asked = asked,
                       !.written = Append(@,
                          [dir |-> fresh, name |-> launch.name,
                           code |-> launch.code,
                           body |-> <<row.dump, match.name>>])]

(* Each (name, code) once, at its first launch (first_seen).               *)
SplitLaunched(launches, report) ==
  LET again(i) == \E j \in 1..(i - 1) : launches[j] = launches[i]
      split[i \in 0..Len(launches)] ==
        IF i = 0 THEN NoKernels
        ELSE IF again(i) THEN split[i - 1]
        ELSE SplitKernel(split[i - 1], launches[i], report)
  IN  split[Len(launches)]

-----------------------------------------------------------------------------
(* Lookups at rendering time.  meta is a set of [dir, name, code] rows, as *)
(* load_kernel_metadata reads them from the directories; the directories   *)
(* of one name have one base, and are sorted by what follows it.           *)
Before(d, e) ==
  \/ Len(d) < 2 /\ Len(e) >= 2
  \/ Len(d) >= 2 /\ Len(e) >= 2 /\ d[2] < e[2]
  \/ Len(d) >= 2 /\ Len(e) >= 2 /\ d[2] = e[2] /\ Len(d) < Len(e)
  \/ Len(d) = 3 /\ Len(e) = 3 /\ d[2] = e[2] /\ d[3] < e[3]

FirstDir(rows) ==
  IF rows = {} THEN None
  ELSE (CHOOSE r \in rows : \A q \in rows : q = r \/ Before(r.dir, q.dir)).dir

LastDir(rows) ==
  (CHOOSE r \in rows : \A q \in rows : q = r \/ Before(q.dir, r.dir)).dir

(* Faulty: the first directory of the name, whatever the code object.      *)
ResolveByName(meta, name, code, kernelId) ==
  FirstDir({r \in meta : r.name = name})

(* resolve_kernel_dir: by name and code, else by name, else by kernel id.  *)
Resolve(meta, name, code, kernelId) ==
  LET own    == {r \in meta : r.name = name /\ r.code = code}
      byName == {r \in meta : r.name = name}
      byId   == {r \in meta : <<r.name, r.code>> = kernelId}
  IN  CASE own # {} -> LastDir(own)
        [] own = {} /\ byName # {} -> FirstDir(byName)
        [] OTHER -> FirstDir(byId)

-----------------------------------------------------------------------------
(* A launch is shown the kernel of its own code object.  No two kernels    *)
(* share a directory; only a launch whose code object could not be read    *)
(* has none; and the directory its rendering finds holds a function of its *)
(* own dump, the one of its name if the dump has it: except where a code   *)
(* object was deduplicated, so that no directory names it, and the kernel  *)
(* name also comes from another dump (split_launched_kernels,              *)
(* copy_code_objects, resolve_kernel_dir).                                 *)
ResolvedIsOwn(launches, report, made) ==
  LET row(l)  == RowOf(report, l.code)
      meta    == {[dir |-> w.dir, name |-> w.name, code |-> w.code] :
                    w \in ToSet(made.written)}
      body(d) == (CHOOSE w \in ToSet(made.written) : w.dir = d).body
      shown(l) == body(Resolve(meta, l.name, l.code, <<l.name, l.code>>))
      named(l) == \E w \in meta : w.name = l.name /\ w.code = l.code
      unique(l) == \A w \in ToSet(made.written) :
                     w.name = l.name => w.body[1] = row(l).dump
      exact(l) == \E f \in ToSet(row(l).functions) : f.name = l.name /\ f.size > 0
  IN  /\ \A i, j \in DOMAIN made.written :
           made.written[i].dir = made.written[j].dir => i = j
      /\ \A l \in ToSet(launches) :
           /\ l \in made.missing <=> row(l).functions = <<>>
           /\ l \notin made.missing /\ (named(l) \/ unique(l)) =>
                /\ shown(l)[1] = row(l).dump
                /\ exact(l) => shown(l)[2] = l.name
=============================================================================
