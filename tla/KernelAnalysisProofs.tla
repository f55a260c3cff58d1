------------------------ MODULE KernelAnalysisProofs ------------------------
(***************************************************************************)
(* Theorems about KernelAnalysis, for every value of its constants.        *)
(***************************************************************************)
EXTENDS KernelAnalysis, FiniteSetTheorems, SequenceTheorems, TLAPS

(* A code object is queued once, or at work in one worker, or over; until  *)
(* it is taken from the queue nothing is written for it, and nothing ever  *)
(* for one that was refused.                                               *)
Busy(w) == pc[w] # "idle"
Untouched(c) == /\ artifacts[c] = <<>>
                /\ \A d \in DOMAIN files : c \notin files[d].by
OncePerCode ==
  /\ refused \subseteq arrived
  /\ \A c \in Codes : c \notin arrived \/ c \in refused => Untouched(c)
  /\ \A i \in 1..Len(queue) :
       /\ queue[i] \in arrived /\ queue[i] \notin refused /\ Untouched(queue[i])
       /\ \A j \in 1..Len(queue) : queue[i] = queue[j] => i = j
       /\ \A w \in Workers : Busy(w) => code[w] # queue[i]
  /\ \A w \in Workers : Busy(w) =>
       /\ code[w] \in arrived /\ code[w] \notin refused
       /\ artifacts[code[w]] = <<>>
       /\ \A x \in Workers : Busy(x) /\ code[x] = code[w] => x = w

(* Metadata was written by its code object, under its kernel's base, and   *)
(* names one directory.                                                    *)
MetadataNames ==
  /\ \A d \in DOMAIN files : files[d].meta \in Labels =>
       /\ files[d].meta[2] \in files[d].by
       /\ d[1] = SafeName[files[d].meta[1]]
  /\ \A d, e \in DOMAIN files :
       files[d].meta \in Labels /\ files[d].meta = files[e].meta => d = e
  /\ \A d \in DOMAIN files : files[d].by # {}

(* A directory that only c wrote to, all of it for one kernel; and one     *)
(* that holds whatever c needed of it.                                     *)
Alone(file, c) == file.by = {c}
Whole(file, label) ==
  /\ file.sass = label /\ file.meta = label /\ file.loop = label
  /\ file.norm = <<label, label>>
Kept(dir, name, c) ==
  /\ dir \in DOMAIN files /\ c \in files[dir].by
  /\ Alone(files[dir], c) => Whole(files[dir], <<name, c>>)
OwnArtifact(a, c) ==
  a.by = {c} => /\ a.id = <<a.name, c>>
                /\ a.text = <<<<a.name, c>>, <<a.name, c>>>>

(* A worker's functions so far, each in a directory of its own that all    *)
(* the files written for its code object are in.                           *)
Label(w, k) == <<Functions[code[w]][k], code[w]>>
Writing == {"truncate", "meta", "loop", "norm"}
WholeUpTo(w) == IF pc[w] \in Writing THEN Len(dirs[w]) - 1 ELSE Len(dirs[w])
BuiltUpTo(w) == IF pc[w] \in Writing \cup {"fragment"} THEN Len(dirs[w]) - 1
                ELSE Len(dirs[w])
AtWork(w) ==
  /\ code[w] \in Codes /\ Len(dirs[w]) <= Len(Functions[code[w]])
  /\ pc[w] = "check" => Len(dirs[w]) = 0
  /\ pc[w] \in Writing \cup {"fragment"} => Len(dirs[w]) >= 1
  /\ Len(built[w]) = BuiltUpTo(w)
  /\ \A i, j \in 1..Len(dirs[w]) : dirs[w][i] = dirs[w][j] => i = j
  /\ \A i \in 1..Len(dirs[w]) :
       /\ dirs[w][i] \in DOMAIN files /\ code[w] \in files[dirs[w][i]].by
       /\ dirs[w][i][1] = SafeName[Functions[code[w]][i]]
  /\ \A d \in DOMAIN files : code[w] \in files[d].by =>
       \E i \in 1..Len(dirs[w]) : d = dirs[w][i]
  /\ \A i \in 1..Len(dirs[w]) :
       LET meta == files[dirs[w][i]].meta
       IN  meta \in Labels /\ meta[2] = code[w] => meta = Label(w, i)
Wrote(w) ==
  /\ \A i \in 1..WholeUpTo(w) :
       Kept(dirs[w][i], Functions[code[w]][i], code[w])
  /\ \A i \in 1..BuiltUpTo(w) :
       /\ built[w][i].name = Functions[code[w]][i]
       /\ built[w][i].dir = dirs[w][i]
       /\ OwnArtifact(built[w][i], code[w])
  /\ pc[w] \in Writing /\ Alone(files[Dir(w)], code[w]) =>
       /\ files[Dir(w)].sass = Label(w, Len(dirs[w]))
       /\ pc[w] \in {"loop", "norm"} => files[Dir(w)].meta = files[Dir(w)].sass
       /\ pc[w] = "norm" => files[Dir(w)].loop = files[Dir(w)].sass
Work == \A w \in Workers : Busy(w) => AtWork(w) /\ Wrote(w)

(* What analyses left behind stays as it is until another code object      *)
(* writes over it.                                                         *)
Artifacts ==
  \A c \in Codes : \A i \in 1..Len(artifacts[c]) :
    /\ Kept(artifacts[c][i].dir, artifacts[c][i].name, c)
    /\ OwnArtifact(artifacts[c][i], c)
Windows ==
  \A i \in 1..Len(windows) :
    /\ artifacts[windows[i].code] # <<>>
    /\ Kept(windows[i].dir, windows[i].name, windows[i].code)
    /\ windows[i].state = "waiting" => active
    /\ windows[i].state = "shown" /\ windows[i].by = {windows[i].code} =>
         windows[i].text = <<<<windows[i].name, windows[i].code>>,
                             <<windows[i].name, windows[i].code>>>>
Ready ==
  \A i \in 1..Len(handled) :
    handled[i].ready => artifacts[handled[i].code] # <<>>

Analysis == /\ TypeOK /\ OncePerCode /\ MetadataNames /\ Work
            /\ Artifacts /\ Windows /\ Ready

-----------------------------------------------------------------------------
(* The operators.                                                          *)

(* A set of natural numbers has a least member.                            *)
LEMMA Least ==
  ASSUME NEW I \in SUBSET Nat, I # {}
  PROVE  \E i \in I : \A j \in I : i <= j
<1> DEFINE less == {p \in Nat \X Nat : p[1] < p[2]}
<1>1. IsWellFoundedOn(less, Nat)
  BY NatLessThanWellFounded DEF OpToRel
<1>2. \E i \in I : \A j \in I : ~(<<j, i>> \in less)
  <2> HIDE DEF less
  <2> QED BY <1>1, WFMin
<1>3. PICK i \in I : \A j \in I : ~(<<j, i>> \in less)
  BY <1>2
<1>4. ASSUME NEW j \in I PROVE i <= j
  <2>1. i \in Nat /\ j \in Nat
    BY <1>3, <1>4
  <2>2. j < i => <<j, i>> \in less
    BY <2>1
  <2>3. ~(<<j, i>> \in less)
    BY <1>3, <1>4
  <2> HIDE DEF less
  <2> QED BY <2>1, <2>2, <2>3
<1> QED BY <1>3, <1>4

(* Among functions of one size the fallback is one of them.                *)
LEMMA FallbackIsOne ==
  ASSUME NEW name, NEW functions, NEW n \in Nat \ {0},
         DOMAIN functions = 1..n, \A i \in 1..n : functions[i].size = 0
  PROVE  FallbackAt(name, functions) \in 1..n
<1>1. ASSUME NEW I \in SUBSET (1..n), I # {}
      PROVE  Largest(functions, I) \in I
  <2>1. PICK i \in I : \A j \in I : i <= j
    BY <1>1, Least
  <2>2. \A j \in I : \/ functions[j].size < functions[i].size
                     \/ functions[j].size = functions[i].size /\ i <= j
    BY <1>1, <2>1
  <2> QED
    BY <2>1, <2>2 DEF Largest
<1>2. 1..n # {}
  OBVIOUS
<1> QED
  BY <1>1, <1>2 DEF FallbackAt

(* A directory that no earlier function of the code object was given.      *)
LEMMA FreshDir ==
  ASSUME NEW base, NEW c, NEW used, IsFiniteSet(used), NEW count \in Nat
  PROVE  /\ UniqueDir(base, c, used, count) \notin used
         /\ \/ UniqueDir(base, c, used, count) = <<base>>
            \/ UniqueDir(base, c, used, count) = <<base, c>>
            \/ \E i \in Nat : UniqueDir(base, c, used, count) = <<base, c, i>>
<1> DEFINE N == Cardinality(used)
           I == (count + 1)..(count + 1 + N)
           Free == {i \in I : <<base, c, i>> \notin used}
           d == [i \in I |-> <<base, c, i>>]
<1>1. N \in Nat
  BY FS_CardinalityType
<1>2. IsFiniteSet(I) /\ Cardinality(I) = N + 1
  BY <1>1, FS_Interval
<1>3. Free # {}
  <2>1. SUFFICES ASSUME Free = {} PROVE FALSE
    OBVIOUS
  <2>2. d \in [I -> used]
    BY <2>1
  <2>3. \E x, y \in I : x # y /\ d[x] = d[y]
    <3> HIDE DEF d, I
    <3> QED BY <1>1, <1>2, <2>2, FS_PigeonHole
  <2> QED
    BY <2>3
<1>4. PICK i \in Free : \A j \in Free : i <= j
  <2>1. Free \in SUBSET Nat
    BY <1>1
  <2> HIDE DEF Free
  <2> QED BY <1>3, <2>1, Least
<1>5. ASSUME NEW j \in (count + 1)..(i - 1) PROVE <<base, c, j>> \in used
  <2>1. i \in I
    BY <1>4
  <2>2. i \in Nat /\ j \in I /\ j < i
    <3> HIDE DEF N
    <3> QED BY <1>1, <1>5, <2>1
  <2> QED BY <1>4, <2>2
<1>6. \E x \in I : /\ <<base, c, x>> \notin used
                   /\ \A j \in (count + 1)..(x - 1) : ~(<<base, c, j>> \notin used)
  BY <1>4, <1>5
<1>7. CASE <<base>> \notin used
  BY <1>7 DEF UniqueDir
<1>8. CASE <<base>> \in used /\ <<base, c>> \notin used
  BY <1>8 DEF UniqueDir
<1>9. CASE <<base>> \in used /\ <<base, c>> \in used
  <2> DEFINE P(x) == /\ <<base, c, x>> \notin used
                     /\ \A j \in (count + 1)..(x - 1) : ~(<<base, c, j>> \notin used)
             least == CHOOSE x \in I : P(x)
  <2>1. least \in I /\ P(least)
    <3> HIDE DEF I, P
    <3> QED BY <1>6 DEF P
  <2>2. UniqueDir(base, c, used, count) = <<base, c, least>>
    BY <1>9 DEF UniqueDir
  <2>3. least \in Nat
    <3> HIDE DEF least, N
    <3> QED BY <1>1, <2>1
  <2> HIDE DEF least
  <2> QED BY <2>1, <2>2, <2>3
<1> QED
  BY <1>7, <1>8, <1>9

(* A code object has an artifact for a launch, and it is one of its own,   *)
(* exactly when it has any.                                                *)
LEMMA NamedIsOwn ==
  ASSUME NEW c, NEW name, NEW n \in Nat, DOMAIN artifacts[c] = 1..n
  PROVE  /\ Named(c, name) = <<>> <=>
              \A i \in 1..n : artifacts[c][i].name # name
         /\ Named(c, name) # <<>> =>
              \E i \in 1..n : Named(c, name) = <<artifacts[c][i]>>
<1> DEFINE mine == {i \in 1..n : artifacts[c][i].name = name}
<1>1. CASE mine = {}
  BY <1>1 DEF Named
<1>2. CASE mine # {}
  <2> DEFINE back == {n - i : i \in mine}
  <2>1. back \in SUBSET Nat /\ back # {}
    BY <1>2
  <2>2. PICK b \in back : \A x \in back : b <= x
    BY <2>1, Least
  <2>3. PICK i \in mine : b = n - i
    BY <2>2
  <2>4. ASSUME NEW j \in mine PROVE i >= j
    <3>1. b <= n - j
      BY <2>2
    <3> QED BY <2>3, <3>1
  <2>5. Max(mine) \in mine
    <3>1. \E x \in mine : \A y \in mine : x >= y
      BY <2>3, <2>4
    <3> HIDE DEF mine
    <3> QED BY <3>1, Zenon DEF Max
  <2>6. Named(c, name) = <<artifacts[c][Max(mine)]>>
    BY <1>2 DEF Named
  <2>7. Named(c, name) # <<>>
    BY <2>6
  <2> QED
    BY <1>2, <2>5, <2>6, <2>7
<1> QED
  BY <1>1, <1>2

LEMMA ArtifactIsOwn ==
  ASSUME NEW c, NEW name, NEW n \in Nat, DOMAIN artifacts[c] = 1..n,
         artifacts[c] = <<>> <=> n = 0
  PROVE  /\ ArtifactFor(c, name) = <<>> <=> artifacts[c] = <<>>
         /\ ArtifactFor(c, name) # <<>> =>
              \E i \in 1..n : ArtifactFor(c, name) = <<artifacts[c][i]>>
<1>1. CASE Named(c, name) # <<>>
  <2>1. ArtifactFor(c, name) = Named(c, name)
    BY <1>1 DEF ArtifactFor
  <2> QED BY <1>1, <2>1, NamedIsOwn
<1>2. CASE Named(c, name) = <<>> /\ artifacts[c] # <<>>
  <2> DEFINE at == FallbackAt(name, Candidates(c))
  <2>1. /\ DOMAIN Candidates(c) = 1..n
        /\ \A i \in 1..n : /\ Candidates(c)[i].size = 0
                           /\ Candidates(c)[i].name = artifacts[c][i].name
    BY DEF Candidates
  <2>2. at \in 1..n
    BY <1>2, <2>1, FallbackIsOne
  <2>3. ArtifactFor(c, name) = Named(c, artifacts[c][at].name)
    BY <1>2, <2>1, <2>2 DEF ArtifactFor
  <2>4. Named(c, artifacts[c][at].name) # <<>>
    BY <2>2, NamedIsOwn
  <2> QED BY <1>2, <2>3, <2>4, NamedIsOwn
<1>3. CASE Named(c, name) = <<>> /\ artifacts[c] = <<>>
  BY <1>3 DEF ArtifactFor
<1> QED
  BY <1>1, <1>2, <1>3

-----------------------------------------------------------------------------
(* Writing a file.                                                         *)

(* What a worker's write changes: its directory, which it now has written  *)
(* to, and where the worker goes next.                                     *)
Fields == {"meta", "sass", "loop", "norm"}
LEMMA FileUpdated ==
  ASSUME NEW file \in File, NEW by \in SUBSET Codes
  PROVE  /\ \A v \in Texts \cup {Torn} : [file EXCEPT !.meta = v, !.by = by] \in File
         /\ \A v \in Texts : [file EXCEPT !.sass = v, !.by = by] \in File
         /\ \A v \in Texts : [file EXCEPT !.loop = v, !.by = by] \in File
         /\ \A v \in Texts \X Texts : [file EXCEPT !.norm = v, !.by = by] \in File
  BY DEF File

Base(dir) == IF dir \in DOMAIN files THEN files[dir] ELSE NewDir
LEMMA SetDoes ==
  ASSUME TypeOK, NEW w \in Workers, code[w] \in Codes, NEW dir \in Dirs,
         NEW field \in Fields, NEW value, Set(w, dir, field, value),
         field = "norm" => value \in Texts \X Texts,
         field \in {"sass", "loop"} => value \in Texts,
         field = "meta" => value \in Texts \cup {Torn}
  PROVE  /\ DOMAIN files' = DOMAIN files \cup {dir}
         /\ \A d \in DOMAIN files : d # dir => files'[d] = files[d]
         /\ files'[dir][field] = value
         /\ \A other \in Fields \ {field} : files'[dir][other] = Base(dir)[other]
         /\ files'[dir].by = Base(dir).by \cup {code[w]}
         /\ Base(dir) \in File
         /\ DOMAIN files' \subseteq Dirs
         /\ \A d \in DOMAIN files' : files'[d] \in File
<1>1. /\ DOMAIN files' = DOMAIN files \cup {dir}
      /\ \A d \in DOMAIN files : d # dir => files'[d] = files[d]
      /\ files'[dir] = [Base(dir) EXCEPT ![field] = value, !.by = @ \cup {code[w]}]
  BY DEF Set, Base
<1>2. Base(dir) \in File
  BY DEF TypeOK, Base, NewDir, File, Texts
<1>3. /\ files'[dir][field] = value
      /\ \A other \in Fields \ {field} : files'[dir][other] = Base(dir)[other]
      /\ files'[dir].by = Base(dir).by \cup {code[w]}
  BY <1>1, <1>2 DEF Fields, File
<1>5. Base(dir).by \cup {code[w]} \in SUBSET Codes
  BY <1>2 DEF File
<1>4. files'[dir] \in File
  <2>1. CASE field = "meta"
    <3>1. value \in Texts \cup {Torn}
      BY <2>1
    <3>2. files'[dir] = [Base(dir) EXCEPT !.meta = value,
                                     !.by = Base(dir).by \cup {code[w]}]
      BY <1>1, <2>1
    <3>3. [Base(dir) EXCEPT !.meta = value, !.by = Base(dir).by \cup {code[w]}] \in File
      BY <1>2, <1>5, <3>1, FileUpdated
    <3> QED BY <3>2, <3>3
  <2>2. CASE field = "sass"
    <3>1. value \in Texts
      BY <2>2
    <3>2. files'[dir] = [Base(dir) EXCEPT !.sass = value,
                                     !.by = Base(dir).by \cup {code[w]}]
      BY <1>1, <2>2
    <3>3. [Base(dir) EXCEPT !.sass = value, !.by = Base(dir).by \cup {code[w]}] \in File
      BY <1>2, <1>5, <3>1, FileUpdated
    <3> QED BY <3>2, <3>3
  <2>3. CASE field = "loop"
    <3>1. value \in Texts
      BY <2>3
    <3>2. files'[dir] = [Base(dir) EXCEPT !.loop = value,
                                     !.by = Base(dir).by \cup {code[w]}]
      BY <1>1, <2>3
    <3>3. [Base(dir) EXCEPT !.loop = value, !.by = Base(dir).by \cup {code[w]}] \in File
      BY <1>2, <1>5, <3>1, FileUpdated
    <3> QED BY <3>2, <3>3
  <2>4. CASE field = "norm"
    <3>1. value \in Texts \X Texts
      BY <2>4
    <3>2. files'[dir] = [Base(dir) EXCEPT !.norm = value,
                                     !.by = Base(dir).by \cup {code[w]}]
      BY <1>1, <2>4
    <3>3. [Base(dir) EXCEPT !.norm = value, !.by = Base(dir).by \cup {code[w]}] \in File
      BY <1>2, <1>5, <3>1, FileUpdated
    <3> QED BY <3>2, <3>3
  <2> QED BY <2>1, <2>2, <2>3, <2>4 DEF Fields
<1> QED
  BY <1>1, <1>2, <1>3, <1>4 DEF TypeOK

-----------------------------------------------------------------------------
(* Directories.                                                            *)
Shape(d) ==
  \/ Len(d) = 1 /\ d = <<d[1]>>
  \/ Len(d) = 2 /\ d = <<d[1], d[2]>> /\ d[2] \in Nat
  \/ Len(d) = 3 /\ d = <<d[1], d[2], d[3]>> /\ d[2] \in Nat /\ d[3] \in Nat

LEMMA DirShape ==
  ASSUME NEW d \in Dirs
  PROVE  Shape(d)
<1>1. CASE d \in {<<b>> : b \in Bases}
  BY <1>1 DEF Shape
<1>2. CASE d \in Bases \X Codes
  <2>1. PICK b \in Bases, c \in Codes : d = <<b, c>>
    BY <1>2
  <2> QED BY <2>1, CodesAssumption DEF Shape
<1>3. CASE d \in Bases \X Codes \X Nat
  <2>1. PICK b \in Bases, c \in Codes, i \in Nat : d = <<b, c, i>>
    BY <1>3
  <2> QED BY <2>1, CodesAssumption DEF Shape
<1> QED
  BY <1>1, <1>2, <1>3 DEF Dirs

LEMMA NextDir ==
  ASSUME NEW base \in Bases, NEW c \in Codes, NEW used, IsFiniteSet(used),
         NEW count \in Nat
  PROVE  LET d == UniqueDir(base, c, used, count)
         IN  d \in Dirs /\ d[1] = base /\ d \notin used
<1>1. UniqueDir(base, c, used, count) \notin used
  BY FreshDir
<1>2. \/ UniqueDir(base, c, used, count) = <<base>>
      \/ UniqueDir(base, c, used, count) = <<base, c>>
      \/ \E i \in Nat : UniqueDir(base, c, used, count) = <<base, c, i>>
  BY FreshDir
<1> QED
  BY <1>1, <1>2 DEF Dirs

(* Among the directories of one base there is a first.                     *)
LEMMA FirstIsOne ==
  ASSUME NEW rows, rows # {}, NEW base,
         \A r \in rows : r.dir \in Dirs /\ r.dir[1] = base,
         \A r, q \in rows : r.dir = q.dir => r = q
  PROVE  \E r \in rows : FirstDir(rows) = r.dir
<1>1. \A r \in rows : Shape(r.dir)
  BY DirShape
<1>2. \E r \in rows : \A q \in rows : q = r \/ Before(r.dir, q.dir)
  <2>1. CASE \E r \in rows : Len(r.dir) = 1
    <3>1. PICK r \in rows : Len(r.dir) = 1
      BY <2>1
    <3>2. r.dir = <<base>>
      BY <1>1, <3>1 DEF Shape
    <3>3. ASSUME NEW q \in rows, q # r
          PROVE  Before(r.dir, q.dir)
      <4>1. q.dir # <<base>>
        BY <3>2, <3>3
      <4>2. Len(q.dir) >= 2
        BY <1>1, <4>1 DEF Shape
      <4> QED BY <3>1, <4>2 DEF Before
    <3> QED BY <3>3
  <2>2. CASE \A r \in rows : Len(r.dir) # 1
    <3>1. \A r \in rows : /\ Len(r.dir) \in {2, 3} /\ r.dir[2] \in Nat
                          /\ Len(r.dir) = 2 => r.dir = <<base, r.dir[2]>>
                          /\ Len(r.dir) = 3 => /\ r.dir[3] \in Nat
                                               /\ r.dir = <<base, r.dir[2], r.dir[3]>>
      BY <1>1, <2>2 DEF Shape
    <3> DEFINE seconds == {r.dir[2] : r \in rows}
    <3>2. seconds \in SUBSET Nat /\ seconds # {}
      BY <3>1
    <3>3. PICK m \in seconds : \A x \in seconds : m <= x
      <4> HIDE DEF seconds
      <4> QED BY <3>2, Least
    <3>4. m \in Nat /\ \A q \in rows : m <= q.dir[2]
      BY <3>2, <3>3
    <3>5. CASE \E r \in rows : r.dir[2] = m /\ Len(r.dir) = 2
      <4>1. PICK r \in rows : r.dir[2] = m /\ Len(r.dir) = 2
        BY <3>5
      <4>2. ASSUME NEW q \in rows, q # r
            PROVE  Before(r.dir, q.dir)
        <5>1. q.dir # r.dir
          BY <4>2
        <5>2. q.dir[2] = m => Len(q.dir) = 3
          BY <3>1, <4>1, <5>1
        <5>3. m <= q.dir[2] /\ q.dir[2] \in Nat /\ Len(q.dir) \in {2, 3}
          BY <3>1, <3>4
        <5>4. CASE q.dir[2] = m
          <6>1. Len(r.dir) = 2 /\ Len(q.dir) = 3 /\ r.dir[2] = q.dir[2]
            BY <4>1, <5>2, <5>4
          <6> QED BY <6>1 DEF Before
        <5>5. CASE q.dir[2] # m
          <6>1. m < q.dir[2]
            BY <3>4, <5>3, <5>5
          <6> QED BY <4>1, <5>3, <6>1 DEF Before
        <5> QED BY <5>4, <5>5
      <4> QED BY <4>2
    <3>6. CASE ~\E r \in rows : r.dir[2] = m /\ Len(r.dir) = 2
      <4> DEFINE thirds == {r.dir[3] : r \in {q \in rows : q.dir[2] = m}}
      <4>1. thirds \in SUBSET Nat
        BY <3>1, <3>6
      <4>2. thirds # {}
        BY <3>3
      <4>3. PICK k \in thirds : \A x \in thirds : k <= x
        <5> HIDE DEF thirds
        <5> QED BY <4>1, <4>2, Least
      <4>4. PICK r \in rows : r.dir[2] = m /\ r.dir[3] = k
        BY <4>3
      <4>5. ASSUME NEW q \in rows, q # r
            PROVE  Before(r.dir, q.dir)
        <5>1. q.dir # r.dir
          BY <4>5
        <5>2. CASE q.dir[2] = m
          <6>1. Len(r.dir) = 3 /\ Len(q.dir) = 3
            BY <3>1, <3>6, <4>4, <5>2
          <6>2. q.dir[3] # k
            BY <3>1, <4>4, <5>1, <5>2, <6>1
          <6>3. k <= q.dir[3] /\ k \in Nat /\ q.dir[3] \in Nat
            <7>1. q.dir[3] \in thirds
              BY <5>2
            <7> HIDE DEF thirds
            <7> QED BY <4>1, <4>3, <7>1
          <6> QED BY <4>4, <5>2, <6>1, <6>2, <6>3 DEF Before
        <5>3. CASE q.dir[2] # m
          <6>1. m < q.dir[2] /\ Len(q.dir) \in {2, 3} /\ Len(r.dir) \in {2, 3}
            BY <3>1, <3>4, <5>3
          <6> QED BY <4>4, <6>1 DEF Before
        <5> QED BY <5>2, <5>3
      <4> QED BY <4>5
    <3> QED BY <3>5, <3>6
  <2> QED BY <2>1, <2>2
<1> QED
  BY <1>2 DEF FirstDir

(* The files a lookup by name and code object may end in; for a kernel     *)
(* whose own metadata is there, it ends in no other.                       *)
LEMMA MetadataRows ==
  ASSUME TypeOK, MetadataNames
  PROVE  /\ \A r \in Metadata :
              /\ r.dir \in DOMAIN files /\ files[r.dir].meta = <<r.name, r.code>>
              /\ <<r.name, r.code>> \in Labels /\ r.dir \in Dirs
              /\ r.dir[1] = SafeName[r.name]
         /\ \A r, q \in Metadata : r.dir = q.dir => r = q
         /\ \A r, q \in Metadata : r.name = q.name /\ r.code = q.code => r = q
         /\ \A d \in DOMAIN files : \A n, c :
              files[d].meta = <<n, c>> /\ <<n, c>> \in Labels =>
                [dir |-> d, name |-> n, code |-> c] \in Metadata
<1>1. \A d \in DOMAIN files : files[d].meta \in Texts \cup {Torn}
  BY DEF TypeOK, File
<1>2. ASSUME NEW r \in Metadata
      PROVE  /\ r.dir \in DOMAIN files /\ files[r.dir].meta = <<r.name, r.code>>
             /\ files[r.dir].meta \in Labels
             /\ r = [dir |-> r.dir, name |-> files[r.dir].meta[1],
                     code |-> files[r.dir].meta[2]]
  <2>1. PICK d \in DOMAIN files :
           /\ files[d].meta \notin {None, Torn}
           /\ r = [dir |-> d, name |-> files[d].meta[1], code |-> files[d].meta[2]]
    BY <1>2 DEF Metadata
  <2>2. files[d].meta \in Labels
    BY <1>1, <2>1 DEF Texts
  <2> QED BY <2>1, <2>2 DEF Labels
<1>3. \A r \in Metadata : /\ r.dir \in Dirs
                          /\ r.dir[1] = SafeName[files[r.dir].meta[1]]
  BY <1>2 DEF TypeOK, MetadataNames
<1>4. \A r, q \in Metadata : r.dir = q.dir => r = q
  BY <1>2
<1>5. \A r, q \in Metadata : r.name = q.name /\ r.code = q.code => r = q
  BY <1>2, <1>4 DEF MetadataNames
<1>6. ASSUME NEW d \in DOMAIN files, NEW n, NEW c, files[d].meta = <<n, c>>,
             <<n, c>> \in Labels
      PROVE  [dir |-> d, name |-> n, code |-> c] \in Metadata
  BY <1>6, MarkersAssumption DEF Metadata
<1> QED
  BY <1>2, <1>3, <1>4, <1>5, <1>6

LEMMA FoundIsThere ==
  ASSUME TypeOK, MetadataNames, NEW name, NEW c, NEW id,
         Text(Found(name, c, id)) # None
  PROVE  /\ Found(name, c, id) \in DOMAIN files
         /\ files[Found(name, c, id)].meta \in Labels
<1> DEFINE own    == {r \in Metadata : r.name = name /\ r.code = c}
           byName == {r \in Metadata : r.name = name}
           byId   == {r \in Metadata : <<r.name, r.code>> = id}
<1>1. Found(name, c, id) # None /\ Found(name, c, id) = Resolve(Metadata, name, c, id)
  BY DEF Text, Found
<1>2. ASSUME NEW rows \in SUBSET Metadata, rows # {}, NEW n, \A r \in rows : r.name = n
      PROVE  \E r \in rows : FirstDir(rows) = r.dir
  <2>1. /\ \A r \in rows : r.dir \in Dirs /\ r.dir[1] = SafeName[n]
        /\ \A r, q \in rows : r.dir = q.dir => r = q
    BY <1>2, MetadataRows
  <2> QED BY <1>2, <2>1, FirstIsOne
<1>3. \E r \in Metadata : Found(name, c, id) = r.dir
  <2>1. CASE own # {}
    <3>1. PICK r \in own : TRUE
      BY <2>1
    <3>2. own = {r}
      BY <3>1, MetadataRows
    <3>3. LastDir(own) = r.dir
      BY <3>2 DEF LastDir
    <3>4. Resolve(Metadata, name, c, id) = LastDir(own)
      BY <2>1 DEF Resolve
    <3> QED BY <1>1, <3>1, <3>3, <3>4
  <2>2. CASE own = {} /\ byName # {}
    <3>1. Resolve(Metadata, name, c, id) = FirstDir(byName)
      BY <2>2 DEF Resolve
    <3>2. \E r \in byName : FirstDir(byName) = r.dir
      BY <1>2, <2>2
    <3> QED BY <1>1, <3>1, <3>2
  <2>3. CASE own = {} /\ byName = {}
    <3>1. Resolve(Metadata, name, c, id) = FirstDir(byId)
      BY <2>3 DEF Resolve
    <3>2. byId # {}
      BY <1>1, <3>1 DEF FirstDir
    <3>3. PICK q \in byId : TRUE
      BY <3>2
    <3>4. \A r \in byId : r.name = q.name
      BY <3>3
    <3>5. \E r \in byId : FirstDir(byId) = r.dir
      <4> HIDE DEF byId
      <4>1. byId \in SUBSET Metadata
        BY DEF byId
      <4> QED BY <1>2, <3>2, <3>4, <4>1
    <3> QED BY <1>1, <3>1, <3>5
  <2> QED BY <2>1, <2>2, <2>3
<1> QED
  BY <1>3, MetadataRows

LEMMA FoundOwn ==
  ASSUME TypeOK, MetadataNames, NEW name, NEW c, NEW id, <<name, c>> \in Labels,
         NEW dir \in DOMAIN files, files[dir].meta = <<name, c>>,
         Text(Found(name, c, id)) # None
  PROVE  Found(name, c, id) = dir
<1> DEFINE own == {r \in Metadata : r.name = name /\ r.code = c}
           row == [dir |-> dir, name |-> name, code |-> c]
<1>1. row \in own
  BY MetadataRows
<1>2. own = {row}
  BY <1>1, MetadataRows
<1>3. LastDir(own) = dir
  <2>1. LastDir(own) = row.dir
    <3> HIDE DEF own, row
    <3> QED BY <1>2 DEF LastDir
  <2> QED BY <2>1
<1>4. Resolve(Metadata, name, c, id) = LastDir(own)
  BY <1>1 DEF Resolve
<1> QED
  BY <1>3, <1>4 DEF Text, Found

-----------------------------------------------------------------------------
(* A step that writes a file.                                              *)

(* Worker w writes to directory dir and goes on: what it leaves alone, and *)
(* the only metadata it may put there.                                     *)
Touches(w, dir) ==
  /\ Busy(w) /\ Busy(w)' /\ \A x \in Workers : x # w => pc'[x] = pc[x]
  /\ DOMAIN files' = DOMAIN files \cup {dir}
  /\ \A d \in DOMAIN files : d # dir => files'[d] = files[d]
  /\ files'[dir].by = Base(dir).by \cup {code[w]}
  /\ files'[dir].meta \in Labels =>
       \/ files'[dir].meta = Base(dir).meta
       \/ /\ dir \in DOMAIN files /\ files'[dir].meta = Label(w, Len(dirs[w]))
          /\ Len(dirs[w]) >= 1 /\ dir = dirs[w][Len(dirs[w])]
  /\ \A x \in Workers : x # w => dirs'[x] = dirs[x]
  /\ UNCHANGED <<active, arrived, queue, code, built, artifacts, refused, handled,
                 windows>>

(* What another code object has in the session's directories stays.        *)
LEMMA OthersKept ==
  ASSUME TypeOK, NEW w \in Workers, NEW dir, Touches(w, dir),
         NEW c, c # code[w]
  PROVE  /\ \A d \in DOMAIN files : d \in DOMAIN files'
         /\ \A d \in DOMAIN files' : c \in files'[d].by =>
              d \in DOMAIN files /\ c \in files[d].by
         /\ \A d \in DOMAIN files : c \in files[d].by => c \in files'[d].by
         /\ \A d \in DOMAIN files' : Alone(files'[d], c) =>
              d \in DOMAIN files /\ files'[d] = files[d]
         /\ \A d, n : Kept(d, n, c) =>
              /\ d \in DOMAIN files' /\ c \in files'[d].by
              /\ Alone(files'[d], c) => Whole(files'[d], <<n, c>>)
<1>1. dir \notin DOMAIN files => Base(dir).by = {} /\ Base(dir).meta = None
  BY DEF Base, NewDir
<1>2. dir \in DOMAIN files => Base(dir) = files[dir]
  BY DEF Base
<1>3. \A d \in DOMAIN files' : c \in files'[d].by =>
              d \in DOMAIN files /\ c \in files[d].by
  BY <1>1, <1>2 DEF Touches
<1>4. \A d \in DOMAIN files : c \in files[d].by => c \in files'[d].by
  BY <1>1, <1>2 DEF Touches
<1>5. ~Alone(files'[dir], c)
  BY DEF Touches, Alone
<1>6. \A d \in DOMAIN files' : Alone(files'[d], c) =>
              d \in DOMAIN files /\ files'[d] = files[d]
  BY <1>5 DEF Touches
<1>7. \A d \in DOMAIN files : d \in DOMAIN files'
  BY DEF Touches
<1> QED
  BY <1>3, <1>4, <1>6, <1>7 DEF Kept

LEMMA TouchOnce ==
  ASSUME TypeOK, OncePerCode, NEW w \in Workers, NEW dir, Touches(w, dir)
  PROVE  OncePerCode'
<1>1. /\ code[w] \in arrived /\ code[w] \notin refused
      /\ \A i \in 1..Len(queue) : code[w] # queue[i]
      /\ Busy(w)
  BY DEF OncePerCode, Touches
<1>2. \A c \in Codes : Untouched(c) /\ c # code[w] =>
         artifacts'[c] = <<>> /\ \A d \in DOMAIN files' : c \notin files'[d].by
  BY OthersKept DEF Untouched, Touches
<1>3. \A x \in Workers : Busy(x)' <=> Busy(x)
  BY DEF Touches, Busy
<1>4. \A i \in 1..Len(queue) : queue[i] \in Codes
  BY DEF TypeOK
<1>5. UNCHANGED <<arrived, queue, code, refused, artifacts>>
  BY DEF Touches
<1>6. (\A c \in Codes : c \notin arrived \/ c \in refused => Untouched(c))'
  BY <1>1, <1>2, <1>5 DEF OncePerCode, Untouched
<1>7. (\A i \in 1..Len(queue) :
       /\ queue[i] \in arrived /\ queue[i] \notin refused /\ Untouched(queue[i])
       /\ \A j \in 1..Len(queue) : queue[i] = queue[j] => i = j
       /\ \A x \in Workers : Busy(x) => code[x] # queue[i])'
  BY <1>1, <1>2, <1>3, <1>4, <1>5 DEF OncePerCode, Untouched
<1>8. (\A x \in Workers : Busy(x) =>
       /\ code[x] \in arrived /\ code[x] \notin refused
       /\ artifacts[code[x]] = <<>>
       /\ \A y \in Workers : Busy(y) /\ code[y] = code[x] => y = x)'
  BY <1>3, <1>5 DEF OncePerCode
<1>9. refused' \subseteq arrived'
  BY <1>5 DEF OncePerCode
<1> QED
  BY <1>6, <1>7, <1>8, <1>9 DEF OncePerCode

(* A kernel's metadata is written once, since its code object is at work   *)
(* in this worker only and its functions have different names.             *)
LEMMA TouchMetadata ==
  ASSUME TypeOK, MetadataNames, NEW w \in Workers, AtWork(w), NEW dir, Touches(w, dir)
  PROVE  MetadataNames'
<1> DEFINE n == Len(dirs[w])
<1>1. /\ DOMAIN files' = DOMAIN files \cup {dir}
      /\ \A d \in DOMAIN files : d # dir => files'[d] = files[d]
      /\ files'[dir].by = Base(dir).by \cup {code[w]}
  BY DEF Touches
<1>2. /\ dir \notin DOMAIN files => Base(dir).by = {} /\ Base(dir).meta = None
      /\ dir \in DOMAIN files => Base(dir) = files[dir]
  BY DEF Base, NewDir
<1>3. CASE files'[dir].meta \notin Labels
  BY <1>1, <1>2, <1>3 DEF MetadataNames
<1>4. CASE files'[dir].meta \in Labels /\ files'[dir].meta = Base(dir).meta
  <2>1. dir \in DOMAIN files
    BY <1>2, <1>4, MarkersAssumption
  <2> QED BY <1>1, <1>2, <1>4, <2>1 DEF MetadataNames
<1>5. CASE /\ files'[dir].meta \in Labels
           /\ dir \in DOMAIN files /\ files'[dir].meta = Label(w, n)
           /\ n >= 1 /\ dir = dirs[w][n]
  <2>1. n \in 1..Len(dirs[w]) /\ n \in Nat
    BY <1>5 DEF TypeOK
  <2>2. dir[1] = SafeName[Functions[code[w]][n]]
    BY <1>5, <2>1 DEF AtWork
  <2>3. files'[dir].meta[1] = Functions[code[w]][n] /\ files'[dir].meta[2] = code[w]
    BY <1>5 DEF Label
  <2>4. ASSUME NEW d \in DOMAIN files, files[d].meta = Label(w, n)
        PROVE  d = dir
    <3>1. code[w] \in files[d].by
      BY <1>5, <2>4 DEF MetadataNames, Label
    <3>2. PICK i \in 1..Len(dirs[w]) : d = dirs[w][i]
      BY <3>1 DEF AtWork
    <3>3. files[d].meta = Label(w, i)
      <4>1. files[d].meta \in Labels /\ files[d].meta[2] = code[w]
        BY <1>5, <2>4 DEF Label
      <4> QED BY <3>2, <4>1 DEF AtWork
    <3>4. /\ Functions[code[w]][i] = Functions[code[w]][n]
          /\ i \in DOMAIN Functions[code[w]] /\ n \in DOMAIN Functions[code[w]]
      BY <2>1, <2>4, <3>2, <3>3, FunctionsAssumption DEF AtWork, Label
    <3>5. i = n
      BY <3>4, FunctionsAssumption DEF AtWork
    <3> QED BY <1>5, <3>2, <3>5
  <2> QED BY <1>1, <1>2, <1>5, <2>2, <2>3, <2>4 DEF MetadataNames
<1> QED
  BY <1>3, <1>4, <1>5 DEF Touches

(* What the other workers have done stays done.                            *)
LEMMA TouchOthers ==
  ASSUME TypeOK, OncePerCode, MetadataNames, Work, NEW w \in Workers, NEW dir,
         Touches(w, dir), NEW x \in Workers, x # w, Busy(x)
  PROVE  AtWork(x)' /\ Wrote(x)'
<1>1. code[x] # code[w]
  BY DEF OncePerCode, Touches
<1>2. /\ pc'[x] = pc[x] /\ code'[x] = code[x] /\ dirs'[x] = dirs[x]
      /\ built'[x] = built[x]
  BY DEF Touches
<1>3. AtWork(x) /\ Wrote(x)
  BY DEF Work
<1>4. \A d \in DOMAIN files :
         files'[d].meta \in Labels /\ files'[d].meta[2] = code[x] =>
           files'[d].meta = files[d].meta
  BY <1>1 DEF Touches, Base, Label
<1>5. AtWork(x)'
  <2>1. \A i \in 1..Len(dirs[x]) :
          /\ dirs[x][i] \in DOMAIN files' /\ code[x] \in files'[dirs[x][i]].by
          /\ dirs[x][i][1] = SafeName[Functions[code[x]][i]]
    BY <1>1, <1>3, OthersKept DEF AtWork
  <2>2. \A d \in DOMAIN files' : code[x] \in files'[d].by =>
          \E i \in 1..Len(dirs[x]) : d = dirs[x][i]
    BY <1>1, <1>3, OthersKept DEF AtWork
  <2>3. \A i \in 1..Len(dirs[x]) :
          LET meta == files'[dirs[x][i]].meta
          IN  meta \in Labels /\ meta[2] = code[x] => meta = Label(x, i)
    BY <1>3, <1>4 DEF AtWork
  <2> QED BY <1>2, <1>3, <2>1, <2>2, <2>3 DEF AtWork, BuiltUpTo, Label
<1>6. Wrote(x)'
  <2>1. \A i \in 1..WholeUpTo(x) :
          /\ dirs[x][i] \in DOMAIN files' /\ code[x] \in files'[dirs[x][i]].by
          /\ Alone(files'[dirs[x][i]], code[x]) =>
               Whole(files'[dirs[x][i]], <<Functions[code[x]][i], code[x]>>)
    BY <1>1, <1>3, OthersKept DEF Wrote
  <2>2. pc[x] \in Writing => /\ Dir(x) \in DOMAIN files
                             /\ Alone(files'[Dir(x)], code[x]) =>
                                  files'[Dir(x)] = files[Dir(x)]
    <3>1. pc[x] \in Writing => Len(dirs[x]) \in 1..Len(dirs[x])
      BY <1>3 DEF AtWork, TypeOK
    <3>2. pc[x] \in Writing => Dir(x) \in DOMAIN files
      BY <1>3, <3>1 DEF AtWork, Dir
    <3>3. \A d \in DOMAIN files : d \in DOMAIN files'
      BY <1>1, OthersKept
    <3>4. \A d \in DOMAIN files' : Alone(files'[d], code[x]) => files'[d] = files[d]
      BY <1>1, OthersKept
    <3> QED BY <3>2, <3>3, <3>4
  <2>3. Dir(x)' = Dir(x) /\ WholeUpTo(x)' = WholeUpTo(x) /\ BuiltUpTo(x)' = BuiltUpTo(x)
        /\ \A i : Label(x, i)' = Label(x, i)
    BY <1>2 DEF Dir, WholeUpTo, BuiltUpTo, Label
  <2> QED BY <1>2, <1>3, <2>1, <2>2, <2>3 DEF Wrote, Kept
<1> QED
  BY <1>5, <1>6

LEMMA TouchResults ==
  ASSUME TypeOK, OncePerCode, Artifacts, Windows, Ready, NEW w \in Workers, NEW dir,
         Touches(w, dir)
  PROVE  Artifacts' /\ Windows' /\ Ready'
<1>1. artifacts[code[w]] = <<>> /\ UNCHANGED <<active, artifacts, handled, windows>>
  BY DEF OncePerCode, Touches
<1>2. \A c \in Codes : artifacts[c] # <<>> => c # code[w]
  BY <1>1
<1>3. \A c \in Codes : \A i \in 1..Len(artifacts[c]) : artifacts[c] # <<>>
  BY DEF TypeOK
<1>4. Artifacts'
  BY <1>1, <1>2, <1>3, OthersKept DEF Artifacts, Kept
<1>5. Windows'
  <2>1. \A i \in 1..Len(windows) : windows[i].code # code[w]
    BY <1>1 DEF Windows
  <2> QED BY <1>1, <2>1, OthersKept DEF Windows, Kept
<1> QED
  BY <1>1, <1>4, <1>5 DEF Ready

(* A file is written over, or added to a directory that is there.          *)
LEMMA SetAgain ==
  ASSUME TypeOK, NEW w \in Workers, code[w] \in Codes, NEW dir \in DOMAIN files,
         NEW field \in {"meta", "loop", "norm"}, NEW value, Set(w, dir, field, value),
         field = "norm" => value \in Texts \X Texts,
         field = "loop" => value \in Texts,
         field = "meta" => value \in Texts \cup {Torn}
  PROVE  /\ DOMAIN files' = DOMAIN files
         /\ \A d \in DOMAIN files : d # dir => files'[d] = files[d]
         /\ files'[dir][field] = value
         /\ \A other \in Fields \ {field} : files'[dir][other] = files[dir][other]
         /\ files'[dir].by = files[dir].by \cup {code[w]}
         /\ \A d \in DOMAIN files' : files'[d] \in File
<1>1. dir \in Dirs
  BY DEF TypeOK
<1>2. field \in Fields
  BY DEF Fields
<1>3. field \in {"sass", "loop"} => value \in Texts
  OBVIOUS
<1>4. /\ DOMAIN files' = DOMAIN files \cup {dir}
      /\ \A d \in DOMAIN files : d # dir => files'[d] = files[d]
      /\ files'[dir][field] = value
      /\ \A other \in Fields \ {field} : files'[dir][other] = Base(dir)[other]
      /\ files'[dir].by = Base(dir).by \cup {code[w]}
      /\ \A d \in DOMAIN files' : files'[d] \in File
  BY <1>1, <1>2, <1>3, SetDoes
<1>5. Base(dir) = files[dir]
  BY DEF Base
<1> QED
  BY <1>4, <1>5

(* A kernel's first file.                                                  *)
LEMMA SetFirst ==
  ASSUME TypeOK, NEW w \in Workers, code[w] \in Codes, NEW dir \in Dirs,
         NEW value \in Texts, Set(w, dir, "sass", value)
  PROVE  /\ DOMAIN files' = DOMAIN files \cup {dir}
         /\ \A d \in DOMAIN files : d # dir => files'[d] = files[d]
         /\ files'[dir].sass = value /\ files'[dir].meta = Base(dir).meta
         /\ files'[dir].by = Base(dir).by \cup {code[w]}
         /\ DOMAIN files' \subseteq Dirs
         /\ \A d \in DOMAIN files' : files'[d] \in File
<1>1. PICK field \in Fields : field = "sass"
  BY DEF Fields
<1>2. Set(w, dir, field, value)
  BY <1>1
<1>3. /\ field = "norm" => value \in Texts \X Texts
      /\ field \in {"sass", "loop"} => value \in Texts
      /\ field = "meta" => value \in Texts \cup {Torn}
  BY <1>1
<1>4. /\ DOMAIN files' = DOMAIN files \cup {dir}
      /\ \A d \in DOMAIN files : d # dir => files'[d] = files[d]
      /\ files'[dir][field] = value
      /\ \A other \in Fields \ {field} : files'[dir][other] = Base(dir)[other]
      /\ files'[dir].by = Base(dir).by \cup {code[w]}
      /\ DOMAIN files' \subseteq Dirs
      /\ \A d \in DOMAIN files' : files'[d] \in File
  BY <1>2, <1>3, SetDoes
<1>5. "meta" \in Fields \ {field}
  BY <1>1 DEF Fields
<1> QED
  BY <1>1, <1>4, <1>5

(* A worker writes another file to the directory it is at.                 *)
LastFine(q, file, label) ==
  /\ q \in Writing => file.sass = label
  /\ q \in {"loop", "norm"} => file.meta = label
  /\ q = "norm" => file.loop = label
  /\ q = "fragment" => Whole(file, label)

Fits(w, field, value) ==
  \/ field = "meta" /\ value \in {Torn, Label(w, Len(dirs[w]))}
  \/ field = "loop" /\ value \in Texts
  \/ field = "norm" /\ value \in Texts \X Texts
GoesTo(w, q) ==
  q \in {"meta", "loop", "norm", "fragment"} /\ pc' = [pc EXCEPT ![w] = q]
At(w, D) == D = Dir(w)
OthersRest == UNCHANGED <<active, arrived, queue, code, dirs, built, artifacts, refused,
                          launchVars>>

LEMMA InPlace ==
  ASSUME TypeOK, Work, NEW w \in Workers, pc[w] \in Writing,
         NEW q, GoesTo(w, q), NEW D, At(w, D), NEW field, NEW value,
         Set(w, D, field, value),
         Fits(w, field, value), OthersRest
  PROVE  /\ TypeOK' /\ Touches(w, D) /\ AtWork(w)'
         /\ files'[D][field] = value
         /\ \A other \in Fields \ {field} : files'[D][other] = files[D][other]
         /\ Alone(files'[D], code[w]) => Alone(files[D], code[w])
         /\ (Alone(files'[D], code[w]) =>
               LastFine(q, files'[D], Label(w, Len(dirs[w]))))
              => Wrote(w)'
<1> DEFINE n == Len(dirs[w])
<1>a. /\ field \in {"meta", "loop", "norm"}
      /\ field = "meta" => value \in {Torn, Label(w, n)}
      /\ field = "loop" => value \in Texts
      /\ field = "norm" => value \in Texts \X Texts
  BY DEF Fits
<1>c. q \in {"meta", "loop", "norm", "fragment"} /\ pc' = [pc EXCEPT ![w] = q]
      /\ D = Dir(w)
  BY DEF GoesTo, At
<1>b. UNCHANGED <<active, arrived, queue, code, dirs, built, artifacts, refused,
                  handled, windows>>
  BY DEF OthersRest, launchVars
<1>1. Busy(w) /\ AtWork(w) /\ Wrote(w)
  BY <1>c DEF Work, Busy, Writing
<1>2. n \in Nat /\ n >= 1 /\ n \in 1..n /\ code[w] \in Codes /\ D = dirs[w][n]
  BY <1>c, <1>1 DEF AtWork, TypeOK, Dir
<1>3. D \in DOMAIN files /\ D \in Dirs /\ Base(D) = files[D] /\ code[w] \in files[D].by
  <2>1. dirs[w][n] \in DOMAIN files /\ code[w] \in files[dirs[w][n]].by
    BY <1>c, <1>1, <1>2 DEF AtWork
  <2>2. dirs[w][n] \in Dirs
    BY <1>c, <2>1 DEF TypeOK
  <2> QED BY <1>c, <1>2, <2>1, <2>2 DEF Base
<1>4. Label(w, n) \in Labels
  BY <1>c, <1>1, <1>2, FunctionsAssumption DEF AtWork, Label, Labels
<1>5. /\ DOMAIN files' = DOMAIN files
      /\ \A d \in DOMAIN files : d # D => files'[d] = files[d]
      /\ files'[D][field] = value
      /\ \A other \in Fields \ {field} : files'[D][other] = files[D][other]
      /\ files'[D].by = files[D].by
      /\ \A d \in DOMAIN files' : files'[d] \in File
  <2>1. field = "meta" => value \in Texts \cup {Torn}
    BY <1>c, <1>4, <1>a DEF Texts
  <2>2. code[w] \in Codes /\ D \in DOMAIN files
    BY <1>c, <1>2, <1>3
  <2>3. /\ DOMAIN files' = DOMAIN files
        /\ \A d \in DOMAIN files : d # D => files'[d] = files[d]
        /\ files'[D][field] = value
        /\ \A other \in Fields \ {field} : files'[D][other] = files[D][other]
        /\ files'[D].by = files[D].by \cup {code[w]}
        /\ \A d \in DOMAIN files' : files'[d] \in File
    BY <1>a, <2>1, <2>2, SetAgain
  <2> QED BY <1>c, <1>3, <2>3
<1>6. TypeOK'
  <2>1. pc' \in [Workers -> ControlPoints]
    BY <1>c DEF TypeOK, ControlPoints
  <2>2. DOMAIN files' \subseteq Dirs /\ \A d \in DOMAIN files' : files'[d] \in File
    BY <1>c, <1>5 DEF TypeOK
  <2> QED BY <1>c, <1>b, <2>1, <2>2 DEF TypeOK
<1>7. /\ files'[D].meta = files[D].meta \/ files'[D].meta \in {Torn, Label(w, n)}
  BY <1>c, <1>5, <1>a DEF Fields
<1>8. Touches(w, D)
  <2>1. Busy(w)' /\ \A x \in Workers : x # w => pc'[x] = pc[x]
    BY <1>c DEF TypeOK, Busy
  <2>2. files'[D].meta \in Labels =>
         files'[D].meta = Base(D).meta \/ files'[D].meta = Label(w, n)
    BY <1>c, <1>3, <1>7, MarkersAssumption
  <2> QED
    BY <1>c, <1>b, <1>1, <1>2, <1>3, <1>5, <2>1, <2>2 DEF Touches
<1>9. UNCHANGED <<code, dirs, built>> /\ pc'[w] = q
  BY <1>c, <1>b DEF TypeOK
<1>10. AtWork(w)'
  <2> HIDE DEF n
  <2>1. BuiltUpTo(w)' = BuiltUpTo(w)
    BY <1>c, <1>9 DEF BuiltUpTo, Writing
  <2>2. \A i \in 1..n :
          /\ dirs[w][i] \in DOMAIN files' /\ code[w] \in files'[dirs[w][i]].by
          /\ dirs[w][i][1] = SafeName[Functions[code[w]][i]]
    BY <1>c, <1>1, <1>5 DEF AtWork, n
  <2>3. \A d \in DOMAIN files' : code[w] \in files'[d].by =>
          \E i \in 1..n : d = dirs[w][i]
    BY <1>c, <1>1, <1>5 DEF AtWork, n
  <2>4. ASSUME NEW i \in 1..n, files'[dirs[w][i]].meta \in Labels,
               files'[dirs[w][i]].meta[2] = code[w]
        PROVE  files'[dirs[w][i]].meta = Label(w, i)
    <3>1. dirs[w][i] \in DOMAIN files
      BY <1>c, <1>1 DEF AtWork, n
    <3>2. files[dirs[w][i]].meta \in Labels /\ files[dirs[w][i]].meta[2] = code[w]
            => files[dirs[w][i]].meta = Label(w, i)
      BY <1>c, <1>1 DEF AtWork, n
    <3>3. CASE dirs[w][i] # D
      BY <1>c, <1>5, <2>4, <3>1, <3>2, <3>3
    <3>4. CASE dirs[w][i] = D
      <4>1. i = n
        BY <1>c, <1>1, <1>2, <3>4 DEF AtWork, n
      <4> QED BY <1>c, <1>7, <2>4, <3>2, <3>4, <4>1, MarkersAssumption
    <3> QED BY <1>c, <3>3, <3>4
  <2>5. \A i : Label(w, i)' = Label(w, i)
    BY <1>c, <1>9 DEF Label
  <2> QED
    BY <1>1, <1>2, <1>9, <1>c, <2>1, <2>2, <2>3, <2>4, <2>5, SMTT(30) DEF AtWork, Writing, n
<1>11. ASSUME Alone(files'[D], code[w]) =>
               LastFine(q, files'[D], Label(w, Len(dirs[w])))
       PROVE  Wrote(w)'
  <2>1. Dir(w)' = D /\ Label(w, n)' = Label(w, n) /\ n' = n
        /\ \A i : Label(w, i)' = Label(w, i)
    BY <1>c, <1>9 DEF Dir, Label
  <2>2. WholeUpTo(w) = n - 1 /\ BuiltUpTo(w)' = BuiltUpTo(w)
        /\ WholeUpTo(w)' = IF q = "fragment" THEN n ELSE n - 1
    BY <1>c, <1>9 DEF WholeUpTo, BuiltUpTo, Writing
  <2>3. Alone(files'[D], code[w]) =>
          /\ q \in Writing => files'[D].sass = Label(w, n)
          /\ q \in {"loop", "norm"} => files'[D].meta = Label(w, n)
          /\ q = "norm" => files'[D].loop = Label(w, n)
          /\ q = "fragment" => Whole(files'[D], Label(w, n))
    BY <1>c, <1>9, <1>11, <2>1 DEF LastFine
  <2>4. ASSUME NEW i \in 1..(n - 1)
        PROVE  Kept(dirs[w][i], Functions[code[w]][i], code[w])'
    <3>1. /\ dirs[w][i] # D
          /\ Kept(dirs[w][i], Functions[code[w]][i], code[w])
      <4>1. i \in 1..n /\ i # n
        BY <1>c, <1>2
      <4> QED BY <1>c, <1>1, <1>2, <2>2, <4>1, SMTT(30) DEF AtWork, Wrote
    <3> QED BY <1>c, <1>5, <1>9, <3>1 DEF Kept
  <2>5. ASSUME NEW i, i = n, q = "fragment"
        PROVE  Kept(dirs[w][i], Functions[code[w]][i], code[w])'
    BY <2>5, <1>c, <1>2, <1>3, <1>5, <1>9, <2>3 DEF Kept, Label
  <2>6. \A i \in 1..WholeUpTo(w)' :
          Kept(dirs[w][i], Functions[code[w]][i], code[w])'
    <3>1. CASE q = "fragment"
      <4>1. ASSUME NEW i \in 1..n
            PROVE  Kept(dirs[w][i], Functions[code[w]][i], code[w])'
        <5>1. i \in 1..(n - 1) \/ i = n
          BY <1>c, <1>2
        <5> QED BY <2>4, <2>5, <3>1, <5>1
      <4> HIDE DEF n
      <4> QED BY <1>c, <2>2, <3>1, <4>1
    <3>2. CASE q # "fragment"
      <4> HIDE DEF n
      <4> QED BY <1>c, <2>2, <2>4, <3>2
    <3> QED BY <1>c, <3>1, <3>2
  <2>7. \A i \in 1..BuiltUpTo(w) :
          /\ built[w][i].name = Functions[code[w]][i]
          /\ built[w][i].dir = dirs[w][i]
          /\ OwnArtifact(built[w][i], code[w])
    BY <1>c, <1>1 DEF Wrote
  <2> HIDE DEF n
  <2> QED BY <1>c, <1>9, <2>1, <2>2, <2>3, <2>6, <2>7 DEF Wrote, OwnArtifact, n
<1> QED
  BY <1>5, <1>6, <1>8, <1>10, <1>11 DEF Alone

LEMMA TouchKeeps ==
  ASSUME Analysis, NEW w \in Workers, NEW dir, Touches(w, dir), TypeOK', AtWork(w)',
         Wrote(w)'
  PROVE  Analysis'
<1>1. Busy(w) /\ AtWork(w)
  BY DEF Touches, Analysis, Work
<1>2. OncePerCode' /\ MetadataNames' /\ Artifacts' /\ Windows' /\ Ready'
  BY <1>1, TouchOnce, TouchMetadata, TouchResults DEF Analysis
<1>3. Work'
  <2>1. ASSUME NEW x \in Workers, Busy(x)'
        PROVE  AtWork(x)' /\ Wrote(x)'
    <3>1. CASE x = w
      BY <3>1
    <3>2. CASE x # w
      <4>1. Busy(x)
        BY <2>1, <3>2 DEF Touches, Busy
      <4> QED BY <3>2, <4>1, TouchOthers DEF Analysis
    <3> QED BY <3>1, <3>2
  <2> QED BY <2>1 DEF Work
<1> QED
  BY <1>2, <1>3 DEF Analysis

(* The files of a kernel that its code object alone wrote agree with the   *)
(* kernel, one more after each step.                                       *)
LEMMA RewritingKeeps ==
  ASSUME Analysis, NEW w \in Workers,
         TruncateMetadata(w) \/ WriteMetadata(w) \/ ExtractLoop(w) \/ Normalize(w)
  PROVE  Analysis'
<1> DEFINE n == Len(dirs[w])
<1>1. TypeOK /\ Work
  BY DEF Analysis
<1>2. PICK D : D = Dir(w)
  OBVIOUS
<1>3. pc[w] \in Writing /\ Busy(w) /\ AtWork(w) /\ Wrote(w)
  BY <1>1 DEF TruncateMetadata, WriteMetadata, ExtractLoop, Normalize, Writing, Busy, Work
<1>4. D \in DOMAIN files /\ files[D] \in File
  <2>1. n >= 1 /\ n \in 1..n
    BY <1>1, <1>3 DEF AtWork, TypeOK
  <2>2. dirs[w][n] \in DOMAIN files
    BY <1>3, <2>1 DEF AtWork
  <2> QED BY <1>1, <1>2, <2>2 DEF Dir, TypeOK
<1>5. PICK label : label = Label(w, n)
  OBVIOUS
<1>6. Alone(files[D], code[w]) =>
       /\ files[D].sass = label
       /\ pc[w] \in {"loop", "norm"} => files[D].meta = label
       /\ pc[w] = "norm" => files[D].loop = label
  BY <1>2, <1>3, <1>5 DEF Wrote
<1>7. UNCHANGED <<code, dirs>> /\ Label(w, Len(dirs[w]))' = label
  BY <1>5 DEF TruncateMetadata, WriteMetadata, ExtractLoop, Normalize, Label
<1>8. pc \in [Workers -> ControlPoints]
  BY <1>1 DEF TypeOK
<1>9. ASSUME NEW value, Set(w, D, "meta", value), TruncateMetadata(w), value = Torn
      PROVE  Analysis'
  <2>1. /\ GoesTo(w, "meta") /\ At(w, D) /\ pc[w] \in Writing
        /\ OthersRest
    BY <1>2, <1>3, <1>9 DEF TruncateMetadata, Goto, GoesTo, At, OthersRest
  <2>2. Fits(w, "meta", value)
    BY <1>9 DEF Fits
  <2>3. /\ TypeOK' /\ Touches(w, D) /\ AtWork(w)'
        /\ \A other \in Fields \ {"meta"} : files'[D][other] = files[D][other]
        /\ Alone(files'[D], code[w]) => Alone(files[D], code[w])
        /\ (Alone(files'[D], code[w]) =>
              LastFine("meta", files'[D], Label(w, Len(dirs[w])))) => Wrote(w)'
    BY <1>1, <1>9, <2>1, <2>2, InPlace
  <2>5. Alone(files'[D], code[w]) => LastFine("meta", files'[D], Label(w, Len(dirs[w])))
    BY <1>5, <1>6, <1>7, <2>3 DEF LastFine, Fields
  <2> QED BY <2>3, <2>5, TouchKeeps
<1>10. ASSUME NEW value, Set(w, D, "meta", value), WriteMetadata(w), value = label
       PROVE  Analysis'
  <2>1. /\ GoesTo(w, "loop") /\ At(w, D) /\ pc[w] \in Writing
        /\ OthersRest
    BY <1>2, <1>3, <1>10 DEF WriteMetadata, Goto, GoesTo, At, OthersRest
  <2>2. Fits(w, "meta", value)
    BY <1>5, <1>10 DEF Fits
  <2>3. /\ TypeOK' /\ Touches(w, D) /\ AtWork(w)'
        /\ files'[D]["meta"] = value
        /\ \A other \in Fields \ {"meta"} : files'[D][other] = files[D][other]
        /\ Alone(files'[D], code[w]) => Alone(files[D], code[w])
        /\ (Alone(files'[D], code[w]) =>
              LastFine("loop", files'[D], Label(w, Len(dirs[w])))) => Wrote(w)'
    BY <1>1, <1>10, <2>1, <2>2, InPlace
  <2>5. Alone(files'[D], code[w]) => LastFine("loop", files'[D], Label(w, Len(dirs[w])))
    BY <1>5, <1>6, <1>7, <1>10, <2>3 DEF LastFine, Fields
  <2> QED BY <2>3, <2>5, TouchKeeps
<1>11. ASSUME NEW value, Set(w, D, "loop", value), ExtractLoop(w), value = files[D].sass
       PROVE  Analysis'
  <2>1. /\ GoesTo(w, "norm") /\ At(w, D) /\ pc[w] \in Writing /\ pc[w] = "loop"
        /\ OthersRest
    BY <1>2, <1>3, <1>11 DEF ExtractLoop, Goto, GoesTo, At, OthersRest
  <2>2. Fits(w, "loop", value)
    BY <1>4, <1>11 DEF File, Fits
  <2>3. /\ TypeOK' /\ Touches(w, D) /\ AtWork(w)'
        /\ files'[D]["loop"] = value
        /\ \A other \in Fields \ {"loop"} : files'[D][other] = files[D][other]
        /\ Alone(files'[D], code[w]) => Alone(files[D], code[w])
        /\ (Alone(files'[D], code[w]) =>
              LastFine("norm", files'[D], Label(w, Len(dirs[w])))) => Wrote(w)'
    BY <1>1, <1>11, <2>1, <2>2, InPlace
  <2>5. Alone(files'[D], code[w]) => LastFine("norm", files'[D], Label(w, Len(dirs[w])))
    BY <1>5, <1>6, <1>7, <1>11, <2>1, <2>3 DEF LastFine, Fields
  <2> QED BY <2>3, <2>5, TouchKeeps
<1>12. ASSUME NEW value, Set(w, D, "norm", value), Normalize(w),
              value = <<files[D].sass, files[D].loop>>
       PROVE  Analysis'
  <2>1. /\ GoesTo(w, "fragment") /\ At(w, D) /\ pc[w] \in Writing /\ pc[w] = "norm"
        /\ OthersRest
    BY <1>2, <1>3, <1>12 DEF Normalize, Goto, GoesTo, At, OthersRest
  <2>2. Fits(w, "norm", value)
    BY <1>4, <1>12 DEF File, Fits
  <2>3. /\ TypeOK' /\ Touches(w, D) /\ AtWork(w)'
        /\ files'[D]["norm"] = value
        /\ \A other \in Fields \ {"norm"} : files'[D][other] = files[D][other]
        /\ Alone(files'[D], code[w]) => Alone(files[D], code[w])
        /\ (Alone(files'[D], code[w]) =>
              LastFine("fragment", files'[D], Label(w, Len(dirs[w])))) => Wrote(w)'
    BY <1>1, <1>12, <2>1, <2>2, InPlace
  <2>5. Alone(files'[D], code[w]) => LastFine("fragment", files'[D], Label(w, Len(dirs[w])))
    BY <1>5, <1>6, <1>7, <1>12, <2>1, <2>3 DEF LastFine, Fields, Writing, Whole
  <2> QED BY <2>3, <2>5, TouchKeeps
<1>13. CASE TruncateMetadata(w)
  <2>1. Set(w, D, "meta", Torn)
    BY <1>2, <1>13 DEF TruncateMetadata
  <2> QED BY <1>9, <1>13, <2>1
<1>14. CASE WriteMetadata(w)
  <2>1. Set(w, D, "meta", label)
    BY <1>2, <1>5, <1>14 DEF WriteMetadata, Label, Name
  <2> QED BY <1>10, <1>14, <2>1
<1>15. CASE ExtractLoop(w)
  <2>1. PICK value : value = files[D].sass
    OBVIOUS
  <2>2. Set(w, D, "loop", value)
    BY <1>2, <1>15, <2>1 DEF ExtractLoop
  <2> QED BY <1>11, <1>15, <2>1, <2>2
<1>16. CASE Normalize(w)
  <2>1. PICK value : value = <<files[D].sass, files[D].loop>>
    OBVIOUS
  <2>2. Set(w, D, "norm", value)
    BY <1>2, <1>16, <2>1 DEF Normalize
  <2> QED BY <1>12, <1>16, <2>1, <2>2
<1> QED
  BY <1>13, <1>14, <1>15, <1>16

LEMMA RangeFinite ==
  ASSUME NEW S, NEW s \in Seq(S)
  PROVE  IsFiniteSet(ToSet(s))
<1>1. Len(s) \in Nat /\ s \in [1..Len(s) -> S]
  OBVIOUS
<1>2. s \in Surjection(1..Len(s), ToSet(s))
  BY <1>1 DEF Surjection, ToSet
<1>3. ExistsSurjection(1..Len(s), ToSet(s))
  BY <1>2 DEF ExistsSurjection
<1> QED
  BY <1>1, <1>3, FS_NatSurjection

(* A kernel's first file goes to a directory that nothing of its code      *)
(* object is in yet.                                                       *)
LEMMA WriteSassKeeps ==
  ASSUME Analysis, NEW w \in Workers, WriteSass(w)
  PROVE  Analysis'
<1>1. PICK n : n = Len(dirs[w]) + 1
  OBVIOUS
<1>2. PICK name : name = Functions[code[w]][n]
  OBVIOUS
<1>3. PICK same : same = {i \in 1..n : SafeName[Functions[code[w]][i]] = SafeName[name]}
  OBVIOUS
<1>4. PICK dir : dir = UniqueDir(SafeName[name], code[w], ToSet(dirs[w]), Cardinality(same))
  OBVIOUS
<1>5. /\ pc[w] = "sass" /\ n <= Len(Functions[code[w]])
      /\ dirs' = [dirs EXCEPT ![w] = Append(@, dir)]
      /\ Set(w, dir, "sass", <<name, code[w]>>)
      /\ pc' = [pc EXCEPT ![w] = "truncate"]
      /\ UNCHANGED <<active, arrived, queue, code, built, artifacts, refused,
                     handled, windows>>
  BY <1>1, <1>2, <1>3, <1>4 DEF WriteSass, Goto, launchVars
<1>6. /\ TypeOK /\ OncePerCode /\ MetadataNames /\ Busy(w) /\ AtWork(w) /\ Wrote(w)
      /\ code[w] \in Codes
  BY <1>5 DEF Analysis, Work, Busy, AtWork
<1>7. PICK prev \in Seq(Dirs) : prev = dirs[w]
  BY <1>6 DEF TypeOK
<1>8. Len(prev) \in Nat /\ n = Len(prev) + 1 /\ n \in Nat /\ n \in 1..n
  BY <1>1, <1>7
<1>9. /\ name \in DOMAIN SafeName /\ <<name, code[w]>> \in Labels
      /\ SafeName[name] \in Bases
  <2>1. Functions[code[w]] \in Seq(DOMAIN SafeName) /\ n \in 1..Len(Functions[code[w]])
    BY <1>5, <1>6, <1>8, FunctionsAssumption
  <2>2. name \in DOMAIN SafeName
    BY <1>2, <2>1
  <2> QED BY <1>6, <2>2 DEF Labels, Bases
<1>10. dir \in Dirs /\ dir[1] = SafeName[name] /\ dir \notin ToSet(prev)
  <2>1. IsFiniteSet(ToSet(prev))
    BY <1>7, RangeFinite
  <2>2. IsFiniteSet(1..n)
    BY <1>8, FS_Interval
  <2>3. Cardinality(same) \in Nat
    BY <1>3, <2>2, FS_Subset, FS_CardinalityType
  <2> QED BY <1>4, <1>6, <1>7, <1>9, <2>1, <2>3, NextDir
<1>11. \A i \in 1..Len(prev) : prev[i] # dir
  BY <1>7, <1>10 DEF ToSet
<1>12. /\ DOMAIN files' = DOMAIN files \cup {dir}
       /\ \A d \in DOMAIN files : d # dir => files'[d] = files[d]
       /\ files'[dir].sass = <<name, code[w]>>
       /\ files'[dir].by = Base(dir).by \cup {code[w]}
       /\ DOMAIN files' \subseteq Dirs
       /\ \A d \in DOMAIN files' : files'[d] \in File
       /\ files'[dir].meta = Base(dir).meta
  <2>1. PICK value \in Texts : value = <<name, code[w]>>
    BY <1>9 DEF Texts
  <2>2. Set(w, dir, "sass", value)
    BY <1>5, <2>1
  <2>3. TypeOK /\ code[w] \in Codes /\ dir \in Dirs
    BY <1>6, <1>10
  <2>4. /\ DOMAIN files' = DOMAIN files \cup {dir}
        /\ \A d \in DOMAIN files : d # dir => files'[d] = files[d]
        /\ files'[dir].sass = value /\ files'[dir].meta = Base(dir).meta
        /\ files'[dir].by = Base(dir).by \cup {code[w]}
        /\ DOMAIN files' \subseteq Dirs
        /\ \A d \in DOMAIN files' : files'[d] \in File
    BY <2>2, <2>3, SetFirst
  <2> QED BY <2>1, <2>4
<1>13. dir \notin DOMAIN files => Base(dir).meta = None /\ Base(dir).by = {}
  BY DEF Base, NewDir
<1>14. /\ dirs'[w] = Append(prev, dir) /\ pc'[w] = "truncate"
       /\ \A x \in Workers : x # w => pc'[x] = pc[x] /\ dirs'[x] = dirs[x]
       /\ code'[w] = code[w] /\ built'[w] = built[w]
  BY <1>5, <1>6, <1>7 DEF TypeOK
<1>15. /\ Len(dirs'[w]) = n /\ dirs'[w][n] = dir
       /\ \A i \in 1..n : i # n => i \in 1..Len(prev) /\ dirs'[w][i] = prev[i]
  BY <1>7, <1>8, <1>14
<1>16. TypeOK'
  <2>1. pc' \in [Workers -> ControlPoints] /\ dirs' \in [Workers -> Seq(Dirs)]
    BY <1>5, <1>6, <1>10 DEF TypeOK, ControlPoints
  <2>2. UNCHANGED <<active, arrived, queue, code, built, artifacts, refused, handled,
                    windows>>
    BY <1>5
  <2> QED BY <1>6, <1>12, <2>1, <2>2 DEF TypeOK
<1>17. Touches(w, dir)
  BY <1>5, <1>6, <1>12, <1>13, <1>14 DEF Touches, Busy
<1>18. dir \in DOMAIN files => code[w] \notin files[dir].by
  BY <1>6, <1>7, <1>11 DEF AtWork
<1>19. \A i : Label(w, i)' = Label(w, i)
  BY <1>5 DEF Label
<1>20. AtWork(w)'
  <2>1. BuiltUpTo(w)' = n - 1 /\ BuiltUpTo(w) = Len(prev)
    BY <1>5, <1>7, <1>14, <1>15 DEF BuiltUpTo, Writing
  <2>2. \A i, j \in 1..n : dirs'[w][i] = dirs'[w][j] => i = j
    BY <1>6, <1>7, <1>11, <1>15 DEF AtWork
  <2>3. ASSUME NEW i \in 1..n
        PROVE  /\ dirs'[w][i] \in DOMAIN files' /\ code[w] \in files'[dirs'[w][i]].by
               /\ dirs'[w][i][1] = SafeName[Functions[code[w]][i]]
    <3>1. CASE i = n
      BY <1>2, <1>10, <1>12, <1>15, <3>1
    <3>2. CASE i # n
      <4>1. i \in 1..Len(prev) /\ dirs'[w][i] = prev[i] /\ prev[i] # dir
        BY <1>11, <1>15, <3>2
      <4>2. /\ prev[i] \in DOMAIN files /\ code[w] \in files[prev[i]].by
            /\ prev[i][1] = SafeName[Functions[code[w]][i]]
        BY <1>6, <1>7, <4>1 DEF AtWork
      <4> QED BY <1>12, <4>1, <4>2
    <3> QED BY <3>1, <3>2
  <2>4. ASSUME NEW d \in DOMAIN files', code[w] \in files'[d].by
        PROVE  \E i \in 1..n : d = dirs'[w][i]
    <3>1. CASE d = dir
      BY <1>8, <1>15, <3>1
    <3>2. CASE d # dir
      <4>1. PICK i \in 1..Len(prev) : d = prev[i]
        BY <1>6, <1>7, <1>12, <2>4, <3>2 DEF AtWork
      <4>2. i \in 1..n /\ i # n
        BY <1>8, <4>1
      <4> QED BY <1>15, <4>1, <4>2
    <3> QED BY <3>1, <3>2
  <2>5. ASSUME NEW i \in 1..n, files'[dirs'[w][i]].meta \in Labels,
               files'[dirs'[w][i]].meta[2] = code[w]
        PROVE  files'[dirs'[w][i]].meta = Label(w, i)
    <3>1. CASE i = n
      <4>1. Base(dir).meta \in Labels /\ Base(dir).meta[2] = code[w]
        BY <1>12, <1>15, <2>5, <3>1
      <4>2. dir \in DOMAIN files /\ files[dir].meta = Base(dir).meta
        BY <1>13, <4>1, MarkersAssumption DEF Base
      <4>3. code[w] \in files[dir].by
        BY <1>6, <4>1, <4>2 DEF MetadataNames
      <4> QED BY <1>18, <4>2, <4>3
    <3>2. CASE i # n
      <4>1. i \in 1..Len(prev) /\ dirs'[w][i] = prev[i] /\ prev[i] # dir
        BY <1>11, <1>15, <3>2
      <4>2. prev[i] \in DOMAIN files
        BY <1>6, <1>7, <4>1 DEF AtWork
      <4>3. files'[prev[i]] = files[prev[i]]
        BY <1>12, <4>1, <4>2
      <4> QED BY <1>6, <1>7, <2>5, <4>1, <4>3 DEF AtWork
    <3> QED BY <3>1, <3>2
  <2>6. /\ code'[w] = code[w] /\ code[w] \in Codes /\ pc'[w] = "truncate"
        /\ Len(dirs'[w]) = n /\ n >= 1
    BY <1>6, <1>7, <1>8, <1>14, <1>15
  <2>7. n <= Len(Functions[code[w]])
    BY <1>5
  <2>8. Len(built'[w]) = BuiltUpTo(w)'
    BY <1>6, <1>8, <1>14, <2>1 DEF AtWork
  <2> QED
    BY <1>19, <2>2, <2>3, <2>4, <2>5, <2>6, <2>7, <2>8 DEF AtWork, Writing
<1>21. Wrote(w)'
  <2>1. /\ WholeUpTo(w)' = n - 1 /\ WholeUpTo(w) = Len(prev) /\ n - 1 = Len(prev)
        /\ BuiltUpTo(w)' = n - 1 /\ BuiltUpTo(w) = Len(prev)
        /\ Dir(w)' = dir
    BY <1>5, <1>7, <1>8, <1>14, <1>15 DEF WholeUpTo, BuiltUpTo, Writing, Dir
  <2>2. ASSUME NEW i \in 1..(n - 1)
        PROVE  Kept(dirs[w][i], Functions[code[w]][i], code[w])'
    <3>1. /\ Kept(prev[i], Functions[code[w]][i], code[w])
          /\ i \in 1..n /\ i # n /\ prev[i] # dir
      BY <1>6, <1>7, <1>8, <1>11, <2>1 DEF Wrote
    <3>2. dirs'[w][i] = prev[i]
      BY <1>15, <3>1
    <3> QED BY <1>12, <1>14, <3>1, <3>2 DEF Kept
  <2>3. \A i \in 1..(n - 1) :
          /\ built[w][i].name = Functions[code[w]][i]
          /\ built[w][i].dir = dirs'[w][i]
          /\ OwnArtifact(built[w][i], code[w])
    BY <1>6, <1>7, <1>8, <1>15, <2>1 DEF Wrote
  <2>4. files'[dir].sass = Label(w, n)
    BY <1>2, <1>12 DEF Label
  <2>5. files'[Dir(w)'].sass = Label(w, Len(dirs[w]))'
    BY <1>15, <1>19, <2>1, <2>4
  <2>6. pc'[w] = "truncate" /\ built'[w] = built[w] /\ code'[w] = code[w]
    BY <1>14
  <2> QED
    BY <2>1, <2>2, <2>3, <2>5, <2>6, SMTT(30) DEF Wrote, OwnArtifact
<1> QED
  BY <1>16, <1>17, <1>20, <1>21, TouchKeeps

-----------------------------------------------------------------------------
(* Steps that write no file.                                               *)

LEMMA WorkerRests ==
  ASSUME NEW x \in Workers, AtWork(x), Wrote(x), files' = files, pc'[x] = pc[x],
         code'[x] = code[x], dirs'[x] = dirs[x], built'[x] = built[x]
  PROVE  AtWork(x)' /\ Wrote(x)'
<1>1. /\ Dir(x)' = Dir(x) /\ WholeUpTo(x)' = WholeUpTo(x) /\ BuiltUpTo(x)' = BuiltUpTo(x)
      /\ \A i : Label(x, i)' = Label(x, i)
  BY DEF Dir, WholeUpTo, BuiltUpTo, Label
<1>2. \A d, n, c : Kept(d, n, c)' <=> Kept(d, n, c)
  BY DEF Kept
<1>3. AtWork(x)'
  BY <1>1 DEF AtWork
<1>4. Wrote(x)'
  BY <1>1, <1>2 DEF Wrote
<1> QED
  BY <1>3, <1>4

LEMMA HistoryTyped ==
  ASSUME TypeOK
  PROVE  /\ \A i \in 1..Len(handled) : handled[i].code \in Codes
         /\ \A i \in 1..Len(windows) :
              /\ windows[i] \in Window /\ windows[i].code \in Codes
              /\ windows[i].name \in DOMAIN SafeName
              /\ windows[i].id \in Labels /\ windows[i].dir \in Dirs
<1> DEFINE Launch == [code : Codes, ready : BOOLEAN]
<1>1. handled \in Seq(Launch) /\ windows \in Seq(Window)
  BY DEF TypeOK
<1>2. /\ \A i \in 1..Len(handled) : handled[i] \in Launch
      /\ \A i \in 1..Len(windows) : windows[i] \in Window
  <2> HIDE DEF Launch
  <2> QED BY <1>1
<1>3. ASSUME NEW v \in Window
      PROVE  /\ v.code \in Codes /\ v.name \in DOMAIN SafeName
             /\ v.id \in Labels /\ v.dir \in Dirs
  <2>1. v.code \in Codes
    BY DEF Window
  <2>2. v.name \in DOMAIN SafeName
    BY DEF Window
  <2>3. v.id \in Labels
    BY DEF Window
  <2>4. v.dir \in Dirs
    BY DEF Window
  <2> QED BY <2>1, <2>2, <2>3, <2>4
<1> QED
  BY <1>2, <1>3

(* One worker goes on, and the session sees nothing of it.                 *)
SessionRests == UNCHANGED <<active, arrived, queue, code, dirs, files, artifacts,
                            refused, handled, windows>>
LEMMA WorkerKeeps ==
  ASSUME Analysis, NEW w \in Workers, Busy(w), SessionRests, TypeOK',
         \A x \in Workers : x # w => pc'[x] = pc[x] /\ built'[x] = built[x],
         Busy(w)' => AtWork(w)' /\ Wrote(w)'
  PROVE  Analysis'
<1>1. UNCHANGED <<active, arrived, queue, code, dirs, files, artifacts, refused,
                  handled, windows>>
  BY DEF SessionRests
<1>2. \A x \in Workers : Busy(x)' => Busy(x)
  BY DEF Busy
<1>3. OncePerCode'
  BY <1>1, <1>2 DEF Analysis, OncePerCode, Untouched
<1>4. Work'
  <2>1. ASSUME NEW x \in Workers, Busy(x)', x # w
        PROVE  AtWork(x)' /\ Wrote(x)'
    <3>1. AtWork(x) /\ Wrote(x)
      BY <1>2, <2>1 DEF Analysis, Work
    <3>2. /\ files' = files /\ pc'[x] = pc[x]
          /\ code'[x] = code[x] /\ dirs'[x] = dirs[x] /\ built'[x] = built[x]
      BY <1>1, <2>1
    <3> QED BY <3>1, <3>2, WorkerRests
  <2> QED BY <2>1 DEF Work
<1>5. MetadataNames' /\ Artifacts' /\ Windows' /\ Ready'
  BY <1>1 DEF Analysis, MetadataNames, Artifacts, Windows, Ready, Kept
<1> QED
  BY <1>3, <1>4, <1>5 DEF Analysis

LEMMA CheckKeeps ==
  ASSUME Analysis, NEW w \in Workers, CheckSession(w) \/ AnalysisFails(w)
  PROVE  Analysis'
<1>1. PICK q \in {"sass", "idle"} : pc' = [pc EXCEPT ![w] = q]
  BY DEF CheckSession, AnalysisFails, Goto
<1>2. /\ SessionRests /\ built' = built /\ pc[w] \in {"check", "sass"}
      /\ q = "sass" => pc[w] = "check"
  <2>1. CASE CheckSession(w)
    BY <2>1 DEF CheckSession, launchVars, SessionRests
  <2>2. CASE AnalysisFails(w)
    <3>1. pc \in [Workers -> ControlPoints]
      BY DEF Analysis, TypeOK
    <3>2. pc'[w] = "idle" /\ pc'[w] = q
      BY <1>1, <2>2, <3>1 DEF AnalysisFails, Goto
    <3> QED BY <2>2, <3>2 DEF AnalysisFails, launchVars, SessionRests
  <2> QED BY <2>1, <2>2
<1>3. TypeOK'
  BY <1>1, <1>2 DEF Analysis, TypeOK, ControlPoints, SessionRests
<1>4. pc'[w] = q /\ \A x \in Workers : x # w => pc'[x] = pc[x] /\ built'[x] = built[x]
  BY <1>1, <1>2 DEF Analysis, TypeOK
<1>5. Busy(w) /\ AtWork(w) /\ Wrote(w)
  BY <1>2 DEF Analysis, Work, Busy
<1>6. ASSUME Busy(w)' PROVE AtWork(w)' /\ Wrote(w)'
  <2>1. pc[w] = "check" /\ pc'[w] = "sass"
    BY <1>2, <1>4, <1>6 DEF Busy
  <2>2. UNCHANGED <<code, dirs, built, files>>
    BY <1>2 DEF SessionRests
  <2>3. /\ WholeUpTo(w)' = WholeUpTo(w) /\ BuiltUpTo(w)' = BuiltUpTo(w)
        /\ \A i : Label(w, i)' = Label(w, i)
    BY <2>1, <2>2 DEF WholeUpTo, BuiltUpTo, Label, Writing
  <2>4. AtWork(w)'
    BY <1>5, <2>1, <2>2, <2>3 DEF AtWork, Writing
  <2>5. Wrote(w)'
    BY <1>5, <2>1, <2>2, <2>3 DEF Wrote, Writing, Kept
  <2> QED BY <2>4, <2>5
<1> QED
  BY <1>2, <1>3, <1>4, <1>5, <1>6, WorkerKeeps

(* A kernel is measured from the text its lookup finds: its own, if no     *)
(* other code object wrote to its directory.                               *)
LEMMA MeasureKeeps ==
  ASSUME Analysis, NEW w \in Workers, MeasureKernel(w)
  PROVE  Analysis'
<1>1. PICK n : n = Len(dirs[w])
  OBVIOUS
<1>2. PICK D : D = Dir(w)
  OBVIOUS
<1>3. PICK dir : dir = Found(Name(w), code[w], None)
  OBVIOUS
<1>4. PICK a : a = [name |-> Name(w), dir |-> D, id |-> files[dir].meta,
                    text |-> Text(dir), by |-> files[D].by]
  OBVIOUS
<1>5. PICK q \in {"idle", "finish", "sass"} : pc' = [pc EXCEPT ![w] = q]
  BY DEF MeasureKernel, Goto
<1>6. /\ TypeOK /\ MetadataNames /\ SessionRests /\ pc[w] = "fragment"
      /\ pc'[w] = q
      /\ \A x \in Workers : x # w => pc'[x] = pc[x]
  BY <1>5 DEF MeasureKernel, SessionRests, launchVars, Analysis, TypeOK
<1>7. Busy(w) /\ AtWork(w) /\ Wrote(w)
  BY <1>6 DEF Analysis, Work, Busy
<1>8. \/ q = "idle" /\ built' = built
      \/ /\ Text(dir) # None /\ q # "idle"
         /\ built' = [built EXCEPT ![w] = Append(@, a)]
         /\ q = "finish" => n = Len(Functions[code[w]])
  <2>1. pc \in [Workers -> ControlPoints]
    BY <1>6 DEF TypeOK
  <2>2. CASE Text(dir) = None
    BY <1>3, <1>6, <2>1, <2>2 DEF MeasureKernel, Goto
  <2>3. CASE Text(dir) # None
    <3>1. /\ built' = [built EXCEPT ![w] = Append(@, a)]
          /\ pc' = [pc EXCEPT ![w] = IF n = Len(Functions[code[w]])
                                     THEN "finish" ELSE "sass"]
      BY <1>1, <1>2, <1>3, <1>4, <2>3 DEF MeasureKernel, Goto
    <3> QED BY <1>6, <2>1, <2>3, <3>1
  <2> QED BY <2>2, <2>3
<1>9. /\ n \in Nat /\ n >= 1 /\ n \in 1..n /\ D = dirs[w][n] /\ code[w] \in Codes
      /\ n <= Len(Functions[code[w]]) /\ D \in DOMAIN files
  <2>1. n \in Nat /\ n >= 1 /\ n \in 1..n
    BY <1>1, <1>6, <1>7 DEF AtWork, TypeOK
  <2> QED BY <1>1, <1>2, <1>7, <2>1 DEF AtWork, Dir
<1>10. Name(w) = Functions[code[w]][n] /\ Name(w) \in DOMAIN SafeName
       /\ <<Name(w), code[w]>> \in Labels
  <2>1. Functions[code[w]] \in Seq(DOMAIN SafeName) /\ n \in 1..Len(Functions[code[w]])
    BY <1>9, FunctionsAssumption
  <2>2. Functions[code[w]][n] \in DOMAIN SafeName
    BY <2>1
  <2> QED BY <1>1, <1>9, <2>2 DEF Name, Labels
<1>11. ASSUME Text(dir) # None
       PROVE  /\ a \in Artifact /\ a.name = Functions[code[w]][n] /\ a.dir = D
              /\ OwnArtifact(a, code[w])
  <2>1. PICK name : name = Name(w)
    OBVIOUS
  <2>2. PICK c : c = code[w]
    OBVIOUS
  <2>3. dir = Found(name, c, None) /\ <<name, c>> \in Labels
    BY <1>3, <1>10, <2>1, <2>2
  <2>4. dir \in DOMAIN files /\ files[dir].meta \in Labels
    BY <1>6, <1>11, <2>3, FoundIsThere
  <2>5. /\ Text(dir) = files[dir].norm /\ files[dir] \in File
        /\ files[D] \in File /\ D \in Dirs
    BY <1>6, <1>9, <1>11, <2>4 DEF Text, TypeOK
  <2>6. Text(dir) \in Texts \X Texts /\ files[D].by \in SUBSET Codes
    BY <1>11, <2>5 DEF File
  <2>7. a \in Artifact
    BY <1>4, <1>10, <2>4, <2>5, <2>6 DEF Artifact
  <2>8. ASSUME Alone(files[D], c)
        PROVE  a.id = <<name, c>> /\ a.text = <<<<name, c>>, <<name, c>>>>
    <3>1. WholeUpTo(w) = n
      BY <1>1, <1>6 DEF WholeUpTo, Writing
    <3>2. Whole(files[D], <<name, c>>)
      BY <1>7, <1>9, <1>10, <2>1, <2>2, <2>8, <3>1 DEF Wrote, Kept
    <3>3. files[D].meta = <<name, c>> /\ files[D].norm = <<<<name, c>>, <<name, c>>>>
      BY <3>2 DEF Whole
    <3>4. Text(Found(name, c, None)) # None /\ D \in DOMAIN files
      BY <1>9, <1>11, <2>3
    <3>5. Found(name, c, None) = D
      BY <1>6, <2>3, <3>3, <3>4, FoundOwn
    <3> QED BY <1>4, <2>3, <2>5, <3>3, <3>5
  <2> QED BY <1>4, <1>10, <2>1, <2>2, <2>7, <2>8 DEF OwnArtifact, Alone
<1>12. \A x \in Workers : x # w => built'[x] = built[x]
  BY <1>6, <1>8 DEF TypeOK
<1>13. TypeOK'
  <2>1. pc' \in [Workers -> ControlPoints]
    BY <1>5, <1>6 DEF TypeOK, ControlPoints
  <2>2. built' \in [Workers -> Seq(Artifact)]
    <3>1. built \in [Workers -> Seq(Artifact)]
      BY <1>6 DEF TypeOK
    <3>2. \/ built' = built
          \/ a \in Artifact /\ built' = [built EXCEPT ![w] = Append(built[w], a)]
      BY <1>8, <1>11
    <3>3. a \in Artifact => Append(built[w], a) \in Seq(Artifact)
      BY <3>1
    <3> QED BY <3>1, <3>2, <3>3
  <2> QED BY <1>6, <2>1, <2>2 DEF TypeOK, SessionRests
<1>14. ASSUME Busy(w)' PROVE AtWork(w)' /\ Wrote(w)'
  <2>1. /\ Text(dir) # None /\ q \in {"finish", "sass"}
        /\ built'[w] = Append(built[w], a)
    BY <1>6, <1>8, <1>14 DEF Busy, TypeOK
  <2>2. UNCHANGED <<code, dirs, files>>
    BY <1>6 DEF SessionRests
  <2>3. /\ WholeUpTo(w)' = n /\ BuiltUpTo(w)' = n /\ WholeUpTo(w) = n
        /\ BuiltUpTo(w) = n - 1
        /\ \A i : Label(w, i)' = Label(w, i)
    BY <1>1, <1>6, <2>1, <2>2 DEF WholeUpTo, BuiltUpTo, Label, Writing
  <2>4. PICK made \in Seq(Artifact) : made = built[w]
    BY <1>6 DEF TypeOK
  <2>5. Len(made) = n - 1 /\ built'[w] = Append(made, a)
    BY <1>7, <2>1, <2>3, <2>4 DEF AtWork
  <2>6. /\ Len(built'[w]) = n /\ built'[w][n] = a
        /\ \A i \in 1..n : i # n => i \in 1..(n - 1) /\ built'[w][i] = made[i]
    BY <1>9, <2>4, <2>5
  <2>7. AtWork(w)'
    <3>1. /\ pc'[w] \notin Writing \cup {"fragment", "check"}
          /\ Len(built'[w]) = BuiltUpTo(w)'
      BY <1>6, <2>1, <2>3, <2>6 DEF Writing
    <3> QED BY <1>7, <2>2, <2>3, <3>1 DEF AtWork
  <2>8. ASSUME NEW i \in 1..n
        PROVE  /\ built'[w][i].name = Functions[code[w]][i]
               /\ built'[w][i].dir = dirs[w][i]
               /\ OwnArtifact(built'[w][i], code[w])
    <3>1. CASE i = n
      BY <1>9, <1>11, <2>1, <2>6, <3>1
    <3>2. CASE i # n
      <4>1. i \in 1..BuiltUpTo(w) /\ built'[w][i] = built[w][i]
        BY <2>3, <2>4, <2>6, <3>2
      <4> QED BY <1>7, <4>1 DEF Wrote
    <3> QED BY <3>1, <3>2
  <2>9. \A i \in 1..n : Kept(dirs[w][i], Functions[code[w]][i], code[w])'
    BY <1>7, <2>2, <2>3 DEF Wrote, Kept
  <2>10. Wrote(w)'
    BY <1>6, <2>1, <2>2, <2>3, <2>8, <2>9 DEF Wrote, OwnArtifact, Writing
  <2> QED BY <2>7, <2>10
<1> QED
  BY <1>6, <1>7, <1>12, <1>13, <1>14, WorkerKeeps

(* The end of an analysis hands its artifacts to the launches, if the      *)
(* session still is.                                                       *)
LEMMA FinishKeeps ==
  ASSUME Analysis, NEW w \in Workers, FinishAnalysis(w)
  PROVE  Analysis'
<1>1. PICK c : c = code[w]
  OBVIOUS
<1>2. PICK kept : kept = Keeps(w)
  OBVIOUS
<1>3. /\ TypeOK /\ OncePerCode /\ pc[w] = "finish"
      /\ pc' = [pc EXCEPT ![w] = "idle"]
      /\ artifacts' = [artifacts EXCEPT ![c] = @ \o kept]
      /\ UNCHANGED <<active, arrived, queue, code, dirs, built, files, refused,
                     handled, windows>>
  BY <1>1, <1>2 DEF FinishAnalysis, Goto, launchVars, Analysis
<1>4. Busy(w) /\ AtWork(w) /\ Wrote(w)
  BY <1>3 DEF Analysis, Work, Busy
<1>5. /\ c \in Codes /\ artifacts[c] = <<>> /\ c \in arrived /\ c \notin refused
      /\ \A i \in 1..Len(queue) : queue[i] # c
      /\ \A x \in Workers : Busy(x) /\ x # w => code[x] # c
  BY <1>1, <1>3, <1>4 DEF OncePerCode, AtWork
<1>6. built[w] \in Seq(Artifact) /\ kept \in Seq(Artifact)
      /\ Len(kept) \in {0, Len(built[w])} /\ \A i \in 1..Len(kept) : kept[i] = built[w][i]
  BY <1>2, <1>3 DEF TypeOK, Keeps
<1>7. /\ artifacts'[c] = kept
      /\ \A e \in Codes : e # c => artifacts'[e] = artifacts[e]
  <2>1. artifacts \in [Codes -> Seq(Artifact)]
    BY <1>3 DEF TypeOK
  <2>2. artifacts'[c] = <<>> \o kept
    BY <1>3, <1>5, <2>1
  <2>3. <<>> \o kept = kept
    BY <1>6
  <2> QED BY <1>3, <2>1, <2>2, <2>3
<1>8. /\ pc'[w] = "idle" /\ \A x \in Workers : x # w => pc'[x] = pc[x]
      /\ \A x \in Workers : Busy(x)' <=> Busy(x) /\ x # w
  BY <1>3 DEF TypeOK, Busy
<1>9. TypeOK'
  <2>1. pc' \in [Workers -> ControlPoints]
    BY <1>3 DEF TypeOK, ControlPoints
  <2>2. artifacts' \in [Codes -> Seq(Artifact)]
    <3>1. artifacts \in [Codes -> Seq(Artifact)]
      BY <1>3 DEF TypeOK
    <3>2. artifacts[c] \o kept \in Seq(Artifact)
      BY <1>5, <1>6, <3>1
    <3> QED BY <1>3, <1>5, <3>1, <3>2
  <2> QED BY <1>3, <2>1, <2>2 DEF TypeOK
<1>10. OncePerCode'
  <2>1. (\A e \in Codes : e \notin arrived \/ e \in refused => Untouched(e))'
    BY <1>3, <1>5, <1>7 DEF OncePerCode, Untouched
  <2>2. \A i \in 1..Len(queue) : queue[i] \in Codes /\ queue[i] # c
    BY <1>3, <1>5 DEF TypeOK
  <2>3. (\A i \in 1..Len(queue) :
           /\ queue[i] \in arrived /\ queue[i] \notin refused /\ Untouched(queue[i])
           /\ \A j \in 1..Len(queue) : queue[i] = queue[j] => i = j
           /\ \A x \in Workers : Busy(x) => code[x] # queue[i])'
    BY <1>3, <1>7, <1>8, <2>2 DEF OncePerCode, Untouched
  <2>4. \A x \in Workers : Busy(x) => code[x] \in Codes
    BY DEF Analysis, Work, AtWork
  <2>5. (\A x \in Workers : Busy(x) =>
           /\ code[x] \in arrived /\ code[x] \notin refused
           /\ artifacts[code[x]] = <<>>
           /\ \A y \in Workers : Busy(y) /\ code[y] = code[x] => y = x)'
    BY <1>3, <1>5, <1>7, <1>8, <2>4 DEF OncePerCode
  <2>6. refused' \subseteq arrived'
    BY <1>3 DEF OncePerCode
  <2> QED BY <2>1, <2>3, <2>5, <2>6 DEF OncePerCode
<1>11. Work'
  <2>1. ASSUME NEW x \in Workers, Busy(x)'
        PROVE  AtWork(x)' /\ Wrote(x)'
    <3>1. Busy(x) /\ pc'[x] = pc[x]
      BY <1>8, <2>1
    <3>2. AtWork(x) /\ Wrote(x)
      BY <3>1 DEF Analysis, Work
    <3>3. files' = files /\ code'[x] = code[x] /\ dirs'[x] = dirs[x] /\ built'[x] = built[x]
      BY <1>3
    <3> QED BY <3>1, <3>2, <3>3, WorkerRests
  <2> QED BY <2>1 DEF Work
<1>12. Artifacts'
  <2>1. \A d, name, e : Kept(d, name, e)' <=> Kept(d, name, e)
    BY <1>3 DEF Kept
  <2>2. ASSUME NEW i \in 1..Len(kept)
        PROVE  Kept(kept[i].dir, kept[i].name, c) /\ OwnArtifact(kept[i], c)
    <3>1. BuiltUpTo(w) = Len(built[w]) /\ WholeUpTo(w) = BuiltUpTo(w)
      BY <1>3, <1>4 DEF AtWork, BuiltUpTo, WholeUpTo, Writing
    <3>2. i \in 1..Len(built[w]) /\ kept[i] = built[w][i]
      BY <1>6
    <3>3. /\ kept[i].name = Functions[c][i] /\ kept[i].dir = dirs[w][i]
          /\ OwnArtifact(kept[i], c)
      BY <1>1, <1>4, <3>1, <3>2 DEF Wrote
    <3>4. Kept(dirs[w][i], Functions[c][i], c)
      BY <1>1, <1>4, <3>1, <3>2 DEF Wrote
    <3> QED BY <3>3, <3>4
  <2>3. ASSUME NEW e \in Codes, NEW i \in 1..Len(artifacts'[e])
        PROVE  Kept(artifacts'[e][i].dir, artifacts'[e][i].name, e)
               /\ OwnArtifact(artifacts'[e][i], e)
    <3>1. CASE e = c
      BY <1>7, <2>2, <2>3, <3>1
    <3>2. CASE e # c
      <4>1. artifacts'[e] = artifacts[e]
        BY <1>7, <3>2
      <4> QED BY <2>3, <4>1 DEF Analysis, Artifacts
    <3> QED BY <3>1, <3>2
  <2> QED BY <2>1, <2>3 DEF Artifacts, OwnArtifact
<1>13. \A e \in Codes : artifacts[e] # <<>> => artifacts'[e] # <<>>
  BY <1>5, <1>7
<1>14. Windows'
  <2>1. \A i \in 1..Len(windows) : windows[i].code \in Codes
    BY <1>3, HistoryTyped
  <2>2. \A d, name, e : Kept(d, name, e)' <=> Kept(d, name, e)
    BY <1>3 DEF Kept
  <2>3. Windows /\ UNCHANGED <<active, windows>>
    BY <1>3 DEF Analysis
  <2> QED BY <1>13, <2>1, <2>2, <2>3 DEF Windows
<1>15. Ready'
  <2>1. \A i \in 1..Len(handled) : handled[i].code \in Codes
    BY <1>3, HistoryTyped
  <2>2. Ready /\ handled' = handled
    BY <1>3 DEF Analysis
  <2> QED BY <1>13, <2>1, <2>2 DEF Ready
<1>16. MetadataNames'
  BY <1>3 DEF Analysis, MetadataNames
<1> QED
  BY <1>9, <1>10, <1>11, <1>12, <1>14, <1>15, <1>16 DEF Analysis

(* Steps of the event worker and of the inferences leave the analyses      *)
(* alone.                                                                  *)
AnalysesRest == UNCHANGED <<workerVars, files, artifacts>>
LEMMA AnalysesStay ==
  ASSUME Analysis, AnalysesRest
  PROVE  /\ MetadataNames' /\ Work' /\ Artifacts'
         /\ \A w \in Workers : Busy(w)' <=> Busy(w)
         /\ \A d, n, c : Kept(d, n, c)' <=> Kept(d, n, c)
<1>1. UNCHANGED <<pc, code, dirs, built, files, artifacts>>
  BY DEF AnalysesRest, workerVars
<1>2. \A w \in Workers : Busy(w)' <=> Busy(w)
  BY <1>1 DEF Busy
<1>3. \A d, n, c : Kept(d, n, c)' <=> Kept(d, n, c)
  BY <1>1 DEF Kept
<1>4. MetadataNames' /\ Artifacts'
  BY <1>1, <1>3 DEF Analysis, MetadataNames, Artifacts
<1>5. ASSUME NEW x \in Workers, Busy(x)' PROVE AtWork(x)' /\ Wrote(x)'
  <2>1. AtWork(x) /\ Wrote(x)
    BY <1>2, <1>5 DEF Analysis, Work
  <2>2. /\ files' = files /\ pc'[x] = pc[x]
        /\ code'[x] = code[x] /\ dirs'[x] = dirs[x] /\ built'[x] = built[x]
    BY <1>1
  <2> QED BY <2>1, <2>2, WorkerRests
<1> QED
  BY <1>2, <1>3, <1>4, <1>5 DEF Work

LEMMA SubmitKeeps ==
  ASSUME Analysis, NEW c \in Codes, SubmitCode(c)
  PROVE  Analysis'
<1>1. /\ TypeOK /\ OncePerCode /\ c \notin arrived /\ arrived' = arrived \cup {c}
      /\ UNCHANGED <<active, pc, code, dirs, built, files, artifacts, handled, windows>>
  BY DEF SubmitCode, workerVars, launchVars, Analysis
<1>2. \/ refused' = refused \cup {c} /\ queue' = queue
      \/ refused' = refused /\ queue' = Append(queue, c)
  BY DEF SubmitCode
<1>3. /\ MetadataNames' /\ Work' /\ Artifacts'
      /\ \A w \in Workers : Busy(w)' <=> Busy(w)
      /\ \A d, n, e : Kept(d, n, e)' <=> Kept(d, n, e)
  BY <1>1, AnalysesStay DEF AnalysesRest, workerVars
<1>4. TypeOK'
  <2>1. queue \in Seq(Codes) /\ arrived \subseteq Codes /\ refused \subseteq Codes
    BY <1>1 DEF TypeOK
  <2>2. queue' \in Seq(Codes) /\ arrived' \subseteq Codes /\ refused' \subseteq Codes
    BY <1>1, <1>2, <2>1
  <2> QED BY <1>1, <2>2 DEF TypeOK
<1>5. Untouched(c)
  BY <1>1 DEF OncePerCode
<1>6. OncePerCode'
  <2>1. (\A e \in Codes : e \notin arrived \/ e \in refused => Untouched(e))'
    BY <1>1, <1>2, <1>5 DEF OncePerCode, Untouched
  <2>2. /\ Len(queue) \in Nat /\ \A i \in 1..Len(queue) : queue[i] \in Codes /\ queue[i] # c
    BY <1>1 DEF OncePerCode, TypeOK
  <2>3. \A i \in 1..Len(queue') : \/ i \in 1..Len(queue) /\ queue'[i] = queue[i]
                                  \/ i = Len(queue) + 1 /\ queue'[i] = c
    BY <1>1, <1>2 DEF TypeOK
  <2>4. \A i \in 1..Len(queue') : queue'[i] = c => refused' = refused
    BY <1>1, <1>2, <2>2, <2>3
  <2>9. c \notin refused
    BY <1>1 DEF OncePerCode
  <2>5. \A w \in Workers : Busy(w) => code[w] # c
    BY <1>1 DEF OncePerCode
  <2>6. ASSUME NEW i \in 1..Len(queue')
        PROVE  /\ (queue[i] \in arrived /\ queue[i] \notin refused /\ Untouched(queue[i]))'
               /\ \A j \in 1..Len(queue') : queue'[i] = queue'[j] => i = j
               /\ \A w \in Workers : Busy(w)' => code'[w] # queue'[i]
    <3>1. CASE i \in 1..Len(queue) /\ queue'[i] = queue[i]
      <4>1. /\ queue[i] \in arrived /\ queue[i] \notin refused /\ queue[i] # c
            /\ \A w \in Workers : Busy(w) => code[w] # queue[i]
            /\ Untouched(queue[i])
            /\ \A j \in 1..Len(queue) : queue[i] = queue[j] => i = j
        BY <1>1, <2>2, <3>1 DEF OncePerCode
      <4>2. \A j \in 1..Len(queue') : queue'[i] = queue'[j] => i = j
        BY <2>3, <3>1, <4>1
      <4>3. Untouched(queue[i])'
        BY <1>1, <3>1, <4>1 DEF Untouched
      <4> QED BY <1>1, <1>2, <1>3, <3>1, <4>1, <4>2, <4>3
    <3>2. CASE i = Len(queue) + 1 /\ queue'[i] = c
      <4>1. c \notin refused' /\ queue'[i] \in arrived'
        BY <1>1, <2>4, <2>9, <3>2
      <4>2. \A j \in 1..Len(queue') : queue'[i] = queue'[j] => i = j
        BY <2>2, <2>3, <3>2
      <4>3. Untouched(queue[i])'
        BY <1>1, <1>5, <3>2 DEF Untouched
      <4> QED BY <1>1, <1>3, <2>5, <3>2, <4>1, <4>2, <4>3
    <3> QED BY <2>3, <3>1, <3>2
  <2>7. (\A w \in Workers : Busy(w) =>
           /\ code[w] \in arrived /\ code[w] \notin refused
           /\ artifacts[code[w]] = <<>>
           /\ \A x \in Workers : Busy(x) /\ code[x] = code[w] => x = w)'
    BY <1>1, <1>2, <1>3, <2>5 DEF OncePerCode
  <2>8. refused' \subseteq arrived'
    BY <1>1, <1>2 DEF OncePerCode
  <2> QED BY <2>1, <2>6, <2>7, <2>8 DEF OncePerCode
<1>7. Windows' /\ Ready'
  BY <1>1, <1>3 DEF Analysis, Windows, Ready
<1> QED
  BY <1>3, <1>4, <1>6, <1>7 DEF Analysis

(* The session's end takes the futures that no worker and no inference     *)
(* started.                                                                *)
LEMMA EndKeeps ==
  ASSUME Analysis, EndSession
  PROVE  Analysis'
<1> DEFINE ended(v) == IF v.state = "waiting" THEN [v EXCEPT !.state = "skipped"] ELSE v
<1>1. /\ TypeOK /\ OncePerCode /\ active' = FALSE /\ queue' = <<>>
      /\ windows' = [i \in DOMAIN windows |-> ended(windows[i])]
      /\ UNCHANGED <<arrived, pc, code, dirs, built, files, artifacts, refused, handled>>
  BY DEF EndSession, workerVars, Analysis
<1>2. /\ MetadataNames' /\ Work' /\ Artifacts'
      /\ \A w \in Workers : Busy(w)' <=> Busy(w)
      /\ \A d, n, e : Kept(d, n, e)' <=> Kept(d, n, e)
  BY <1>1, AnalysesStay DEF AnalysesRest, workerVars
<1>3. \A v \in Window : /\ ended(v) \in Window /\ ended(v).state # "waiting"
                        /\ ended(v).code = v.code /\ ended(v).dir = v.dir
                        /\ ended(v).name = v.name /\ ended(v).by = v.by
                        /\ ended(v).text = v.text
                        /\ ended(v).state = "shown" => v.state = "shown"
  BY DEF Window
<1>4. windows \in Seq(Window) /\ Len(windows) \in Nat
  BY <1>1 DEF TypeOK
<1>5. /\ \A i \in 1..Len(windows) : windows[i] \in Window /\ windows'[i] = ended(windows[i])
      /\ windows' \in [1..Len(windows) -> Window]
  <2> HIDE DEF ended
  <2> QED BY <1>1, <1>3, <1>4
<1>6. windows' \in Seq(Window) /\ Len(windows') = Len(windows)
  BY <1>4, <1>5
<1>7. TypeOK'
  <2>1. active' = FALSE /\ queue' = <<>>
    BY <1>1
  <2>2. UNCHANGED <<arrived, pc, code, dirs, built, files, artifacts, refused, handled>>
    BY <1>1
  <2>3. active' \in BOOLEAN
    BY <2>1
  <2>5. queue' \in Seq(Codes)
    BY <2>1
  <2>4. TypeOK
    BY <1>1
  <2> QED BY <1>6, <2>2, <2>3, <2>4, <2>5 DEF TypeOK
<1>8. OncePerCode'
  <2>1. 1..Len(queue') = {}
    BY <1>1
  <2>2. \A e : Untouched(e)' <=> Untouched(e)
    BY <1>1 DEF Untouched
  <2>3. UNCHANGED <<arrived, refused, code, artifacts>>
    BY <1>1
  <2> QED BY <1>1, <1>2, <2>1, <2>2, <2>3 DEF OncePerCode
<1>9. Windows'
  <2> HIDE DEF ended
  <2>1. ASSUME NEW i \in 1..Len(windows')
        PROVE  /\ artifacts'[windows'[i].code] # <<>>
               /\ Kept(windows[i].dir, windows[i].name, windows[i].code)'
               /\ windows'[i].state # "waiting"
               /\ windows'[i].state = "shown" /\ windows'[i].by = {windows'[i].code} =>
                    windows'[i].text = <<<<windows'[i].name, windows'[i].code>>,
                                         <<windows'[i].name, windows'[i].code>>>>
    <3>1. PICK v \in Window : v = windows[i]
      BY <1>5, <1>6, <2>1
    <3>2. /\ artifacts[v.code] # <<>> /\ Kept(v.dir, v.name, v.code)
          /\ v.state = "shown" /\ v.by = {v.code} =>
               v.text = <<<<v.name, v.code>>, <<v.name, v.code>>>>
      BY <1>6, <2>1, <3>1 DEF Analysis, Windows
    <3>3. PICK x : x = ended(v)
      OBVIOUS
    <3>4. /\ x.state # "waiting" /\ x.code = v.code /\ x.dir = v.dir /\ x.name = v.name
          /\ x.by = v.by /\ x.text = v.text
          /\ x.state = "shown" => v.state = "shown"
      BY <1>3, <3>3
    <3>5. windows'[i] = x
      BY <1>5, <1>6, <2>1, <3>1, <3>3
    <3>6. Kept(x.dir, x.name, x.code)'
      BY <1>2, <3>2, <3>4
    <3>7. Kept(windows[i].dir, windows[i].name, windows[i].code)'
      BY <3>5, <3>6 DEF Kept
    <3>8. artifacts'[windows'[i].code] # <<>> /\ windows'[i].state # "waiting"
      BY <1>1, <3>2, <3>4, <3>5
    <3>9. x.state = "shown" /\ x.by = {x.code} =>
            x.text = <<<<x.name, x.code>>, <<x.name, x.code>>>>
      BY <3>2, <3>4
    <3> QED BY <3>5, <3>7, <3>8, <3>9
  <2> QED BY <2>1 DEF Windows
<1>10. Ready'
  BY <1>1 DEF Analysis, Ready
<1> QED
  BY <1>2, <1>7, <1>8, <1>9, <1>10 DEF Analysis

(* A worker takes the head of the queue, of which nothing was written.     *)
LEMMA TakeKeeps ==
  ASSUME Analysis, NEW w \in Workers, TakeCode(w)
  PROVE  Analysis'
<1>1. PICK c : c = Head(queue)
  OBVIOUS
<1>2. /\ TypeOK /\ OncePerCode /\ pc[w] = "idle" /\ queue # <<>>
      /\ code' = [code EXCEPT ![w] = c] /\ queue' = Tail(queue)
      /\ dirs' = [dirs EXCEPT ![w] = <<>>] /\ built' = [built EXCEPT ![w] = <<>>]
      /\ pc' = [pc EXCEPT ![w] = "check"]
      /\ UNCHANGED <<active, arrived, files, artifacts, refused, handled, windows>>
  BY <1>1 DEF TakeCode, Goto, launchVars, Analysis
<1>3. PICK q \in Seq(Codes) : q = queue
  BY <1>2 DEF TypeOK
<1>4. /\ Len(q) >= 1 /\ 1 \in 1..Len(q) /\ q[1] = c /\ c \in Codes
      /\ Len(queue') = Len(q) - 1 /\ queue' \in Seq(Codes)
      /\ \A i \in 1..Len(queue') : i + 1 \in 1..Len(q) /\ queue'[i] = q[i + 1]
  BY <1>1, <1>2, <1>3
<1>5. /\ c \in arrived /\ c \notin refused /\ Untouched(c)
      /\ \A x \in Workers : Busy(x) => code[x] # c
      /\ \A j \in 1..Len(q) : c = q[j] => j = 1
  BY <1>2, <1>3, <1>4 DEF OncePerCode
<1>6. /\ code'[w] = c /\ dirs'[w] = <<>> /\ built'[w] = <<>> /\ pc'[w] = "check"
      /\ \A x \in Workers : x # w =>
           /\ pc'[x] = pc[x] /\ code'[x] = code[x]
           /\ dirs'[x] = dirs[x] /\ built'[x] = built[x]
  BY <1>2 DEF TypeOK
<1>7. TypeOK'
  <2>1. pc' \in [Workers -> ControlPoints] /\ code' \in [Workers -> Codes \cup {None}]
    BY <1>2, <1>4 DEF TypeOK, ControlPoints
  <2>2. dirs' \in [Workers -> Seq(Dirs)] /\ built' \in [Workers -> Seq(Artifact)]
    BY <1>2 DEF TypeOK
  <2> QED BY <1>2, <1>4, <2>1, <2>2 DEF TypeOK
<1>8. Busy(w)' /\ ~Busy(w) /\ \A x \in Workers : x # w => (Busy(x)' <=> Busy(x))
  BY <1>2, <1>6 DEF Busy
<1>9. OncePerCode'
  <2>1. \A e : Untouched(e)' <=> Untouched(e)
    BY <1>2 DEF Untouched
  <2>2. /\ refused' \subseteq arrived'
        /\ (\A e \in Codes : e \notin arrived \/ e \in refused => Untouched(e))'
    BY <1>2, <2>1 DEF OncePerCode
  <2>3. ASSUME NEW i \in 1..Len(queue')
        PROVE  /\ (queue[i] \in arrived /\ queue[i] \notin refused /\ Untouched(queue[i]))'
               /\ \A j \in 1..Len(queue') : queue'[i] = queue'[j] => i = j
               /\ \A x \in Workers : Busy(x)' => code'[x] # queue'[i]
    <3>1. i + 1 \in 1..Len(q) /\ queue'[i] = q[i + 1] /\ i + 1 # 1
      BY <1>4
    <3>2. PICK e : e = q[i + 1]
      OBVIOUS
    <3>3. /\ e \in arrived /\ e \notin refused /\ Untouched(e) /\ e # c
          /\ \A x \in Workers : Busy(x) => code[x] # e
          /\ \A j \in 1..Len(q) : e = q[j] => i + 1 = j
      BY <1>2, <1>3, <1>5, <3>1, <3>2 DEF OncePerCode
    <3>4. \A j \in 1..Len(queue') : queue'[i] = queue'[j] => i = j
      BY <1>4, <3>1, <3>2, <3>3
    <3>5. \A x \in Workers : Busy(x)' => code'[x] # queue'[i]
      BY <1>6, <1>8, <3>1, <3>2, <3>3
    <3>6. Untouched(queue[i])'
      BY <1>2, <3>1, <3>2, <3>3 DEF Untouched
    <3> QED BY <1>2, <3>1, <3>2, <3>3, <3>4, <3>5, <3>6
  <2>4. (\A x \in Workers : Busy(x) =>
           /\ code[x] \in arrived /\ code[x] \notin refused
           /\ artifacts[code[x]] = <<>>
           /\ \A y \in Workers : Busy(y) /\ code[y] = code[x] => y = x)'
    BY <1>2, <1>5, <1>6, <1>8 DEF OncePerCode, Untouched
  <2> QED BY <2>2, <2>3, <2>4 DEF OncePerCode
<1>10. AtWork(w)' /\ Wrote(w)'
  <2>1. BuiltUpTo(w)' = 0 /\ WholeUpTo(w)' = 0
    BY <1>6 DEF BuiltUpTo, WholeUpTo, Writing
  <2>2. Functions[c] \in Seq(DOMAIN SafeName)
    BY <1>4, FunctionsAssumption
  <2>3. 0 <= Len(Functions[c])
    BY <2>2
  <2>4. Len(dirs'[w]) = 0 /\ Len(built'[w]) = 0
    BY <1>6
  <2>5. \A d \in DOMAIN files' : c \notin files'[d].by
    BY <1>2, <1>5 DEF Untouched
  <2>6. AtWork(w)'
    BY <1>4, <1>6, <2>1, <2>3, <2>4, <2>5 DEF AtWork, Writing
  <2>7. Wrote(w)'
    BY <1>6, <2>1 DEF Wrote, Writing
  <2> QED BY <2>6, <2>7
<1>11. Work'
  <2>1. ASSUME NEW x \in Workers, Busy(x)', x # w
        PROVE  AtWork(x)' /\ Wrote(x)'
    <3>1. AtWork(x) /\ Wrote(x)
      BY <1>8, <2>1 DEF Analysis, Work
    <3>2. /\ files' = files /\ pc'[x] = pc[x]
          /\ code'[x] = code[x] /\ dirs'[x] = dirs[x] /\ built'[x] = built[x]
      BY <1>2, <1>6, <2>1
    <3> QED BY <3>1, <3>2, WorkerRests
  <2> QED BY <1>10, <2>1 DEF Work
<1>12. MetadataNames' /\ Artifacts' /\ Windows' /\ Ready'
  BY <1>2 DEF Analysis, MetadataNames, Artifacts, Windows, Ready, Kept
<1> QED
  BY <1>7, <1>9, <1>11, <1>12 DEF Analysis

(* A launch is taken with an artifact of its own code object, and only if  *)
(* the code object has one.                                                *)
LEMMA LaunchKeeps ==
  ASSUME Analysis, NEW c \in Codes, NEW name \in Names, HandleLaunch(c, name)
  PROVE  Analysis'
<1>1. /\ TypeOK /\ OncePerCode /\ active
      /\ UNCHANGED <<active, arrived, queue, pc, code, dirs, built, files, artifacts,
                     refused>>
  BY DEF HandleLaunch, workerVars, Analysis
<1>2. /\ MetadataNames' /\ Work' /\ Artifacts'
      /\ \A w \in Workers : Busy(w)' <=> Busy(w)
      /\ \A d, n, e : Kept(d, n, e)' <=> Kept(d, n, e)
  BY <1>1, AnalysesStay DEF AnalysesRest, workerVars
<1>3. PICK mine \in Seq(Artifact) : mine = artifacts[c]
  BY <1>1 DEF TypeOK
<1>4. PICK m \in Nat : m = Len(mine)
  BY <1>3
<1>5. /\ DOMAIN artifacts[c] = 1..m
      /\ artifacts[c] = <<>> <=> m = 0
  BY <1>3, <1>4
<1>6. PICK found : found = ArtifactFor(c, name)
  OBVIOUS
<1>7. /\ found = <<>> <=> artifacts[c] = <<>>
      /\ found # <<>> => \E i \in 1..m : found = <<artifacts[c][i]>>
  BY <1>5, <1>6, ArtifactIsOwn
<1>8. PICK l : l = [code |-> c, ready |-> found # <<>>]
  OBVIOUS
<1>9. handled' = Append(handled, l) /\ l.code = c /\ (l.ready <=> artifacts[c] # <<>>)
  BY <1>6, <1>7, <1>8 DEF HandleLaunch
<1>10. l \in [code : Codes, ready : BOOLEAN]
  BY <1>8
<1>11. \/ found = <<>> /\ windows' = windows
       \/ \E v \in Window :
            /\ windows' = Append(windows, v) /\ artifacts[c] # <<>>
            /\ v.code = c /\ v.state = "waiting" /\ Kept(v.dir, v.name, c)
  <2>1. CASE found = <<>>
    BY <1>6, <2>1 DEF HandleLaunch
  <2>2. CASE found # <<>>
    <3>1. PICK i \in 1..m : found = <<artifacts[c][i]>>
      BY <1>7, <2>2
    <3>2. PICK a : a = artifacts[c][i]
      OBVIOUS
    <3>3. a \in Artifact /\ found[1] = a
      BY <1>3, <1>4, <3>1, <3>2
    <3>4. PICK v : v = [code |-> c, name |-> a.name, id |-> a.id, dir |-> a.dir,
                        state |-> "waiting", text |-> None, by |-> {}]
      OBVIOUS
    <3>5. windows' = Append(windows, v)
      BY <1>6, <2>2, <3>3, <3>4 DEF HandleLaunch
    <3>6. v \in Window
      BY <3>3, <3>4 DEF Window, Artifact
    <3>7. Kept(a.dir, a.name, c)
      BY <1>3, <1>4, <3>2 DEF Analysis, Artifacts
    <3>8. v.code = c /\ v.state = "waiting" /\ v.dir = a.dir /\ v.name = a.name
      BY <3>4
    <3> QED BY <1>7, <2>2, <3>5, <3>6, <3>7, <3>8
  <2> QED BY <2>1, <2>2
<1>12. /\ handled' \in Seq([code : Codes, ready : BOOLEAN]) /\ windows' \in Seq(Window)
  <2> DEFINE Launch == [code : Codes, ready : BOOLEAN]
  <2>1. handled \in Seq(Launch) /\ windows \in Seq(Window)
    BY <1>1 DEF TypeOK
  <2>2. l \in Launch
    BY <1>10
  <2> HIDE DEF Launch
  <2>3. handled' \in Seq(Launch)
    BY <1>9, <2>1, <2>2
  <2>4. windows' \in Seq(Window)
    <3>1. CASE windows' = windows
      BY <2>1, <3>1
    <3>2. CASE windows' # windows
      <4>1. PICK v \in Window : windows' = Append(windows, v)
        BY <1>11, <3>2
      <4> QED BY <2>1, <4>1
    <3> QED BY <3>1, <3>2
  <2> QED BY <2>3, <2>4 DEF Launch
<1>13. TypeOK'
  BY <1>1, <1>12 DEF TypeOK
<1>14. OncePerCode'
  BY <1>1, <1>2 DEF OncePerCode, Untouched
<1>15. Windows'
  <2>1. CASE windows' = windows
    BY <1>1, <1>2, <2>1 DEF Analysis, Windows
  <2>2. CASE windows' # windows
    <3>1. PICK v \in Window :
            /\ windows' = Append(windows, v) /\ artifacts[c] # <<>>
            /\ v.code = c /\ v.state = "waiting" /\ Kept(v.dir, v.name, c)
      BY <1>11, <2>2
    <3>2. windows \in Seq(Window)
      BY <1>1 DEF TypeOK
    <3>3. \A i \in 1..Len(windows') : \/ i \in 1..Len(windows) /\ windows'[i] = windows[i]
                                      \/ windows'[i] = v
      BY <3>1, <3>2
    <3>4. ASSUME NEW i \in 1..Len(windows')
          PROVE  (/\ artifacts[windows[i].code] # <<>>
                  /\ Kept(windows[i].dir, windows[i].name, windows[i].code)
                  /\ windows[i].state = "waiting" => active
                  /\ windows[i].state = "shown" /\ windows[i].by = {windows[i].code} =>
                       windows[i].text = <<<<windows[i].name, windows[i].code>>,
                                           <<windows[i].name, windows[i].code>>>>)'
      <4>1. CASE i \in 1..Len(windows) /\ windows'[i] = windows[i]
        BY <1>1, <4>1 DEF Analysis, Windows, Kept
      <4>2. CASE windows'[i] = v
        BY <1>1, <3>1, <4>2 DEF Kept
      <4> QED BY <3>3, <4>1, <4>2
    <3> QED BY <3>4 DEF Windows
  <2> QED BY <2>1, <2>2
<1>16. Ready'
  <2>1. \A i \in 1..Len(handled') : \/ i \in 1..Len(handled) /\ handled'[i] = handled[i]
                                    \/ handled'[i] = l
    <3> DEFINE Launch == [code : Codes, ready : BOOLEAN]
    <3>1. handled \in Seq(Launch)
      BY <1>1 DEF TypeOK
    <3> HIDE DEF Launch
    <3> QED BY <1>9, <3>1
  <2> QED BY <1>1, <1>9, <2>1 DEF Analysis, Ready
<1> QED
  BY <1>2, <1>13, <1>14, <1>15, <1>16 DEF Analysis

(* An inference renders what its lookup finds: the window's own kernel, if *)
(* no other code object wrote to its directory.                            *)
LEMMA InferenceKeeps ==
  ASSUME Analysis, NEW i \in DOMAIN windows, StartWindow(i) \/ RenderWindow(i)
  PROVE  Analysis'
<1>1. /\ TypeOK /\ OncePerCode /\ MetadataNames
      /\ UNCHANGED <<active, arrived, queue, pc, code, dirs, built, files, artifacts,
                     refused, handled>>
  BY DEF StartWindow, RenderWindow, workerVars, Analysis
<1>2. /\ MetadataNames' /\ Work' /\ Artifacts'
      /\ \A w \in Workers : Busy(w)' <=> Busy(w)
      /\ \A d, n, e : Kept(d, n, e)' <=> Kept(d, n, e)
  BY <1>1, AnalysesStay DEF AnalysesRest, workerVars
<1>3. windows \in Seq(Window) /\ i \in 1..Len(windows)
  BY <1>1 DEF TypeOK
<1>4. PICK v \in Window : v = windows[i]
  BY <1>3
<1>5. PICK x \in Window :
         /\ windows' = [windows EXCEPT ![i] = x]
         /\ x.code = v.code /\ x.name = v.name /\ x.dir = v.dir
         /\ x.state # "waiting"
         /\ x.state = "shown" /\ x.by = {v.code} =>
              x.text = <<<<v.name, v.code>>, <<v.name, v.code>>>>
  <2>1. CASE StartWindow(i)
    <3>1. PICK x : x = [v EXCEPT !.state = "running"]
      OBVIOUS
    <3>2. windows' = [windows EXCEPT ![i] = x]
      BY <1>4, <2>1, <3>1 DEF StartWindow
    <3>3. /\ x \in Window /\ x.code = v.code /\ x.name = v.name /\ x.dir = v.dir
          /\ x.state = "running"
      BY <3>1 DEF Window
    <3> QED BY <3>2, <3>3
  <2>2. CASE RenderWindow(i)
    <3>1. PICK dir : dir = Found(v.name, v.code, v.id)
      OBVIOUS
    <3>2. PICK text : text = Text(dir)
      OBVIOUS
    <3>3. PICK by : by = files[v.dir].by
      OBVIOUS
    <3>4. PICK state : state = IF text = None THEN "skipped" ELSE "shown"
      OBVIOUS
    <3>5. PICK x : x = [v EXCEPT !.text = text, !.by = by, !.state = state]
      OBVIOUS
    <3>6. windows' = [windows EXCEPT ![i] = x]
      <4>1. windows' = [windows EXCEPT ![i].text = text, ![i].by = by, ![i].state = state]
        BY <1>4, <2>2, <3>1, <3>2, <3>3, <3>4 DEF RenderWindow
      <4> QED BY <1>3, <1>4, <3>5, <4>1
    <3>7. Kept(v.dir, v.name, v.code)
      BY <1>3, <1>4 DEF Analysis, Windows
    <3>8. v.dir \in DOMAIN files /\ files[v.dir] \in File
      BY <1>1, <3>7 DEF Kept, TypeOK
    <3>9. by \in SUBSET Codes
      BY <3>3, <3>8 DEF File
    <3>10. text \in (Texts \X Texts) \cup {None}
      <4>1. CASE text = None
        BY <4>1
      <4>2. CASE text # None
        <5>1. dir \in DOMAIN files /\ dir # None
          BY <1>1, <3>1, <3>2, <4>2, FoundIsThere DEF Text
        <5>2. text = files[dir].norm /\ files[dir] \in File
          BY <1>1, <3>2, <5>1 DEF Text, TypeOK
        <5> QED BY <5>2 DEF File
      <4> QED BY <4>1, <4>2
    <3>11. state \in {"skipped", "shown"} /\ (state = "shown" => text # None)
      BY <3>4
    <3>12. /\ x \in Window /\ x.code = v.code /\ x.name = v.name /\ x.dir = v.dir
           /\ x.state = state /\ x.text = text /\ x.by = by
      BY <3>5, <3>9, <3>10, <3>11 DEF Window
    <3>13. ASSUME text # None, by = {v.code}
           PROVE  text = <<<<v.name, v.code>>, <<v.name, v.code>>>>
      <4>1. Whole(files[v.dir], <<v.name, v.code>>)
        BY <3>3, <3>7, <3>13 DEF Kept, Alone
      <4>2. /\ files[v.dir].meta = <<v.name, v.code>>
            /\ files[v.dir].norm = <<<<v.name, v.code>>, <<v.name, v.code>>>>
        BY <4>1 DEF Whole
      <4>3. PICK n : n = v.name
        OBVIOUS
      <4>4. PICK c : c = v.code
        OBVIOUS
      <4>5. PICK D \in DOMAIN files : D = v.dir
        BY <3>8
      <4>6. /\ <<n, c>> \in Labels /\ files[D].meta = <<n, c>>
            /\ Text(Found(n, c, v.id)) # None
        <5>1. v.name \in DOMAIN SafeName
          BY DEF Window
        <5>2. v.code \in Codes
          BY DEF Window
        <5> QED BY <3>1, <3>2, <3>13, <4>2, <4>3, <4>4, <4>5, <5>1, <5>2 DEF Labels
      <4>7. Found(n, c, v.id) = D
        BY <1>1, <4>6, FoundOwn
      <4>8. dir = v.dir /\ dir # None
        BY <3>1, <3>2, <3>13, <4>3, <4>4, <4>5, <4>7 DEF Text
      <4> QED BY <3>2, <4>2, <4>8 DEF Text
    <3> QED BY <3>6, <3>11, <3>12, <3>13
  <2> QED BY <2>1, <2>2
<1>6. /\ windows' \in Seq(Window) /\ Len(windows') = Len(windows) /\ windows'[i] = x
      /\ \A k \in 1..Len(windows) : k # i => windows'[k] = windows[k]
  BY <1>3, <1>5
<1>7. TypeOK'
  BY <1>1, <1>6 DEF TypeOK
<1>8. OncePerCode'
  BY <1>1, <1>2 DEF OncePerCode, Untouched
<1>9. Windows'
  <2>1. ASSUME NEW k \in 1..Len(windows')
        PROVE  (/\ artifacts[windows[k].code] # <<>>
                /\ Kept(windows[k].dir, windows[k].name, windows[k].code)
                /\ windows[k].state = "waiting" => active
                /\ windows[k].state = "shown" /\ windows[k].by = {windows[k].code} =>
                     windows[k].text = <<<<windows[k].name, windows[k].code>>,
                                         <<windows[k].name, windows[k].code>>>>)'
    <3>1. CASE k # i
      <4>1. k \in 1..Len(windows) /\ windows'[k] = windows[k]
        BY <1>6, <3>1
      <4> QED BY <1>1, <4>1 DEF Analysis, Windows, Kept
    <3>2. CASE k = i
      <4>1. artifacts[v.code] # <<>> /\ Kept(v.dir, v.name, v.code)
        BY <1>3, <1>4 DEF Analysis, Windows
      <4>2. artifacts[x.code] # <<>> /\ Kept(x.dir, x.name, x.code)
        BY <1>5, <4>1
      <4>3. x.state = "shown" /\ x.by = {x.code} =>
              x.text = <<<<x.name, x.code>>, <<x.name, x.code>>>>
        BY <1>5
      <4>4. windows'[k] = x
        BY <1>6, <3>2
      <4> QED BY <1>1, <1>5, <4>2, <4>3, <4>4 DEF Kept
    <3> QED BY <3>1, <3>2
  <2> QED BY <2>1 DEF Windows
<1>10. Ready'
  BY <1>1 DEF Analysis, Ready
<1> QED
  BY <1>2, <1>7, <1>8, <1>9, <1>10 DEF Analysis

-----------------------------------------------------------------------------
(* The invariant.                                                          *)
LEMMA AnalysisInit == Init => Analysis
<1> SUFFICES ASSUME Init PROVE Analysis
  OBVIOUS
<1>1. TypeOK
  <2>1. DOMAIN files = {}
    BY DEF Init
  <2>2. /\ pc \in [Workers -> ControlPoints] /\ code \in [Workers -> Codes \cup {None}]
        /\ dirs \in [Workers -> Seq(Dirs)] /\ built \in [Workers -> Seq(Artifact)]
        /\ artifacts \in [Codes -> Seq(Artifact)]
    BY DEF Init, ControlPoints
  <2>3. /\ active \in BOOLEAN /\ arrived = {} /\ refused = {} /\ queue = <<>>
        /\ handled = <<>> /\ windows = <<>>
    BY DEF Init
  <2> QED BY <2>1, <2>2, <2>3 DEF TypeOK
<1>2. \A w \in Workers : ~Busy(w)
  BY DEF Init, Busy
<1>3. OncePerCode
  BY <1>2 DEF Init, OncePerCode, Untouched
<1>4. MetadataNames /\ Work /\ Artifacts /\ Windows /\ Ready
  BY <1>2 DEF Init, MetadataNames, Work, Artifacts, Windows, Ready
<1> QED
  BY <1>1, <1>3, <1>4 DEF Analysis

LEMMA StepKeepsAnalysis == Analysis /\ [Next]_vars => Analysis'
<1> SUFFICES ASSUME Analysis, [Next]_vars PROVE Analysis'
  OBVIOUS
<1>1. ASSUME NEW c \in Codes, SubmitCode(c) PROVE Analysis'
  BY <1>1, SubmitKeeps
<1>2. CASE EndSession
  BY <1>2, EndKeeps
<1>3. ASSUME NEW w \in Workers, Analyse(w) PROVE Analysis'
  <2>1. CASE TakeCode(w)
    BY <2>1, TakeKeeps
  <2>2. CASE CheckSession(w) \/ AnalysisFails(w)
    BY <2>2, CheckKeeps
  <2>3. CASE WriteSass(w)
    BY <2>3, WriteSassKeeps
  <2>4. CASE TruncateMetadata(w) \/ WriteMetadata(w) \/ ExtractLoop(w) \/ Normalize(w)
    BY <2>4, RewritingKeeps
  <2>5. CASE MeasureKernel(w)
    BY <2>5, MeasureKeeps
  <2>6. CASE FinishAnalysis(w)
    BY <2>6, FinishKeeps
  <2> QED BY <1>3, <2>1, <2>2, <2>3, <2>4, <2>5, <2>6 DEF Analyse
<1>4. ASSUME NEW c \in Codes, NEW name \in Names, HandleLaunch(c, name) PROVE Analysis'
  BY <1>4, LaunchKeeps
<1>5. ASSUME NEW i \in DOMAIN windows, StartWindow(i) \/ RenderWindow(i) PROVE Analysis'
  BY <1>5, InferenceKeeps
<1>6. CASE UNCHANGED vars
  <2>1. UNCHANGED <<active, arrived, queue, pc, code, dirs, built, files, artifacts,
                    refused, handled, windows>>
    BY <1>6 DEF vars, workerVars, launchVars
  <2>2. /\ MetadataNames' /\ Work' /\ Artifacts'
        /\ \A w \in Workers : Busy(w)' <=> Busy(w)
    BY <2>1, AnalysesStay DEF AnalysesRest, workerVars
  <2>3. TypeOK'
    BY <2>1 DEF Analysis, TypeOK
  <2>4. OncePerCode'
    BY <2>1, <2>2 DEF Analysis, OncePerCode, Untouched
  <2>5. Windows' /\ Ready'
    BY <2>1 DEF Analysis, Windows, Ready, Kept
  <2> QED BY <2>2, <2>3, <2>4, <2>5 DEF Analysis
<1> QED
  BY <1>1, <1>2, <1>3, <1>4, <1>5, <1>6 DEF Next

LEMMA AnalysisInvariant == Spec => []Analysis
  BY AnalysisInit, StepKeepsAnalysis, PTL DEF Spec

(* The variables keep their types: among others, no analysis writes a      *)
(* directory that is not one of its functions' (_analyze_code_object).     *)
THEOREM TypeCorrect == Spec => []TypeOK
<1>1. Analysis => TypeOK
  BY DEF Analysis
<1> QED
  BY <1>1, AnalysisInvariant, PTL

(* Whatever two workers write and an inference reads meanwhile, a kernel   *)
(* is measured, identified and rendered from its own text, unless another  *)
(* code object had written to its directory by then                        *)
(* (_analyze_code_object, render_launch_fragment, _render_window_text).    *)
THEOREM OwnKernels == Spec => []OwnKernelUnlessOverwritten
<1>1. Analysis => OwnKernelUnlessOverwritten
  <2> SUFFICES ASSUME Analysis PROVE OwnKernelUnlessOverwritten
    OBVIOUS
  <2>1. /\ \A c \in Codes : DOMAIN artifacts[c] = 1..Len(artifacts[c])
        /\ DOMAIN windows = 1..Len(windows)
    BY DEF Analysis, TypeOK
  <2>2. ASSUME NEW c \in Codes, NEW i \in DOMAIN artifacts[c],
               artifacts[c][i].by = {c}
        PROVE  /\ artifacts[c][i].id = <<artifacts[c][i].name, c>>
               /\ artifacts[c][i].text = <<<<artifacts[c][i].name, c>>,
                                           <<artifacts[c][i].name, c>>>>
    BY <2>1, <2>2 DEF Analysis, Artifacts, OwnArtifact
  <2>3. ASSUME NEW i \in DOMAIN windows, windows[i].state = "shown",
               windows[i].by = {windows[i].code}
        PROVE  windows[i].text = <<<<windows[i].name, windows[i].code>>,
                                   <<windows[i].name, windows[i].code>>>>
    BY <2>1, <2>3 DEF Analysis, Windows
  <2> QED BY <2>2, <2>3 DEF OwnKernelUnlessOverwritten
<1> QED
  BY <1>1, AnalysisInvariant, PTL

(* Once a launch of a code object was taken, none is dropped, whatever     *)
(* name it carries (_handle_launches, _artifact_for_launch).               *)
THEOREM NoGaps == Spec => []NoGapsOnceReady
<1>1. Init => NoGapsOnceReady
  BY DEF Init, NoGapsOnceReady
<1>2. Analysis /\ NoGapsOnceReady /\ [Next]_vars => NoGapsOnceReady'
  <2> SUFFICES ASSUME Analysis, NoGapsOnceReady, [Next]_vars PROVE NoGapsOnceReady'
    OBVIOUS
  <2>1. CASE handled' = handled
    BY <2>1 DEF NoGapsOnceReady
  <2>2. CASE handled' # handled
    <3>1. PICK c \in Codes, name \in Names : HandleLaunch(c, name)
      <4>1. ~(\E d \in Codes : SubmitCode(d)) /\ ~EndSession
        BY <2>2 DEF SubmitCode, EndSession, launchVars
      <4>2. ~(\E w \in Workers : Analyse(w))
        BY <2>2 DEF Analyse, TakeCode, CheckSession, AnalysisFails, WriteSass,
             TruncateMetadata, WriteMetadata, ExtractLoop, Normalize, MeasureKernel,
             FinishAnalysis, launchVars
      <4>3. ~(\E i \in DOMAIN windows : StartWindow(i) \/ RenderWindow(i))
        BY <2>2 DEF StartWindow, RenderWindow
      <4>4. ~(UNCHANGED vars)
        BY <2>2 DEF vars, launchVars
      <4> QED BY <4>1, <4>2, <4>3, <4>4 DEF Next
    <3>2. PICK mine \in Seq(Artifact) : mine = artifacts[c]
      BY DEF Analysis, TypeOK
    <3>3. PICK m \in Nat : m = Len(mine)
      BY <3>2
    <3>4. DOMAIN artifacts[c] = 1..m /\ (artifacts[c] = <<>> <=> m = 0)
      BY <3>2, <3>3
    <3>5. PICK found : found = ArtifactFor(c, name)
      OBVIOUS
    <3>6. found = <<>> <=> artifacts[c] = <<>>
      BY <3>4, <3>5, ArtifactIsOwn
    <3>7. PICK l : l = [code |-> c, ready |-> found # <<>>]
      OBVIOUS
    <3>8. /\ handled' = Append(handled, l) /\ l.code = c
          /\ l.ready <=> artifacts[c] # <<>>
      BY <3>1, <3>5, <3>6, <3>7 DEF HandleLaunch
    <3>9. PICK n \in Nat : n = Len(handled) /\ DOMAIN handled = 1..n
      BY DEF Analysis, TypeOK
    <3>10. /\ DOMAIN handled' = 1..(n + 1) /\ handled'[n + 1] = l
           /\ \A i \in 1..n : handled'[i] = handled[i]
      <4> DEFINE Launch == [code : Codes, ready : BOOLEAN]
      <4>1. handled \in Seq(Launch)
        BY DEF Analysis, TypeOK
      <4> HIDE DEF Launch
      <4> QED BY <3>8, <3>9, <4>1
    <3>11. ASSUME NEW i \in 1..(n + 1), NEW j \in 1..(n + 1), i < j,
                  handled'[i].code = handled'[j].code, handled'[i].ready
           PROVE  handled'[j].ready
      <4>1. i \in 1..n /\ handled'[i] = handled[i]
        BY <3>9, <3>10, <3>11
      <4>2. CASE j \in 1..n
        BY <3>9, <3>10, <3>11, <4>1, <4>2 DEF NoGapsOnceReady
      <4>3. CASE j = n + 1
        <5>1. handled[i].code = c /\ handled[i].ready
          BY <3>8, <3>10, <3>11, <4>1, <4>3
        <5>2. artifacts[c] # <<>>
          BY <3>9, <4>1, <5>1 DEF Analysis, Ready
        <5> QED BY <3>8, <3>10, <4>3, <5>2
      <4> QED BY <4>2, <4>3
    <3> QED BY <3>10, <3>11 DEF NoGapsOnceReady
  <2> QED BY <2>1, <2>2
<1> QED
  BY <1>1, <1>2, AnalysisInvariant, PTL DEF Spec

(* A code object that the queue limit turned away is never analysed, and   *)
(* none of its launches ever reaches the scheduler                         *)
(* (_submit_code_analysis).                                                *)
THEOREM RefusedDark == Spec => []RefusedStaysDark
<1>1. Analysis => RefusedStaysDark
  <2> SUFFICES ASSUME Analysis, NEW c \in refused
               PROVE  /\ artifacts[c] = <<>>
                      /\ \A i \in DOMAIN handled : handled[i].code = c => ~handled[i].ready
    BY DEF RefusedStaysDark
  <2>1. c \in Codes /\ DOMAIN handled = 1..Len(handled)
    BY DEF Analysis, TypeOK
  <2>2. artifacts[c] = <<>>
    BY <2>1 DEF Analysis, OncePerCode, Untouched
  <2> QED BY <2>1, <2>2 DEF Analysis, Ready
<1> QED
  BY <1>1, AnalysisInvariant, PTL

(* After the session's end, an analysis or an inference that was already   *)
(* running adds no kernel and starts no window (_finish_code_analysis,     *)
(* _mark_session_ended).                                                   *)
THEOREM EndedLearnsNothing == Spec => EndedSessionLearnsNothing
<1>1. Analysis /\ [Next]_vars =>
        [~active => /\ artifacts' = artifacts
                    /\ \A i \in DOMAIN windows :
                         windows[i].state = "skipped" => windows'[i] = windows[i]
                    /\ Len(windows') = Len(windows)
                    /\ \A i \in DOMAIN windows : windows[i].state # "waiting"]_vars
  <2> SUFFICES ASSUME Analysis, Next, ~active
               PROVE  /\ artifacts' = artifacts
                      /\ \A i \in DOMAIN windows :
                           windows[i].state = "skipped" => windows'[i] = windows[i]
                      /\ Len(windows') = Len(windows)
                      /\ \A i \in DOMAIN windows : windows[i].state # "waiting"
    OBVIOUS
  <2>1. \A i \in DOMAIN windows : windows[i].state # "waiting"
    BY DEF Analysis, Windows, TypeOK
  <2>2. ~(\E c \in Codes : SubmitCode(c)) /\ ~EndSession
        /\ ~(\E c \in Codes, name \in Names : HandleLaunch(c, name))
    BY DEF SubmitCode, EndSession, HandleLaunch
  <2>3. CASE \E w \in Workers : Analyse(w)
    <3>1. PICK w \in Workers : Analyse(w)
      BY <2>3
    <3>2. CASE FinishAnalysis(w)
      <4>1. PICK kept : kept = Keeps(w)
        OBVIOUS
      <4>2. kept = <<>>
        BY <4>1 DEF Keeps
      <4>3. windows' = windows /\ artifacts' = [artifacts EXCEPT ![code[w]] = @ \o kept]
        BY <3>2, <4>1 DEF FinishAnalysis, launchVars
      <4>4. artifacts \in [Codes -> Seq(Artifact)]
        BY DEF Analysis, TypeOK
      <4>5. \A c \in Codes : artifacts[c] \o kept = artifacts[c]
        BY <4>2, <4>4
      <4>6. artifacts' = artifacts
        BY <4>3, <4>4, <4>5
      <4> QED BY <2>1, <4>3, <4>6
    <3>3. CASE ~FinishAnalysis(w)
      <4>1. windows' = windows /\ artifacts' = artifacts
        BY <3>1, <3>3 DEF Analyse, TakeCode, CheckSession, AnalysisFails, WriteSass,
             TruncateMetadata, WriteMetadata, ExtractLoop, Normalize, MeasureKernel,
             launchVars
      <4> QED BY <2>1, <4>1
    <3> QED BY <3>2, <3>3
  <2>4. CASE \E i \in DOMAIN windows : StartWindow(i) \/ RenderWindow(i)
    <3>1. PICK i \in DOMAIN windows : StartWindow(i) \/ RenderWindow(i)
      BY <2>4
    <3>2. RenderWindow(i) /\ windows[i].state = "running"
      BY <2>1, <3>1 DEF StartWindow, RenderWindow
    <3>3. windows \in Seq(Window)
      BY DEF Analysis, TypeOK
    <3>4. PICK x : windows' = [windows EXCEPT ![i] = x]
      BY <3>2 DEF RenderWindow
    <3>5. artifacts' = artifacts
      BY <3>2 DEF RenderWindow
    <3>6. /\ Len(windows') = Len(windows)
          /\ \A k \in DOMAIN windows : k # i => windows'[k] = windows[k]
      BY <3>3, <3>4
    <3> QED BY <2>1, <3>2, <3>5, <3>6
  <2> QED BY <2>1, <2>2, <2>3, <2>4 DEF Next
<1> QED
  BY <1>1, AnalysisInvariant, PTL DEF Spec, EndedSessionLearnsNothing
=============================================================================
