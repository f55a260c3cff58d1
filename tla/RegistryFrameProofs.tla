------------------------- MODULE RegistryFrameProofs -------------------------
(***************************************************************************)
(* Theorems about the two components that SeparateParts runs beside the    *)
(* offline programs: the code registry of the hook library (CodeRegistry)  *)
(* and the readers of frames on both ends (FrameReader), each from its     *)
(* own specification, for every value of their constants.                  *)
(***************************************************************************)
EXTENDS CodeRegistry, FrameReader, SequenceTheorems, TLAPS

(***************************************************************************)
(* The code registry.                                                      *)
(***************************************************************************)
Ids == Nat \cup {Unknown}
CodeEvent == [type : {"code"}, id : Nat, code : Nat]
LaunchEvent ==
  [type : {"launch"}, id : Ids, code : Nat, hooked : BOOLEAN, doubtful : BOOLEAN]

Hook ==
  {Idle}
  \cup [at : {"register"}, owner : Owners, code : Nat, uses : SUBSET Owners]
  \cup [at : {"send"}, id : Nat, owner : Owners, code : Nat, uses : SUBSET Owners]
  \cup [at : {"map"}, module : Owners, library : Owners, uses : SUBSET Owners]
  \cup [at : {"name"}, kernel : KernelHandles, owner : Owners,
        uses : SUBSET (KernelHandles \cup Owners)]
  \cup [at : {"launch"}, kernel : KernelHandles, uses : SUBSET KernelHandles,
        hooked : BOOLEAN, id : Ids]

Typed ==
  /\ loads \in Nat /\ unread \subseteq 1..loads
  /\ DOMAIN live \subseteq Owners
  /\ live \in [DOMAIN live -> [code : 1..loads, kind : {"module", "library"},
                               library : Owners, known : BOOLEAN]]
  /\ DOMAIN resolved \subseteq KernelHandles
  /\ resolved \in [DOMAIN resolved -> [code : 1..loads, owners : SUBSET Owners,
                                       known : BOOLEAN, hooked : BOOLEAN]]
  /\ hook \in [AppThreads -> Hook]
  /\ codeIds \in Seq(Owners)
  /\ moduleLibrary \in [DOMAIN moduleLibrary -> Owners]
  /\ kernelMap \in [DOMAIN kernelMap -> Ids]
  /\ queued \in Seq(CodeEvent \cup LaunchEvent)

(* Every handle in a table was given out, and every id and code queued was *)
(* taken.                                                                  *)
Handed ==
  /\ DOMAIN live \subseteq given /\ DOMAIN resolved \subseteq given
  /\ DOMAIN moduleLibrary \subseteq given /\ DOMAIN kernelMap \subseteq given
  /\ \A i \in DOMAIN codeIds : codeIds[i] \in given
Taken ==
  /\ \A i, j \in DOMAIN codeIds : codeIds[i] = codeIds[j] => i = j
  /\ \A n \in DOMAIN queued : queued[n].type = "code" => queued[n].id \in DOMAIN codeIds
  /\ \A n \in DOMAIN queued : queued[n].code \in 1..loads

(* A module of a library has a live library, with its code.                *)
Root(h) == h \in DOMAIN live /\ live[h].library = h
Families ==
  \A h \in DOMAIN live :
    /\ Root(live[h].library) /\ live[live[h].library].code = live[h].code
    /\ live[h].kind = "library" => Root(h)
    /\ ~Root(h) => live[live[h].library].known
    /\ ~Root(h) /\ live[h].known =>
         h \in DOMAIN moduleLibrary /\ moduleLibrary[h] = live[h].library
KernelOwners ==
  \A k \in DOMAIN resolved :
    \E h \in DOMAIN live :
      /\ live[h].known /\ resolved[k].owners = {h, live[h].library}
      /\ resolved[k].code = live[h].code

(* Under an id, the code of its owner was queued, and no other.            *)
SentUnder(i, c) ==
  \E n \in DOMAIN queued :
    queued[n].type = "code" /\ queued[n].id = i /\ queued[n].code = c
Names(i, h) ==
  /\ i \in DOMAIN codeIds /\ codeIds[i] = h
  /\ \A c \in 1..loads : SentUnder(i, c) <=> c = live[h].code /\ c \notin unread
Registered ==
  \A h \in DOMAIN live : Root(h) /\ h \notin reused =>
    /\ h \notin DOMAIN moduleLibrary
    /\ live[h].known => \E i \in DOMAIN codeIds : Names(i, h)

(* What the hooks are about.                                               *)
Loading(t) == hook[t].at \in {"register", "send"}
AtRegister(t) ==
  hook[t].at \in {"register", "send"} =>
    LET h == hook[t].owner
    IN  /\ Root(h) /\ ~live[h].known /\ live[h].code = hook[t].code
        /\ hook[t].uses = {h}
AtOnce(t) ==
  hook[t].at = "register" /\ hook[t].owner \notin reused =>
    \A i \in DOMAIN codeIds : codeIds[i] # hook[t].owner
AtSend(t) ==
  hook[t].at = "send" =>
    /\ hook[t].id \in DOMAIN codeIds /\ codeIds[hook[t].id] = hook[t].owner
    /\ hook[t].owner \notin reused => \A c \in 1..loads : ~SentUnder(hook[t].id, c)
AtMap(t) ==
  hook[t].at = "map" =>
    LET m == hook[t].module
    IN  /\ m \in DOMAIN live /\ ~Root(m) /\ live[m].library = hook[t].library
        /\ hook[t].uses = {m, hook[t].library}
AtName(t) ==
  hook[t].at = "name" =>
    LET k == hook[t].kernel
    IN  /\ k \in DOMAIN resolved /\ hook[t].owner \in resolved[k].owners
        /\ hook[t].uses = {k, hook[t].owner}
OneLoader ==
  \A t, u \in AppThreads :
    Loading(t) /\ Loading(u) /\ hook[t].owner = hook[u].owner => t = u

(* What the hooks know of a kernel.                                        *)
Leads(id, k) ==
  resolved[k].owners \cap reused = {} =>
    /\ id \in DOMAIN codeIds /\ Root(codeIds[id]) /\ codeIds[id] \in resolved[k].owners
KernelsMapped ==
  \A k \in DOMAIN resolved :
    IF resolved[k].hooked THEN k \in DOMAIN kernelMap /\ Leads(kernelMap[k], k)
    ELSE k \notin reused => k \notin DOMAIN kernelMap
AtLaunch(t) ==
  hook[t].at = "launch" =>
    LET k == hook[t].kernel
    IN  /\ k \in DOMAIN resolved /\ hook[t].uses = {k}
        /\ IF hook[t].hooked THEN Leads(hook[t].id, k)
           ELSE k \notin reused => hook[t].id = Unknown

HookShape ==
  \A t \in AppThreads :
    AtRegister(t) /\ AtOnce(t) /\ AtSend(t) /\ AtMap(t) /\ AtName(t)
Launching == \A t \in AppThreads : AtLaunch(t)

-----------------------------------------------------------------------------
(* Where a thread is in a hook, and what it holds there.                   *)
LEMMA BindTyped ==
  ASSUME NEW S, NEW map, map \in [DOMAIN map -> S], NEW key, NEW value \in S
  PROVE  /\ Bind(map, key, value) \in [DOMAIN map \cup {key} -> S]
         /\ Bind(map, key, value) \in [DOMAIN Bind(map, key, value) -> S]
BY DEF Bind

LEMMA HookPoints ==
  ASSUME Typed, NEW t \in AppThreads
  PROVE  /\ hook[t] = Idle <=> hook[t].at = "idle"
         /\ hook[t].at = "register" =>
              /\ hook[t].owner \in Owners /\ hook[t].code \in Nat
              /\ hook[t].uses \in SUBSET Owners
         /\ hook[t].at = "send" =>
              /\ hook[t].owner \in Owners /\ hook[t].code \in Nat
              /\ hook[t].id \in Nat
         /\ hook[t].at = "map" =>
              hook[t].module \in Owners /\ hook[t].library \in Owners
         /\ hook[t].at = "name" =>
              hook[t].kernel \in KernelHandles /\ hook[t].owner \in Owners
         /\ hook[t].at = "launch" =>
              /\ hook[t].kernel \in KernelHandles /\ hook[t].hooked \in BOOLEAN
              /\ hook[t].id \in Ids
<1>1. hook[t] \in Hook
  BY DEF Typed
<1>2. CASE hook[t] = Idle
  BY <1>2 DEF Idle
<1>3. CASE hook[t] \in [at : {"register"}, owner : Owners, code : Nat, uses : SUBSET Owners]
  BY <1>3 DEF Idle
<1>4. CASE hook[t] \in [at : {"send"}, id : Nat, owner : Owners, code : Nat, uses : SUBSET Owners]
  BY <1>4 DEF Idle
<1>5. CASE hook[t] \in [at : {"map"}, module : Owners, library : Owners, uses : SUBSET Owners]
  BY <1>5 DEF Idle
<1>6. CASE hook[t] \in [at : {"name"}, kernel : KernelHandles, owner : Owners,
                        uses : SUBSET (KernelHandles \cup Owners)]
  BY <1>6 DEF Idle
<1>7. CASE hook[t] \in [at : {"launch"}, kernel : KernelHandles,
                        uses : SUBSET KernelHandles, hooked : BOOLEAN, id : Ids]
  BY <1>7 DEF Idle
<1> QED  BY <1>1, <1>2, <1>3, <1>4, <1>5, <1>6, <1>7 DEF Hook

LEMMA EnterAt ==
  ASSUME Typed, NEW t \in AppThreads, NEW point, Enter(t, point)
  PROVE  /\ \A u \in AppThreads : hook'[u] = IF u = t THEN point ELSE hook[u]
         /\ point \in Hook => hook' \in [AppThreads -> Hook]
BY DEF Typed, Enter

LEMMA OwnersTyped ==
  ASSUME Typed
  PROVE  /\ \A h \in DOMAIN live :
              /\ h \in Owners /\ live[h].code \in 1..loads /\ live[h].library \in Owners
              /\ live[h].known \in BOOLEAN /\ live[h].kind \in {"module", "library"}
         /\ \A k \in DOMAIN resolved :
              /\ k \in KernelHandles /\ resolved[k].code \in 1..loads
              /\ resolved[k].owners \in SUBSET Owners
              /\ resolved[k].known \in BOOLEAN /\ resolved[k].hooked \in BOOLEAN
BY DEF Typed

(* IdOfOwner is the place of an owner in code_handles.                     *)
LEMMA IdFound ==
  ASSUME Typed, Taken, NEW h
  PROVE  /\ IdOfOwner(h) \in Ids
         /\ IdOfOwner(h) = Unknown => \A i \in DOMAIN codeIds : codeIds[i] # h
         /\ \A i \in DOMAIN codeIds : codeIds[i] = h => IdOfOwner(h) = i
         /\ IdOfOwner(h) # Unknown => /\ IdOfOwner(h) \in DOMAIN codeIds
                                      /\ codeIds[IdOfOwner(h)] = h
<1>1. DOMAIN codeIds = 1..Len(codeIds) /\ Len(codeIds) \in Nat
  BY LenProperties DEF Typed
<1>2. DOMAIN codeIds \subseteq Nat
  BY <1>1
<1> DEFINE ids == {i \in DOMAIN codeIds : codeIds[i] = h}
<1>3. CASE ids = {}
  BY <1>3, RegistryAssumption DEF IdOfOwner, Ids
<1>4. CASE ids # {}
  <2>1. PICK i \in ids : TRUE
    BY <1>4
  <2>2. ids = {i}
    BY <2>1 DEF Taken
  <2>3. IdOfOwner(h) = i
    BY <2>2 DEF IdOfOwner
  <2> QED  BY <1>2, <2>1, <2>2, <2>3, RegistryAssumption DEF Ids
<1> QED  BY <1>3, <1>4

(* register_code_handle enters an owner unless it has an id.               *)
LEMMA RegisterDoes ==
  ASSUME Typed, Taken, NEW t \in AppThreads, RegisterCode(t)
  PROVE  \E id \in DOMAIN codeIds' :
           /\ Enter(t, [at |-> "send", id |-> id, owner |-> hook[t].owner,
                        code |-> hook[t].code, uses |-> {hook[t].owner}])
           /\ codeIds'[id] = hook[t].owner
           /\ DOMAIN codeIds' = DOMAIN codeIds \cup {id}
           /\ \A i \in DOMAIN codeIds : codeIds'[i] = codeIds[i]
           /\ id \in DOMAIN codeIds \/ \A i \in DOMAIN codeIds : codeIds[i] # hook[t].owner
<1> DEFINE h == hook[t].owner
           old == IdOfOwner(h)
           id == IF old = Unknown THEN Len(codeIds) + 1 ELSE old
<1>1. DOMAIN codeIds = 1..Len(codeIds) /\ Len(codeIds) \in Nat
  BY LenProperties DEF Typed
<1>2. h \in Owners
  BY HookPoints DEF RegisterCode
<1>3. /\ codeIds' = IF id = Len(codeIds) + 1 THEN Append(codeIds, h) ELSE codeIds
      /\ Enter(t, [at |-> "send", id |-> id, owner |-> h, code |-> hook[t].code,
                   uses |-> {h}])
  BY DEF RegisterCode
<1>4. CASE old = Unknown
  <2>1. id = Len(codeIds) + 1 /\ codeIds' = Append(codeIds, h)
    BY <1>3, <1>4
  <2>2. \A i \in DOMAIN codeIds : codeIds[i] # h
    BY <1>4, IdFound
  <2>3. /\ DOMAIN codeIds' = 1..(Len(codeIds) + 1)
        /\ codeIds'[Len(codeIds) + 1] = h
        /\ \A i \in 1..Len(codeIds) : codeIds'[i] = codeIds[i]
    <3>1. codeIds \in Seq(Owners)
      BY DEF Typed
    <3> HIDE DEF h
    <3>2. /\ codeIds' \in Seq(Owners) /\ Len(codeIds') = Len(codeIds) + 1
          /\ \A i \in 1..Len(codeIds) : codeIds'[i] = codeIds[i]
          /\ codeIds'[Len(codeIds) + 1] = h
      BY <1>2, <2>1, <3>1, AppendProperties
    <3> QED  BY <3>2, LenProperties
  <2> HIDE DEF id, old, h
  <2>4. DOMAIN codeIds' = DOMAIN codeIds \cup {id}
    BY <1>1, <2>1, <2>3
  <2>5. \A i \in DOMAIN codeIds : codeIds'[i] = codeIds[i]
    BY <1>1, <2>3
  <2> QED  BY <1>1, <1>3, <2>1, <2>2, <2>3, <2>4, <2>5 DEF h
<1>5. CASE old # Unknown
  <2>1. old \in DOMAIN codeIds /\ codeIds[old] = h
    BY <1>5, IdFound
  <2>2. id = old /\ id # Len(codeIds) + 1
    BY <1>1, <1>5, <2>1
  <2>3. codeIds' = codeIds
    BY <1>3, <2>2
  <2> HIDE DEF id, old, h
  <2>4. DOMAIN codeIds' = DOMAIN codeIds \cup {id}
    BY <2>1, <2>2, <2>3
  <2> QED  BY <1>3, <2>1, <2>2, <2>3, <2>4 DEF h
<1> QED  BY <1>4, <1>5

-----------------------------------------------------------------------------
(* The state stays well typed: one step for each action.                   *)
LEMMA TypedKept ==
  ASSUME Typed, Taken, HookShape, Launching, RegistryNext
  PROVE  Typed'
<1>1. ASSUME NEW t \in AppThreads, NEW h \in Owners, NEW kind \in {"module", "library"},
             DriverLoads(t, h, kind)
      PROVE  Typed'
  <2>1. loads' = loads + 1 /\ loads' \in Nat /\ unread' \subseteq 1..loads'
    BY <1>1 DEF DriverLoads, Typed
  <2> DEFINE R(n) == [code : 1..n, kind : {"module", "library"},
                      library : Owners, known : BOOLEAN]
  <2>2. live \in [DOMAIN live -> R(loads')]
    BY <2>1 DEF Typed
  <2>3. live' \in [DOMAIN live' -> R(loads')] /\ DOMAIN live' \subseteq Owners
    <3> DEFINE new == [code |-> loads + 1, kind |-> kind, library |-> h, known |-> FALSE]
    <3>1. new \in R(loads')
      <4>1. loads + 1 \in 1..loads'
        BY <2>1 DEF Typed
      <4> QED  BY <4>1
    <3>2. live' = Bind(live, h, new)
      BY <1>1 DEF DriverLoads
    <3> HIDE DEF new, R
    <3>3. \A x \in DOMAIN live : live[x] \in R(loads')
      BY <2>2
    <3>4. \A x \in DOMAIN live' : live'[x] \in R(loads')
      BY <3>1, <3>2, <3>3 DEF Bind
    <3> QED  BY <3>2, <3>4 DEF Typed, Bind
  <2>4. resolved' \in [DOMAIN resolved' -> [code : 1..loads', owners : SUBSET Owners,
                                            known : BOOLEAN, hooked : BOOLEAN]]
    <3>1. 1..loads \subseteq 1..loads'
      BY <2>1 DEF Typed
    <3>2. resolved' = resolved
      BY <1>1 DEF DriverLoads
    <3> QED  BY <3>1, <3>2 DEF Typed
  <2>5. hook' \in [AppThreads -> Hook]
    <3>1. [at |-> "register", owner |-> h, code |-> loads + 1, uses |-> {h}] \in Hook
      BY <1>1 DEF Hook, Typed
    <3> QED  BY <1>1, <3>1, EnterAt DEF DriverLoads
  <2> QED  BY <1>1, <2>1, <2>3, <2>4, <2>5 DEF DriverLoads, Typed
<1>2. ASSUME NEW t \in AppThreads, NEW m \in Owners, NEW l \in Owners,
             DriverGetsModule(t, m, l)
      PROVE  Typed'
  <2>1. l \in DOMAIN live
    BY <1>2 DEF DriverGetsModule, Usable
  <2> DEFINE R == [code : 1..loads, kind : {"module", "library"},
                   library : Owners, known : BOOLEAN]
  <2>2. live' \in [DOMAIN live' -> R] /\ DOMAIN live' \subseteq Owners
    <3>1. CASE m \in DOMAIN live
      BY <1>2, <3>1 DEF DriverGetsModule, Typed
    <3>2. CASE m \notin DOMAIN live
      <4> DEFINE new == [code |-> live[l].code, kind |-> "module", library |-> l,
                         known |-> FALSE]
      <4>1. new \in R
        BY <2>1, OwnersTyped
      <4>2. live' = Bind(live, m, new)
        BY <1>2, <3>2 DEF DriverGetsModule
      <4>3. live \in [DOMAIN live -> R]
        BY DEF Typed
      <4> HIDE DEF new, R
      <4>4. \A x \in DOMAIN live' : live'[x] \in R
        BY <4>1, <4>2, <4>3 DEF Bind
      <4> QED  BY <4>2, <4>4 DEF Typed, Bind
    <3> QED  BY <3>1, <3>2
  <2>3. hook' \in [AppThreads -> Hook]
    <3>1. [at |-> "map", module |-> m, library |-> l, uses |-> {m, l}] \in Hook
      BY <1>2 DEF Hook
    <3> QED  BY <1>2, <3>1, EnterAt DEF DriverGetsModule
  <2> QED  BY <1>2, <2>2, <2>3 DEF DriverGetsModule, Typed
<1>3. ASSUME NEW t \in AppThreads, NEW k \in KernelHandles, NEW h \in Owners,
             NEW atOnce \in BOOLEAN, Resolves(k, h, atOnce)
      PROVE  /\ DOMAIN resolved' \subseteq KernelHandles
             /\ resolved' \in [DOMAIN resolved' -> [code : 1..loads, owners : SUBSET Owners,
                                                    known : BOOLEAN, hooked : BOOLEAN]]
  <2> DEFINE R == [code : 1..loads, owners : SUBSET Owners, known : BOOLEAN,
                   hooked : BOOLEAN]
             new == IF k \in DOMAIN resolved
                    THEN [resolved[k] EXCEPT !.known = @ \/ atOnce]
                    ELSE [code |-> live[h].code, owners |-> {h, live[h].library},
                          known |-> atOnce, hooked |-> FALSE]
  <2>1. resolved' = Bind(resolved, k, new)
    BY <1>3 DEF Resolves
  <2>2. new \in R
    <3>1. CASE k \in DOMAIN resolved
      <4>1. resolved[k] \in R
        BY <3>1 DEF Typed
      <4>2. (resolved[k].known \/ atOnce) \in BOOLEAN
        OBVIOUS
      <4>3. [resolved[k] EXCEPT !.known = resolved[k].known \/ atOnce] \in R
        BY <4>1, <4>2
      <4> QED  BY <3>1, <4>3
    <3>2. CASE k \notin DOMAIN resolved
      <4>1. h \in DOMAIN live
        BY <1>3 DEF Resolves, Usable
      <4> QED  BY <3>2, <4>1, <1>3, OwnersTyped
    <3> QED  BY <3>1, <3>2
  <2>3. resolved \in [DOMAIN resolved -> R] /\ DOMAIN resolved \subseteq KernelHandles
    BY DEF Typed
  <2> HIDE DEF new, R
  <2>4. \A x \in DOMAIN resolved' : resolved'[x] \in R
    BY <2>1, <2>2, <2>3 DEF Bind
  <2>5. DOMAIN resolved' \subseteq KernelHandles /\ resolved' \in [DOMAIN resolved' -> R]
    BY <2>1, <2>3, <2>4 DEF Bind
  <2> QED  BY <2>5 DEF R
<1>4. ASSUME NEW t \in AppThreads, NEW k \in KernelHandles, NEW h \in Owners,
             DriverGetsKernel(t, k, h)
      PROVE  Typed'
  <2>1. Resolves(k, h, FALSE)
    BY <1>4 DEF DriverGetsKernel
  <2>2. [at |-> "name", kernel |-> k, owner |-> h, uses |-> {k, h}] \in Hook
    BY <1>4 DEF Hook
  <2>3. hook' \in [AppThreads -> Hook]
    BY <1>4, <2>2, EnterAt DEF DriverGetsKernel
  <2> QED  BY <1>3, <2>1, <2>3 DEF Resolves, Typed
<1>5. ASSUME NEW t \in AppThreads, NEW k \in KernelHandles, NEW h \in Owners,
             UnhookedGetsKernel(t, k, h)
      PROVE  Typed'
  <2>1. Resolves(k, h, TRUE) /\ hook' = hook
    BY <1>5 DEF UnhookedGetsKernel
  <2> QED  BY <1>3, <2>1 DEF Resolves, Typed
<1>6. ASSUME NEW t \in AppThreads, NEW h \in Owners, Unload(t, h)
      PROVE  Typed'
  <2>1. PICK S : live' = Restrict(live, DOMAIN live \ S)
    BY <1>6 DEF Unload
  <2>2. PICK E : resolved' = Restrict(resolved, DOMAIN resolved \ E)
    BY <1>6 DEF Unload
  <2>3. /\ DOMAIN live' \subseteq Owners
        /\ live' \in [DOMAIN live' -> [code : 1..loads, kind : {"module", "library"},
                                       library : Owners, known : BOOLEAN]]
    BY <2>1 DEF Typed, Restrict
  <2>4. /\ DOMAIN resolved' \subseteq KernelHandles
        /\ resolved' \in [DOMAIN resolved' -> [code : 1..loads, owners : SUBSET Owners,
                                               known : BOOLEAN, hooked : BOOLEAN]]
    BY <2>2 DEF Typed, Restrict
  <2> QED  BY <1>6, <2>3, <2>4 DEF Unload, Typed
<1>7. ASSUME NEW t \in AppThreads, RegisterCode(t)
      PROVE  Typed'
  <2>1. hook[t].owner \in Owners /\ hook[t].code \in Nat
    BY <1>7, HookPoints DEF RegisterCode
  <2>2. Len(codeIds) + 1 \in Nat /\ IdOfOwner(hook[t].owner) \in Ids
    BY IdFound, LenProperties DEF Typed
  <2> DEFINE id == IF IdOfOwner(hook[t].owner) = Unknown THEN Len(codeIds) + 1
                   ELSE IdOfOwner(hook[t].owner)
  <2>3. id \in Nat
    BY <2>2 DEF Ids
  <2>4. codeIds' = IF id = Len(codeIds) + 1 THEN Append(codeIds, hook[t].owner) ELSE codeIds
    BY <1>7 DEF RegisterCode
  <2>5. codeIds' \in Seq(Owners)
    <3> HIDE DEF id
    <3> QED  BY <2>1, <2>4, AppendProperties DEF Typed
  <2>6. Enter(t, [at |-> "send", id |-> id, owner |-> hook[t].owner,
                  code |-> hook[t].code, uses |-> {hook[t].owner}])
    BY <1>7 DEF RegisterCode
  <2> HIDE DEF id
  <2>7. [at |-> "send", id |-> id, owner |-> hook[t].owner, code |-> hook[t].code,
         uses |-> {hook[t].owner}] \in Hook
    BY <2>1, <2>3 DEF Hook
  <2>8. hook' \in [AppThreads -> Hook]
    BY <2>6, <2>7, EnterAt
  <2> QED  BY <1>7, <2>5, <2>8 DEF RegisterCode, driverVars, Typed
<1>8. ASSUME NEW t \in AppThreads, NEW h \in DOMAIN live, Returns(t, h)
      PROVE  /\ DOMAIN live' = DOMAIN live /\ hook' \in [AppThreads -> Hook]
             /\ live' \in [DOMAIN live' -> [code : 1..loads, kind : {"module", "library"},
                                            library : Owners, known : BOOLEAN]]
  <2>1. hook' \in [AppThreads -> Hook]
    BY <1>8, EnterAt DEF Returns, Hook
  <2> QED  BY <1>8, <2>1, ZenonT(60) DEF Returns, Typed
<1>9. ASSUME NEW t \in AppThreads, SendCode(t)
      PROVE  Typed'
  <2>1. Returns(t, hook[t].owner) /\ hook[t].at = "send"
    BY <1>9 DEF SendCode
  <2>2. hook[t].owner \in DOMAIN live
    BY <2>1 DEF HookShape, AtRegister, Root
  <2>3. [type |-> "code", id |-> hook[t].id, code |-> hook[t].code] \in CodeEvent
    BY <2>1, HookPoints DEF CodeEvent
  <2>4. queued' \in Seq(CodeEvent \cup LaunchEvent)
    BY <1>9, <2>3, AppendProperties DEF SendCode, Typed
  <2> QED  BY <1>8, <1>9, <2>1, <2>2, <2>4 DEF SendCode, Returns, Typed
<1>10. ASSUME NEW t \in AppThreads, MapModule(t)
       PROVE  Typed'
  <2>1. Returns(t, hook[t].module) /\ hook[t].at = "map"
    BY <1>10 DEF MapModule
  <2>2. hook[t].module \in DOMAIN live /\ hook[t].library \in Owners
    BY <2>1, HookPoints DEF HookShape, AtMap
  <2>3. moduleLibrary' \in [DOMAIN moduleLibrary' -> Owners]
    BY <1>10, <2>2, BindTyped DEF MapModule, Typed
  <2> QED  BY <1>8, <1>10, <2>1, <2>2, <2>3 DEF MapModule, Returns, Typed
<1>11. ASSUME NEW t \in AppThreads, RegisterKernel(t)
       PROVE  Typed'
  <2>1. hook[t].kernel \in DOMAIN resolved
    BY <1>11 DEF RegisterKernel, HookShape, AtName
  <2>2. CodeId(hook[t].owner) \in Ids
    BY IdFound DEF CodeId
  <2>3. kernelMap' \in [DOMAIN kernelMap' -> Ids]
    BY <1>11, <2>2, BindTyped DEF RegisterKernel, Typed
  <2>4. /\ DOMAIN resolved' = DOMAIN resolved
        /\ resolved' \in [DOMAIN resolved' -> [code : 1..loads, owners : SUBSET Owners,
                                               known : BOOLEAN, hooked : BOOLEAN]]
    BY <1>11, <2>1, ZenonT(60) DEF RegisterKernel, Typed
  <2>5. hook' \in [AppThreads -> Hook]
    BY <1>11, EnterAt DEF RegisterKernel, Hook
  <2> QED  BY <1>11, <2>3, <2>4, <2>5 DEF RegisterKernel, Typed
<1>12. ASSUME NEW t \in AppThreads, NEW k \in KernelHandles, LookUp(t, k)
       PROVE  Typed'
  <2> DEFINE id == IF k \in DOMAIN kernelMap THEN kernelMap[k] ELSE Unknown
  <2>1. id \in Ids /\ resolved[k].hooked \in BOOLEAN
    BY <1>12, OwnersTyped DEF LookUp, Typed, Ids
  <2>2. Enter(t, [at |-> "launch", kernel |-> k, uses |-> {k},
                  hooked |-> resolved[k].hooked, id |-> id])
    BY <1>12 DEF LookUp
  <2> HIDE DEF id
  <2>3. [at |-> "launch", kernel |-> k, uses |-> {k}, hooked |-> resolved[k].hooked,
         id |-> id] \in Hook
    BY <1>12, <2>1 DEF Hook
  <2>4. hook' \in [AppThreads -> Hook]
    BY <2>2, <2>3, EnterAt
  <2> QED  BY <1>12, <2>4 DEF LookUp, driverVars, Typed
<1>13. ASSUME NEW t \in AppThreads, QueueLaunch(t)
       PROVE  Typed'
  <2>1. hook[t].kernel \in DOMAIN resolved
    BY <1>13 DEF QueueLaunch, Launching, AtLaunch
  <2>2. PICK doubt \in BOOLEAN :
          queued' = Append(queued, [type |-> "launch", id |-> hook[t].id,
                                    code |-> resolved[hook[t].kernel].code,
                                    hooked |-> hook[t].hooked, doubtful |-> doubt])
    BY <1>13 DEF QueueLaunch
  <2>3. [type |-> "launch", id |-> hook[t].id, code |-> resolved[hook[t].kernel].code,
         hooked |-> hook[t].hooked, doubtful |-> doubt] \in LaunchEvent
    BY <1>13, <2>1, HookPoints, OwnersTyped DEF QueueLaunch, LaunchEvent
  <2>4. queued' \in Seq(CodeEvent \cup LaunchEvent)
    BY <2>2, <2>3, AppendProperties DEF Typed
  <2>5. hook' \in [AppThreads -> Hook]
    BY <1>13, EnterAt DEF QueueLaunch, Hook
  <2> QED  BY <1>13, <2>4, <2>5 DEF QueueLaunch, driverVars, Typed
<1> QED  BY <1>1, <1>2, <1>4, <1>5, <1>6, <1>7, <1>9, <1>10, <1>11, <1>12, <1>13
         DEF RegistryNext, Hooks

-----------------------------------------------------------------------------
(* What no step takes back: a handle that stays is what it was, a new one  *)
(* is given out; a handle that a call uses stays.                          *)
Ages ==
  /\ given \subseteq given' /\ reused \subseteq reused'
  /\ loads' \in {loads, loads + 1}
  /\ \A c \in 1..loads : c \in unread' <=> c \in unread
  /\ \A i \in DOMAIN codeIds : i \in DOMAIN codeIds' /\ codeIds'[i] = codeIds[i]
OwnersRemain ==
  /\ \A h \in DOMAIN live : h \in DOMAIN live' =>
       /\ live'[h].code = live[h].code /\ live'[h].kind = live[h].kind
       /\ live'[h].library = live[h].library
       /\ live[h].known => live'[h].known
       /\ live[h].library \in DOMAIN live'
  /\ \A h \in DOMAIN live' : h \notin DOMAIN live =>
       /\ h \in given' /\ (h \in given => h \in reused') /\ ~live'[h].known
       /\ \/ live'[h].library = h
          \/ /\ live'[h].kind = "module" /\ live'[h].library \in DOMAIN live'
             /\ Root(live'[h].library) /\ live[live'[h].library].known
             /\ live[live'[h].library].code = live'[h].code
KernelsRemain ==
  /\ \A k \in DOMAIN resolved : k \in DOMAIN resolved' =>
       /\ resolved'[k].code = resolved[k].code
       /\ resolved'[k].owners = resolved[k].owners
       /\ resolved[k].hooked => resolved'[k].hooked
       /\ resolved'[k].hooked /\ ~resolved[k].hooked =>
            \E t \in AppThreads : RegisterKernel(t)
       /\ \A h \in resolved[k].owners : h \in DOMAIN live => h \in DOMAIN live'
  /\ \A k \in DOMAIN resolved' : k \notin DOMAIN resolved =>
       /\ k \in given' /\ (k \in given => k \in reused') /\ ~resolved'[k].hooked
       /\ \E h \in DOMAIN live : /\ h \in DOMAIN live' /\ live[h].known
                                 /\ resolved'[k].owners = {h, live[h].library}
                                 /\ resolved'[k].code = live[h].code
Held ==
  \A t \in AppThreads : hook[t] # Idle =>
    \A x \in hook[t].uses : /\ x \in DOMAIN live => x \in DOMAIN live'
                            /\ x \in DOMAIN resolved => x \in DOMAIN resolved'

LEMMA Remains ==
  ASSUME Typed, Taken, Families, HookShape, RegistryNext
  PROVE  Ages /\ OwnersRemain /\ KernelsRemain /\ Held
<1> DEFINE Kept == /\ given \subseteq given' /\ reused \subseteq reused'
                   /\ loads' \in {loads, loads + 1}
                   /\ \A c \in 1..loads : c \in unread' <=> c \in unread
<1>0. \A h \in DOMAIN live : live[h].library \in DOMAIN live
  BY DEF Families, Root
<1>1. UNCHANGED resolved => KernelsRemain \/ ~(DOMAIN live \subseteq DOMAIN live')
  BY DEF KernelsRemain
<1>2. UNCHANGED live => OwnersRemain
  BY <1>0 DEF OwnersRemain
<1>3. DOMAIN live \subseteq DOMAIN live' /\ DOMAIN resolved \subseteq DOMAIN resolved' => Held
  BY DEF Held
<1>4. UNCHANGED codeIds /\ Kept => Ages
  BY DEF Ages
<1>5. UNCHANGED <<loads, unread, given, reused>> => Kept
  OBVIOUS
<1>6. ASSUME NEW t \in AppThreads, NEW h \in Owners, NEW kind \in {"module", "library"},
             DriverLoads(t, h, kind)
      PROVE  Ages /\ OwnersRemain /\ KernelsRemain /\ Held
  <2> DEFINE new == [code |-> loads + 1, kind |-> kind, library |-> h, known |-> FALSE]
  <2>1. /\ live' = Bind(live, h, new) /\ GivenOut(h) /\ h \notin DOMAIN live
        /\ UNCHANGED <<resolved, codeIds>>
    BY <1>6 DEF DriverLoads
  <2>2. new.library = h /\ ~new.known
    OBVIOUS
  <2> HIDE DEF new
  <2>3. /\ DOMAIN live' = DOMAIN live \cup {h} /\ live'[h] = new
        /\ \A x \in DOMAIN live : live'[x] = live[x]
    BY <2>1 DEF Bind
  <2>8. h \in given' /\ (h \in given => h \in reused')
    BY <2>1 DEF GivenOut
  <2>9. /\ \A x \in DOMAIN live : x \in DOMAIN live' /\ live'[x] = live[x]
        /\ \A x \in DOMAIN live' : x \notin DOMAIN live => x = h
        /\ live'[h].library = h /\ ~live'[h].known
    BY <2>2, <2>3
  <2>4. OwnersRemain
    BY <1>0, <2>8, <2>9 DEF OwnersRemain
  <2>5. Kept
    BY <1>6, <2>1 DEF DriverLoads, GivenOut, Typed
  <2> QED  BY <1>1, <1>3, <1>4, <2>1, <2>3, <2>4, <2>5
<1>7. ASSUME NEW t \in AppThreads, NEW m \in Owners, NEW l \in Owners,
             DriverGetsModule(t, m, l)
      PROVE  Ages /\ OwnersRemain /\ KernelsRemain /\ Held
  <2>1. UNCHANGED <<resolved, loads, unread, codeIds>>
    BY <1>7 DEF DriverGetsModule
  <2>2. CASE m \in DOMAIN live
    BY <1>1, <1>2, <1>3, <1>4, <1>5, <1>7, <2>1, <2>2 DEF DriverGetsModule
  <2>3. CASE m \notin DOMAIN live
    <3> DEFINE new == [code |-> live[l].code, kind |-> "module", library |-> l,
                       known |-> FALSE]
    <3>1. /\ live' = Bind(live, m, new) /\ GivenOut(m)
          /\ l \in DOMAIN live /\ live[l].known /\ live[l].kind = "library"
      BY <1>7, <2>3 DEF DriverGetsModule, Usable
    <3>2. Root(l)
      BY <3>1 DEF Families
    <3>3. /\ new.library = l /\ ~new.known /\ new.kind = "module"
          /\ new.code = live[l].code
      OBVIOUS
    <3> HIDE DEF new
    <3>4. /\ DOMAIN live' = DOMAIN live \cup {m} /\ live'[m] = new
          /\ \A x \in DOMAIN live : live'[x] = live[x]
      BY <2>3, <3>1 DEF Bind
    <3>8. m \in given' /\ (m \in given => m \in reused')
      BY <3>1 DEF GivenOut
    <3>9. /\ \A x \in DOMAIN live : x \in DOMAIN live' /\ live'[x] = live[x]
          /\ \A x \in DOMAIN live' : x \notin DOMAIN live => x = m
          /\ live'[m].library = l /\ ~live'[m].known /\ live'[m].kind = "module"
          /\ live'[m].code = live[l].code /\ l \in DOMAIN live' /\ live[l].known
      BY <3>1, <3>3, <3>4
    <3>5. OwnersRemain
      BY <1>0, <3>2, <3>8, <3>9 DEF OwnersRemain
    <3>6. Kept
      BY <2>1, <3>1 DEF GivenOut
    <3> QED  BY <1>1, <1>3, <1>4, <2>1, <3>4, <3>5, <3>6
  <2> QED  BY <2>2, <2>3
<1>8. ASSUME NEW k \in KernelHandles, NEW h \in Owners, NEW atOnce \in BOOLEAN,
             Resolves(k, h, atOnce)
      PROVE  Ages /\ OwnersRemain /\ KernelsRemain /\ Held
  <2>1. UNCHANGED <<live, loads, unread, codeIds>> /\ h \in DOMAIN live /\ live[h].known
    BY <1>8 DEF Resolves, Usable
  <2>2. Kept
    BY <1>8 DEF Resolves, GivenOut
  <2> DEFINE new == IF k \in DOMAIN resolved
                    THEN [resolved[k] EXCEPT !.known = @ \/ atOnce]
                    ELSE [code |-> live[h].code, owners |-> {h, live[h].library},
                          known |-> atOnce, hooked |-> FALSE]
  <2>3. resolved' = Bind(resolved, k, new)
    BY <1>8 DEF Resolves
  <2>4. k \in DOMAIN resolved => /\ new.code = resolved[k].code
                                 /\ new.owners = resolved[k].owners
                                 /\ resolved[k].hooked <=> new.hooked
    BY DEF Typed
  <2>5. k \notin DOMAIN resolved => /\ new.code = live[h].code
                                    /\ new.owners = {h, live[h].library}
                                    /\ ~new.hooked /\ GivenOut(k)
    BY <1>8 DEF Resolves
  <2> HIDE DEF new
  <2>6. /\ DOMAIN resolved' = DOMAIN resolved \cup {k} /\ resolved'[k] = new
        /\ \A x \in DOMAIN resolved : x # k => resolved'[x] = resolved[x]
    BY <2>3 DEF Bind
  <2>8. k \notin DOMAIN resolved => k \in given' /\ (k \in given => k \in reused')
    BY <2>5 DEF GivenOut
  <2>9. /\ \A x \in DOMAIN resolved : /\ resolved'[x].code = resolved[x].code
                                      /\ resolved'[x].owners = resolved[x].owners
                                      /\ resolved[x].hooked <=> resolved'[x].hooked
        /\ \A x \in DOMAIN resolved' : x \notin DOMAIN resolved => x = k
    BY <2>4, <2>6
  <2>10. k \notin DOMAIN resolved =>
          /\ ~resolved'[k].hooked /\ resolved'[k].owners = {h, live[h].library}
          /\ resolved'[k].code = live[h].code
    BY <2>5, <2>6
  <2>7. KernelsRemain
    BY <2>1, <2>8, <2>9, <2>10 DEF KernelsRemain
  <2> QED  BY <1>2, <1>3, <1>4, <2>1, <2>2, <2>6, <2>7
<1>9. ASSUME NEW t \in AppThreads, NEW h \in Owners, Unload(t, h)
      PROVE  Ages /\ OwnersRemain /\ KernelsRemain /\ Held
  <2> DEFINE gone == {x \in DOMAIN live : live[x].library = h} \cup {h}
             ended == {k \in DOMAIN resolved : resolved[k].owners \cap gone # {}}
  <2>1. /\ live' = Restrict(live, DOMAIN live \ gone)
        /\ resolved' = Restrict(resolved, DOMAIN resolved \ ended)
        /\ UNCHANGED <<loads, unread, given, reused, codeIds>>
        /\ \A x \in gone \cup ended : ~InUse(x)
    BY <1>9 DEF Unload
  <2>2. \A x \in DOMAIN live : x \notin gone => live[x].library \notin gone
    BY DEF Families, Root
  <2>3. \A k \in DOMAIN resolved : k \notin ended =>
          \A x \in resolved[k].owners : x \notin gone
    OBVIOUS
  <2> HIDE DEF gone, ended
  <2>4. /\ DOMAIN live' = DOMAIN live \ gone
        /\ \A x \in DOMAIN live' : live'[x] = live[x]
        /\ DOMAIN resolved' = DOMAIN resolved \ ended
        /\ \A k \in DOMAIN resolved' : resolved'[k] = resolved[k]
    BY <2>1 DEF Restrict
  <2>5. OwnersRemain
    BY <1>0, <2>2, <2>4 DEF OwnersRemain
  <2>6. KernelsRemain
    BY <2>3, <2>4 DEF KernelsRemain
  <2>7. Held
    BY <2>1, <2>4 DEF Held, InUse
  <2> QED  BY <1>4, <1>5, <2>1, <2>5, <2>6, <2>7
<1>10. ASSUME NEW t \in AppThreads, RegisterCode(t)
       PROVE  Ages /\ OwnersRemain /\ KernelsRemain /\ Held
  <2>1. UNCHANGED driverVars
    BY <1>10 DEF RegisterCode
  <2>2. \A i \in DOMAIN codeIds : i \in DOMAIN codeIds' /\ codeIds'[i] = codeIds[i]
    BY <1>10, RegisterDoes
  <2>3. UNCHANGED <<live, resolved, loads, unread, given, reused>>
    BY <2>1 DEF driverVars
  <2>4. Kept
    BY <1>5, <2>3
  <2>5. Ages
    BY <2>2, <2>4 DEF Ages
  <2> QED  BY <1>1, <1>2, <1>3, <2>3, <2>5
<1>11. ASSUME NEW t \in AppThreads, NEW h \in DOMAIN live, Returns(t, h), UNCHANGED codeIds
       PROVE  Ages /\ OwnersRemain /\ KernelsRemain /\ Held
  <2>1. /\ DOMAIN live' = DOMAIN live
        /\ \A x \in DOMAIN live : x # h => live'[x] = live[x]
        /\ live'[h] = [live[h] EXCEPT !.known = TRUE]
        /\ UNCHANGED <<resolved, loads, unread, given, reused>>
    BY <1>11 DEF Returns
  <2>2. /\ live'[h].code = live[h].code /\ live'[h].kind = live[h].kind
        /\ live'[h].library = live[h].library /\ live'[h].known
    BY <2>1 DEF Typed
  <2>3. OwnersRemain
    BY <1>0, <2>1, <2>2 DEF OwnersRemain
  <2> QED  BY <1>1, <1>3, <1>4, <1>5, <1>11, <2>1, <2>3
<1>12. ASSUME NEW t \in AppThreads, SendCode(t) \/ MapModule(t)
       PROVE  Ages /\ OwnersRemain /\ KernelsRemain /\ Held
  <2>1. PICK h \in DOMAIN live : Returns(t, h)
    BY <1>12 DEF SendCode, MapModule, HookShape, AtRegister, AtMap, Root
  <2>2. UNCHANGED codeIds
    BY <1>12 DEF SendCode, MapModule
  <2> QED  BY <1>11, <2>1, <2>2
<1>13. ASSUME NEW t \in AppThreads, RegisterKernel(t)
       PROVE  Ages /\ OwnersRemain /\ KernelsRemain /\ Held
  <2> DEFINE k == hook[t].kernel
  <2>1. k \in DOMAIN resolved
    BY <1>13 DEF RegisterKernel, HookShape, AtName
  <2>2. /\ UNCHANGED <<live, loads, unread, given, reused, codeIds>>
        /\ DOMAIN resolved' = DOMAIN resolved
        /\ \A x \in DOMAIN resolved : x # k => resolved'[x] = resolved[x]
        /\ resolved'[k] = [resolved[k] EXCEPT !.known = TRUE, !.hooked = TRUE]
    BY <1>13, <2>1 DEF RegisterKernel
  <2>3. /\ resolved'[k].code = resolved[k].code
        /\ resolved'[k].owners = resolved[k].owners /\ resolved'[k].hooked
    BY <2>1, <2>2 DEF Typed
  <2> HIDE DEF k
  <2>4. KernelsRemain
    BY <1>13, <2>1, <2>2, <2>3 DEF KernelsRemain
  <2> QED  BY <1>2, <1>3, <1>4, <1>5, <2>2, <2>4
<1>14. ASSUME UNCHANGED driverVars, UNCHANGED codeIds
       PROVE  Ages /\ OwnersRemain /\ KernelsRemain /\ Held
  BY <1>1, <1>2, <1>3, <1>4, <1>5, <1>14 DEF driverVars
<1>15. \A t \in AppThreads : QueueLaunch(t) => UNCHANGED <<driverVars, codeIds>>
  BY DEF QueueLaunch
<1>16. \A t \in AppThreads, k \in KernelHandles : LookUp(t, k) => UNCHANGED <<driverVars, codeIds>>
  BY DEF LookUp
<1> QED  BY <1>6, <1>7, <1>8, <1>9, <1>10, <1>12, <1>13, <1>14, <1>15, <1>16
         DEF RegistryNext, Hooks, DriverGetsKernel, UnhookedGetsKernel

(* Which step writes which table.                                          *)
LEMMA TableSteps ==
  ASSUME RegistryNext
  PROVE  /\ UNCHANGED moduleLibrary \/ \E t \in AppThreads : MapModule(t)
         /\ UNCHANGED kernelMap \/ \E t \in AppThreads : RegisterKernel(t)
         /\ UNCHANGED codeIds \/ \E t \in AppThreads : RegisterCode(t)
         /\ \/ UNCHANGED queued
            \/ \E t \in AppThreads : SendCode(t) \/ QueueLaunch(t)
<1>1. CASE UNCHANGED <<codeIds, moduleLibrary, kernelMap, queued>>
  BY <1>1
<1>2. CASE \E t \in AppThreads : Hooks(t)
  <2>1. PICK t \in AppThreads : Hooks(t)
    BY <1>2
  <2>2. CASE RegisterCode(t)
    BY <2>2 DEF RegisterCode
  <2>3. CASE SendCode(t)
    BY <2>3 DEF SendCode
  <2>4. CASE MapModule(t)
    BY <2>4 DEF MapModule
  <2>5. CASE RegisterKernel(t)
    BY <2>5 DEF RegisterKernel
  <2>6. CASE QueueLaunch(t)
    BY <2>6 DEF QueueLaunch
  <2> QED  BY <2>1, <2>2, <2>3, <2>4, <2>5, <2>6 DEF Hooks
<1>3. \A t, h, kind : DriverLoads(t, h, kind) =>
        UNCHANGED <<codeIds, moduleLibrary, kernelMap, queued>>
  BY DEF DriverLoads
<1>4. \A t, m, l : DriverGetsModule(t, m, l) =>
        UNCHANGED <<codeIds, moduleLibrary, kernelMap, queued>>
  BY DEF DriverGetsModule
<1>5. \A k, h, atOnce : Resolves(k, h, atOnce) =>
        UNCHANGED <<codeIds, moduleLibrary, kernelMap, queued>>
  BY DEF Resolves
<1>6. \A t, h : Unload(t, h) => UNCHANGED <<codeIds, moduleLibrary, kernelMap, queued>>
  BY DEF Unload
<1>7. \A t, k : LookUp(t, k) => UNCHANGED <<codeIds, moduleLibrary, kernelMap, queued>>
  BY DEF LookUp
<1> QED  BY <1>1, <1>2, <1>3, <1>4, <1>5, <1>6, <1>7
         DEF RegistryNext, DriverGetsKernel, UnhookedGetsKernel

(* A handle becomes known when the call that returned it ends.             *)
LEMMA KnownSteps ==
  ASSUME Typed, HookShape, RegistryNext,
         NEW h \in DOMAIN live, ~live[h].known, h \in DOMAIN live', live'[h].known
  PROVE  \E t \in AppThreads : \/ SendCode(t) /\ h = hook[t].owner
                               \/ MapModule(t) /\ h = hook[t].module
<1>1. ASSUME NEW g, live' = [live EXCEPT ![g].known = TRUE]
      PROVE  h = g
  BY <1>1
<1>2. ASSUME UNCHANGED live
      PROVE  FALSE
  BY <1>2
<1>3. ASSUME NEW g, NEW new, live' = Bind(live, g, new), g \notin DOMAIN live
      PROVE  FALSE
  BY <1>3 DEF Bind
<1>4. ASSUME NEW S, live' = Restrict(live, S)
      PROVE  FALSE
  BY <1>4 DEF Restrict
<1>5. CASE \E t \in AppThreads, g \in Owners :
             \/ DriverLoads(t, g, "module") \/ DriverLoads(t, g, "library")
             \/ Unload(t, g)
             \/ \E m \in Owners : DriverGetsModule(t, m, g)
  BY <1>2, <1>3, <1>4, <1>5, ZenonT(60) DEF DriverLoads, DriverGetsModule, Unload
<1>6. CASE \E t \in AppThreads, k \in KernelHandles :
             \/ LookUp(t, k)
             \/ \E g \in Owners : DriverGetsKernel(t, k, g) \/ UnhookedGetsKernel(t, k, g)
  BY <1>2, <1>6, ZenonT(60) DEF LookUp, driverVars, DriverGetsKernel, UnhookedGetsKernel, Resolves
<1>7. CASE \E t \in AppThreads : Hooks(t)
  <2>1. PICK t \in AppThreads : Hooks(t)
    BY <1>7
  <2>2. CASE SendCode(t)
    BY <1>1, <2>2 DEF SendCode, Returns
  <2>3. CASE MapModule(t)
    BY <1>1, <2>3 DEF MapModule, Returns
  <2> QED  BY <1>2, <2>1, <2>2, <2>3
           DEF Hooks, RegisterCode, RegisterKernel, QueueLaunch, driverVars
<1> QED  BY <1>5, <1>6, <1>7 DEF RegistryNext

LEMMA HandedKept ==
  ASSUME Typed, Taken, Families, HookShape, Handed, RegistryNext
  PROVE  Handed'
<1>1. Ages /\ OwnersRemain /\ KernelsRemain
  BY Remains
<1>2. given \subseteq given' /\ DOMAIN live' \subseteq given' /\ DOMAIN resolved' \subseteq given'
  BY <1>1 DEF Ages, OwnersRemain, KernelsRemain, Handed
<1>3. DOMAIN moduleLibrary' \subseteq given'
  <2>1. CASE UNCHANGED moduleLibrary
    BY <1>2, <2>1 DEF Handed
  <2>2. ASSUME NEW t \in AppThreads, MapModule(t)
        PROVE  DOMAIN moduleLibrary' \subseteq given'
    <3>1. hook[t].module \in DOMAIN live
      BY <2>2 DEF MapModule, HookShape, AtMap
    <3>2. DOMAIN moduleLibrary' = DOMAIN moduleLibrary \cup {hook[t].module}
      BY <2>2 DEF MapModule, Bind
    <3> QED  BY <1>2, <3>1, <3>2 DEF Handed
  <2> QED  BY <2>1, <2>2, TableSteps
<1>4. DOMAIN kernelMap' \subseteq given'
  <2>1. CASE UNCHANGED kernelMap
    BY <1>2, <2>1 DEF Handed
  <2>2. ASSUME NEW t \in AppThreads, RegisterKernel(t)
        PROVE  DOMAIN kernelMap' \subseteq given'
    <3>1. hook[t].kernel \in DOMAIN resolved
      BY <2>2 DEF RegisterKernel, HookShape, AtName
    <3>2. DOMAIN kernelMap' = DOMAIN kernelMap \cup {hook[t].kernel}
      BY <2>2 DEF RegisterKernel, Bind
    <3> QED  BY <1>2, <3>1, <3>2 DEF Handed
  <2> QED  BY <2>1, <2>2, TableSteps
<1>5. \A i \in DOMAIN codeIds' : codeIds'[i] \in given'
  <2>1. CASE UNCHANGED codeIds
    BY <1>2, <2>1 DEF Handed
  <2>2. ASSUME NEW t \in AppThreads, RegisterCode(t)
        PROVE  \A i \in DOMAIN codeIds' : codeIds'[i] \in given'
    <3>1. hook[t].owner \in DOMAIN live
      BY <2>2 DEF RegisterCode, HookShape, AtRegister, Root
    <3>2. hook[t].owner \in given'
      BY <1>2, <3>1 DEF Handed
    <3> QED  BY <1>2, <2>2, <3>2, RegisterDoes, ZenonT(60) DEF Handed
  <2> QED  BY <2>1, <2>2, TableSteps
<1> QED  BY <1>2, <1>3, <1>4, <1>5 DEF Handed

(* The code objects queued after a step.                                   *)
LEMMA QueuedAfter ==
  ASSUME Typed, Taken, HookShape, Launching, RegistryNext
  PROVE  /\ DOMAIN queued \subseteq DOMAIN queued'
         /\ \A n \in DOMAIN queued : queued'[n] = queued[n]
         /\ \/ DOMAIN queued' = DOMAIN queued
            \/ \E t \in AppThreads :
                 /\ Len(queued) + 1 \notin DOMAIN queued
                 /\ DOMAIN queued' = DOMAIN queued \cup {Len(queued) + 1}
                 /\ LET new == queued'[Len(queued) + 1]
                    IN  \/ /\ SendCode(t) /\ hook[t].code \notin unread
                           /\ new = [type |-> "code", id |-> hook[t].id,
                                     code |-> hook[t].code]
                        \/ /\ QueueLaunch(t) /\ new.type = "launch"
                           /\ hook[t].kernel \in DOMAIN resolved
                           /\ new.code = resolved[hook[t].kernel].code
<1> DEFINE Event == CodeEvent \cup LaunchEvent
<1>1. queued \in Seq(Event) /\ Len(queued) \in Nat /\ DOMAIN queued = 1..Len(queued)
  BY LenProperties DEF Typed
<1>2. ASSUME NEW e \in Event, queued' = Append(queued, e)
      PROVE  /\ Len(queued) + 1 \notin DOMAIN queued
             /\ DOMAIN queued' = DOMAIN queued \cup {Len(queued) + 1}
             /\ queued'[Len(queued) + 1] = e
             /\ \A n \in DOMAIN queued : queued'[n] = queued[n]
  <2> HIDE DEF Event
  <2>1. /\ queued' \in Seq(Event) /\ Len(queued') = Len(queued) + 1
        /\ \A i \in 1..Len(queued) : queued'[i] = queued[i]
        /\ queued'[Len(queued) + 1] = e
    BY <1>1, <1>2, AppendProperties
  <2>2. DOMAIN queued' = 1..(Len(queued) + 1)
    BY <2>1, LenProperties
  <2> QED  BY <1>1, <2>1, <2>2
<1>3. CASE UNCHANGED queued
  BY <1>3
<1>4. ASSUME NEW t \in AppThreads, SendCode(t), ~(UNCHANGED queued)
      PROVE  /\ hook[t].code \notin unread
             /\ \E e \in Event : /\ e = [type |-> "code", id |-> hook[t].id,
                                         code |-> hook[t].code]
                                 /\ queued' = Append(queued, e)
  <2>1. [type |-> "code", id |-> hook[t].id, code |-> hook[t].code] \in CodeEvent
    BY <1>4, HookPoints DEF CodeEvent, SendCode
  <2> QED  BY <1>4, <2>1 DEF SendCode
<1>5. ASSUME NEW t \in AppThreads, QueueLaunch(t)
      PROVE  /\ hook[t].kernel \in DOMAIN resolved
             /\ \E e \in Event : /\ e.type = "launch"
                                 /\ e.code = resolved[hook[t].kernel].code
                                 /\ queued' = Append(queued, e)
  <2>1. hook[t].kernel \in DOMAIN resolved
    BY <1>5 DEF QueueLaunch, Launching, AtLaunch
  <2>2. PICK doubt \in BOOLEAN :
          queued' = Append(queued, [type |-> "launch", id |-> hook[t].id,
                                    code |-> resolved[hook[t].kernel].code,
                                    hooked |-> hook[t].hooked, doubtful |-> doubt])
    BY <1>5 DEF QueueLaunch
  <2>3. [type |-> "launch", id |-> hook[t].id, code |-> resolved[hook[t].kernel].code,
         hooked |-> hook[t].hooked, doubtful |-> doubt] \in LaunchEvent
    BY <1>5, <2>1, HookPoints, OwnersTyped DEF QueueLaunch, LaunchEvent
  <2> QED  BY <2>1, <2>2, <2>3
<1> HIDE DEF Event
<1>6. ASSUME NEW t \in AppThreads, SendCode(t), ~(UNCHANGED queued)
      PROVE  /\ Len(queued) + 1 \notin DOMAIN queued
             /\ DOMAIN queued' = DOMAIN queued \cup {Len(queued) + 1}
             /\ \A n \in DOMAIN queued : queued'[n] = queued[n]
             /\ hook[t].code \notin unread
             /\ queued'[Len(queued) + 1] = [type |-> "code", id |-> hook[t].id,
                                            code |-> hook[t].code]
  BY <1>2, <1>4, <1>6
<1>7. ASSUME NEW t \in AppThreads, QueueLaunch(t)
      PROVE  /\ Len(queued) + 1 \notin DOMAIN queued
             /\ DOMAIN queued' = DOMAIN queued \cup {Len(queued) + 1}
             /\ \A n \in DOMAIN queued : queued'[n] = queued[n]
             /\ hook[t].kernel \in DOMAIN resolved
             /\ queued'[Len(queued) + 1].type = "launch"
             /\ queued'[Len(queued) + 1].code = resolved[hook[t].kernel].code
  BY <1>2, <1>5, <1>7
<1> QED  BY <1>3, <1>6, <1>7, TableSteps

LEMMA SentAfter ==
  ASSUME Typed, Taken, HookShape, Launching, RegistryNext, NEW i, NEW c
  PROVE  /\ SentUnder(i, c) => SentUnder(i, c)'
         /\ SentUnder(i, c)' =>
              \/ SentUnder(i, c)
              \/ \E t \in AppThreads : /\ SendCode(t) /\ i = hook[t].id
                                       /\ c = hook[t].code /\ c \notin unread
<1>1. SentUnder(i, c) => SentUnder(i, c)'
  BY QueuedAfter DEF SentUnder
<1>2. ASSUME NEW n \in DOMAIN queued', queued'[n].type = "code", queued'[n].id = i,
             queued'[n].code = c, n \notin DOMAIN queued
      PROVE  \E t \in AppThreads : /\ SendCode(t) /\ i = hook[t].id
                                   /\ c = hook[t].code /\ c \notin unread
  <2> DEFINE m == Len(queued) + 1
  <2>1. PICK t \in AppThreads :
          /\ DOMAIN queued' = DOMAIN queued \cup {m}
          /\ \/ /\ SendCode(t) /\ hook[t].code \notin unread
                /\ queued'[m] = [type |-> "code", id |-> hook[t].id,
                                 code |-> hook[t].code]
             \/ queued'[m].type = "launch"
    BY <1>2, QueuedAfter
  <2>2. n = m
    BY <1>2, <2>1
  <2> HIDE DEF m
  <2> QED  BY <1>2, <2>1, <2>2
<1>3. ASSUME NEW n \in DOMAIN queued', queued'[n].type = "code", queued'[n].id = i,
             queued'[n].code = c, n \in DOMAIN queued
      PROVE  SentUnder(i, c)
  <2>1. queued'[n] = queued[n]
    BY <1>3, QueuedAfter
  <2> QED  BY <1>3, <2>1 DEF SentUnder
<1> QED  BY <1>1, <1>2, <1>3 DEF SentUnder

LEMMA TakenKept ==
  ASSUME Typed, Taken, Families, HookShape, Launching, RegistryNext
  PROVE  Taken'
<1>1. Ages
  BY Remains
<1>2. \A i, j \in DOMAIN codeIds' : codeIds'[i] = codeIds'[j] => i = j
  <2>1. CASE UNCHANGED codeIds
    BY <2>1 DEF Taken
  <2>2. ASSUME NEW t \in AppThreads, RegisterCode(t)
        PROVE  \A i, j \in DOMAIN codeIds' : codeIds'[i] = codeIds'[j] => i = j
    <3>1. PICK id \in DOMAIN codeIds' :
            /\ codeIds'[id] = hook[t].owner
            /\ DOMAIN codeIds' = DOMAIN codeIds \cup {id}
            /\ \A i \in DOMAIN codeIds : codeIds'[i] = codeIds[i]
            /\ id \in DOMAIN codeIds \/ \A i \in DOMAIN codeIds : codeIds[i] # hook[t].owner
      BY <2>2, RegisterDoes
    <3>2. \A i, j \in DOMAIN codeIds : codeIds[i] = codeIds[j] => i = j
      BY DEF Taken
    <3> QED  BY <3>1, <3>2
  <2> QED  BY <2>1, <2>2, TableSteps
<1>3. \A c \in 1..loads : c \in 1..loads'
  BY <1>1 DEF Ages, Typed
<1>4. ASSUME NEW n \in DOMAIN queued'
      PROVE  /\ queued'[n].type = "code" => queued'[n].id \in DOMAIN codeIds'
             /\ queued'[n].code \in 1..loads'
  <2>1. CASE n \in DOMAIN queued
    <3>1. queued'[n] = queued[n]
      BY <2>1, QueuedAfter
    <3> QED  BY <1>1, <1>3, <2>1, <3>1 DEF Taken, Ages
  <2>2. CASE n \notin DOMAIN queued
    <3>1. PICK t \in AppThreads :
            \/ /\ SendCode(t)
               /\ queued'[n] = [type |-> "code", id |-> hook[t].id, code |-> hook[t].code]
            \/ /\ QueueLaunch(t) /\ queued'[n].type = "launch"
               /\ hook[t].kernel \in DOMAIN resolved
               /\ queued'[n].code = resolved[hook[t].kernel].code
      BY <1>4, <2>2, QueuedAfter
    <3>2. CASE /\ SendCode(t)
               /\ queued'[n] = [type |-> "code", id |-> hook[t].id, code |-> hook[t].code]
      <4>1. /\ hook[t].id \in DOMAIN codeIds /\ hook[t].owner \in DOMAIN live
            /\ live[hook[t].owner].code = hook[t].code
        BY <3>2 DEF SendCode, HookShape, AtSend, AtRegister, Root
      <4>2. hook[t].code \in 1..loads
        BY <4>1, OwnersTyped
      <4> QED  BY <1>1, <1>3, <3>2, <4>1, <4>2 DEF Ages
    <3>3. CASE /\ QueueLaunch(t) /\ queued'[n].type = "launch"
               /\ hook[t].kernel \in DOMAIN resolved
               /\ queued'[n].code = resolved[hook[t].kernel].code
      BY <1>3, <3>3, OwnersTyped
    <3> QED  BY <3>1, <3>2, <3>3
  <2> QED  BY <2>1, <2>2
<1> QED  BY <1>2, <1>4 DEF Taken

LEMMA FamiliesKept ==
  ASSUME Typed, Taken, HookShape, Families, RegistryNext
  PROVE  Families'
<1>1. OwnersRemain
  BY Remains
<1>2. ASSUME NEW h \in DOMAIN live, h \in DOMAIN live'
      PROVE  /\ live'[h].library \in DOMAIN live'
             /\ live'[live'[h].library].library = live'[h].library
             /\ live'[live'[h].library].code = live'[h].code
             /\ live'[h].kind = "library" => live'[h].library = h
             /\ live'[h].library # h => live'[live'[h].library].known
  <2>1. /\ live[h].library \in DOMAIN live /\ live[live[h].library].library = live[h].library
        /\ live[live[h].library].code = live[h].code
        /\ live[h].kind = "library" => live[h].library = h
        /\ live[h].library # h => live[live[h].library].known
    BY DEF Families, Root
  <2>2. live'[h].library = live[h].library /\ live[h].library \in DOMAIN live'
    BY <1>1, <1>2 DEF OwnersRemain
  <2> QED  BY <1>1, <1>2, <2>1, <2>2 DEF OwnersRemain
<1>3. ASSUME NEW h \in DOMAIN live', h \notin DOMAIN live
      PROVE  /\ live'[h].library \in DOMAIN live'
             /\ live'[live'[h].library].library = live'[h].library
             /\ live'[live'[h].library].code = live'[h].code
             /\ live'[h].kind = "library" => live'[h].library = h
             /\ live'[h].library # h => live'[live'[h].library].known
             /\ ~live'[h].known
  <2>1. ~live'[h].known
    BY <1>1, <1>3 DEF OwnersRemain
  <2>2. CASE live'[h].library = h
    BY <1>3, <2>1, <2>2
  <2>3. CASE live'[h].library # h
    <3> DEFINE l == live'[h].library
    <3>1. /\ live'[h].kind = "module" /\ l \in DOMAIN live' /\ l \in DOMAIN live
          /\ live[l].library = l /\ live[l].known /\ live[l].code = live'[h].code
      BY <1>1, <1>3, <2>3 DEF OwnersRemain, Root
    <3>2. live'[l].library = l /\ live'[l].known /\ live'[l].code = live'[h].code
      BY <1>1, <3>1 DEF OwnersRemain
    <3> QED  BY <2>1, <3>1, <3>2
  <2> QED  BY <2>2, <2>3
<1>4. ASSUME NEW h \in DOMAIN live, h \in DOMAIN live', live'[h].library # h,
             live'[h].known
      PROVE  h \in DOMAIN moduleLibrary' /\ moduleLibrary'[h] = live'[h].library
  <2>1. live'[h].library = live[h].library /\ ~Root(h)
    BY <1>1, <1>4 DEF OwnersRemain, Root
  <2>2. ASSUME NEW t \in AppThreads, MapModule(t)
        PROVE  \A m \in DOMAIN live :
                 m = hook[t].module \/ m \in DOMAIN moduleLibrary =>
                   /\ m \in DOMAIN moduleLibrary'
                   /\ moduleLibrary'[m] = IF m = hook[t].module THEN live[m].library
                                          ELSE moduleLibrary[m]
    <3>1. live[hook[t].module].library = hook[t].library
      BY <2>2 DEF MapModule, HookShape, AtMap
    <3> QED  BY <2>2, <3>1 DEF MapModule, Bind
  <2>3. CASE live[h].known
    <3>1. h \in DOMAIN moduleLibrary /\ moduleLibrary[h] = live[h].library
      BY <2>1, <2>3 DEF Families
    <3>2. CASE UNCHANGED moduleLibrary
      BY <2>1, <3>1, <3>2
    <3>3. CASE \E t \in AppThreads : MapModule(t)
      BY <2>1, <2>2, <3>1, <3>3
    <3> QED  BY <3>2, <3>3, TableSteps
  <2>4. CASE ~live[h].known
    <3>1. PICK t \in AppThreads : \/ SendCode(t) /\ h = hook[t].owner
                                  \/ MapModule(t) /\ h = hook[t].module
      BY <1>4, <2>4, KnownSteps
    <3>2. CASE SendCode(t) /\ h = hook[t].owner
      BY <2>1, <3>2 DEF SendCode, HookShape, AtRegister
    <3>3. CASE MapModule(t) /\ h = hook[t].module
      BY <2>1, <2>2, <3>3
    <3> QED  BY <3>1, <3>2, <3>3
  <2> QED  BY <2>3, <2>4
<1>5. ASSUME NEW h \in DOMAIN live'
      PROVE  /\ live'[h].library \in DOMAIN live'
             /\ live'[live'[h].library].library = live'[h].library
             /\ live'[live'[h].library].code = live'[h].code
             /\ live'[h].kind = "library" => live'[h].library = h
             /\ live'[h].library # h => live'[live'[h].library].known
             /\ live'[h].library # h /\ live'[h].known =>
                  h \in DOMAIN moduleLibrary' /\ moduleLibrary'[h] = live'[h].library
  BY <1>2, <1>3, <1>4, <1>5
<1> QED  BY <1>5 DEF Families, Root

LEMMA KernelOwnersKept ==
  ASSUME Typed, Taken, HookShape, Families, KernelOwners, RegistryNext
  PROVE  KernelOwners'
<1>1. OwnersRemain /\ KernelsRemain
  BY Remains
<1>2. ASSUME NEW k \in DOMAIN resolved'
      PROVE  \E h \in DOMAIN live' :
               /\ live'[h].known /\ resolved'[k].owners = {h, live'[h].library}
               /\ resolved'[k].code = live'[h].code
  <2>1. PICK h \in DOMAIN live :
          /\ h \in DOMAIN live' /\ live[h].known
          /\ resolved'[k].owners = {h, live[h].library}
          /\ resolved'[k].code = live[h].code
    <3>1. CASE k \in DOMAIN resolved
      <4>1. PICK h \in DOMAIN live :
              /\ live[h].known /\ resolved[k].owners = {h, live[h].library}
              /\ resolved[k].code = live[h].code
        BY <3>1 DEF KernelOwners
      <4>2. h \in DOMAIN live' /\ resolved'[k].owners = resolved[k].owners
            /\ resolved'[k].code = resolved[k].code
        BY <1>1, <1>2, <3>1, <4>1 DEF KernelsRemain
      <4> QED  BY <4>1, <4>2
    <3>2. CASE k \notin DOMAIN resolved
      BY <1>1, <1>2, <3>2 DEF KernelsRemain
    <3> QED  BY <3>1, <3>2
  <2>2. /\ live'[h].known /\ live'[h].library = live[h].library
        /\ live'[h].code = live[h].code
    BY <1>1, <2>1 DEF OwnersRemain
  <2> QED  BY <2>1, <2>2
<1> QED  BY <1>2 DEF KernelOwners

(* A root that was not given out before stays under its id.                *)
LEMMA RegisteredKept ==
  ASSUME Typed, Taken, Handed, HookShape, Families, Registered, Launching, RegistryNext
  PROVE  Registered'
<1>1. Ages /\ OwnersRemain
  BY Remains
<1>2. ASSUME NEW h \in DOMAIN live', live'[h].library = h, h \notin reused',
             h \notin DOMAIN live
      PROVE  h \notin DOMAIN moduleLibrary' /\ ~live'[h].known
  <2>1. h \notin given /\ ~live'[h].known
    BY <1>1, <1>2 DEF OwnersRemain
  <2>2. h \notin DOMAIN moduleLibrary
    BY <2>1 DEF Handed
  <2>3. ASSUME NEW t \in AppThreads, MapModule(t)
        PROVE  h \notin DOMAIN moduleLibrary'
    <3>1. hook[t].module \in DOMAIN live
      BY <2>3 DEF MapModule, HookShape, AtMap
    <3>2. DOMAIN moduleLibrary' = DOMAIN moduleLibrary \cup {hook[t].module}
      BY <2>3 DEF MapModule, Bind
    <3> QED  BY <1>2, <2>2, <3>1, <3>2
  <2> QED  BY <2>1, <2>2, <2>3, TableSteps
<1>3. ASSUME NEW h \in DOMAIN live, h \in DOMAIN live', live'[h].library = h,
             h \notin reused'
      PROVE  Root(h) /\ h \notin reused /\ h \notin DOMAIN moduleLibrary'
  <2>1. Root(h) /\ h \notin reused
    BY <1>1, <1>3 DEF OwnersRemain, Ages, Root
  <2>2. h \notin DOMAIN moduleLibrary
    BY <2>1 DEF Registered
  <2>3. ASSUME NEW t \in AppThreads, MapModule(t)
        PROVE  h \notin DOMAIN moduleLibrary'
    <3>1. ~Root(hook[t].module)
      BY <2>3 DEF MapModule, HookShape, AtMap
    <3>2. DOMAIN moduleLibrary' = DOMAIN moduleLibrary \cup {hook[t].module}
      BY <2>3 DEF MapModule, Bind
    <3> QED  BY <2>1, <2>2, <3>1, <3>2
  <2> QED  BY <2>1, <2>2, <2>3, TableSteps
<1>4. ASSUME NEW i, NEW c \in 1..loads', c \notin 1..loads
      PROVE  ~SentUnder(i, c)'
  <2>1. ~SentUnder(i, c)
    BY <1>4 DEF SentUnder, Taken
  <2>2. ASSUME NEW t \in AppThreads, SendCode(t)
        PROVE  hook[t].code \in 1..loads
    <3>1. hook[t].owner \in DOMAIN live /\ live[hook[t].owner].code = hook[t].code
      BY <2>2 DEF SendCode, HookShape, AtRegister, Root
    <3> QED  BY <3>1, OwnersTyped
  <2> QED  BY <1>4, <2>1, <2>2, SentAfter
<1>5. ASSUME NEW h \in DOMAIN live, h \in DOMAIN live', live'[h].library = h,
             h \notin reused', live[h].known
      PROVE  \E i \in DOMAIN codeIds : Names(i, h)'
  <2>1. PICK i \in DOMAIN codeIds : Names(i, h)
    BY <1>3, <1>5 DEF Registered
  <2>2. /\ i \in DOMAIN codeIds' /\ codeIds[i] = h /\ codeIds'[i] = h
        /\ live'[h].code = live[h].code
    BY <1>1, <1>5, <2>1 DEF Names, Ages, OwnersRemain
  <2>3. ASSUME NEW t \in AppThreads, SendCode(t)
        PROVE  hook[t].id # i
    BY <1>5, <2>2, <2>3 DEF SendCode, HookShape, AtSend, AtRegister
  <2>4. ASSUME NEW c \in 1..loads'
        PROVE  SentUnder(i, c)' <=> c = live'[h].code /\ c \notin unread'
    <3>1. CASE c \in 1..loads
      <4>1. SentUnder(i, c) <=> c = live[h].code /\ c \notin unread
        BY <2>1, <3>1 DEF Names
      <4>2. c \in unread' <=> c \in unread
        BY <1>1, <3>1 DEF Ages
      <4>3. SentUnder(i, c)' <=> SentUnder(i, c)
        BY <2>3, SentAfter
      <4> QED  BY <2>2, <4>1, <4>2, <4>3
    <3>2. CASE c \notin 1..loads
      <4>1. ~SentUnder(i, c)'
        BY <1>4, <3>2
      <4>2. live[h].code \in 1..loads
        BY OwnersTyped
      <4> QED  BY <2>2, <3>2, <4>1, <4>2
    <3> QED  BY <3>1, <3>2
  <2> QED  BY <2>2, <2>4 DEF Names
<1>6. ASSUME NEW h \in DOMAIN live, h \in DOMAIN live', live'[h].library = h,
             h \notin reused', ~live[h].known, live'[h].known
      PROVE  \E i \in DOMAIN codeIds : Names(i, h)'
  <2>1. Root(h) /\ h \notin reused
    BY <1>3, <1>6
  <2>2. PICK t \in AppThreads : SendCode(t) /\ h = hook[t].owner
    BY <1>6, <2>1, KnownSteps DEF MapModule, HookShape, AtMap
  <2> PICK i : i = hook[t].id
    OBVIOUS
  <2> PICK code : code = live[h].code
    OBVIOUS
  <2>3. /\ hook[t].at = "send" /\ hook[t].code = code /\ live'[h].code = code
        /\ UNCHANGED <<codeIds, loads, unread>>
    BY <1>1, <1>6, <2>2 DEF SendCode, Returns, HookShape, AtRegister, OwnersRemain
  <2>4. /\ i \in DOMAIN codeIds /\ codeIds[i] = h
        /\ \A c \in 1..loads : ~SentUnder(i, c)
    BY <2>1, <2>2, <2>3 DEF HookShape, AtSend
  <2>5. ASSUME NEW u \in AppThreads, SendCode(u), hook[u].id = i
        PROVE  hook[u].code = code
    <3>1. hook[u].owner = h
      BY <2>4, <2>5 DEF SendCode, HookShape, AtSend
    <3> QED  BY <2>5, <3>1 DEF SendCode, HookShape, AtRegister
  <2>6. code \in 1..loads
    BY OwnersTyped
  <2>7. code \notin unread => SentUnder(i, code)'
    <3> SUFFICES ASSUME code \notin unread
                 PROVE  SentUnder(i, code)'
      OBVIOUS
    <3> DEFINE e == [type |-> "code", id |-> i, code |-> code]
               Event == CodeEvent \cup LaunchEvent
    <3>1. queued' = Append(queued, e)
      BY <2>2, <2>3 DEF SendCode
    <3>2. e \in Event /\ queued \in Seq(Event)
      <4>1. i \in Nat /\ code \in Nat
        BY <2>3, HookPoints
      <4> QED  BY <4>1 DEF Typed, CodeEvent
    <3>3. e.type = "code" /\ e.id = i /\ e.code = code
      OBVIOUS
    <3> HIDE DEF e, Event
    <3>4. /\ queued' \in Seq(Event) /\ Len(queued') = Len(queued) + 1
          /\ queued'[Len(queued) + 1] = e /\ Len(queued) \in Nat
      BY <3>1, <3>2, AppendProperties, LenProperties
    <3>5. DOMAIN queued' = 1..(Len(queued) + 1)
      BY <3>4, LenProperties
    <3>6. Len(queued) + 1 \in DOMAIN queued'
      BY <3>4, <3>5
    <3> QED  BY <3>3, <3>4, <3>6 DEF SentUnder
  <2>8. ASSUME NEW c \in 1..loads'
        PROVE  SentUnder(i, c)' <=> c = live'[h].code /\ c \notin unread'
    <3>1. c \in 1..loads
      BY <2>3
    <3>2. SentUnder(i, c)' => c = code /\ c \notin unread
      BY <2>4, <2>5, <3>1, SentAfter
    <3> QED  BY <2>3, <2>7, <3>2
  <2> QED  BY <2>3, <2>4, <2>8 DEF Names
<1>7. ASSUME NEW h \in DOMAIN live', live'[h].library = h, h \notin reused'
      PROVE  /\ h \notin DOMAIN moduleLibrary'
             /\ live'[h].known => \E i \in DOMAIN codeIds' : Names(i, h)'
  <2>1. \A i \in DOMAIN codeIds : i \in DOMAIN codeIds'
    BY <1>1 DEF Ages
  <2>2. live'[h].known /\ h \in DOMAIN live => \E i \in DOMAIN codeIds : Names(i, h)'
    BY <1>5, <1>6, <1>7
  <2> QED  BY <1>2, <1>3, <1>7, <2>1, <2>2
<1> QED  BY <1>7 DEF Registered, Root

-----------------------------------------------------------------------------
(* A code object that is not loaded yet is under no id.                    *)
LEMMA NewCodeUnsent ==
  ASSUME Typed, Taken, HookShape, Launching, RegistryNext,
         NEW i, NEW c, c \notin 1..loads
  PROVE  ~SentUnder(i, c)'
<1>1. ~SentUnder(i, c)
  BY DEF SentUnder, Taken
<1>2. ASSUME NEW t \in AppThreads, SendCode(t)
      PROVE  hook[t].code \in 1..loads
  <2>1. hook[t].owner \in DOMAIN live /\ live[hook[t].owner].code = hook[t].code
    BY <1>2 DEF SendCode, HookShape, AtRegister, Root
  <2> QED  BY <2>1, OwnersTyped
<1> QED  BY <1>1, <1>2, SentAfter

(* What a hook looked up for a kernel holds while the kernel lives.        *)
LEMMA LeadsStays ==
  ASSUME Typed, Taken, Families, HookShape, RegistryNext,
         NEW k \in DOMAIN resolved, k \in DOMAIN resolved',
         NEW id, Leads(id, k)
  PROVE  Leads(id, k)'
<1>1. Ages /\ OwnersRemain /\ KernelsRemain
  BY Remains
<1>2. /\ resolved'[k].owners = resolved[k].owners
      /\ \A h \in resolved[k].owners : h \in DOMAIN live => h \in DOMAIN live'
  BY <1>1 DEF KernelsRemain
<1>3. SUFFICES ASSUME resolved'[k].owners \cap reused' = {}
               PROVE  /\ id \in DOMAIN codeIds' /\ codeIds'[id] \in DOMAIN live'
                      /\ live'[codeIds'[id]].library = codeIds'[id]
                      /\ codeIds'[id] \in resolved'[k].owners
  BY DEF Leads, Root
<1>4. resolved[k].owners \cap reused = {}
  BY <1>1, <1>2, <1>3 DEF Ages
<1>5. /\ id \in DOMAIN codeIds /\ codeIds[id] \in DOMAIN live
      /\ live[codeIds[id]].library = codeIds[id] /\ codeIds[id] \in resolved[k].owners
  BY <1>4 DEF Leads, Root
<1>6. id \in DOMAIN codeIds' /\ codeIds'[id] = codeIds[id]
  BY <1>1, <1>5 DEF Ages
<1>7. codeIds[id] \in DOMAIN live'
  BY <1>2, <1>5
<1>8. live'[codeIds[id]].library = live[codeIds[id]].library
  BY <1>1, <1>5, <1>7 DEF OwnersRemain
<1> QED  BY <1>2, <1>5, <1>6, <1>7, <1>8

(* get_code_id_locked finds the id of the code a kernel comes from.        *)
LEMMA CodeIdLeads ==
  ASSUME Typed, Taken, Families, KernelOwners, Registered,
         NEW k \in DOMAIN resolved, NEW h \in resolved[k].owners
  PROVE  Leads(CodeId(h), k)
<1>1. SUFFICES ASSUME resolved[k].owners \cap reused = {}
               PROVE  \E r \in resolved[k].owners, i \in DOMAIN codeIds :
                        Root(r) /\ codeIds[i] = r /\ CodeId(h) = i
  BY DEF Leads
<1>2. PICK g \in DOMAIN live : live[g].known /\ resolved[k].owners = {g, live[g].library}
  BY DEF KernelOwners
<1> DEFINE r == live[g].library
<1>3. Root(r) /\ r \in DOMAIN live /\ live[r].known /\ r \in resolved[k].owners
  <2>1. Root(r) /\ r \in DOMAIN live /\ r \in resolved[k].owners
    BY <1>2 DEF Families, Root
  <2>2. live[r].known
    BY <1>2 DEF Families, Root
  <2> QED  BY <2>1, <2>2
<1>4. r \notin reused
  BY <1>1, <1>3
<1>5. r \notin DOMAIN moduleLibrary /\ \E i \in DOMAIN codeIds : Names(i, r)
  BY <1>3, <1>4 DEF Registered
<1>6. PICK i \in DOMAIN codeIds : codeIds[i] = r
  BY <1>5 DEF Names
<1>7. IdOfOwner(r) = i
  BY <1>6, IdFound
<1>8. CASE h = r
  BY <1>3, <1>5, <1>6, <1>7, <1>8 DEF CodeId
<1>9. CASE h # r
  <2>1. h = g /\ ~Root(g)
    BY <1>2, <1>9 DEF Root
  <2>2. h \in DOMAIN moduleLibrary /\ moduleLibrary[h] = r
    BY <1>2, <2>1 DEF Families
  <2> QED  BY <1>3, <1>6, <1>7, <2>2 DEF CodeId
<1> QED  BY <1>8, <1>9

-----------------------------------------------------------------------------
(* A thread that does not move stays where the others let it be.           *)
LEMMA StandersKept ==
  ASSUME Typed, Taken, Families, HookShape, OneLoader, Launching, RegistryNext,
         NEW u \in AppThreads, hook'[u] = hook[u]
  PROVE  /\ AtRegister(u)' /\ AtOnce(u)' /\ AtSend(u)' /\ AtMap(u)' /\ AtName(u)'
         /\ AtLaunch(u)'
<1>1. Ages /\ OwnersRemain /\ KernelsRemain /\ Held
  BY Remains
<1>2. ASSUME NEW t \in AppThreads, SendCode(t) \/ RegisterCode(t)
      PROVE  t # u /\ (Loading(u) => hook[t].owner # hook[u].owner)
  <2>1. hook'[t].at # hook[t].at
    <3>1. CASE SendCode(t)
      <4>1. hook'[t] = Idle
        BY <3>1, EnterAt DEF SendCode, Returns
      <4> QED  BY <3>1, <4>1 DEF SendCode, Idle
    <3>2. CASE RegisterCode(t)
      <4>1. PICK id : Enter(t, [at |-> "send", id |-> id, owner |-> hook[t].owner,
                                code |-> hook[t].code, uses |-> {hook[t].owner}])
        BY <3>2 DEF RegisterCode
      <4>2. hook'[t] = [at |-> "send", id |-> id, owner |-> hook[t].owner,
                        code |-> hook[t].code, uses |-> {hook[t].owner}]
        BY <4>1, EnterAt
      <4>3. hook'[t].at = "send"
        BY <4>2
      <4> QED  BY <3>2, <4>3 DEF RegisterCode
    <3> QED  BY <1>2, <3>1, <3>2
  <2>2. Loading(t)
    BY <1>2 DEF Loading, SendCode, RegisterCode
  <2> QED  BY <2>1, <2>2 DEF OneLoader
<1>3. CASE hook[u].at \in {"register", "send"}
  <2> PICK h : h = hook[u].owner
    OBVIOUS
  <2>1. /\ Root(h) /\ h \in DOMAIN live /\ live[h].library = h /\ ~live[h].known
        /\ live[h].code = hook[u].code /\ hook[u].uses = {h} /\ hook[u] # Idle
    BY <1>3 DEF HookShape, AtRegister, Root, Idle
  <2>2. h \in DOMAIN live'
    BY <1>1, <2>1 DEF Held
  <2>3. live'[h].library = h /\ live'[h].code = live[h].code
    BY <1>1, <2>1, <2>2 DEF OwnersRemain
  <2>4. ~live'[h].known
    <3> SUFFICES ASSUME live'[h].known PROVE FALSE
      OBVIOUS
    <3>1. PICK t \in AppThreads : \/ SendCode(t) /\ h = hook[t].owner
                                  \/ MapModule(t) /\ h = hook[t].module
      BY <2>1, <2>2, KnownSteps
    <3>2. ~(SendCode(t) /\ h = hook[t].owner)
      BY <1>2, <1>3 DEF Loading
    <3>3. ~(MapModule(t) /\ h = hook[t].module)
      BY <2>1 DEF MapModule, HookShape, AtMap
    <3> QED  BY <3>1, <3>2, <3>3
  <2>5. AtRegister(u)'
    BY <2>1, <2>2, <2>3, <2>4 DEF AtRegister, Root
  <2>6. AtOnce(u)'
    <3> SUFFICES ASSUME hook[u].at = "register", h \notin reused'
                 PROVE  \A i \in DOMAIN codeIds' : codeIds'[i] # h
      BY DEF AtOnce
    <3>1. h \notin reused
      BY <1>1 DEF Ages
    <3>2. \A i \in DOMAIN codeIds : codeIds[i] # h
      BY <3>1 DEF HookShape, AtOnce
    <3>3. ASSUME NEW t \in AppThreads, RegisterCode(t)
          PROVE  \A i \in DOMAIN codeIds' : codeIds'[i] # h
      <4>1. hook[t].owner # h
        BY <1>2, <1>3, <3>3 DEF Loading
      <4> QED  BY <3>2, <3>3, <4>1, RegisterDoes
    <3> QED  BY <3>2, <3>3, TableSteps
  <2>7. AtSend(u)'
    <3> PICK i : i = hook[u].id
      OBVIOUS
    <3> SUFFICES ASSUME hook[u].at = "send"
                 PROVE  /\ i \in DOMAIN codeIds' /\ codeIds'[i] = h
                        /\ h \notin reused' => \A c \in 1..loads' : ~SentUnder(i, c)'
      BY DEF AtSend, SentUnder
    <3>1. /\ i \in DOMAIN codeIds /\ codeIds[i] = h
          /\ h \notin reused => \A c \in 1..loads : ~SentUnder(i, c)
      BY DEF HookShape, AtSend
    <3>2. h \notin reused' => h \notin reused
      BY <1>1 DEF Ages
    <3>3. ASSUME NEW c, ~SentUnder(i, c)
          PROVE  ~SentUnder(i, c)'
      <4>1. ASSUME NEW t \in AppThreads, SendCode(t)
            PROVE  hook[t].id # i
        <5>1. hook[t].owner # h
          BY <1>2, <1>3, <4>1 DEF Loading
        <5> QED  BY <3>1, <4>1, <5>1 DEF SendCode, HookShape, AtSend
      <4> QED  BY <3>3, <4>1, SentAfter
    <3>4. h \notin reused' => \A c \in 1..loads' : ~SentUnder(i, c)'
      BY <3>1, <3>2, <3>3, NewCodeUnsent
    <3> QED  BY <1>1, <3>1, <3>4 DEF Ages
  <2> QED  BY <1>3, <2>5, <2>6, <2>7 DEF AtMap, AtName, AtLaunch
<1>4. CASE hook[u].at = "map"
  <2> PICK m : m = hook[u].module
    OBVIOUS
  <2>1. /\ m \in DOMAIN live /\ live[m].library # m /\ live[m].library = hook[u].library
        /\ hook[u].uses = {m, hook[u].library} /\ hook[u] # Idle
    BY <1>4 DEF HookShape, AtMap, Root, Idle
  <2>2. m \in DOMAIN live'
    BY <1>1, <2>1 DEF Held
  <2>3. live'[m].library = live[m].library
    BY <1>1, <2>1, <2>2 DEF OwnersRemain
  <2> QED  BY <1>4, <2>1, <2>2, <2>3
           DEF AtRegister, AtOnce, AtSend, AtMap, AtName, AtLaunch, Root
<1>5. CASE hook[u].at = "name"
  <2> PICK k : k = hook[u].kernel
    OBVIOUS
  <2>1. /\ k \in DOMAIN resolved /\ hook[u].owner \in resolved[k].owners
        /\ hook[u].uses = {k, hook[u].owner} /\ hook[u] # Idle
    BY <1>5 DEF HookShape, AtName, Idle
  <2>2. k \in DOMAIN resolved'
    BY <1>1, <2>1 DEF Held
  <2>3. resolved'[k].owners = resolved[k].owners
    BY <1>1, <2>1, <2>2 DEF KernelsRemain
  <2> QED  BY <1>5, <2>1, <2>2, <2>3
           DEF AtRegister, AtOnce, AtSend, AtMap, AtName, AtLaunch
<1>6. CASE hook[u].at = "launch"
  <2> PICK k : k = hook[u].kernel
    OBVIOUS
  <2> PICK id : id = hook[u].id
    OBVIOUS
  <2>1. /\ k \in DOMAIN resolved /\ hook[u].uses = {k} /\ hook[u] # Idle
        /\ IF hook[u].hooked THEN Leads(id, k) ELSE k \notin reused => id = Unknown
    BY <1>6 DEF Launching, AtLaunch, Idle
  <2>2. k \in DOMAIN resolved'
    BY <1>1, <2>1 DEF Held
  <2>3. hook[u].hooked => Leads(id, k)'
    BY <2>1, <2>2, LeadsStays
  <2>4. ~hook[u].hooked => (k \notin reused' => id = Unknown)
    BY <1>1, <2>1 DEF Ages
  <2>5. AtLaunch(u)'
    BY <2>1, <2>2, <2>3, <2>4 DEF AtLaunch, Leads, Root
  <2> QED  BY <1>6, <2>5 DEF AtRegister, AtOnce, AtSend, AtMap, AtName
<1>7. CASE hook[u].at = "idle"
  BY <1>7 DEF AtRegister, AtOnce, AtSend, AtMap, AtName, AtLaunch
<1>8. hook[u].at \in {"idle", "register", "send", "map", "name", "launch"}
  <2>1. hook[u] \in Hook
    BY DEF Typed
  <2> QED  BY <2>1 DEF Hook, Idle
<1> QED  BY <1>3, <1>4, <1>5, <1>6, <1>7, <1>8

(* Only the thread that takes a step moves.                                *)
LEMMA Moves ==
  ASSUME Typed, RegistryNext, NEW u \in AppThreads, hook'[u] # hook[u]
  PROVE  \/ hook'[u] = Idle \/ RegisterCode(u)
         \/ \E h \in Owners, kind \in {"module", "library"} : DriverLoads(u, h, kind)
         \/ \E m, l \in Owners : DriverGetsModule(u, m, l)
         \/ \E k \in KernelHandles, h \in Owners : DriverGetsKernel(u, k, h)
         \/ \E k \in KernelHandles : LookUp(u, k)
<1>1. ASSUME NEW t \in AppThreads, NEW point, Enter(t, point)
      PROVE  t = u
  BY <1>1, EnterAt
<1>2. ASSUME NEW t \in AppThreads, NEW h, Returns(t, h)
      PROVE  hook'[u] = Idle
  BY <1>1, <1>2, EnterAt DEF Returns
<1>3. ASSUME NEW t \in AppThreads, NEW h \in Owners, NEW kind \in {"module", "library"},
             DriverLoads(t, h, kind)
      PROVE  t = u
  BY <1>1, <1>3 DEF DriverLoads
<1>4. ASSUME NEW t \in AppThreads, NEW m \in Owners, NEW l \in Owners,
             DriverGetsModule(t, m, l)
      PROVE  t = u
  BY <1>1, <1>4 DEF DriverGetsModule
<1>5. ASSUME NEW t \in AppThreads, NEW k \in KernelHandles, NEW h \in Owners,
             DriverGetsKernel(t, k, h)
      PROVE  t = u
  BY <1>1, <1>5 DEF DriverGetsKernel
<1>6. ASSUME NEW t \in AppThreads, NEW k \in KernelHandles, LookUp(t, k)
      PROVE  t = u
  BY <1>1, <1>6 DEF LookUp
<1>7. ASSUME NEW t \in AppThreads, RegisterCode(t)
      PROVE  t = u
  BY <1>1, <1>7 DEF RegisterCode
<1>8. ASSUME NEW t \in AppThreads, SendCode(t) \/ MapModule(t) \/ RegisterKernel(t) \/ QueueLaunch(t)
      PROVE  hook'[u] = Idle
  <2>1. CASE SendCode(t) \/ MapModule(t)
    BY <1>2, <2>1 DEF SendCode, MapModule
  <2>2. CASE RegisterKernel(t) \/ QueueLaunch(t)
    <3>1. Enter(t, Idle)
      BY <2>2 DEF RegisterKernel, QueueLaunch
    <3> QED  BY <1>1, <3>1, EnterAt
  <2> QED  BY <1>8, <2>1, <2>2
<1>9. \A t \in AppThreads, h \in Owners : ~Unload(t, h)
  BY DEF Unload
<1>10. \A t \in AppThreads, k \in KernelHandles, h \in Owners : ~UnhookedGetsKernel(t, k, h)
  BY DEF UnhookedGetsKernel
<1> QED  BY <1>3, <1>4, <1>5, <1>6, <1>7, <1>8, <1>9, <1>10 DEF RegistryNext, Hooks

LEMMA MoversKept ==
  ASSUME Typed, Taken, Handed, Families, HookShape, KernelOwners, KernelsMapped,
         Launching, RegistryNext, NEW u \in AppThreads, hook'[u] # hook[u]
  PROVE  /\ AtRegister(u)' /\ AtOnce(u)' /\ AtSend(u)' /\ AtMap(u)' /\ AtName(u)'
         /\ AtLaunch(u)'
<1> USE DEF AtRegister, AtOnce, AtSend, AtMap, AtName, AtLaunch
<1>1. CASE hook'[u] = Idle
  BY <1>1 DEF Idle
<1>2. ASSUME NEW h \in Owners, NEW kind \in {"module", "library"}, DriverLoads(u, h, kind)
      PROVE  /\ AtRegister(u)' /\ AtOnce(u)' /\ AtSend(u)' /\ AtMap(u)' /\ AtName(u)'
             /\ AtLaunch(u)'
  <2> DEFINE point == [at |-> "register", owner |-> h, code |-> loads + 1, uses |-> {h}]
             new == [code |-> loads + 1, kind |-> kind, library |-> h, known |-> FALSE]
  <2>1. hook'[u] = point
    BY <1>2, EnterAt DEF DriverLoads
  <2>2. /\ point.at = "register" /\ point.owner = h /\ point.code = loads + 1
        /\ point.uses = {h} /\ new.code = loads + 1 /\ new.library = h /\ ~new.known
    OBVIOUS
  <2>3. live' = Bind(live, h, new) /\ GivenOut(h) /\ UNCHANGED codeIds
    BY <1>2 DEF DriverLoads
  <2> HIDE DEF point, new
  <2>4. h \in DOMAIN live' /\ live'[h] = new
    BY <2>3 DEF Bind
  <2>5. h \notin reused' => \A i \in DOMAIN codeIds' : codeIds'[i] # h
    BY <2>3 DEF GivenOut, Handed
  <2> QED  BY <2>1, <2>2, <2>4, <2>5 DEF Root
<1>3. ASSUME NEW m \in Owners, NEW l \in Owners, DriverGetsModule(u, m, l)
      PROVE  /\ AtRegister(u)' /\ AtOnce(u)' /\ AtSend(u)' /\ AtMap(u)' /\ AtName(u)'
             /\ AtLaunch(u)'
  <2> DEFINE point == [at |-> "map", module |-> m, library |-> l, uses |-> {m, l}]
  <2>1. hook'[u] = point
    BY <1>3, EnterAt DEF DriverGetsModule
  <2>2. /\ point.at = "map" /\ point.module = m /\ point.library = l
        /\ point.uses = {m, l}
    OBVIOUS
  <2> HIDE DEF point
  <2>3. m \in DOMAIN live' /\ live'[m].library = l /\ m # l
    <3>1. CASE m \in DOMAIN live
      BY <1>3, <3>1 DEF DriverGetsModule
    <3>2. CASE m \notin DOMAIN live
      <4> DEFINE new == [code |-> live[l].code, kind |-> "module", library |-> l,
                         known |-> FALSE]
      <4>1. live' = Bind(live, m, new) /\ l \in DOMAIN live
        BY <1>3, <3>2 DEF DriverGetsModule, Usable
      <4>2. new.library = l
        OBVIOUS
      <4> HIDE DEF new
      <4> QED  BY <3>2, <4>1, <4>2 DEF Bind
    <3> QED  BY <3>1, <3>2
  <2> QED  BY <2>1, <2>2, <2>3 DEF Root
<1>4. ASSUME NEW k \in KernelHandles, NEW h \in Owners, DriverGetsKernel(u, k, h)
      PROVE  /\ AtRegister(u)' /\ AtOnce(u)' /\ AtSend(u)' /\ AtMap(u)' /\ AtName(u)'
             /\ AtLaunch(u)'
  <2> DEFINE point == [at |-> "name", kernel |-> k, owner |-> h, uses |-> {k, h}]
  <2>1. hook'[u] = point
    BY <1>4, EnterAt DEF DriverGetsKernel
  <2>2. /\ point.at = "name" /\ point.kernel = k /\ point.owner = h
        /\ point.uses = {k, h}
    OBVIOUS
  <2> HIDE DEF point
  <2>3. Resolves(k, h, FALSE)
    BY <1>4 DEF DriverGetsKernel
  <2>4. k \in DOMAIN resolved' /\ h \in resolved'[k].owners
    <3>1. CASE k \in DOMAIN resolved
      <4> DEFINE new == [resolved[k] EXCEPT !.known = @ \/ FALSE]
      <4>1. resolved' = Bind(resolved, k, new) /\ h \in resolved[k].owners
        BY <2>3, <3>1 DEF Resolves
      <4>2. new.owners = resolved[k].owners
        BY <3>1 DEF Typed
      <4> HIDE DEF new
      <4> QED  BY <4>1, <4>2 DEF Bind
    <3>2. CASE k \notin DOMAIN resolved
      <4> DEFINE new == [code |-> live[h].code, owners |-> {h, live[h].library},
                         known |-> FALSE, hooked |-> FALSE]
      <4>1. resolved' = Bind(resolved, k, new)
        BY <2>3, <3>2 DEF Resolves
      <4>2. h \in new.owners
        OBVIOUS
      <4> HIDE DEF new
      <4> QED  BY <4>1, <4>2 DEF Bind
    <3> QED  BY <3>1, <3>2
  <2> QED  BY <2>1, <2>2, <2>4
<1>5. ASSUME NEW k \in KernelHandles, LookUp(u, k)
      PROVE  /\ AtRegister(u)' /\ AtOnce(u)' /\ AtSend(u)' /\ AtMap(u)' /\ AtName(u)'
             /\ AtLaunch(u)'
  <2> PICK id : id = IF k \in DOMAIN kernelMap THEN kernelMap[k] ELSE Unknown
    OBVIOUS
  <2> PICK hooked : hooked = resolved[k].hooked
    OBVIOUS
  <2> DEFINE point == [at |-> "launch", kernel |-> k, uses |-> {k}, hooked |-> hooked,
                       id |-> id]
  <2>1. /\ k \in DOMAIN resolved
        /\ UNCHANGED <<live, resolved, reused, codeIds>>
    BY <1>5 DEF LookUp, driverVars
  <2>2. hook'[u] = point
    <3>1. Enter(u, point)
      BY <1>5 DEF LookUp
    <3> HIDE DEF point
    <3> QED  BY <3>1, EnterAt
  <2>3. /\ point.at = "launch" /\ point.kernel = k /\ point.uses = {k}
        /\ point.hooked = hooked /\ point.id = id
    OBVIOUS
  <2> HIDE DEF point
  <2>4. IF hooked THEN Leads(id, k)' ELSE k \notin reused' => id = Unknown
    <3>1. hooked => Leads(id, k)
      BY <2>1 DEF KernelsMapped
    <3>2. Leads(id, k) => Leads(id, k)'
      BY <2>1 DEF Leads, Root
    <3>3. ~hooked => (k \notin reused => id = Unknown)
      BY <2>1 DEF KernelsMapped
    <3> QED  BY <2>1, <3>1, <3>2, <3>3
  <2> QED  BY <2>1, <2>2, <2>3, <2>4 DEF Leads, Root
<1>6. CASE RegisterCode(u)
  <2> PICK h : h = hook[u].owner
    OBVIOUS
  <2>1. PICK id \in DOMAIN codeIds' :
          /\ Enter(u, [at |-> "send", id |-> id, owner |-> h, code |-> hook[u].code,
                       uses |-> {h}])
          /\ codeIds'[id] = h
          /\ id \in DOMAIN codeIds => codeIds[id] = h
    BY <1>6, RegisterDoes
  <2> DEFINE point == [at |-> "send", id |-> id, owner |-> h, code |-> hook[u].code,
                       uses |-> {h}]
  <2>2. hook'[u] = point
    BY <2>1, EnterAt
  <2>3. /\ point.at = "send" /\ point.id = id /\ point.owner = h
        /\ point.code = hook[u].code /\ point.uses = {h}
    OBVIOUS
  <2> HIDE DEF point
  <2>4. UNCHANGED <<live, reused, loads, queued>>
    BY <1>6 DEF RegisterCode, driverVars
  <2>5. /\ h \in DOMAIN live /\ live[h].library = h /\ ~live[h].known
        /\ live[h].code = hook[u].code
        /\ h \notin reused => \A i \in DOMAIN codeIds : codeIds[i] # h
    BY <1>6 DEF RegisterCode, HookShape, Root
  <2>6. h \notin reused => \A c : ~SentUnder(id, c)'
    BY <2>1, <2>4, <2>5 DEF SentUnder, Taken
  <2>7. AtSend(u)'
    BY <2>1, <2>2, <2>3, <2>4, <2>6 DEF SentUnder
  <2> QED  BY <2>2, <2>3, <2>4, <2>5, <2>7 DEF Root
<1> QED  BY <1>1, <1>2, <1>3, <1>4, <1>5, <1>6, Moves

LEMMA HooksKept ==
  ASSUME Typed, Taken, Handed, Families, HookShape, OneLoader, KernelOwners,
         KernelsMapped, Launching, RegistryNext
  PROVE  HookShape' /\ Launching'
<1>1. ASSUME NEW u \in AppThreads
      PROVE  /\ AtRegister(u)' /\ AtOnce(u)' /\ AtSend(u)' /\ AtMap(u)' /\ AtName(u)'
             /\ AtLaunch(u)'
  <2>1. CASE hook'[u] = hook[u]
    BY <2>1, StandersKept
  <2>2. CASE hook'[u] # hook[u]
    BY <2>2, MoversKept
  <2> QED  BY <2>1, <2>2
<1> QED  BY <1>1 DEF HookShape, Launching

(* Two threads never bring code into the registry for one owner.           *)
LEMMA OneLoaderKept ==
  ASSUME Typed, Taken, HookShape, OneLoader, RegistryNext
  PROVE  OneLoader'
<1>1. ASSUME NEW u \in AppThreads, hook'[u].at \in {"register", "send"}
      PROVE  \/ Loading(u) /\ hook'[u].owner = hook[u].owner
             \/ /\ hook'[u].owner \notin DOMAIN live
                /\ \A v \in AppThreads : v # u => hook'[v] = hook[v]
  <2>1. CASE hook'[u] = hook[u]
    BY <1>1, <2>1 DEF Loading
  <2>2. CASE hook'[u] # hook[u]
    <3>1. CASE hook'[u] = Idle
      BY <1>1, <3>1 DEF Idle
    <3>2. CASE RegisterCode(u)
      <4>1. PICK id : Enter(u, [at |-> "send", id |-> id, owner |-> hook[u].owner,
                                code |-> hook[u].code, uses |-> {hook[u].owner}])
        BY <3>2 DEF RegisterCode
      <4>2. hook'[u] = [at |-> "send", id |-> id, owner |-> hook[u].owner,
                        code |-> hook[u].code, uses |-> {hook[u].owner}]
        BY <4>1, EnterAt
      <4>3. hook'[u].owner = hook[u].owner
        BY <4>2
      <4> QED  BY <3>2, <4>3 DEF RegisterCode, Loading
    <3>3. ASSUME NEW h \in Owners, NEW kind \in {"module", "library"}, DriverLoads(u, h, kind)
          PROVE  /\ hook'[u].owner \notin DOMAIN live
                 /\ \A v \in AppThreads : v # u => hook'[v] = hook[v]
      <4>1. hook'[u] = [at |-> "register", owner |-> h, code |-> loads + 1, uses |-> {h}]
        BY <3>3, EnterAt DEF DriverLoads
      <4>2. hook'[u].owner = h
        BY <4>1
      <4> QED  BY <3>3, <4>2, EnterAt DEF DriverLoads
    <3>4. ASSUME NEW m \in Owners, NEW l \in Owners, DriverGetsModule(u, m, l)
          PROVE  FALSE
      <4>1. hook'[u] = [at |-> "map", module |-> m, library |-> l, uses |-> {m, l}]
        BY <3>4, EnterAt DEF DriverGetsModule
      <4> QED  BY <1>1, <4>1
    <3>5. ASSUME NEW k \in KernelHandles, NEW h \in Owners, DriverGetsKernel(u, k, h)
          PROVE  FALSE
      <4>1. hook'[u] = [at |-> "name", kernel |-> k, owner |-> h, uses |-> {k, h}]
        BY <3>5, EnterAt DEF DriverGetsKernel
      <4> QED  BY <1>1, <4>1
    <3>6. ASSUME NEW k \in KernelHandles, LookUp(u, k)
          PROVE  FALSE
      <4>1. PICK id, hooked : Enter(u, [at |-> "launch", kernel |-> k, uses |-> {k},
                                        hooked |-> hooked, id |-> id])
        BY <3>6 DEF LookUp
      <4>2. hook'[u] = [at |-> "launch", kernel |-> k, uses |-> {k}, hooked |-> hooked,
                        id |-> id]
        BY <4>1, EnterAt
      <4> QED  BY <1>1, <4>2
    <3> QED  BY <2>2, <3>1, <3>2, <3>3, <3>4, <3>5, <3>6, Moves
  <2> QED  BY <2>1, <2>2
<1>2. ASSUME NEW t \in AppThreads, Loading(t)
      PROVE  hook[t].owner \in DOMAIN live
  BY <1>2 DEF Loading, HookShape, AtRegister, Root
<1>3. ASSUME NEW t \in AppThreads, NEW u \in AppThreads,
             hook'[t].at \in {"register", "send"}, hook'[u].at \in {"register", "send"},
             hook'[t].owner = hook'[u].owner
      PROVE  t = u
  <2>1. CASE Loading(t) /\ hook'[t].owner = hook[t].owner
    <3>1. CASE Loading(u) /\ hook'[u].owner = hook[u].owner
      BY <1>3, <2>1, <3>1 DEF OneLoader
    <3>2. CASE hook'[u].owner \notin DOMAIN live
      BY <1>2, <1>3, <2>1, <3>2
    <3> QED  BY <1>1, <1>3, <3>1, <3>2
  <2>2. CASE /\ hook'[t].owner \notin DOMAIN live
             /\ \A v \in AppThreads : v # t => hook'[v] = hook[v]
    <3>1. CASE Loading(u) /\ hook'[u].owner = hook[u].owner
      BY <1>2, <1>3, <2>2, <3>1
    <3>2. CASE hook'[u] = hook[u]
      <4>1. Loading(u) /\ hook'[u].owner = hook[u].owner
        BY <1>3, <3>2 DEF Loading
      <4> QED  BY <3>1, <4>1
    <3> QED  BY <2>2, <3>2
  <2> QED  BY <1>1, <1>3, <2>1, <2>2
<1> QED  BY <1>3 DEF OneLoader, Loading

(* kernel_map holds what register_kernel found, for the kernels it saw.    *)
LEMMA KernelsMappedKept ==
  ASSUME Typed, Taken, Handed, Families, HookShape, KernelOwners, Registered,
         KernelsMapped, RegistryNext
  PROVE  KernelsMapped'
<1>1. Ages /\ KernelsRemain
  BY Remains
<1>2. ASSUME NEW t \in AppThreads, RegisterKernel(t)
      PROVE  \E k \in DOMAIN resolved, id \in Ids :
               /\ kernelMap' = Bind(kernelMap, k, id) /\ Leads(id, k)
               /\ resolved'[k].hooked /\ k \in DOMAIN resolved'
               /\ \A x \in DOMAIN resolved : x # k => resolved'[x] = resolved[x]
  <2> PICK k : k = hook[t].kernel
    OBVIOUS
  <2> PICK h : h = hook[t].owner
    OBVIOUS
  <2> PICK id \in Ids : id = CodeId(h)
    BY IdFound DEF CodeId
  <2>1. k \in DOMAIN resolved /\ h \in resolved[k].owners
    BY <1>2 DEF RegisterKernel, HookShape, AtName
  <2>2. Leads(id, k)
    BY <2>1, CodeIdLeads
  <2>3. /\ resolved' = [resolved EXCEPT ![k].known = TRUE, ![k].hooked = TRUE]
        /\ kernelMap' = Bind(kernelMap, k, id)
    BY <1>2 DEF RegisterKernel
  <2>4. resolved'[k].hooked /\ k \in DOMAIN resolved'
    <3>1. /\ k \in DOMAIN resolved'
          /\ resolved'[k] = [resolved[k] EXCEPT !.known = TRUE, !.hooked = TRUE]
      BY <2>1, <2>3
    <3>2. resolved[k] \in [code : 1..loads, owners : SUBSET Owners, known : BOOLEAN,
                           hooked : BOOLEAN]
      BY <2>1 DEF Typed
    <3> QED  BY <3>1, <3>2
  <2> QED  BY <2>1, <2>2, <2>3, <2>4
<1>3. ASSUME NEW k \in DOMAIN resolved, k \in DOMAIN resolved'
      PROVE  IF resolved'[k].hooked THEN k \in DOMAIN kernelMap' /\ Leads(kernelMap[k], k)'
             ELSE k \notin reused' => k \notin DOMAIN kernelMap'
  <2>1. ASSUME NEW t \in AppThreads, RegisterKernel(t)
        PROVE  IF resolved'[k].hooked
               THEN k \in DOMAIN kernelMap' /\ \E id : kernelMap'[k] = id /\ Leads(id, k)
               ELSE k \notin reused => k \notin DOMAIN kernelMap'
    <3>1. PICK x \in DOMAIN resolved, id \in Ids :
            /\ kernelMap' = Bind(kernelMap, x, id) /\ Leads(id, x)
            /\ resolved'[x].hooked
            /\ \A y \in DOMAIN resolved : y # x => resolved'[y] = resolved[y]
      BY <1>2, <2>1
    <3>2. CASE k = x
      BY <3>1, <3>2 DEF Bind
    <3>3. CASE k # x
      <4>1. /\ resolved'[k] = resolved[k]
            /\ k \in DOMAIN kernelMap' <=> k \in DOMAIN kernelMap
            /\ k \in DOMAIN kernelMap => kernelMap'[k] = kernelMap[k]
        BY <3>1, <3>3 DEF Bind
      <4> QED  BY <4>1 DEF KernelsMapped
    <3> QED  BY <3>2, <3>3
  <2>2. ASSUME UNCHANGED kernelMap, \A t \in AppThreads : ~RegisterKernel(t)
        PROVE  IF resolved'[k].hooked
               THEN k \in DOMAIN kernelMap' /\ \E id : kernelMap'[k] = id /\ Leads(id, k)
               ELSE k \notin reused => k \notin DOMAIN kernelMap'
    <3>1. resolved'[k].hooked <=> resolved[k].hooked
      BY <1>1, <1>3, <2>2 DEF KernelsRemain
    <3> QED  BY <2>2, <3>1 DEF KernelsMapped
  <2>3. IF resolved'[k].hooked
        THEN k \in DOMAIN kernelMap' /\ \E id : kernelMap'[k] = id /\ Leads(id, k)
        ELSE k \notin reused => k \notin DOMAIN kernelMap'
    BY <2>1, <2>2, TableSteps
  <2>4. CASE resolved'[k].hooked
    <3>1. PICK id : kernelMap'[k] = id /\ Leads(id, k)
      BY <2>3, <2>4
    <3>2. Leads(id, k)'
      BY <1>3, <3>1, LeadsStays
    <3> QED  BY <2>3, <2>4, <3>1, <3>2 DEF Leads, Root
  <2>5. CASE ~resolved'[k].hooked
    BY <1>1, <2>3, <2>5 DEF Ages
  <2> QED  BY <2>4, <2>5
<1>4. ASSUME NEW k \in DOMAIN resolved', k \notin DOMAIN resolved
      PROVE  ~resolved'[k].hooked /\ (k \notin reused' => k \notin DOMAIN kernelMap')
  <2>1. ~resolved'[k].hooked /\ (k \in given => k \in reused')
    BY <1>1, <1>4 DEF KernelsRemain
  <2>2. k \notin reused' => k \notin DOMAIN kernelMap
    BY <2>1 DEF Handed
  <2>3. ASSUME NEW t \in AppThreads, RegisterKernel(t)
        PROVE  k \in DOMAIN kernelMap' => k \in DOMAIN kernelMap
    BY <1>2, <1>4, <2>3 DEF Bind
  <2> QED  BY <2>1, <2>2, <2>3, TableSteps
<1>5. ASSUME NEW k \in DOMAIN resolved'
      PROVE  IF resolved'[k].hooked THEN k \in DOMAIN kernelMap' /\ Leads(kernelMap[k], k)'
             ELSE k \notin reused' => k \notin DOMAIN kernelMap'
  <2>1. CASE k \in DOMAIN resolved
    BY <1>3, <1>5, <2>1 DEF Leads, Root
  <2>2. CASE k \notin DOMAIN resolved
    BY <1>4, <1>5, <2>2
  <2> QED  BY <2>1, <2>2
<1> QED  BY <1>5 DEF KernelsMapped

-----------------------------------------------------------------------------
(* The codes queued under the id of a launch before it, in a queue q.      *)
Named(q, n) ==
  {e.code : e \in {x \in {q[i] : i \in {j \in 1..(n - 1) : q[j].type = "code"}} :
                     x.id = q[n].id}}
Truthful(q, lost, n) ==
  q[n].type = "launch" /\ ~q[n].doubtful =>
    IF q[n].hooked THEN q[n].id # Unknown /\ Named(q, n) = {q[n].code} \ lost
    ELSE q[n].id = Unknown

LEMMA LaunchNamesByQueue ==
  LaunchNamesItsCode <=> \A n \in DOMAIN queued : Truthful(queued, unread, n)
BY DEF LaunchNamesItsCode, Truthful, Named

(* The launch that is queued carries the id of its code.                   *)
LEMMA NewLaunchTruthful ==
  ASSUME Typed, Taken, Families, KernelOwners, Registered, Launching,
         NEW t \in AppThreads, QueueLaunch(t)
  PROVE  Truthful(queued', unread', Len(queued) + 1)
<1> PICK k : k = hook[t].kernel
  OBVIOUS
<1> PICK id : id = hook[t].id
  OBVIOUS
<1> DEFINE n == Len(queued) + 1
           doubt == \/ resolved[k].owners \cap reused # {}
                    \/ ~hook[t].hooked /\ k \in reused
           e == [type |-> "launch", id |-> id, code |-> resolved[k].code,
                 hooked |-> hook[t].hooked, doubtful |-> doubt]
           Event == CodeEvent \cup LaunchEvent
<1>1. /\ hook[t].at = "launch" /\ queued' = Append(queued, e)
      /\ unread' = unread
  BY DEF QueueLaunch, driverVars
<1>2. /\ k \in DOMAIN resolved
      /\ IF hook[t].hooked THEN Leads(id, k) ELSE k \notin reused => id = Unknown
  BY <1>1 DEF Launching, AtLaunch
<1>3. doubt \in BOOLEAN
  OBVIOUS
<1>4. e \in LaunchEvent
  BY <1>1, <1>2, <1>3, HookPoints, OwnersTyped DEF LaunchEvent
<1>5. /\ e.type = "launch" /\ e.id = id /\ e.code = resolved[k].code
      /\ e.hooked = hook[t].hooked /\ e.doubtful = doubt
  OBVIOUS
<1> SUFFICES ASSUME ~doubt
             PROVE  IF hook[t].hooked
                    THEN id # Unknown /\ Named(queued', n) = {resolved[k].code} \ unread
                    ELSE id = Unknown
  <2>1. queued'[n] = e
    <3> HIDE DEF e
    <3>1. queued \in Seq(Event) /\ e \in Event
      BY <1>4 DEF Typed
    <3> HIDE DEF Event
    <3> QED  BY <1>1, <3>1, AppendProperties
  <2> HIDE DEF e, doubt, n
  <2> QED  BY <1>1, <1>5, <2>1 DEF Truthful, n
<1> HIDE DEF e
<1>6. /\ n \notin DOMAIN queued /\ n \in Nat /\ DOMAIN queued = 1..(n - 1)
      /\ queued'[n] = e /\ \A i \in DOMAIN queued : queued'[i] = queued[i]
  <2>1. queued \in Seq(Event) /\ e \in Event
    BY <1>4 DEF Typed
  <2> HIDE DEF Event
  <2>2. Len(queued) \in Nat /\ DOMAIN queued = 1..Len(queued)
    BY <2>1, LenProperties
  <2> QED  BY <1>1, <2>1, <2>2, AppendProperties
<1>7. CASE ~hook[t].hooked
  BY <1>2, <1>7
<1>8. CASE hook[t].hooked
  <2>1. /\ id \in DOMAIN codeIds /\ Root(codeIds[id])
        /\ codeIds[id] \in resolved[k].owners
    BY <1>2, <1>8 DEF Leads
  <2> PICK h : h = codeIds[id]
    OBVIOUS
  <2>2. h \notin reused
    BY <2>1
  <2>3. PICK g \in DOMAIN live : /\ live[g].known /\ resolved[k].owners = {g, live[g].library}
                                 /\ resolved[k].code = live[g].code
    BY <1>2 DEF KernelOwners
  <2>4. h = live[g].library /\ live[h].known /\ live[h].code = resolved[k].code
    BY <2>1, <2>3 DEF Families, Root
  <2>5. PICK i \in DOMAIN codeIds : Names(i, h)
    BY <2>1, <2>2, <2>4 DEF Registered, Root
  <2>6. i = id
    BY <2>1, <2>5 DEF Names, Taken
  <2>7. \A c \in 1..loads : SentUnder(id, c) <=> c = resolved[k].code /\ c \notin unread
    BY <2>4, <2>5, <2>6 DEF Names
  <2>8. id # Unknown
    <3>1. DOMAIN codeIds = 1..Len(codeIds) /\ Len(codeIds) \in Nat
      BY LenProperties DEF Typed
    <3> QED  BY <2>1, <3>1, RegistryAssumption
  <2>9. \A c : c \in Named(queued', n) <=> SentUnder(id, c)
    <3>1. queued'[n].id = id
      BY <1>5, <1>6
    <3>2. \A c : c \in Named(queued', n) <=>
            \E j \in 1..(n - 1) : /\ queued'[j].type = "code" /\ queued'[j].id = id
                                  /\ queued'[j].code = c
      BY <3>1 DEF Named
    <3>3. \A j \in 1..(n - 1) : queued'[j] = queued[j]
      BY <1>6
    <3> HIDE DEF n
    <3> QED  BY <1>6, <3>2, <3>3 DEF SentUnder
  <2>10. \A c : SentUnder(id, c) => c \in 1..loads
    BY DEF SentUnder, Taken
  <2>11. resolved[k].code \in 1..loads
    BY <1>2, OwnersTyped
  <2> HIDE DEF n
  <2>12. Named(queued', n) = {resolved[k].code} \ unread
    BY <2>7, <2>9, <2>10, <2>11
  <2> QED  BY <1>8, <2>8, <2>12
<1> QED  BY <1>7, <1>8

LEMMA LaunchNamesKept ==
  ASSUME Typed, Taken, Families, HookShape, KernelOwners, Registered, Launching,
         LaunchNamesItsCode, RegistryNext
  PROVE  LaunchNamesItsCode'
<1>1. Ages
  BY Remains
<1>2. \A n \in DOMAIN queued : Truthful(queued, unread, n)
  BY LaunchNamesByQueue
<1>3. ASSUME NEW n \in DOMAIN queued
      PROVE  Truthful(queued', unread', n)
  <2>1. DOMAIN queued = 1..Len(queued) /\ Len(queued) \in Nat
    BY LenProperties DEF Typed
  <2>2. \A j \in 1..n : j \in DOMAIN queued
    BY <2>1
  <2>3. \A j \in 1..n : queued'[j] = queued[j]
    BY <2>2, QueuedAfter
  <2>4. n \in 1..n /\ \A j \in 1..(n - 1) : j \in 1..n
    BY <2>1
  <2>5. queued'[n] = queued[n] /\ \A j \in 1..(n - 1) : queued'[j] = queued[j]
    BY <2>3, <2>4
  <2>6. Named(queued', n) = Named(queued, n)
    BY <2>5 DEF Named
  <2>7. {queued[n].code} \ unread' = {queued[n].code} \ unread
    BY <1>1 DEF Taken, Ages
  <2> QED  BY <1>2, <2>5, <2>6, <2>7 DEF Truthful
<1>4. ASSUME NEW n \in DOMAIN queued', n \notin DOMAIN queued
      PROVE  Truthful(queued', unread', n)
  <2>1. PICK t \in AppThreads :
          /\ n = Len(queued) + 1
          /\ \/ queued'[n].type = "code"
             \/ QueueLaunch(t)
    <3> DEFINE m == Len(queued) + 1
    <3>1. PICK t \in AppThreads :
            /\ DOMAIN queued' = DOMAIN queued \cup {m}
            /\ \/ queued'[m] = [type |-> "code", id |-> hook[t].id, code |-> hook[t].code]
               \/ QueueLaunch(t)
      BY <1>4, QueuedAfter
    <3>2. n = m
      BY <1>4, <3>1
    <3> HIDE DEF m
    <3>3. queued'[n].type = "code" \/ QueueLaunch(t)
      BY <3>1, <3>2
    <3> QED  BY <3>2, <3>3 DEF m
  <2>2. CASE queued'[n].type = "code"
    BY <2>2 DEF Truthful
  <2>3. CASE QueueLaunch(t)
    BY <2>1, <2>3, NewLaunchTruthful
  <2> QED  BY <2>1, <2>2, <2>3
<1>5. \A n \in DOMAIN queued' : Truthful(queued', unread', n)
  BY <1>3, <1>4
<1> QED  BY <1>5 DEF LaunchNamesItsCode, Truthful, Named

-----------------------------------------------------------------------------
RegistryInv ==
  /\ Typed /\ Handed /\ Taken /\ Families /\ KernelOwners /\ Registered
  /\ HookShape /\ OneLoader /\ KernelsMapped /\ Launching
  /\ LaunchNamesItsCode

LEMMA RegistryInvInit ==
  ASSUME RegistryInit
  PROVE  RegistryInv
<1>1. /\ DOMAIN live = {} /\ DOMAIN resolved = {} /\ DOMAIN moduleLibrary = {}
      /\ DOMAIN kernelMap = {} /\ DOMAIN codeIds = {} /\ DOMAIN queued = {}
  BY DEF RegistryInit
<1>2. \A t \in AppThreads : hook[t] = Idle /\ hook[t].at = "idle"
  BY DEF RegistryInit, Idle
<1>3. Typed
  <2>1. codeIds \in Seq(Owners) /\ queued \in Seq(CodeEvent \cup LaunchEvent)
    BY DEF RegistryInit
  <2>2. hook \in [AppThreads -> Hook] /\ loads \in Nat /\ unread \subseteq 1..loads
    BY DEF RegistryInit, Hook
  <2>3. /\ live \in [DOMAIN live -> [code : 1..loads, kind : {"module", "library"},
                                     library : Owners, known : BOOLEAN]]
        /\ resolved \in [DOMAIN resolved -> [code : 1..loads, owners : SUBSET Owners,
                                             known : BOOLEAN, hooked : BOOLEAN]]
        /\ moduleLibrary \in [DOMAIN moduleLibrary -> Owners]
        /\ kernelMap \in [DOMAIN kernelMap -> Ids]
    BY <1>1 DEF RegistryInit
  <2> QED  BY <1>1, <2>1, <2>2, <2>3 DEF Typed
<1>4. Handed /\ Taken /\ Families /\ KernelOwners /\ Registered /\ KernelsMapped
  BY <1>1 DEF Handed, Taken, Families, KernelOwners, Registered, KernelsMapped
<1>5. HookShape /\ OneLoader /\ Launching
  BY <1>2 DEF HookShape, OneLoader, Launching, AtRegister, AtOnce, AtSend, AtMap, AtName,
              AtLaunch, Loading
<1>6. LaunchNamesItsCode
  BY <1>1 DEF LaunchNamesItsCode
<1> QED  BY <1>3, <1>4, <1>5, <1>6 DEF RegistryInv

LEMMA RegistryInvKept ==
  ASSUME RegistryInv, [RegistryNext]_registryVars
  PROVE  RegistryInv'
<1>1. CASE RegistryNext
  <2> USE <1>1
  <2>1. /\ Typed /\ Handed /\ Taken /\ Families /\ KernelOwners /\ Registered
        /\ HookShape /\ OneLoader /\ KernelsMapped /\ Launching
        /\ LaunchNamesItsCode
    BY DEF RegistryInv
  <2>2. Typed'
    BY <2>1, TypedKept
  <2>3. Handed' /\ Taken' /\ Families' /\ KernelOwners'
    BY <2>1, HandedKept, TakenKept, FamiliesKept, KernelOwnersKept
  <2>4. Registered' /\ HookShape' /\ Launching' /\ OneLoader' /\ KernelsMapped'
    BY <2>1, RegisteredKept, HooksKept, OneLoaderKept, KernelsMappedKept
  <2>5. LaunchNamesItsCode'
    BY <2>1, LaunchNamesKept
  <2> QED  BY <2>2, <2>3, <2>4, <2>5 DEF RegistryInv
<1>2. CASE UNCHANGED registryVars
  <2>1. UNCHANGED <<live, resolved, loads, unread, given, reused, hook, codeIds,
                    moduleLibrary, kernelMap, queued>>
    BY <1>2 DEF registryVars, driverVars
  <2>2. Typed' /\ Handed' /\ Taken'
    BY <2>1 DEF RegistryInv, Typed, Handed, Taken
  <2>3. Families' /\ KernelOwners' /\ OneLoader'
    BY <2>1 DEF RegistryInv, Families, Root, KernelOwners, OneLoader, Loading
  <2>4. Registered'
    BY <2>1 DEF RegistryInv, Registered, Names, SentUnder, Root
  <2>5. HookShape'
    BY <2>1 DEF RegistryInv, HookShape, AtRegister, AtOnce, AtSend, AtMap, AtName, Root,
                SentUnder
  <2>6. KernelsMapped' /\ Launching'
    BY <2>1 DEF RegistryInv, KernelsMapped, Launching, AtLaunch, Leads, Root
  <2>7. LaunchNamesItsCode'
    BY <2>1 DEF RegistryInv, LaunchNamesItsCode
  <2> QED  BY <2>2, <2>3, <2>4, <2>5, <2>6, <2>7 DEF RegistryInv
<1> QED  BY <1>1, <1>2

(* Whatever the threads load, unload, resolve and launch side by side, and *)
(* whichever handles the driver gives out again: an undoubtful launch      *)
(* carries the id under which its code, and nothing else, was queued       *)
(* before it (register_code_handle, get_code_id_locked, send_kernel_launch)*)
THEOREM LaunchesNameTheirCode == RegistrySpec => []LaunchNamesItsCode
<1>1. RegistryInv => LaunchNamesItsCode
  BY DEF RegistryInv
<1> QED  BY <1>1, RegistryInvInit, RegistryInvKept, PTL DEF RegistrySpec

(***************************************************************************)
(* The readers of frames.                                                  *)
(***************************************************************************)
(* What is on its way: the units this read has, then those of the stream.  *)
Unit == Nat \X Nat
Line == got \o stream

(* A line of units has no gap: the units of one frame follow each other,   *)
(* then comes the next frame.  Said of any two units, so that no induction *)
(* is needed to speak of a whole frame.                                    *)
LastOf(f, sz) == HeaderUnits + sz[f]
Whole(line, sz) ==
  /\ \A i \in DOMAIN line :
       line[i][1] \in DOMAIN sz /\ line[i][2] \in 1..LastOf(line[i][1], sz)
  /\ \A i, j \in DOMAIN line : i <= j =>
       IF line[i][2] + (j - i) <= LastOf(line[i][1], sz)
       THEN line[j] = <<line[i][1], line[i][2] + (j - i)>>
       ELSE line[j][1] > line[i][1]
  /\ \A i \in DOMAIN line :
       i + 1 \in DOMAIN line /\ line[i][2] = LastOf(line[i][1], sz)
         => line[i + 1] = <<line[i][1] + 1, 1>>

FrameTyped ==
  /\ side \in {"processor", "collector"}
  /\ sizes \in Seq(FrameSizes) /\ stream \in Seq(Unit)
  /\ writer \in {"open", "gone"}
  /\ reading \in {"length", "payload", "closed"}
  /\ wanted \in Nat /\ got \in Seq(Unit) /\ frames \in Seq(Nat)
  /\ reading = "length" => wanted = HeaderUnits
  /\ reading # "closed" => Len(got) < wanted

(* While the writer is there, the line ends with the end of a frame.       *)
LineEnds ==
  writer = "open" /\ Line # <<>>
    => Line[Len(Line)] = <<Len(sizes), LastOf(Len(sizes), sizes)>>

(* What was handed on is behind the line.                                  *)
Behind ==
  /\ \A i \in DOMAIN frames : frames[i] \in DOMAIN sizes
  /\ \A i, j \in DOMAIN frames : i < j => frames[i] < frames[j]
  /\ \A i \in DOMAIN frames, k \in DOMAIN Line : frames[i] < Line[k][1]

(* Without a timeout inside a frame the reader knows where it is.          *)
InStep ==
  cut = {} =>
    /\ \A i \in DOMAIN frames : frames[i] = i
    /\ reading = "closed" => writer = "gone"
    /\ reading = "length" =>
         /\ Line # <<>> => Line[1] = <<Len(frames) + 1, 1>>
         /\ Line = <<>> /\ writer = "open" => Len(frames) = Len(sizes)
    /\ reading = "payload" =>
         /\ Len(frames) + 1 \in DOMAIN sizes
         /\ wanted = sizes[Len(frames) + 1]
         /\ Line # <<>> => Line[1] = <<Len(frames) + 1, HeaderUnits + 1>>
         /\ writer = "open" => Line # <<>>

GivesUp == side = "collector" /\ "payload" \in cut => reading = "closed"

FrameInv ==
  FrameTyped /\ Whole(Line, sizes) /\ LineEnds /\ Behind /\ InStep /\ GivesUp

-----------------------------------------------------------------------------
(* A piece of a whole line is whole.                                       *)
LEMMA Piece ==
  ASSUME NEW sz \in Seq(FrameSizes), NEW line \in Seq(Unit), Whole(line, sz),
         NEW part \in Seq(Unit), NEW d \in Nat,
         \A i \in DOMAIN part : i + d \in DOMAIN line /\ part[i] = line[i + d]
  PROVE  Whole(part, sz)
<1>0. /\ \A i \in DOMAIN part : i \in Nat /\ part[i] \in Unit
      /\ DOMAIN part \subseteq Nat /\ DOMAIN line \subseteq Nat
  BY ElementOfSeq
<1>1. \A i \in DOMAIN part :
        part[i][1] \in DOMAIN sz /\ part[i][2] \in 1..LastOf(part[i][1], sz)
  BY DEF Whole
<1>2. ASSUME NEW i \in DOMAIN part, NEW j \in DOMAIN part, i <= j
      PROVE  IF part[i][2] + (j - i) <= LastOf(part[i][1], sz)
             THEN part[j] = <<part[i][1], part[i][2] + (j - i)>>
             ELSE part[j][1] > part[i][1]
  <2>1. i + d <= j + d /\ (j + d) - (i + d) = j - i
    BY <1>0, <1>2
  <2>2. /\ i + d \in DOMAIN line /\ j + d \in DOMAIN line
        /\ part[i] = line[i + d] /\ part[j] = line[j + d]
    OBVIOUS
  <2>3. IF line[i + d][2] + ((j + d) - (i + d)) <= LastOf(line[i + d][1], sz)
        THEN line[j + d] = <<line[i + d][1], line[i + d][2] + ((j + d) - (i + d))>>
        ELSE line[j + d][1] > line[i + d][1]
    BY <2>1, <2>2 DEF Whole
  <2> QED BY <2>1, <2>2, <2>3
<1>3. ASSUME NEW i \in DOMAIN part, i + 1 \in DOMAIN part,
             part[i][2] = LastOf(part[i][1], sz)
      PROVE  part[i + 1] = <<part[i][1] + 1, 1>>
  <2>1. (i + 1) + d = (i + d) + 1
    BY <1>0
  <2> QED BY <1>3, <2>1 DEF Whole
<1> QED BY <1>1, <1>2, <1>3 DEF Whole

(* A frame written behind a line that ends with a frame leaves it whole.   *)
LEMMA Extension ==
  ASSUME NEW sz \in Seq(FrameSizes), NEW line \in Seq(Unit), Whole(line, sz),
         line # <<>> => line[Len(line)] = <<Len(sz), LastOf(Len(sz), sz)>>,
         NEW size \in FrameSizes,
         NEW longer \in Seq(Unit), Len(longer) = Len(line) + HeaderUnits + size,
         \A i \in 1..Len(line) : longer[i] = line[i],
         \A p \in 1..(HeaderUnits + size) :
           longer[Len(line) + p] = <<Len(sz) + 1, p>>
  PROVE  /\ Whole(longer, Append(sz, size))
         /\ longer[Len(longer)] = <<Len(sz) + 1, LastOf(Len(sz) + 1, Append(sz, size))>>
<1> DEFINE n == Len(line)
           f == Len(sz) + 1
           bigger == Append(sz, size)
           new == (n + 1)..(n + HeaderUnits + size)
<1>a. n \in Nat /\ f \in Nat \ {0} /\ DOMAIN line = 1..n /\ DOMAIN sz = 1..(f - 1)
  BY LenProperties
<1>b. size \in Nat \ {0} /\ HeaderUnits \in Nat \ {0}
  BY FrameAssumption
<1>c. DOMAIN longer = 1..(n + HeaderUnits + size)
  BY LenProperties
<1>d. \A x \in 1..(f - 1) : sz[x] \in Nat
  <2>1. \A x \in 1..(f - 1) : sz[x] \in FrameSizes
    BY <1>a, ElementOfSeq
  <2> QED BY <2>1, FrameAssumption
<1>e. /\ DOMAIN bigger = 1..f /\ bigger[f] = size
      /\ \A x \in 1..(f - 1) : bigger[x] = sz[x]
  BY AppendProperties
<1>f. \A x \in 1..(f - 1) : /\ LastOf(x, bigger) = LastOf(x, sz)
                           /\ LastOf(x, sz) \in Nat
  <2> SUFFICES ASSUME NEW x \in 1..(f - 1)
               PROVE  LastOf(x, bigger) = LastOf(x, sz) /\ LastOf(x, sz) \in Nat
    OBVIOUS
  <2>1. bigger[x] = sz[x] /\ sz[x] \in Nat
    BY <1>d, <1>e
  <2> HIDE DEF bigger
  <2> QED BY <2>1, <1>b, SMTT(30) DEF LastOf
<1>g. LastOf(f, bigger) = HeaderUnits + size
  BY <1>e DEF LastOf
<1>1. \A i \in 1..n :
        /\ line[i][1] \in 1..(f - 1) /\ line[i][1] \in Nat /\ line[i][2] \in Nat
        /\ line[i][2] \in 1..LastOf(line[i][1], sz)
        /\ LastOf(line[i][1], bigger) = LastOf(line[i][1], sz)
        /\ LastOf(line[i][1], sz) \in Nat
        /\ longer[i] = line[i]
  <2>2. \A i \in 1..n : line[i][1] \in Nat /\ line[i][2] \in Nat
    BY <1>a, ElementOfSeq DEF Unit
  <2>3. \A i \in 1..n : /\ line[i][1] \in 1..(f - 1)
                       /\ line[i][2] \in 1..LastOf(line[i][1], sz)
    BY <1>a DEF Whole
  <2> QED BY <2>2, <2>3, <1>f
<1>2. \A i \in new : longer[i] = <<f, i - n>> /\ i - n \in 1..(HeaderUnits + size)
  <2>1. ASSUME NEW i \in new
        PROVE  longer[i] = <<f, i - n>> /\ i - n \in 1..(HeaderUnits + size)
    <3>1. i - n \in 1..(HeaderUnits + size) /\ n + (i - n) = i
      BY <1>a, <1>b
    <3> QED BY <3>1
  <2> QED BY <2>1
<1>3. /\ \A i \in DOMAIN longer : i \in 1..n \/ i \in new
      /\ new \subseteq DOMAIN longer
  BY <1>a, <1>b, <1>c
<1>l. n >= 1 => n \in 1..n /\ line[n] = <<f - 1, LastOf(f - 1, sz)>>
  BY <1>a, EmptySeq
<1>m. new = (n + 1)..(n + HeaderUnits + size)
  OBVIOUS
<1> HIDE DEF n, f, bigger, new
<1>4. \A i \in DOMAIN longer :
        /\ longer[i][1] \in DOMAIN bigger
        /\ longer[i][2] \in 1..LastOf(longer[i][1], bigger)
  <2> SUFFICES ASSUME NEW i \in DOMAIN longer
               PROVE  /\ longer[i][1] \in DOMAIN bigger
                      /\ longer[i][2] \in 1..LastOf(longer[i][1], bigger)
    OBVIOUS
  <2>1. CASE i \in 1..n
    <3>1. longer[i][1] \in 1..(f - 1) /\ 1..(f - 1) \subseteq 1..f
      BY <1>a, <1>1, <2>1
    <3>2. longer[i][2] \in 1..LastOf(longer[i][1], bigger)
      BY <1>1, <2>1
    <3> QED BY <1>e, <3>1, <3>2
  <2>2. CASE i \in new
    <3>1. longer[i][1] = f /\ longer[i][2] \in 1..(HeaderUnits + size)
      BY <1>2, <2>2
    <3>2. f \in 1..f
      BY <1>a
    <3> QED BY <1>e, <1>g, <3>1, <3>2
  <2> QED BY <1>3, <2>1, <2>2
<1>6. ASSUME NEW i \in 1..n
      PROVE  line[i][2] + (n - i) >= LastOf(line[i][1], sz)
  <2>1. n \in 1..n /\ i <= n /\ line[n] = <<f - 1, LastOf(f - 1, sz)>>
        /\ i \in Int /\ n >= 1
    BY <1>a, <1>l
  <2>2. /\ line[i][2] \in Nat /\ LastOf(line[i][1], sz) \in Nat
    BY <1>1
  <2>3. CASE line[i][2] + (n - i) <= LastOf(line[i][1], sz)
    <3>1. line[n] = <<line[i][1], line[i][2] + (n - i)>>
      BY <1>a, <2>1, <2>3 DEF Whole
    <3>2. line[i][1] = f - 1 /\ line[i][2] + (n - i) = LastOf(f - 1, sz)
      BY <2>1, <3>1
    <3> QED BY <2>2, <3>2
  <2>4. CASE ~(line[i][2] + (n - i) <= LastOf(line[i][1], sz))
    BY <1>a, <2>1, <2>2, <2>4
  <2> QED BY <2>3, <2>4
<1>7. ASSUME NEW i \in DOMAIN longer, NEW j \in DOMAIN longer, i <= j
      PROVE  IF longer[i][2] + (j - i) <= LastOf(longer[i][1], bigger)
             THEN longer[j] = <<longer[i][1], longer[i][2] + (j - i)>>
             ELSE longer[j][1] > longer[i][1]
  <2>0. i \in Int /\ j \in Int
    BY <1>c
  <2>1. CASE j \in 1..n
    <3>1. i \in 1..n
      BY <1>a, <1>c, <1>7, <2>1
    <3>2. IF line[i][2] + (j - i) <= LastOf(line[i][1], sz)
          THEN line[j] = <<line[i][1], line[i][2] + (j - i)>>
          ELSE line[j][1] > line[i][1]
      BY <1>a, <1>7, <2>1, <3>1 DEF Whole
    <3>3. /\ LastOf(line[i][1], bigger) = LastOf(line[i][1], sz)
          /\ longer[i] = line[i] /\ longer[j] = line[j]
      BY <1>1, <2>1, <3>1
    <3> QED BY <3>2, <3>3
  <2>2. CASE i \in 1..n /\ j \in new
    <3>0. /\ line[i][2] \in Nat /\ LastOf(line[i][1], sz) \in Nat
          /\ LastOf(line[i][1], bigger) = LastOf(line[i][1], sz)
          /\ longer[i] = line[i] /\ line[i][1] \in 1..(f - 1)
      BY <1>1, <2>2
    <3>1. ~(line[i][2] + (j - i) <= LastOf(line[i][1], sz))
      <4>1. j > n
        BY <1>a, <2>2, <1>m, <1>b
      <4>2. line[i][2] + (n - i) >= LastOf(line[i][1], sz)
        BY <1>6, <2>2
      <4> QED BY <1>a, <2>0, <3>0, <4>1, <4>2, SMTT(30)
    <3>2. longer[j][1] = f /\ longer[i][1] < f
      BY <1>a, <3>0, <1>2, <2>2
    <3>3. longer[j][1] > longer[i][1]
      BY <3>2, <3>0, <1>a
    <3> QED BY <3>0, <3>1, <3>3
  <2>3. CASE i \in new /\ j \in new
    <3>1. longer[i] = <<f, i - n>> /\ longer[j] = <<f, j - n>>
      BY <1>2, <2>3
    <3>2. (i - n) + (j - i) = j - n /\ j - n <= HeaderUnits + size
      BY <1>a, <1>b, <2>0, <1>m, <2>3, SMTT(30)
    <3> QED BY <1>g, <3>1, <3>2
  <2>4. ~(i \in new /\ j \in 1..n)
    BY <1>a, <1>b, <1>m, <1>7, <2>0
  <2> QED BY <1>3, <2>1, <2>2, <2>3, <2>4
<1>8. ASSUME NEW i \in DOMAIN longer, i + 1 \in DOMAIN longer,
             longer[i][2] = LastOf(longer[i][1], bigger)
      PROVE  longer[i + 1] = <<longer[i][1] + 1, 1>>
  <2>0. i \in Int
    BY <1>c
  <2>1. CASE i \in 1..n /\ i + 1 \in 1..n
    <3>1. /\ LastOf(line[i][1], bigger) = LastOf(line[i][1], sz)
          /\ longer[i] = line[i] /\ longer[i + 1] = line[i + 1]
      BY <1>1, <2>1
    <3>2. i \in DOMAIN line /\ i + 1 \in DOMAIN line
      BY <1>a, <2>1
    <3>3. line[i][2] = LastOf(line[i][1], sz)
      BY <1>8, <3>1
    <3>4. line[i + 1] = <<line[i][1] + 1, 1>>
      BY <3>2, <3>3 DEF Whole
    <3> QED BY <3>1, <3>4
  <2>2. CASE i = n /\ n >= 1
    <3>1. n \in 1..n /\ line[n] = <<f - 1, LastOf(f - 1, sz)>>
      BY <1>l, <2>2
    <3>2. n + 1 \in new /\ (n + 1) - n = 1
      BY <1>a, <1>b, <1>m
    <3>3. longer[n + 1] = <<f, 1>>
      BY <1>2, <3>2
    <3>4. longer[n][1] = f - 1 /\ (f - 1) + 1 = f
      BY <1>a, <1>1, <3>1
    <3> QED BY <2>2, <3>3, <3>4
  <2>3. CASE i \in new
    <3>1. longer[i] = <<f, i - n>>
      BY <1>2, <2>3
    <3>2. i - n = HeaderUnits + size
      BY <1>g, <1>8, <3>1
    <3> QED BY <1>a, <1>b, <1>c, <1>8, <2>0, <3>2
  <2>4. \/ i \in 1..n /\ i + 1 \in 1..n
        \/ i = n /\ n >= 1
        \/ i \in new
    <3>1. i \in 1..n => i + 1 \in 1..n \/ (i = n /\ n >= 1)
      BY <1>a
    <3> QED BY <1>3, <3>1
  <2> QED BY <2>1, <2>2, <2>3, <2>4
<1>9. Whole(longer, bigger)
  BY <1>4, <1>7, <1>8 DEF Whole
<1>10. longer[Len(longer)] = <<f, LastOf(f, bigger)>>
  <2>1. Len(longer) = n + HeaderUnits + size
    BY DEF n
  <2>2. /\ n + HeaderUnits + size \in new
        /\ (n + HeaderUnits + size) - n = HeaderUnits + size
    BY <1>a, <1>b, <1>m
  <2> QED BY <1>g, <1>2, <2>1, <2>2
<1> QED BY <1>9, <1>10 DEF f, bigger

-----------------------------------------------------------------------------
(* A read moves units from the stream into the reader's hand.              *)
LEMMA UnitsTaken ==
  ASSUME NEW g \in Seq(Unit), NEW s \in Seq(Unit), NEW n \in 1..Len(s)
  PROVE  LET u    == g \o SubSeq(s, 1, n)
             rest == SubSeq(s, n + 1, Len(s))
         IN  /\ u \in Seq(Unit) /\ Len(u) = Len(g) + n
             /\ rest \in Seq(Unit) /\ Len(rest) = Len(s) - n
             /\ \A i \in 1..Len(u) : u[i] = (g \o s)[i]
             /\ \A i \in 1..Len(rest) : rest[i] = (g \o s)[i + Len(u)]
             /\ u \o rest = g \o s
<1> DEFINE a == SubSeq(s, 1, n)
           u == g \o a
           rest == SubSeq(s, n + 1, Len(s))
           line == g \o s
<1>1. /\ Len(g) \in Nat /\ Len(s) \in Nat /\ n \in Nat /\ n >= 1 /\ n <= Len(s)
  BY LenProperties
<1>2. /\ a \in Seq(Unit) /\ Len(a) = n /\ \A i \in 1..n : a[i] = s[i]
  <2>1. 1 - 1 + n = n /\ 1 \in 1..(Len(s) + 1)
    BY <1>1
  <2>2. /\ \A i \in 1..n : i \in 1..Len(s)
        /\ \A i \in 1..n : 1 + i - 1 = i
    BY <1>1
  <2> QED BY <1>1, <2>1, <2>2, SubSeqProperties
<1>3. /\ rest \in Seq(Unit) /\ Len(rest) = Len(s) - n
      /\ \A i \in 1..(Len(s) - n) : rest[i] = s[i + n]
  <2>1. /\ n + 1 \in Int /\ Len(s) \in Int /\ Len(s) - (n + 1) + 1 = Len(s) - n
        /\ ~(n + 1 <= Len(s)) => Len(s) - n = 0
    BY <1>1
  <2>2. \A i \in 1..(Len(s) - n) : n + 1 + i - 1 = i + n
    BY <1>1
  <2>3. /\ rest \in Seq(Unit)
        /\ Len(rest) = (IF n + 1 <= Len(s) THEN Len(s) - (n + 1) + 1 ELSE 0)
        /\ \A i \in 1..(Len(s) - (n + 1) + 1) : rest[i] = s[n + 1 + i - 1]
    <3>1. \A k \in (n + 1)..Len(s) : s[k] \in Unit
      BY <1>1, ElementOfSeq
    <3> DEFINE m == n + 1
               k == Len(s)
    <3>2. m \in Int /\ k \in Int /\ \A i \in m..k : s[i] \in Unit
      BY <2>1, <3>1
    <3> HIDE DEF m, k
    <3>3. /\ SubSeq(s, m, k) \in Seq(Unit)
          /\ Len(SubSeq(s, m, k)) = IF m <= k THEN k - m + 1 ELSE 0
          /\ \A i \in 1..(k - m + 1) : SubSeq(s, m, k)[i] = s[m + i - 1]
      BY <3>2, SubSeqProperties
    <3> QED BY <3>3 DEF m, k
  <2> HIDE DEF rest
  <2>4. Len(rest) = Len(s) - n
    BY <2>1, <2>3
  <2>5. \A i \in 1..(Len(s) - n) : rest[i] = s[i + n]
    BY <2>1, <2>2, <2>3
  <2> QED BY <2>3, <2>4, <2>5
<1> HIDE DEF a, rest
<1>4. /\ u \in Seq(Unit) /\ Len(u) = Len(g) + n
      /\ \A i \in 1..Len(g) : u[i] = g[i]
      /\ \A i \in 1..n : u[Len(g) + i] = a[i]
  <2>1. /\ \A i \in 1..n : Len(g) + i \in 1..(Len(g) + n) /\ ~(Len(g) + i <= Len(g))
        /\ \A i \in 1..n : (Len(g) + i) - Len(g) = i
    BY <1>1
  <2>2. \A i \in 1..Len(g) : i \in 1..(Len(g) + n) /\ i <= Len(g)
    BY <1>1
  <2> QED BY <1>2, <2>1, <2>2, ConcatProperties
<1>5. /\ line \in Seq(Unit) /\ Len(line) = Len(g) + Len(s)
      /\ \A i \in 1..Len(g) : line[i] = g[i]
      /\ \A i \in 1..Len(s) : line[Len(g) + i] = s[i]
  <2>1. /\ \A i \in 1..Len(s) : Len(g) + i \in 1..(Len(g) + Len(s)) /\ ~(Len(g) + i <= Len(g))
        /\ \A i \in 1..Len(s) : (Len(g) + i) - Len(g) = i
    BY <1>1
  <2>2. \A i \in 1..Len(g) : i \in 1..(Len(g) + Len(s)) /\ i <= Len(g)
    BY <1>1
  <2> QED BY <2>1, <2>2, ConcatProperties
<1> HIDE DEF u, line
<1>6. ASSUME NEW i \in 1..Len(u)
      PROVE  u[i] = line[i]
  <2>1. CASE i \in 1..Len(g)
    BY <1>4, <1>5, <2>1
  <2>2. CASE i \notin 1..Len(g)
    <3>1. i - Len(g) \in 1..n /\ i - Len(g) \in 1..Len(s) /\ Len(g) + (i - Len(g)) = i
      BY <1>1, <1>4, <2>2
    <3> QED BY <1>2, <1>4, <1>5, <3>1, ZenonT(60)
  <2> QED BY <2>1, <2>2
<1>7. ASSUME NEW i \in 1..Len(rest)
      PROVE  rest[i] = line[i + Len(u)]
  <2>1. /\ i \in 1..(Len(s) - n) /\ i + n \in 1..Len(s)
        /\ Len(g) + (i + n) = i + Len(u)
    BY <1>1, <1>3, <1>4
  <2> QED BY <1>3, <1>5, <2>1
<1>8. u \o rest = line
  <2>1. /\ u \o rest \in Seq(Unit) /\ Len(u \o rest) = Len(u) + Len(rest)
        /\ \A i \in 1..(Len(u) + Len(rest)) :
             (u \o rest)[i] = IF i <= Len(u) THEN u[i] ELSE rest[i - Len(u)]
    BY <1>3, <1>4, ConcatProperties
  <2>2. Len(u \o rest) = Len(line)
    BY <1>1, <1>3, <1>4, <1>5, <2>1
  <2>3. ASSUME NEW i \in 1..Len(line)
        PROVE  (u \o rest)[i] = line[i]
    <3>1. i \in 1..(Len(u) + Len(rest)) /\ Len(u) \in Nat /\ i \in Nat
      BY <1>1, <1>3, <1>4, <1>5
    <3>2. CASE i <= Len(u)
      BY <1>6, <2>1, <3>1, <3>2
    <3>3. CASE ~(i <= Len(u))
      <4>1. i - Len(u) \in 1..Len(rest) /\ (i - Len(u)) + Len(u) = i
        BY <1>1, <1>3, <3>1, <3>3
      <4> QED BY <1>7, <2>1, <3>1, <3>3, <4>1
    <3> QED BY <3>2, <3>3
  <2> QED BY <1>5, <2>1, <2>2, <2>3, SeqEqual
<1> QED BY <1>3, <1>4, <1>6, <1>7, <1>8 DEF u, rest, a, line

(* The line: first what is in hand, then the stream.                       *)
LEMMA LineSplit ==
  ASSUME NEW g \in Seq(Unit), NEW s \in Seq(Unit)
  PROVE  /\ g \o s \in Seq(Unit) /\ Len(g \o s) = Len(g) + Len(s)
         /\ \A i \in 1..Len(g) : (g \o s)[i] = g[i]
         /\ \A i \in 1..Len(s) : (g \o s)[Len(g) + i] = s[i]
         /\ <<>> \o s = s
         /\ g \o s = <<>> <=> g = <<>> /\ s = <<>>
<1>1. Len(g) \in Nat /\ Len(s) \in Nat
  BY LenProperties
<1>2. /\ \A i \in 1..Len(s) : /\ Len(g) + i \in 1..(Len(g) + Len(s))
                             /\ ~(Len(g) + i <= Len(g)) /\ (Len(g) + i) - Len(g) = i
      /\ \A i \in 1..Len(g) : i \in 1..(Len(g) + Len(s)) /\ i <= Len(g)
  BY <1>1
<1>3. /\ g \o s \in Seq(Unit) /\ Len(g \o s) = Len(g) + Len(s)
      /\ \A i \in 1..Len(g) : (g \o s)[i] = g[i]
      /\ \A i \in 1..Len(s) : (g \o s)[Len(g) + i] = s[i]
  BY <1>2, ConcatProperties
<1>4. <<>> \o s = s
  BY ConcatEmptySeq
<1>5. g \o s = <<>> <=> g = <<>> /\ s = <<>>
  <2>1. Len(g \o s) = 0 <=> Len(g) = 0 /\ Len(s) = 0
    BY <1>1, <1>3
  <2> QED BY <1>3, <2>1, EmptySeq
<1> QED BY <1>3, <1>4, <1>5

-----------------------------------------------------------------------------
(* What the invariant says of the line, in numbers.                        *)
LEMMA LineFacts ==
  ASSUME FrameInv
  PROVE  /\ Line \in Seq(Unit) /\ Len(Line) \in Nat /\ DOMAIN Line = 1..Len(Line)
         /\ Len(sizes) \in Nat /\ DOMAIN sizes = 1..Len(sizes)
         /\ Len(frames) \in Nat /\ DOMAIN frames = 1..Len(frames)
         /\ Line # <<>> => Len(Line) >= 1
         /\ HeaderUnits \in Nat /\ HeaderUnits >= 1
         /\ \A f \in 1..Len(sizes) :
              sizes[f] \in FrameSizes /\ sizes[f] \in Nat /\ sizes[f] >= 1
         /\ \A k \in 1..Len(Line) :
              /\ Line[k] \in Unit /\ Line[k][1] \in Nat /\ Line[k][2] \in Nat
              /\ Line[k][1] \in 1..Len(sizes)
         /\ \A i \in 1..Len(frames) : frames[i] \in Nat
<1>1. Line \in Seq(Unit) /\ frames \in Seq(Nat) /\ sizes \in Seq(FrameSizes)
  BY LineSplit DEF FrameInv, FrameTyped, Line
<1> DEFINE line == Line
<1>a. Line = line
  OBVIOUS
<1> HIDE DEF line
<1>2. /\ Len(line) \in Nat /\ DOMAIN line = 1..Len(line)
      /\ Len(sizes) \in Nat /\ DOMAIN sizes = 1..Len(sizes)
      /\ Len(frames) \in Nat /\ DOMAIN frames = 1..Len(frames)
      /\ line # <<>> => Len(line) >= 1
  <2>1. line # <<>> => Len(line) \in Nat \ {0}
    BY <1>a, <1>1, EmptySeq
  <2> QED BY <1>a, <1>1, <2>1, LenProperties
<1>3. HeaderUnits \in Nat /\ HeaderUnits >= 1
  BY FrameAssumption
<1>4. \A f \in 1..Len(sizes) :
        sizes[f] \in FrameSizes /\ sizes[f] \in Nat /\ sizes[f] >= 1
  <2>1. \A f \in 1..Len(sizes) : sizes[f] \in FrameSizes
    BY <1>1, ElementOfSeq
  <2>2. \A x \in FrameSizes : x \in Nat /\ x >= 1
    BY FrameAssumption
  <2> QED BY <2>1, <2>2
<1>5. \A k \in 1..Len(line) :
        /\ line[k] \in Unit /\ line[k][1] \in Nat /\ line[k][2] \in Nat
        /\ line[k][1] \in 1..Len(sizes)
  <2>1. \A k \in 1..Len(line) : line[k] \in Unit
    BY <1>a, <1>1, ElementOfSeq
  <2>2. \A x \in Unit : x[1] \in Nat /\ x[2] \in Nat
    BY DEF Unit
  <2> QED BY <1>a, <1>2, <2>1, <2>2 DEF FrameInv, Whole
<1>6. \A i \in 1..Len(frames) : frames[i] \in Nat
  BY <1>1, ElementOfSeq
<1> QED BY <1>1, <1>a, <1>2, <1>3, <1>4, <1>5, <1>6

(* A step after which the reader holds nothing and the stream is what was  *)
(* left of the line keeps the line whole.                                  *)
Suffix(d) ==
  /\ got' = <<>> /\ stream' \in Seq(Unit) /\ Len(stream') = Len(Line) - d
  /\ \A k \in 1..Len(stream') : stream'[k] = Line[k + d]
  /\ UNCHANGED <<sizes, writer>>

LineRemains(d) ==
  /\ Line' = stream' /\ Len(Line') = Len(Line) - d /\ DOMAIN Line' = 1..Len(Line')
  /\ Len(Line') \in Nat
  /\ Line' # <<>> => Len(Line') >= 1
  /\ Len(Line') = 0 => Line' = <<>>
  /\ \A k \in 1..Len(Line') : /\ k + d \in 1..Len(Line) /\ Line'[k] = Line[k + d]
                             /\ Line'[k] \in Unit
  /\ Whole(Line', sizes') /\ LineEnds'

LEMMA SuffixRemains ==
  ASSUME FrameInv, NEW d \in Nat, Suffix(d)
  PROVE  LineRemains(d)
<1>1. /\ Line \in Seq(Unit) /\ Len(Line) \in Nat /\ DOMAIN Line = 1..Len(Line)
      /\ Whole(Line, sizes) /\ LineEnds /\ sizes \in Seq(FrameSizes)
  BY LineFacts DEF FrameInv, FrameTyped
<1>2. /\ Line' = stream' /\ stream' \in Seq(Unit) /\ Len(stream') = Len(Line) - d
      /\ sizes' = sizes /\ writer' = writer
      /\ \A k \in 1..Len(stream') : stream'[k] = Line[k + d]
  BY LineSplit DEF Suffix, Line
<1> DEFINE line == Line
           part == Line'
<1>3. part \in Seq(Unit) /\ Len(part) = Len(line) - d /\ DOMAIN part = 1..Len(part)
      /\ Len(part) \in Nat
  BY <1>2, LenProperties
<1>4. /\ part # <<>> => Len(part) \in Nat \ {0}
      /\ Len(part) = 0 => part = <<>>
  BY <1>3, EmptySeq
<1>5. \A k \in 1..Len(part) : part[k] = line[k + d] /\ part[k] \in Unit
  BY <1>2, <1>3, ElementOfSeq
<1>a. Line = line /\ Line' = part
  OBVIOUS
<1>b. Len(line) \in Nat
  BY <1>1
<1> HIDE DEF line, part
<1>6. \A k \in 1..Len(part) : k + d \in 1..Len(line)
  BY <1>3, <1>b
<1>7. Whole(part, sizes)
  BY <1>1, <1>a, <1>3, <1>5, <1>6, Piece
<1>8. LineEnds'
  <2> SUFFICES ASSUME writer' = "open", part # <<>>
               PROVE  part[Len(part)] = <<Len(sizes'), LastOf(Len(sizes'), sizes')>>
    BY <1>a DEF LineEnds
  <2>1. Len(part) \in 1..Len(part) /\ Len(part) + d = Len(line) /\ Len(line) >= 1
    BY <1>3, <1>4, <1>b
  <2>2. part[Len(part)] = line[Len(line)]
    BY <1>5, <2>1
  <2>3. line # <<>>
    <3>1. Len(<<>>) = 0
      BY EmptySeq
    <3> QED BY <2>1, <3>1
  <2> QED BY <1>1, <1>2, <1>a, <2>2, <2>3 DEF LineEnds
<1> QED BY <1>2, <1>3, <1>4, <1>5, <1>6, <1>7, <1>8, <1>a DEF LineRemains

(* Frames handed on stay behind what remains.                              *)
LEMMA RemainsBehind ==
  ASSUME FrameInv, NEW d \in Nat, LineRemains(d), UNCHANGED <<frames, sizes>>
  PROVE  Behind'
<1>1. DOMAIN Line = 1..Len(Line)
  BY LineFacts
<1>2. \A k \in DOMAIN Line' : k + d \in DOMAIN Line /\ Line'[k] = Line[k + d]
  BY <1>1 DEF LineRemains
<1>3. frames' = frames /\ sizes' = sizes
  OBVIOUS
<1>4. \A i \in DOMAIN frames, k \in DOMAIN Line' : frames[i] < Line'[k][1]
  BY <1>2 DEF FrameInv, Behind
<1> QED BY <1>3, <1>4 DEF FrameInv, Behind

-----------------------------------------------------------------------------
LEMMA InitInv == FrameInit => FrameInv
<1> SUFFICES ASSUME FrameInit PROVE FrameInv
  OBVIOUS
<1>1. /\ Line = <<>> /\ Len(<<>>) = 0 /\ DOMAIN Line = {} /\ DOMAIN frames = {}
      /\ <<>> \in Seq(FrameSizes) /\ <<>> \in Seq(Unit) /\ <<>> \in Seq(Nat)
      /\ Len(frames) = 0 /\ Len(sizes) = 0
  <2>1. Line = <<>>
    BY LineSplit, EmptySeq DEF FrameInit, Line
  <2> QED BY <2>1, EmptySeq, LenProperties DEF FrameInit
<1>2. FrameTyped
  BY <1>1, FrameAssumption DEF FrameInit, FrameTyped
<1>3. Whole(Line, sizes)
  BY <1>1 DEF Whole
<1> QED
  BY <1>1, <1>2, <1>3
  DEF FrameInv, FrameInit, LineEnds, Behind, InStep, GivesUp

LEMMA WriteFrameInv ==
  ASSUME FrameInv, NEW size \in FrameSizes, WriteFrame(size)
  PROVE  FrameInv'
<1> DEFINE new == [p \in 1..(HeaderUnits + size) |-> <<Len(sizes) + 1, p>>]
           line == Line
           longer == Line'
           n == Len(line)
           f == Len(sizes) + 1
<1>0. /\ side' = side /\ writer' = writer /\ writer = "open" /\ cut' = cut
      /\ reading' = reading /\ wanted' = wanted /\ got' = got /\ frames' = frames
      /\ sizes' = Append(sizes, size) /\ stream' = stream \o new
  BY DEF WriteFrame, readVars
<1>1. /\ line \in Seq(Unit) /\ n \in Nat /\ DOMAIN line = 1..n /\ HeaderUnits \in Nat
      /\ Len(sizes) \in Nat /\ DOMAIN sizes = 1..Len(sizes) /\ HeaderUnits >= 1
      /\ sizes \in Seq(FrameSizes) /\ got \in Seq(Unit) /\ stream \in Seq(Unit)
      /\ line # <<>> => n >= 1
      /\ Len(frames) \in Nat /\ DOMAIN frames = 1..Len(frames)
  BY LineFacts DEF FrameInv, FrameTyped
<1>2. size \in Nat /\ size >= 1
  BY FrameAssumption
<1>3. new \in Seq(Unit) /\ Len(new) = HeaderUnits + size
  <2>1. \A p \in 1..(HeaderUnits + size) : <<Len(sizes) + 1, p>> \in Unit
    BY <1>1 DEF Unit
  <2>2. HeaderUnits + size \in Nat
    BY <1>1, <1>2
  <2> QED BY <2>1, <2>2, IsASeq
<1>4. /\ longer = line \o new /\ stream' \in Seq(Unit)
      /\ longer \in Seq(Unit) /\ Len(longer) = n + HeaderUnits + size
  <2>1. stream' \in Seq(Unit) /\ longer = got \o (stream \o new)
    BY <1>0, <1>1, <1>3, LineSplit DEF Line
  <2>2. longer = line \o new
    <3> HIDE DEF new, longer
    <3>0. got \in Seq(Unit) /\ stream \in Seq(Unit) /\ new \in Seq(Unit)
      BY <1>1, <1>3
    <3>1. (got \o stream) \o new = got \o (stream \o new)
      BY <3>0, ConcatAssociative
    <3> QED BY <2>1, <3>1 DEF Line
  <2>3. longer \in Seq(Unit) /\ Len(longer) = n + Len(new)
    <3> HIDE DEF line, new, longer
    <3>1. line \o new \in Seq(Unit) /\ Len(line \o new) = Len(line) + Len(new)
      BY <1>1, <1>3, LineSplit
    <3> QED BY <2>2, <3>1
  <2> HIDE DEF line, new, longer
  <2> QED BY <1>1, <1>2, <1>3, <2>1, <2>2, <2>3
<1>5. /\ \A i \in 1..n : longer[i] = line[i]
      /\ \A p \in 1..(HeaderUnits + size) : longer[n + p] = <<f, p>>
  <2>1. \A p \in 1..(HeaderUnits + size) : new[p] = <<f, p>>
    OBVIOUS
  <2> HIDE DEF line, new, longer, f
  <2>2. /\ \A i \in 1..n : (line \o new)[i] = line[i]
        /\ \A p \in 1..Len(new) : (line \o new)[n + p] = new[p]
    BY <1>1, <1>3, LineSplit
  <2> QED BY <1>3, <1>4, <2>1, <2>2
<1>6. \A x \in 1..Len(sizes) : sizes'[x] = sizes[x]
  BY <1>0, <1>1, AppendProperties
<1>7. /\ sizes' \in Seq(FrameSizes) /\ Len(sizes') = f /\ DOMAIN sizes' = 1..f
  BY <1>0, <1>1, AppendProperties
<1>a. Line = line /\ Line' = longer
  OBVIOUS
<1>b. f = Len(sizes) + 1 /\ n = Len(line)
  OBVIOUS
<1>8. /\ Whole(longer, sizes')
      /\ longer[Len(longer)] = <<f, LastOf(f, sizes')>>
  <2>1. line # <<>> => line[Len(line)] = <<Len(sizes), LastOf(Len(sizes), sizes)>>
    BY <1>0 DEF FrameInv, LineEnds
  <2>2. Whole(line, sizes)
    BY DEF FrameInv
  <2>z. line = Line /\ longer = Line' /\ n = Len(line) /\ f = Len(sizes) + 1
    OBVIOUS
  <2> HIDE DEF line, longer
  <2>3. /\ Whole(longer, Append(sizes, size))
        /\ longer[Len(longer)] = <<f, LastOf(f, Append(sizes, size))>>
    BY <1>1, <1>4, <1>5, <2>1, <2>2, Extension
  <2> QED BY <1>0, <2>3
<1> HIDE DEF new, line, longer, n, f
<1>c. DOMAIN longer = 1..(n + HeaderUnits + size)
  BY <1>4, LenProperties
<1>d. \A k \in DOMAIN longer :
        \/ k \in 1..n /\ longer[k] = line[k]
        \/ longer[k][1] = f
  <2> SUFFICES ASSUME NEW k \in DOMAIN longer, k \notin 1..n
               PROVE  longer[k][1] = f
    BY <1>5
  <2>1. k - n \in 1..(HeaderUnits + size) /\ n + (k - n) = k
    BY <1>1, <1>2, <1>c
  <2> QED BY <1>5, <2>1
<1>9. FrameTyped'
  BY <1>0, <1>4, <1>7 DEF FrameInv, FrameTyped
<1>10. LineEnds'
  BY <1>7, <1>8, <1>a DEF LineEnds
<1>11. Behind'
  <2>1. \A i \in DOMAIN frames : frames[i] \in DOMAIN sizes' /\ frames[i] < f
    BY <1>1, <1>7, <1>b DEF FrameInv, Behind
  <2>2. \A i \in DOMAIN frames, k \in DOMAIN longer : frames[i] < longer[k][1]
    BY <1>1, <1>a, <1>d, <2>1 DEF FrameInv, Behind
  <2> QED BY <1>0, <1>a, <2>1, <2>2 DEF FrameInv, Behind
<1>12. InStep'
  <2> SUFFICES ASSUME cut = {} PROVE InStep'
    BY <1>0 DEF InStep
  <2>0. /\ \A i \in DOMAIN frames : frames[i] = i
        /\ reading # "closed"
        /\ reading = "length" =>
             /\ line # <<>> => line[1] = <<Len(frames) + 1, 1>>
             /\ line = <<>> => Len(frames) = Len(sizes)
        /\ reading = "payload" =>
             /\ Len(frames) + 1 \in DOMAIN sizes
             /\ wanted = sizes[Len(frames) + 1]
             /\ line # <<>> => line[1] = <<Len(frames) + 1, HeaderUnits + 1>>
             /\ line # <<>>
    BY <1>0, <1>a DEF FrameInv, InStep
  <2>1. longer # <<>>
    <3>1. Len(longer) # 0 /\ Len(<<>>) = 0
      BY <1>1, <1>2, <1>4, EmptySeq
    <3> QED BY <3>1
  <2>2. line # <<>> => longer[1] = line[1]
    <3>1. line # <<>> => 1 \in 1..n
      BY <1>1
    <3> QED BY <1>5, <3>1
  <2>3. line = <<>> => longer[1] = <<f, 1>>
    <3>1. line = <<>> => n = 0
      BY <1>b, EmptySeq
    <3>2. 1 \in 1..(HeaderUnits + size) /\ 0 + 1 = 1
      BY <1>1, <1>2
    <3> QED BY <1>5, <3>1, <3>2
  <2>4. ASSUME reading = "length"
        PROVE  longer[1] = <<Len(frames) + 1, 1>>
    BY <2>0, <2>2, <2>3, <2>4, <1>b
  <2>5. ASSUME reading = "payload"
        PROVE  /\ Len(frames) + 1 \in DOMAIN sizes'
               /\ wanted = sizes'[Len(frames) + 1]
               /\ longer[1] = <<Len(frames) + 1, HeaderUnits + 1>>
    <3>1. /\ Len(frames) + 1 \in DOMAIN sizes /\ wanted = sizes[Len(frames) + 1]
          /\ longer[1] = <<Len(frames) + 1, HeaderUnits + 1>>
      BY <2>0, <2>2, <2>5
    <3>2. DOMAIN sizes \subseteq DOMAIN sizes'
      BY <1>1, <1>7, <1>b
    <3> QED BY <1>1, <1>6, <3>1, <3>2
  <2> QED BY <1>0, <1>a, <2>0, <2>1, <2>4, <2>5 DEF InStep
<1>13. GivesUp'
  BY <1>0 DEF FrameInv, GivesUp
<1> QED BY <1>8, <1>9, <1>10, <1>11, <1>12, <1>13, <1>a DEF FrameInv

LEMMA WriterGoneInv ==
  ASSUME FrameInv, WriterGone
  PROVE  FrameInv'
<1>0. /\ side' = side /\ writer' = "gone" /\ cut' = cut /\ sizes' = sizes
      /\ reading' = reading /\ wanted' = wanted /\ got' = got /\ frames' = frames
  BY DEF WriterGone, readVars
<1>1. PICK m \in 0..Len(stream) : stream' = SubSeq(stream, 1, m)
  BY DEF WriterGone
<1>2. /\ got \in Seq(Unit) /\ stream \in Seq(Unit) /\ sizes \in Seq(FrameSizes)
      /\ Len(stream) \in Nat /\ Len(got) \in Nat
  BY LenProperties DEF FrameInv, FrameTyped
<1>3. /\ stream' \in Seq(Unit) /\ Len(stream') = m
      /\ \A i \in 1..m : stream'[i] = stream[i]
  <2>1. /\ \A i \in 1..m : stream[i] \in Unit /\ 1 + i - 1 = i
        /\ 1 \in Int /\ m \in Int
    BY <1>2, ElementOfSeq
  <2>2. /\ stream' \in Seq(Unit) /\ Len(stream') = IF 1 <= m THEN m - 1 + 1 ELSE 0
        /\ \A i \in 1..(m - 1 + 1) : stream'[i] = stream[1 + i - 1]
    BY <1>1, <2>1, SubSeqProperties
  <2>3. (IF 1 <= m THEN m - 1 + 1 ELSE 0) = m /\ m - 1 + 1 = m
    BY <1>2
  <2> QED BY <2>1, <2>2, <2>3
<1> DEFINE line == Line
           part == Line'
<1>4. /\ line \in Seq(Unit) /\ Len(line) = Len(got) + Len(stream)
      /\ \A i \in 1..Len(got) : line[i] = got[i]
      /\ \A i \in 1..Len(stream) : line[Len(got) + i] = stream[i]
  BY <1>2, LineSplit DEF Line
<1>5. /\ part \in Seq(Unit) /\ Len(part) = Len(got) + m
      /\ \A i \in 1..Len(got) : part[i] = got[i]
      /\ \A i \in 1..m : part[Len(got) + i] = stream[i]
  <2>1. part = got \o stream'
    BY <1>0 DEF Line
  <2> HIDE DEF part
  <2>2. /\ got \o stream' \in Seq(Unit) /\ Len(got \o stream') = Len(got) + Len(stream')
        /\ \A i \in 1..Len(got) : (got \o stream')[i] = got[i]
        /\ \A i \in 1..Len(stream') : (got \o stream')[Len(got) + i] = stream'[i]
    BY <1>2, <1>3, LineSplit
  <2> QED BY <1>3, <2>1, <2>2
<1>6. DOMAIN part = 1..(Len(got) + m) /\ DOMAIN line = 1..(Len(got) + Len(stream))
  BY <1>4, <1>5, LenProperties
<1>a. Line = line /\ Line' = part
  OBVIOUS
<1> HIDE DEF line, part
<1>7. \A k \in DOMAIN part : k \in DOMAIN line /\ part[k] = line[k] /\ k + 0 = k
  <2> SUFFICES ASSUME NEW k \in DOMAIN part
               PROVE  k \in DOMAIN line /\ part[k] = line[k] /\ k + 0 = k
    OBVIOUS
  <2>1. k \in DOMAIN line /\ k + 0 = k
    BY <1>2, <1>6
  <2>2. CASE k \in 1..Len(got)
    BY <1>4, <1>5, <2>2
  <2>3. CASE k \notin 1..Len(got)
    <3>1. /\ k - Len(got) \in 1..m /\ k - Len(got) \in 1..Len(stream)
          /\ Len(got) + (k - Len(got)) = k
      BY <1>2, <1>6, <2>3
    <3> QED BY <1>4, <1>5, <2>1, <3>1
  <2> QED BY <2>1, <2>2, <2>3
<1>8. Whole(part, sizes)
  <2>1. \A k \in DOMAIN part : k + 0 \in DOMAIN line /\ part[k] = line[k + 0]
    BY <1>7
  <2>2. Whole(line, sizes) /\ 0 \in Nat
    BY <1>a DEF FrameInv
  <2> QED BY <1>2, <1>4, <1>5, <2>1, <2>2, Piece
<1>9. FrameTyped'
  BY <1>0, <1>3 DEF FrameInv, FrameTyped
<1>10. LineEnds' /\ GivesUp'
  BY <1>0 DEF FrameInv, LineEnds, GivesUp
<1>11. Behind'
  BY <1>0, <1>7, <1>a DEF FrameInv, Behind
<1>12. InStep'
  <2>1. part # <<>> => line # <<>> /\ part[1] = line[1]
    <3>1. part # <<>> => 1 \in DOMAIN part
      <4>1. part # <<>> => Len(part) \in Nat \ {0}
        BY <1>5, EmptySeq
      <4> QED BY <1>5, <1>6, <4>1
    <3>2. DOMAIN <<>> = {}
      BY EmptySeq, LenProperties
    <3> QED BY <1>7, <3>1, <3>2
  <2> QED BY <1>0, <1>a, <2>1 DEF FrameInv, InStep
<1> QED BY <1>0, <1>8, <1>9, <1>10, <1>11, <1>12, <1>a DEF FrameInv

LEMMA TimeoutInv ==
  ASSUME FrameInv, Timeout
  PROVE  FrameInv'
<1>0. /\ side' = side /\ writer' = writer /\ sizes' = sizes /\ stream' = stream
      /\ frames' = frames /\ got' = <<>> /\ reading # "closed"
      /\ cut' = IF reading = "payload" \/ got # <<>> THEN cut \cup {reading} ELSE cut
      /\ IF TakenForSilence
         THEN reading' = "length" /\ wanted' = HeaderUnits
         ELSE reading' = "closed" /\ wanted' = 0
  BY DEF Timeout, Ask, Close
<1>1. /\ got \in Seq(Unit) /\ stream \in Seq(Unit) /\ Len(got) \in Nat
      /\ Len(stream) \in Nat /\ <<>> \in Seq(Unit) /\ Len(<<>>) = 0
  BY LenProperties, EmptySeq DEF FrameInv, FrameTyped
<1>2. Suffix(Len(got))
  <2>1. /\ Len(Line) = Len(got) + Len(stream)
        /\ \A i \in 1..Len(stream) : Line[Len(got) + i] = stream[i]
    BY <1>1, LineSplit DEF Line
  <2>2. /\ Len(Line) - Len(got) = Len(stream)
        /\ \A i \in 1..Len(stream) : Len(got) + i = i + Len(got)
    BY <1>1, <2>1
  <2> QED BY <1>0, <1>1, <2>1, <2>2 DEF Suffix
<1>3. LineRemains(Len(got))
  BY <1>1, <1>2, SuffixRemains
<1>4. Whole(Line', sizes') /\ LineEnds' /\ Behind'
  BY <1>0, <1>1, <1>3, RemainsBehind DEF LineRemains
<1>5. FrameTyped'
  <2>1. HeaderUnits \in Nat /\ 0 < HeaderUnits
    BY FrameAssumption
  <2> QED BY <1>0, <1>1, <2>1 DEF FrameInv, FrameTyped
<1>6. InStep'
  <2> SUFFICES ASSUME cut' = {} PROVE InStep'
    BY DEF InStep
  <2>1. cut = {} /\ reading = "length" /\ got = <<>>
    <3>1. ~(reading = "payload" \/ got # <<>>)
      BY <1>0
    <3> QED BY <1>0, <3>1 DEF FrameInv, FrameTyped
  <2>2. Line' = Line
    BY <1>0, <2>1 DEF Line
  <2>3. reading' = "length"
    BY <1>0, <2>1 DEF TakenForSilence
  <2> QED BY <1>0, <2>1, <2>2, <2>3 DEF FrameInv, InStep
<1>7. GivesUp'
  <2> SUFFICES ASSUME side = "collector", "payload" \in cut'
               PROVE  reading' = "closed"
    BY <1>0 DEF GivesUp
  <2>1. "payload" \notin cut
    BY <1>0 DEF FrameInv, GivesUp
  <2>2. reading = "payload"
    BY <1>0, <2>1
  <2> QED BY <1>0, <2>2 DEF TakenForSilence
<1> QED BY <1>4, <1>5, <1>6, <1>7 DEF FrameInv

LEMMA EndOfStreamInv ==
  ASSUME FrameInv, EndOfStream
  PROVE  FrameInv'
<1>0. /\ side' = side /\ writer' = writer /\ writer = "gone" /\ sizes' = sizes
      /\ stream' = stream /\ stream = <<>> /\ frames' = frames /\ cut' = cut
      /\ got' = <<>> /\ reading' = "closed" /\ wanted' = 0
  BY DEF EndOfStream, Ask, Close
<1>1. <<>> \in Seq(Unit) /\ Len(<<>>) = 0 /\ DOMAIN <<>> = {}
  BY EmptySeq, LenProperties
<1>2. Line' = <<>>
  BY <1>0, <1>1, LineSplit DEF Line
<1>3. Whole(Line', sizes')
  BY <1>1, <1>2 DEF Whole
<1>4. FrameTyped'
  BY <1>0, <1>1 DEF FrameInv, FrameTyped
<1> QED
  BY <1>0, <1>1, <1>2, <1>3, <1>4
  DEF FrameInv, LineEnds, Behind, InStep, GivesUp

-----------------------------------------------------------------------------
(* What a reader gets when a read is complete, and what it makes of it.    *)
Complete(units) ==
  /\ DOMAIN units = 1..Len(units)
  /\ Len(units) = wanted /\ Len(units) >= 1 /\ Len(units) <= Len(Line)
  /\ \A i \in 1..Len(units) : units[i] = Line[i]

LEMMA ReceivedSoFar ==
  ASSUME FrameInv, NEW n \in 1..Len(stream), n <= wanted - Len(got), Receive(n)
  PROVE  LET units == got \o SubSeq(stream, 1, n)
         IN  \/ /\ Len(units) < wanted /\ got' = units /\ units \in Seq(Unit)
                /\ Line' = Line /\ stream' \in Seq(Unit)
                /\ UNCHANGED <<side, sizes, writer, reading, wanted, frames, cut>>
             \/ /\ Complete(units)
                /\ UNCHANGED <<side, sizes, writer, cut>>
                /\ stream' \in Seq(Unit)
                /\ got' = <<>> => Suffix(Len(units))
                /\ IF reading = "length" THEN ReadLength(units) /\ UNCHANGED frames
                   ELSE ReadPayload(units)
<1> DEFINE u == got \o SubSeq(stream, 1, n)
           rest == SubSeq(stream, n + 1, Len(stream))
<1>1. /\ got \in Seq(Unit) /\ stream \in Seq(Unit) /\ wanted \in Nat
      /\ Len(got) \in Nat /\ Len(stream) \in Nat
  BY LenProperties DEF FrameInv, FrameTyped
<1>2. /\ u \in Seq(Unit) /\ Len(u) = Len(got) + n
      /\ rest \in Seq(Unit) /\ Len(rest) = Len(stream) - n
      /\ \A i \in 1..Len(u) : u[i] = Line[i]
      /\ \A i \in 1..Len(rest) : rest[i] = Line[i + Len(u)]
      /\ u \o rest = Line
  BY <1>1, UnitsTaken DEF Line
<1>3. Len(Line) = Len(got) + Len(stream)
  BY <1>1, LineSplit DEF Line
<1>4. /\ stream' = rest /\ UNCHANGED <<side, sizes, writer, cut>>
      /\ IF Len(u) < wanted
         THEN got' = u /\ UNCHANGED <<reading, wanted, frames>>
         ELSE IF reading = "length" THEN ReadLength(u) /\ UNCHANGED frames
              ELSE ReadPayload(u)
  BY DEF Receive
<1>z. u = got \o SubSeq(stream, 1, n)
  OBVIOUS
<1> HIDE DEF u, rest
<1>5. CASE Len(u) < wanted
  <2>1. Line' = Line
    BY <1>2, <1>4, <1>5 DEF Line
  <2> QED BY <1>2, <1>4, <1>5, <1>z, <2>1
<1>6. CASE ~(Len(u) < wanted)
  <2>1. Len(u) = wanted /\ Len(u) >= 1 /\ Len(u) <= Len(Line)
    <3>1. Len(u) = Len(got) + n
      BY <1>2
    <3> QED BY <1>1, <1>3, <1>6, <3>1
  <2>a. DOMAIN u = 1..Len(u)
    BY <1>2, LenProperties
  <2>2. Len(rest) = Len(Line) - Len(u)
    <3>1. Len(u) = Len(got) + n /\ Len(rest) = Len(stream) - n /\ n \in Nat
      BY <1>2
    <3> QED BY <1>1, <1>3, <3>1
  <2>3. got' = <<>> => Suffix(Len(u))
    BY <1>2, <1>4, <2>2 DEF Suffix
  <2> QED BY <1>2, <1>4, <1>6, <1>z, <2>a, <2>1, <2>3 DEF Complete
<1> QED BY <1>5, <1>6

(* The units of a read that starts where the reader is in step are those   *)
(* of one frame.                                                           *)
LEMMA InOneFrame ==
  ASSUME FrameInv, NEW f \in DOMAIN sizes, NEW p \in Nat, p >= 1, NEW m \in Nat,
         1 <= m, m <= Len(Line), Line[1] = <<f, p>>, p + m - 1 <= LastOf(f, sizes)
  PROVE  \A i \in 1..m : Line[i] = <<f, p + i - 1>>
<1> SUFFICES ASSUME NEW i \in 1..m
             PROVE  Line[i] = <<f, p + i - 1>>
  OBVIOUS
<1>1. /\ DOMAIN Line = 1..Len(Line) /\ Len(Line) \in Nat /\ HeaderUnits \in Nat
      /\ sizes[f] \in Nat
  BY LineFacts
<1>2. 1 \in DOMAIN Line /\ i \in DOMAIN Line /\ 1 <= i /\ p + (i - 1) = p + i - 1
  BY <1>1
<1>3. p + (i - 1) <= LastOf(f, sizes)
  <2>1. LastOf(f, sizes) \in Nat
    BY <1>1 DEF LastOf
  <2> QED BY <2>1
<1>4. IF Line[1][2] + (i - 1) <= LastOf(Line[1][1], sizes)
      THEN Line[i] = <<Line[1][1], Line[1][2] + (i - 1)>>
      ELSE Line[i][1] > Line[1][1]
  BY <1>2 DEF FrameInv, Whole
<1> QED BY <1>2, <1>3, <1>4

(* A length was read.                                                      *)
LEMMA LengthRead ==
  ASSUME FrameInv, NEW units, Complete(units), reading = "length",
         UNCHANGED <<side, sizes, writer, cut, frames>>, stream' \in Seq(Unit),
         got' = <<>> => Suffix(Len(units)), ReadLength(units)
  PROVE  FrameInv'
<1> DEFINE m == HeaderUnits
           f == Len(frames) + 1
<1>1. /\ Line \in Seq(Unit) /\ Len(Line) \in Nat /\ DOMAIN Line = 1..Len(Line)
      /\ Len(sizes) \in Nat /\ DOMAIN sizes = 1..Len(sizes)
      /\ Len(frames) \in Nat /\ m \in Nat /\ m >= 1
      /\ Len(<<>>) = 0 /\ <<>> \in Seq(Unit)
  BY LineFacts, EmptySeq
<1>2. /\ Len(units) = m /\ m <= Len(Line) /\ wanted = m
      /\ \A i \in 1..m : units[i] = Line[i]
  BY DEF Complete, FrameInv, FrameTyped
<1>3. units[1] = Line[1] /\ 1 \in 1..Len(Line)
  BY <1>1, <1>2
<1>4. /\ Line[1][1] \in 1..Len(sizes) /\ sizes[Line[1][1]] \in FrameSizes
  BY <1>3, LineFacts
<1>5. Lengths(units) \subseteq FrameSizes \cup {TooLarge}
  BY <1>3, <1>4 DEF Lengths
<1>6. PICK x \in Lengths(units) :
        IF x = TooLarge THEN Close ELSE Ask("payload", x)
  BY DEF ReadLength
<1>7. /\ got' = <<>>
      /\ \/ reading' = "closed" /\ wanted' = 0 /\ x = TooLarge
         \/ reading' = "payload" /\ wanted' = x /\ x \in FrameSizes
  BY <1>5, <1>6 DEF Close, Ask
<1>8. LineRemains(m)
  BY <1>1, <1>2, <1>7, SuffixRemains
<1>9. FrameTyped'
  <2>1. x \in FrameSizes => x \in Nat /\ 0 < x
    BY FrameAssumption
  <2> QED BY <1>1, <1>7, <2>1 DEF FrameInv, FrameTyped
<1>10. Behind'
  BY <1>1, <1>8, RemainsBehind
<1>11. GivesUp'
  BY DEF FrameInv, GivesUp
<1>12. InStep'
  <2> SUFFICES ASSUME cut = {} PROVE InStep'
    BY DEF InStep
  <2>1. Line[1] = <<f, 1>>
    <3>1. Line # <<>>
      BY <1>1, <1>2
    <3> QED BY <3>1 DEF FrameInv, InStep
  <2>2. f \in DOMAIN sizes /\ f \in 1..Len(sizes)
    BY <1>1, <1>4, <2>1
  <2>3. sizes[f] \in FrameSizes /\ sizes[f] \in Nat /\ sizes[f] >= 1
    BY <2>2, LineFacts
  <2>4. \A i \in 1..m : Line[i] = <<f, 1 + i - 1>>
    <3>0. PICK p \in Nat, k \in Nat : p = 1 /\ k = m
      BY <1>1
    <3>1. p + k - 1 <= LastOf(f, sizes) /\ p >= 1 /\ 1 <= k /\ k <= Len(Line)
      BY <1>1, <1>2, <2>3, <3>0 DEF LastOf
    <3>2. Line[1] = <<f, p>>
      BY <2>1, <3>0
    <3> HIDE DEF f
    <3>3. \A i \in 1..k : Line[i] = <<f, p + i - 1>>
      BY <2>2, <3>1, <3>2, InOneFrame
    <3> QED BY <3>0, <3>3
  <2>5. Lengths(units) = {sizes[f]}
    <3>1. \A i \in DOMAIN units : i \in 1..m
      BY <1>2 DEF Complete
    <3>2. Aligned(units, 1)
      <4>1. \A i \in DOMAIN units : units[i] = <<f, 1 + i - 1>>
        BY <1>2, <2>4, <3>1
      <4>2. units[1][1] = f
        BY <1>3, <2>1
      <4> QED BY <4>1, <4>2 DEF Aligned
    <3>3. ~(units[1][2] > HeaderUnits) /\ units[1][1] = f
      BY <1>1, <1>3, <2>1
    <3> QED BY <3>2, <3>3 DEF Lengths
  <2>6. x = sizes[f] /\ reading' = "payload" /\ wanted' = sizes[f]
    BY <1>6, <1>7, <2>3, <2>5, FrameAssumption
  <2>7. Line' # <<>> => Line'[1] = <<f, HeaderUnits + 1>>
    <3> SUFFICES ASSUME Line' # <<>> PROVE Line'[1] = <<f, HeaderUnits + 1>>
      OBVIOUS
    <3>1. 1 \in 1..Len(Line') /\ Len(Line') = Len(Line) - m
      BY <1>8 DEF LineRemains
    <3>2. Line'[1] = Line[1 + m]
      BY <1>8, <3>1 DEF LineRemains
    <3>3. \A i \in 1..(m + 1) : Line[i] = <<f, 1 + i - 1>>
      <4>0. PICK p \in Nat, k \in Nat : p = 1 /\ k = m + 1
        BY <1>1
      <4>a. m + 1 <= Len(Line)
        BY <1>1, <3>1
      <4>1. p + k - 1 <= LastOf(f, sizes) /\ p >= 1 /\ 1 <= k /\ k <= Len(Line)
        BY <1>1, <2>3, <4>0, <4>a DEF LastOf
      <4>2. Line[1] = <<f, p>>
        BY <2>1, <4>0
      <4> HIDE DEF f
      <4>3. \A i \in 1..k : Line[i] = <<f, p + i - 1>>
        BY <2>2, <4>1, <4>2, InOneFrame
      <4> QED BY <4>0, <4>3
    <3>4. 1 + m = m + 1 /\ m + 1 \in 1..(m + 1) /\ 1 + (m + 1) - 1 = HeaderUnits + 1
      BY <1>1
    <3> QED BY <3>2, <3>3, <3>4
  <2>8. writer = "open" => Line' # <<>>
    <3> SUFFICES ASSUME writer = "open", Line' = <<>> PROVE FALSE
      OBVIOUS
    <3>1. Len(Line) = m /\ m \in 1..m
      <4>1. Len(Line') = Len(Line) - m /\ Len(Line') = 0
        BY <1>1, <1>8 DEF LineRemains
      <4>2. Len(Line) \in Nat /\ HeaderUnits \in Nat /\ HeaderUnits >= 1
        BY <1>1
      <4> QED BY <4>1, <4>2
    <3>2. Line[m] = <<Len(sizes), LastOf(Len(sizes), sizes)>>
      <4>1. Line # <<>>
        BY <1>1, <1>2
      <4> QED BY <3>1, <4>1 DEF FrameInv, LineEnds
    <3>3. Line[m] = <<f, 1 + m - 1>>
      BY <2>4, <3>1
    <3>4. 1 + m - 1 = LastOf(f, sizes)
      BY <3>2, <3>3
    <3> QED BY <1>1, <2>3, <3>4 DEF LastOf
  <2> QED
    BY <2>2, <2>6, <2>7, <2>8 DEF FrameInv, InStep
<1> QED BY <1>8, <1>9, <1>10, <1>11, <1>12 DEF FrameInv, LineRemains

(* A payload was read.                                                     *)
LEMMA PayloadRead ==
  ASSUME FrameInv, NEW units, Complete(units), reading = "payload",
         UNCHANGED <<side, sizes, writer, cut>>, stream' \in Seq(Unit),
         got' = <<>> => Suffix(Len(units)), ReadPayload(units)
  PROVE  FrameInv'
<1> DEFINE m == Len(units)
           g == units[1][1]
<1>1. /\ Line \in Seq(Unit) /\ Len(Line) \in Nat /\ DOMAIN Line = 1..Len(Line)
      /\ Len(sizes) \in Nat /\ DOMAIN sizes = 1..Len(sizes)
      /\ Len(frames) \in Nat /\ DOMAIN frames = 1..Len(frames)
      /\ Len(<<>>) = 0 /\ <<>> \in Seq(Unit)
      /\ HeaderUnits \in Nat /\ HeaderUnits >= 1
  BY LineFacts, EmptySeq
<1>2. /\ m = wanted /\ m \in Nat /\ m >= 1 /\ m <= Len(Line) /\ DOMAIN units = 1..m
      /\ \A i \in 1..m : units[i] = Line[i]
  BY DEF Complete, FrameInv, FrameTyped
<1>3. /\ units[1] = Line[1] /\ 1 \in DOMAIN Line /\ 1 \in 1..Len(Line)
      /\ 1 \in DOMAIN units
  BY <1>1, <1>2
<1>4. /\ g \in 1..Len(sizes) /\ g = Line[1][1] /\ g \in Nat
      /\ sizes[g] \in Nat /\ sizes[g] >= 1
  <2>1. /\ \A k \in 1..Len(Line) : Line[k][1] \in Nat /\ Line[k][1] \in 1..Len(sizes)
        /\ \A f \in 1..Len(sizes) : sizes[f] \in Nat /\ sizes[f] >= 1
    BY LineFacts
  <2> QED BY <1>3, <2>1
<1>5. /\ got' = <<>>
      /\ \/ reading' = "closed" /\ wanted' = 0
         \/ reading' = "length" /\ wanted' = HeaderUnits
      /\ \/ IsFrame(units) /\ frames' = Append(frames, g) /\ reading' = "length"
         \/ ~IsFrame(units) /\ frames' = frames
  BY DEF ReadPayload, Close, Ask
<1>6. LineRemains(m)
  BY <1>2, <1>5, SuffixRemains
<1>7. frames' \in Seq(Nat)
  <2>1. frames \in Seq(Nat) /\ g \in Nat
    BY <1>4 DEF FrameInv, FrameTyped
  <2> HIDE DEF g
  <2>2. Append(frames, g) \in Seq(Nat)
    BY <2>1, AppendProperties
  <2> QED BY <1>5, <2>1, <2>2
<1>8. FrameTyped'
  <2>1. HeaderUnits \in Nat /\ 0 < HeaderUnits /\ 0 \in Nat
    BY FrameAssumption
  <2>2. /\ wanted' \in Nat /\ got' \in Seq(Unit) /\ Len(got') = 0
        /\ reading' \in {"length", "closed"}
        /\ reading' = "length" => wanted' = HeaderUnits
    BY <1>1, <1>5, <2>1
  <2> QED BY <1>7, <2>1, <2>2 DEF FrameInv, FrameTyped
<1>9. GivesUp'
  BY DEF FrameInv, GivesUp
<1>a. \A k \in DOMAIN Line' : /\ k \in Nat /\ k >= 1 /\ k + m \in DOMAIN Line
                             /\ Line'[k] = Line[k + m]
  BY <1>1, <1>6 DEF LineRemains
<1>10. Behind'
  <2>1. CASE frames' = frames
    BY <1>2, <1>6, <2>1, RemainsBehind
  <2>2. CASE IsFrame(units) /\ frames' = Append(frames, g)
    <3>1. /\ DOMAIN frames' = 1..(Len(frames) + 1) /\ frames'[Len(frames) + 1] = g
          /\ \A i \in 1..Len(frames) : frames'[i] = frames[i]
      <4>1. frames \in Seq(Nat)
        BY DEF FrameInv, FrameTyped
      <4> QED BY <1>4, <2>2, <4>1, AppendProperties
    <3>2. \A i \in 1..Len(frames) : /\ frames[i] \in DOMAIN sizes
                                    /\ frames[i] \in Nat /\ frames[i] < g
      BY <1>1, <1>3, <1>4, LineFacts DEF FrameInv, Behind
    <3>3. \A k \in DOMAIN Line' : Line'[k][1] > g /\ Line'[k][1] \in Nat
      <4> SUFFICES ASSUME NEW k \in DOMAIN Line'
                   PROVE  Line'[k][1] > g /\ Line'[k][1] \in Nat
        OBVIOUS
      <4>1. /\ k \in Nat /\ k >= 1 /\ k + m \in DOMAIN Line /\ Line'[k] = Line[k + m]
            /\ 1 <= k + m /\ k + m \in 1..Len(Line)
        BY <1>a, <1>1, <1>2
      <4>2. Line[1][2] = HeaderUnits + 1 /\ m = sizes[g]
        <5>1. units[1][2] = HeaderUnits + 1 + 1 - 1
          BY <1>3, <2>2 DEF IsFrame, Aligned
        <5> QED BY <1>1, <1>3, <2>2, <5>1 DEF IsFrame
      <4>3. ~(Line[1][2] + ((k + m) - 1) <= LastOf(Line[1][1], sizes))
        <5>1. LastOf(Line[1][1], sizes) = HeaderUnits + sizes[g]
          BY <1>4 DEF LastOf
        <5>2. k \in Nat /\ k >= 1 /\ m = sizes[g] /\ Line[1][2] = HeaderUnits + 1
          BY <4>1, <4>2
        <5>3. sizes[g] \in Nat /\ HeaderUnits \in Nat
          BY <1>1, <1>4
        <5> HIDE DEF m, g
        <5> QED BY <5>1, <5>2, <5>3
      <4>4. Line[k + m][1] > Line[1][1]
        BY <1>3, <4>1, <4>3 DEF FrameInv, Whole
      <4>5. Line[k + m][1] \in Nat
        BY <4>1, LineFacts
      <4> QED BY <1>4, <4>1, <4>4, <4>5
    <3>4. \A i, j \in DOMAIN frames' : i < j => frames'[i] < frames'[j]
      <4> SUFFICES ASSUME NEW i \in DOMAIN frames', NEW j \in DOMAIN frames', i < j
                   PROVE  frames'[i] < frames'[j]
        OBVIOUS
      <4>1. i \in 1..Len(frames) /\ (j \in 1..Len(frames) \/ j = Len(frames) + 1)
        BY <1>1, <3>1
      <4>2. CASE j \in 1..Len(frames)
        BY <1>1, <3>1, <4>1, <4>2 DEF FrameInv, Behind
      <4>3. CASE j = Len(frames) + 1
        BY <3>1, <3>2, <4>1, <4>3
      <4> QED BY <4>1, <4>2, <4>3
    <3>5. \A i \in DOMAIN frames' : /\ frames'[i] \in DOMAIN sizes
                                   /\ frames'[i] \in Nat /\ frames'[i] <= g
      <4> SUFFICES ASSUME NEW i \in DOMAIN frames'
                   PROVE  /\ frames'[i] \in DOMAIN sizes
                          /\ frames'[i] \in Nat /\ frames'[i] <= g
        OBVIOUS
      <4>1. i \in 1..Len(frames) \/ i = Len(frames) + 1
        BY <1>1, <3>1
      <4>2. CASE i \in 1..Len(frames)
        <5>1. frames'[i] = frames[i] /\ frames[i] \in DOMAIN sizes
              /\ frames[i] \in Nat /\ frames[i] < g
          BY <3>1, <3>2, <4>2
        <5> QED BY <1>4, <5>1
      <4>3. CASE i = Len(frames) + 1
        BY <1>1, <1>4, <3>1, <4>3
      <4> QED BY <4>1, <4>2, <4>3
    <3>6. \A i \in DOMAIN frames', k \in DOMAIN Line' : frames'[i] < Line'[k][1]
      <4> SUFFICES ASSUME NEW i \in DOMAIN frames', NEW k \in DOMAIN Line'
                   PROVE  frames'[i] < Line'[k][1]
        OBVIOUS
      <4>1. frames'[i] \in Nat /\ frames'[i] <= g
        BY <3>5
      <4>2. Line'[k][1] > g /\ Line'[k][1] \in Nat
        BY <3>3
      <4> QED BY <1>4, <4>1, <4>2
    <3> QED BY <3>4, <3>5, <3>6 DEF Behind
  <2> QED BY <1>5, <2>1, <2>2
<1>11. InStep'
  <2> SUFFICES ASSUME cut = {} PROVE InStep'
    BY DEF InStep
  <2> DEFINE f == Len(frames) + 1
  <2>1. Line[1] = <<f, HeaderUnits + 1>> /\ wanted = sizes[f] /\ f \in DOMAIN sizes
        /\ \A i \in DOMAIN frames : frames[i] = i
    <3>1. Line # <<>>
      BY <1>1, <1>2
    <3> QED BY <3>1 DEF FrameInv, InStep
  <2>2. g = f /\ m = sizes[f] /\ f \in 1..Len(sizes) /\ sizes[f] \in Nat
    BY <1>1, <1>2, <1>4, <2>1
  <2>3. \A i \in 1..m : Line[i] = <<f, HeaderUnits + 1 + i - 1>>
    <3>0. PICK p \in Nat, k \in Nat : p = HeaderUnits + 1 /\ k = m
      <4>1. HeaderUnits + 1 \in Nat /\ m \in Nat
        BY <1>1, <1>2
      <4> QED BY <4>1
    <3>1. p + k - 1 <= LastOf(f, sizes) /\ p >= 1 /\ 1 <= k /\ k <= Len(Line)
      <4>1. LastOf(f, sizes) = HeaderUnits + sizes[f]
        BY DEF LastOf
      <4>2. HeaderUnits \in Nat /\ m \in Nat /\ m >= 1 /\ m <= Len(Line) /\ m = sizes[f]
        BY <1>1, <1>2, <2>2
      <4> HIDE DEF m, f
      <4> QED BY <3>0, <4>1, <4>2
    <3>2. Line[1] = <<f, p>>
      BY <2>1, <3>0
    <3> HIDE DEF f, m
    <3>3. \A i \in 1..k : Line[i] = <<f, p + i - 1>>
      BY <2>1, <3>1, <3>2, InOneFrame
    <3> QED BY <3>0, <3>3
  <2>4. IsFrame(units)
    <3>1. \A i \in DOMAIN units : units[i] = <<g, HeaderUnits + 1 + i - 1>>
      BY <1>2, <2>2, <2>3
    <3>2. Len(units) = sizes[g]
      BY <2>2
    <3> QED BY <3>1, <3>2 DEF IsFrame, Aligned
  <2>5. /\ reading' = "length" /\ frames' = Append(frames, f)
        /\ Len(frames') = f /\ DOMAIN frames' = 1..f /\ frames'[f] = f
        /\ \A i \in 1..(f - 1) : frames'[i] = frames[i]
    <3>1. frames \in Seq(Nat) /\ f \in Nat /\ f - 1 = Len(frames)
      BY <1>1 DEF FrameInv, FrameTyped
    <3>2. reading' = "length" /\ frames' = Append(frames, f)
      BY <1>5, <2>2, <2>4
    <3>3. /\ Len(frames') = Len(frames) + 1 /\ DOMAIN frames' = 1..(Len(frames) + 1)
          /\ frames'[Len(frames) + 1] = f
          /\ \A i \in 1..Len(frames) : frames'[i] = frames[i]
      <4> HIDE DEF f
      <4>1. /\ Append(frames, f) \in Seq(Nat)
            /\ Len(Append(frames, f)) = Len(frames) + 1
            /\ \A i \in 1..Len(frames) : Append(frames, f)[i] = frames[i]
            /\ Append(frames, f)[Len(frames) + 1] = f
        BY <3>1, AppendProperties
      <4> QED BY <3>2, <4>1, LenProperties
    <3> QED BY <3>1, <3>2, <3>3
  <2>6. \A i \in DOMAIN frames' : frames'[i] = i
    <3>1. \A i \in DOMAIN frames' : i \in 1..(f - 1) \/ i = f
      BY <1>1, <2>5
    <3>2. \A i \in 1..(f - 1) : frames[i] = i
      BY <1>1, <2>1
    <3> QED BY <2>5, <3>1, <3>2
  <2>7. /\ m \in 1..m /\ m \in DOMAIN Line
        /\ Line[m] = <<f, LastOf(f, sizes)>>
    <3>1. m \in 1..m /\ m \in DOMAIN Line
      BY <1>1, <1>2
    <3>2. HeaderUnits + 1 + m - 1 = LastOf(f, sizes)
      BY <1>1, <1>2, <2>2 DEF LastOf
    <3> QED BY <2>3, <3>1, <3>2
  <2>8. Line' # <<>> => Line'[1] = <<f + 1, 1>>
    <3> SUFFICES ASSUME Line' # <<>> PROVE Line'[1] = <<f + 1, 1>>
      OBVIOUS
    <3>1. 1 \in DOMAIN Line'
      BY <1>6 DEF LineRemains
    <3>2. 1 + m \in DOMAIN Line /\ Line'[1] = Line[1 + m] /\ 1 + m = m + 1
      BY <1>a, <1>2, <3>1
    <3>3. Line[m + 1] = <<Line[m][1] + 1, 1>>
      <4>1. m + 1 \in DOMAIN Line /\ Line[m][2] = LastOf(Line[m][1], sizes)
        BY <2>7, <3>2
      <4> HIDE DEF m, f
      <4> QED BY <2>7, <4>1 DEF FrameInv, Whole
    <3> QED BY <2>7, <3>2, <3>3
  <2>9. Line' = <<>> /\ writer = "open" => f = Len(sizes)
    <3> SUFFICES ASSUME Line' = <<>>, writer = "open" PROVE f = Len(sizes)
      OBVIOUS
    <3>1. Len(Line) = m
      <4>1. Len(Line') = Len(Line) - m /\ Len(Line') = 0
        BY <1>1, <1>6 DEF LineRemains
      <4>2. Len(Line) \in Nat /\ m \in Nat
        BY <1>1, <1>2
      <4> QED BY <4>1, <4>2
    <3>2. Line # <<>>
      BY <1>1, <1>2
    <3>3. Line[m] = <<Len(sizes), LastOf(Len(sizes), sizes)>>
      BY <3>1, <3>2 DEF FrameInv, LineEnds
    <3> QED BY <2>7, <3>3
  <2> QED BY <2>5, <2>6, <2>8, <2>9 DEF InStep
<1> QED BY <1>6, <1>8, <1>9, <1>10, <1>11 DEF FrameInv, LineRemains

LEMMA ReceiveInv ==
  ASSUME FrameInv, NEW n \in 1..Len(stream), n <= wanted - Len(got), Receive(n)
  PROVE  FrameInv'
<1> DEFINE units == got \o SubSeq(stream, 1, n)
<1>1. CASE /\ Len(units) < wanted /\ got' = units /\ units \in Seq(Unit)
           /\ Line' = Line /\ stream' \in Seq(Unit)
           /\ UNCHANGED <<side, sizes, writer, reading, wanted, frames, cut>>
  BY <1>1 DEF FrameInv, FrameTyped, LineEnds, Behind, InStep, GivesUp
<1>2. CASE /\ Complete(units)
           /\ UNCHANGED <<side, sizes, writer, cut>>
           /\ stream' \in Seq(Unit)
           /\ got' = <<>> => Suffix(Len(units))
           /\ IF reading = "length" THEN ReadLength(units) /\ UNCHANGED frames
              ELSE ReadPayload(units)
  <2>1. reading \in {"length", "payload"}
    BY DEF Receive, FrameInv, FrameTyped
  <2> HIDE DEF units
  <2>2. CASE reading = "length"
    BY <1>2, <2>2, LengthRead
  <2>3. CASE reading = "payload"
    BY <1>2, <2>3, PayloadRead
  <2> QED BY <2>1, <2>2, <2>3
<1> QED BY <1>1, <1>2, ReceivedSoFar

LEMMA Kept == FrameInv /\ [FrameNext]_frameVars => FrameInv'
<1> SUFFICES ASSUME FrameInv, [FrameNext]_frameVars PROVE FrameInv'
  OBVIOUS
<1>1. ASSUME NEW size \in FrameSizes, WriteFrame(size) PROVE FrameInv'
  BY <1>1, WriteFrameInv
<1>2. CASE WriterGone
  BY <1>2, WriterGoneInv
<1>3. CASE Timeout
  BY <1>3, TimeoutInv
<1>4. CASE EndOfStream
  BY <1>4, EndOfStreamInv
<1>5. ASSUME NEW n \in 1..Len(stream), n <= wanted - Len(got), Receive(n)
      PROVE  FrameInv'
  BY <1>5, ReceiveInv
<1>6. CASE UNCHANGED frameVars
  <2>1. Line' = Line
    BY <1>6 DEF frameVars, readVars, Line
  <2> QED
    BY <1>6, <2>1
    DEF frameVars, readVars, FrameInv, FrameTyped, LineEnds, Behind, InStep, GivesUp
<1> QED BY <1>1, <1>2, <1>3, <1>4, <1>5, <1>6 DEF FrameNext

(* However a connection delivers the bytes, whatever lengths the frames    *)
(* have and whenever it breaks or is silent, both readers hand on whole    *)
(* frames in order, without a gap unless a timeout fell inside one, and    *)
(* give up only then or when the writer is gone.                           *)
THEOREM Intact == FrameSpec => []FramesIntact
<1>1. FrameInv => FramesIntact
  <2> SUFFICES ASSUME FrameInv PROVE FramesIntact
    OBVIOUS
  <2>1. stream = <<>> /\ got = <<>> => Line = <<>>
    <3>1. <<>> \in Seq(Unit) /\ <<>> \o <<>> = <<>>
      BY EmptySeq, LineSplit
    <3> QED BY <3>1 DEF Line
  <2> QED
    BY <2>1 DEF FrameInv, Behind, InStep, GivesUp, FramesIntact
<1> QED BY <1>1, InitInv, Kept, PTL DEF FrameSpec
=============================================================================
