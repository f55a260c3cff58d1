----------------------------- MODULE CodeRegistry -----------------------------
(***************************************************************************)
(* The code registry of the hook library (collector/src/code_registry.cc)  *)
(* and the hooked driver calls that feed it (collector/src/hook.cc).  A    *)
(* hook lets the driver do its work, then enters what it returned into the *)
(* registry under a mutex; a launch looks its kernel up and is queued      *)
(* before the driver launches it.  Application threads do this side by     *)
(* side, and the driver gives handles out again once they are unloaded.    *)
(*                                                                         *)
(* Modules and libraries have their handles from one set, kernels from     *)
(* another.  Code is known by the number of the load that brought it.      *)
(***************************************************************************)
EXTENDS Integers, Sequences, FiniteSets, Functions

CONSTANTS
  AppThreads,
  Owners,         \* handles of modules and libraries
  KernelHandles,
  MaxLoads,       \* bound: loads
  MaxEvents,      \* bound: queued code objects and launches
  Unknown         \* SG_CODE_ID_UNKNOWN

ASSUME RegistryAssumption ==
  MaxLoads \in Nat /\ MaxEvents \in Nat /\ Unknown \notin Nat

VARIABLES
  live,           \* the driver's: owner -> [code, kind, library, known]
  resolved,       \* the driver's: kernel -> [code, owners, known, hooked]
  loads, unread,  \* loads so far; those of which no image could be read
  given, reused,  \* handles given out so far, and those given out twice
  hook,           \* a thread's control point and what it does there
  codeIds,        \* code_handles: the owner of each id, from 1
  moduleLibrary,  \* module_to_library_map
  kernelMap,      \* kernel_map, without the names
  queued          \* history: events handed to the telemetry ring, in order

driverVars == <<live, resolved, loads, unread, given, reused>>
registryVars == <<driverVars, hook, codeIds, moduleLibrary, kernelMap, queued>>

Idle == [at |-> "idle"]

RegistryInit ==
  /\ live = <<>> /\ resolved = <<>>
  /\ loads = 0 /\ unread = {} /\ given = {} /\ reused = {}
  /\ hook = [t \in AppThreads |-> Idle]
  /\ codeIds = <<>> /\ moduleLibrary = <<>> /\ kernelMap = <<>>
  /\ queued = <<>>


Bind(map, key, value) ==
  [k \in DOMAIN map \cup {key} |-> IF k = key THEN value ELSE map[k]]

(* An application may use a handle once a call that returned it is over,   *)
(* and unloads it only while no call uses it.                              *)
InUse(handle) ==
  \E t \in AppThreads : hook[t] # Idle /\ handle \in hook[t].uses
Usable(handle) == handle \in DOMAIN live /\ live[handle].known
Free(t) == hook[t] = Idle
Enter(t, point) == hook' = [hook EXCEPT ![t] = point]

(* The driver returns a handle nobody holds.                               *)
GivenOut(handle) ==
  /\ given' = given \cup {handle}
  /\ reused' = IF handle \in given THEN reused \cup {handle} ELSE reused

-----------------------------------------------------------------------------
(* The driver's part of a hooked call.  cuModuleLoad*, cuLibraryLoad*: the *)
(* file may be unreadable, or the image of no known kind.                  *)
DriverLoads(t, h, kind) ==
  /\ Free(t) /\ loads < MaxLoads /\ h \notin DOMAIN live
  /\ loads' = loads + 1
  /\ \E bad \in BOOLEAN : unread' = IF bad THEN unread \cup {loads + 1} ELSE unread
  /\ live' = Bind(live, h, [code |-> loads + 1, kind |-> kind, library |-> h,
                             known |-> FALSE])
  /\ GivenOut(h)
  /\ Enter(t, [at |-> "register", owner |-> h, code |-> loads + 1, uses |-> {h}])
  /\ UNCHANGED <<resolved, codeIds, moduleLibrary, kernelMap, queued>>

(* cuLibraryGetModule: one module for each library.                        *)
DriverGetsModule(t, m, l) ==
  /\ Free(t) /\ Usable(l) /\ live[l].kind = "library"
  /\ \/ m \notin DOMAIN live /\ \A x \in DOMAIN live : x # l => live[x].library # l
     \/ m \in DOMAIN live /\ m # l /\ live[m].library = l
  /\ IF m \in DOMAIN live THEN UNCHANGED <<live, given, reused>>
     ELSE /\ live' = Bind(live, m, [code |-> live[l].code, kind |-> "module",
                                   library |-> l, known |-> FALSE])
          /\ GivenOut(m)
  /\ Enter(t, [at |-> "map", module |-> m, library |-> l, uses |-> {m, l}])
  /\ UNCHANGED <<resolved, loads, unread, codeIds, moduleLibrary, kernelMap,
                 queued>>

(* cuModuleGetFunction, cuLibraryGetKernel, and calls that return a kernel *)
(* without being hooked; the driver has one handle for a kernel.           *)
Resolves(k, h, atOnce) ==
  LET owners == {h, live[h].library}
  IN  /\ Usable(h)
      /\ k \in DOMAIN resolved => resolved[k].owners = owners
      /\ IF k \in DOMAIN resolved THEN UNCHANGED <<given, reused>> ELSE GivenOut(k)
      /\ resolved' = Bind(resolved, k,
           IF k \in DOMAIN resolved
           THEN [resolved[k] EXCEPT !.known = @ \/ atOnce]
           ELSE [code |-> live[h].code, owners |-> owners, known |-> atOnce,
                 hooked |-> FALSE])
      /\ UNCHANGED <<live, loads, unread, codeIds, moduleLibrary, kernelMap,
                     queued>>

DriverGetsKernel(t, k, h) ==
  /\ Free(t) /\ Resolves(k, h, FALSE)
  /\ Enter(t, [at |-> "name", kernel |-> k, owner |-> h, uses |-> {k, h}])
UnhookedGetsKernel(t, k, h) == Free(t) /\ Resolves(k, h, TRUE) /\ UNCHANGED hook

(* Unloading is not hooked; it ends the kernels, and a library's module.   *)
Unload(t, h) ==
  LET gone == {x \in DOMAIN live : live[x].library = h} \cup {h}
      ended == {k \in DOMAIN resolved : resolved[k].owners \cap gone # {}}
  IN  /\ Free(t) /\ h \in DOMAIN live /\ live[h].library = h
      /\ \A x \in gone \cup ended : ~InUse(x)
      /\ live' = Restrict(live, DOMAIN live \ gone)
      /\ resolved' = Restrict(resolved, DOMAIN resolved \ ended)
      /\ UNCHANGED <<loads, unread, given, reused, hook, codeIds, moduleLibrary,
                     kernelMap, queued>>

-----------------------------------------------------------------------------
(* The hooks' part.  register_code_handle: an owner keeps its first id.    *)
IdOfOwner(h) ==
  LET ids == {i \in DOMAIN codeIds : codeIds[i] = h}
  IN  IF ids = {} THEN Unknown ELSE CHOOSE i \in ids : TRUE

RegisterCode(t) ==
  LET owner == hook[t].owner
      id == IF IdOfOwner(owner) = Unknown THEN Len(codeIds) + 1 ELSE IdOfOwner(owner)
  IN  /\ hook[t].at = "register"
      /\ codeIds' = IF id = Len(codeIds) + 1 THEN Append(codeIds, owner) ELSE codeIds
      /\ Enter(t, [at |-> "send", id |-> id, owner |-> owner, code |-> hook[t].code,
                   uses |-> {owner}])
      /\ UNCHANGED <<driverVars, moduleLibrary, kernelMap, queued>>

(* The call is over.                                                       *)
Returns(t, h) ==
  /\ live' = [live EXCEPT ![h].known = TRUE]
  /\ Enter(t, Idle)
  /\ UNCHANGED <<resolved, loads, unread, given, reused>>

(* load_code after that, send_code: the mutex is not held.                 *)
SendCode(t) ==
  /\ hook[t].at = "send"
  /\ queued' = IF hook[t].code \in unread THEN queued
               ELSE Append(queued, [type |-> "code", id |-> hook[t].id,
                                    code |-> hook[t].code])
  /\ Returns(t, hook[t].owner)
  /\ UNCHANGED <<codeIds, moduleLibrary, kernelMap>>

MapModule(t) ==
  /\ hook[t].at = "map"
  /\ moduleLibrary' = Bind(moduleLibrary, hook[t].module, hook[t].library)
  /\ Returns(t, hook[t].module)
  /\ UNCHANGED <<codeIds, kernelMap, queued>>

(* Faulty: modules are not traced to their libraries.                      *)
IdOfModule(h) == IdOfOwner(h)
(* get_code_id_locked                                                      *)
CodeId(h) ==
  IdOfOwner(IF h \in DOMAIN moduleLibrary THEN moduleLibrary[h] ELSE h)

RegisterKernel(t) ==
  /\ hook[t].at = "name"
  /\ kernelMap' = Bind(kernelMap, hook[t].kernel, CodeId(hook[t].owner))
  /\ resolved' = [resolved EXCEPT ![hook[t].kernel].known = TRUE,
                                  ![hook[t].kernel].hooked = TRUE]
  /\ Enter(t, Idle)
  /\ UNCHANGED <<live, loads, unread, given, reused, codeIds, moduleLibrary,
                 queued>>

(* cuLaunchKernel, cuLaunchKernelEx, cuLaunchCooperativeKernel:            *)
(* send_kernel_launch looks the kernel up and then queues the event.       *)
LookUp(t, k) ==
  /\ Free(t) /\ Len(queued) < MaxEvents
  /\ k \in DOMAIN resolved /\ resolved[k].known
  /\ Enter(t, [at |-> "launch", kernel |-> k, uses |-> {k},
               hooked |-> resolved[k].hooked,
               id |-> IF k \in DOMAIN kernelMap THEN kernelMap[k] ELSE Unknown])
  /\ UNCHANGED <<driverVars, codeIds, moduleLibrary, kernelMap, queued>>

(* code, hooked and doubtful are history: what is launched, whether a hook *)
(* had seen the kernel, and whether a handle on the way from the kernel to *)
(* its code was given out before.                                          *)
QueueLaunch(t) ==
  LET k == hook[t].kernel
      truth == resolved[k]
  IN  /\ hook[t].at = "launch"
      /\ queued' = Append(queued,
           [type |-> "launch", id |-> hook[t].id, code |-> truth.code,
            hooked |-> hook[t].hooked,
            doubtful |-> \/ truth.owners \cap reused # {}
                         \/ ~hook[t].hooked /\ k \in reused])
      /\ Enter(t, Idle)
      /\ UNCHANGED <<driverVars, codeIds, moduleLibrary, kernelMap>>

Hooks(t) ==
  \/ RegisterCode(t) \/ SendCode(t) \/ MapModule(t) \/ RegisterKernel(t)
  \/ QueueLaunch(t)

RegistryNext ==
  \E t \in AppThreads :
    \/ Hooks(t)
    \/ \E h \in Owners :
         \/ DriverLoads(t, h, "module") \/ DriverLoads(t, h, "library")
         \/ Unload(t, h)
         \/ \E m \in Owners : DriverGetsModule(t, m, h)
         \/ \E k \in KernelHandles : \/ DriverGetsKernel(t, k, h)
                                     \/ UnhookedGetsKernel(t, k, h)
    \/ \E k \in KernelHandles : LookUp(t, k)

RegistrySpec == RegistryInit /\ [][RegistryNext]_registryVars

-----------------------------------------------------------------------------
(* A launch names the code that runs: the id it carries is the one its     *)
(* code was queued under, before it, and nothing else was by then; a       *)
(* kernel the hooks never saw carries none.  Only if a handle on the way   *)
(* from the kernel to its code was given out before may it be wrong, since *)
(* the registry forgets nothing (register_code_handle, get_code_id_locked, *)
(* send_kernel_launch, load_code).                                         *)
LaunchNamesItsCode ==
  \A n \in DOMAIN queued :
    LET launch == queued[n]
        before == {queued[i] : i \in {j \in 1..(n - 1) : queued[j].type = "code"}}
        named == {e.code : e \in {x \in before : x.id = launch.id}}
    IN  launch.type = "launch" /\ ~launch.doubtful =>
          IF launch.hooked
          THEN launch.id # Unknown /\ named = {launch.code} \ unread
          ELSE launch.id = Unknown
=============================================================================
