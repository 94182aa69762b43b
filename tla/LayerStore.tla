------------------------------ MODULE LayerStore ------------------------------
(***************************************************************************)
(* layer/layer_store.go: the reference-counted store of read-only image    *)
(* layers and of the writable layers (mounts) of containers, its metadata  *)
(* on disk (filestore.go), and the graph driver that keeps the data.       *)
(*                                                                         *)
(* A chain ID stands for the sequence of the layer's diffs, bottom first,  *)
(* so the parent of c is Front(c) and <<>> is "no parent".  Each element   *)
(* of Procs is a goroutine that calls the store.  What the code does under *)
(* layerL without touching the disk is one step; deleting a layer and      *)
(* creating or deleting a mount hold a lock across several steps, because  *)
(* the daemon may die between them.  Registering holds no lock while it    *)
(* creates and fills the driver's layer.  CreateRWLayer takes mountL and   *)
(* then layerL in one step: nobody waits for mountL with layerL held.      *)
(*                                                                         *)
(* A Crash loses the memory and keeps the disk and the driver's data; the  *)
(* same step loads the store again, as NewStoreFromGraphDriver does.       *)
(***************************************************************************)
EXTENDS Integers, Sequences, FiniteSets, SequencesExt

CONSTANTS
  Procs,      \* goroutines that call the store
  NoProc,     \* nobody
  Chains,     \* chain IDs of the layers that may be registered
  Mounts,     \* names of writable layers
  MaxDepth,   \* maxLayerDepth
  MaxData,    \* bound: the driver has room for this many layers
  Faults      \* what may go wrong; see AllFaults

\* driver.Create, StartTransaction, applyTar and storeLayer, tx.Commit, the end of
\* initMount, saveMount, driver.Remove, the removal of metadata; the daemon dies.
AllFaults == {"create", "txn", "apply", "commit", "init", "save", "rmdata", "rmmeta", "crash"}

Diffs == UNION {Range(c) : c \in Chains}

ASSUME ProcsAssumption == NoProc \notin Procs
ASSUME ChainsAssumption ==
  \A c \in Chains : /\ c \in Seq(Diffs) /\ c # <<>>
                    /\ \A n \in 1..Len(c) : SubSeq(c, 1, n) \in Chains
ASSUME FiniteAssumption == IsFiniteSet(Procs) /\ IsFiniteSet(Chains) /\ IsFiniteSet(Mounts)
ASSUME BoundsAssumption == MaxDepth \in Nat \ {0} /\ MaxData \in Nat \ {0}
ASSUME FaultsAssumption == Faults \subseteq AllFaults

VARIABLES
  layerMap,  \* layerStore.layerMap: the chain IDs in it
  count,     \* roLayer.referenceCount
  refs,      \* roLayer.references: the goroutines that hold one
  cache,     \* roLayer.cacheID: the driver's layer, 0 for none
  parent,    \* roLayer.parent, <<>> for none
  mounts,    \* layerStore.mounts
  layerL,    \* holder of layerL across steps
  mountL,    \* holder of mountL across steps
  op,        \* the call each goroutine is in
  panicked,  \* releaseLayer has panicked
  meta,      \* disk: the metadata directory of a layer, its files cache-id and parent
  mountMeta, \* disk: the files of a mount; 0 and <<>> when there is no such file
  driver,    \* the graph driver's layers
  base       \* what a layer of the driver was created on, 0 for nothing

vars == <<layerMap, count, refs, cache, parent, mounts, layerL, mountL, op, panicked,
          meta, mountMeta, driver, base>>

Data == 1..MaxData

\* new, init: driver layers made by the call; cur: the layer it has retained or releases.
Idle == [pc |-> "idle", l |-> <<>>, m |-> {}, new |-> 0, init |-> 0, cur |-> <<>>]
NoMount == [in |-> FALSE, parent |-> <<>>, rw |-> 0, init |-> 0, refs |-> {}]
NoMeta == [state |-> "none", cache |-> 0, parent |-> <<>>]
NoFiles == [rw |-> 0, init |-> 0, parent |-> <<>>]

Init ==
  /\ layerMap = {}
  /\ count = [c \in Chains |-> 0]
  /\ refs = [c \in Chains |-> {}]
  /\ cache = [c \in Chains |-> 0]
  /\ parent = [c \in Chains |-> <<>>]
  /\ mounts = [m \in Mounts |-> NoMount]
  /\ layerL = NoProc /\ mountL = NoProc
  /\ op = [p \in Procs |-> Idle]
  /\ panicked = FALSE
  /\ meta = [c \in Chains |-> NoMeta]
  /\ mountMeta = [m \in Mounts |-> NoFiles]
  /\ driver = {}
  /\ base = [d \in Data |-> 0]

memory == <<layerMap, count, refs, cache, parent, panicked>>
disk == <<meta, mountMeta>>
data == <<driver, base>>
locks == <<layerL, mountL>>
-------------------------------------------------------------------------------
(* The graph driver *)

\* driver.Create and CreateReadWrite make layer d on b; a random new ID never
\* coincides with one that is in use or written down somewhere.
InUse(d) ==
  \/ d \in driver
  \/ \E c \in Chains : d \in {cache[c], meta[c].cache}
  \/ \E m \in Mounts : d \in {mounts[m].rw, mounts[m].init, mountMeta[m].rw, mountMeta[m].init}
  \/ \E p \in Procs : d \in {op[p].new, op[p].init}

Free == {d \in Data : ~InUse(d)}

DriverCreate(d, b) ==
  /\ Free # {} /\ (b = 0 \/ b \in driver)
  /\ d = CHOOSE e \in Free : \A f \in Free : e <= f
  /\ driver' = driver \cup {d}
  /\ base' = [base EXCEPT ![d] = b]

\* It fails: no room, no such base, or another error.
DriverCreateFails(b) ==
  /\ Free = {} \/ (b # 0 /\ b \notin driver) \/ "create" \in Faults
  /\ UNCHANGED data

\* driver.Remove of a layer that is not there succeeds.
DriverRemove(d) ==
  /\ driver' = driver \ {d}
  /\ base' = [e \in Data |-> IF e = d THEN 0 ELSE base[e]]
-------------------------------------------------------------------------------
(* Calls and locks *)

At(p, pc) == op[p].pc = pc
Goto(p, pc) == op' = [op EXCEPT ![p].pc = pc]

\* The call returns and gives up its locks.
Return(p) ==
  /\ op' = [op EXCEPT ![p] = Idle]
  /\ layerL' = IF layerL = p THEN NoProc ELSE layerL
  /\ mountL' = IF mountL = p THEN NoProc ELSE mountL

\* The deferred "release parent chain if error", with the locks the call has.
Fail(p) == IF op[p].cur = <<>> THEN Return(p) ELSE Goto(p, "dec") /\ UNCHANGED locks

CacheOf(c) == IF c = <<>> THEN 0 ELSE cache[c]

\* getWithoutLock for a layer that is in the map.
Retain(c) == [count EXCEPT ![c] = @ + 1]
-------------------------------------------------------------------------------
(* Get, Release and releaseLayer *)

Get(p, c) ==
  /\ At(p, "idle") /\ layerL = NoProc
  /\ c \in layerMap /\ p \notin refs[c]
  /\ count' = Retain(c)
  /\ refs' = [refs EXCEPT ![c] = @ \cup {p}]
  /\ UNCHANGED <<layerMap, cache, parent, panicked, mounts, locks, op, disk, data>>

\* Release: forget the reference and call releaseLayer, under layerL.
Release(p, c) ==
  /\ At(p, "idle") /\ layerL = NoProc
  /\ p \in refs[c]
  /\ refs' = [refs EXCEPT ![c] = @ \ {p}]
  /\ layerL' = p
  /\ op' = [op EXCEPT ![p].pc = "dec", ![p].cur = c]
  /\ UNCHANGED <<layerMap, count, cache, parent, panicked, mounts, mountL, disk, data>>

\* Variant: the last reference but one deletes the layer.
DecEarly(p) ==
  LET c == op[p].cur
  IN /\ At(p, "dec") /\ layerL \in {NoProc, p}
     /\ \/ /\ count[c] > 2
           /\ count' = [count EXCEPT ![c] = @ - 1]
           /\ Return(p) /\ UNCHANGED panicked
        \/ /\ count[c] \in {1, 2}
           /\ count' = [count EXCEPT ![c] = @ - 1]
           /\ layerL' = p
           /\ Goto(p, "rmdata") /\ UNCHANGED <<mountL, panicked>>
     /\ UNCHANGED <<layerMap, refs, cache, parent, mounts, disk, data>>

\* releaseLayer, one round of its loop up to deleteLayer; it panics on a layer that
\* is not retained or that still has references.
Dec(p) ==
  LET c == op[p].cur
  IN /\ At(p, "dec") /\ layerL \in {NoProc, p}
     /\ \/ /\ count[c] = 0 \/ (count[c] = 1 /\ refs[c] # {})
           /\ panicked' = TRUE
           /\ UNCHANGED <<count, op, locks>>
        \/ /\ count[c] > 1
           /\ count' = [count EXCEPT ![c] = @ - 1]
           /\ Return(p) /\ UNCHANGED panicked
        \/ /\ count[c] = 1 /\ refs[c] = {}
           /\ count' = [count EXCEPT ![c] = 0]
           /\ layerL' = p
           /\ Goto(p, "rmdata") /\ UNCHANGED <<mountL, panicked>>
     /\ UNCHANGED <<layerMap, refs, cache, parent, mounts, disk, data>>

\* deleteLayer: first the data; an error leaves the layer in the map, retained by nobody.
RemoveData(p) ==
  /\ At(p, "rmdata")
  /\ \/ DriverRemove(cache[op[p].cur]) /\ Goto(p, "rmmeta") /\ UNCHANGED locks
     \/ "rmdata" \in Faults /\ Return(p) /\ UNCHANGED data
  /\ UNCHANGED <<memory, mounts, disk>>

\* What os.RemoveAll, which removes the files in no particular order, may leave when it
\* fails or is cut short: all, all but the parent file, something that cannot be
\* loaded, or an empty directory, which is as good as none.
Leftovers(mt) ==
  {mt, [mt EXCEPT !.parent = <<>>], [NoMeta EXCEPT !.state = "partial"], NoMeta}

\* ... then the metadata; the layer leaves the map and its parent is released next.
RemoveMeta(p) ==
  LET c == op[p].cur
      up == parent[c]
  IN /\ At(p, "rmmeta")
     /\ \/ /\ meta' = [meta EXCEPT ![c] = NoMeta]
           /\ layerMap' = layerMap \ {c}
           /\ cache' = [cache EXCEPT ![c] = 0]
           /\ parent' = [parent EXCEPT ![c] = <<>>]
           /\ IF up = <<>> THEN Return(p)
              ELSE op' = [op EXCEPT ![p].pc = "dec", ![p].cur = up] /\ UNCHANGED locks
        \/ /\ "rmmeta" \in Faults
           /\ \E mt \in Leftovers(meta[c]) : meta' = [meta EXCEPT ![c] = mt]
           /\ Return(p) /\ UNCHANGED <<layerMap, cache, parent>>
     /\ UNCHANGED <<count, refs, panicked, mounts, mountMeta, data>>
-------------------------------------------------------------------------------
(* registerWithDescriptor *)

\* Retain the parent, which must be in the map; a chain that is too long is an error.
Register(p, c) ==
  LET up == Front(c)
  IN /\ At(p, "idle") /\ p \notin refs[c]
     /\ up # <<>> => layerL = NoProc /\ up \in layerMap
     /\ count' = IF up = <<>> THEN count ELSE Retain(up)
     /\ op' = [op EXCEPT ![p] = [Idle EXCEPT !.l = c, !.cur = up,
                                   !.pc = IF Len(up) >= MaxDepth THEN "dec" ELSE "create"]]
     /\ UNCHANGED <<layerMap, refs, cache, parent, panicked, mounts, locks, disk, data>>

RegisterCreate(p) ==
  /\ At(p, "create")
  /\ LET b == CacheOf(op[p].cur)
     IN \/ /\ \E d \in Data : DriverCreate(d, b) /\ op' = [op EXCEPT ![p].new = d, ![p].pc = "apply"]
           /\ UNCHANGED locks
        \/ DriverCreateFails(b) /\ Fail(p)
  /\ UNCHANGED <<memory, mounts, disk>>

\* StartTransaction, applyTar and storeLayer.  The cleanup of the driver's layer is
\* deferred only after StartTransaction.
RegisterApply(p) ==
  /\ At(p, "apply")
  /\ \/ Goto(p, "commit") /\ UNCHANGED locks
     \/ "txn" \in Faults /\ Fail(p)
     \/ "apply" \in Faults /\ Goto(p, "cleanup") /\ UNCHANGED locks
  /\ UNCHANGED <<memory, mounts, disk, data>>

\* Variant: the layer is entered even if its metadata could not be put in place.
RegisterCommitIgnoresError(p) ==
  LET c == op[p].l
  IN /\ At(p, "commit") /\ layerL = NoProc /\ c \notin layerMap
     /\ \/ /\ meta[c].state = "none"
           /\ meta' = [meta EXCEPT ![c] = [state |-> "full", cache |-> op[p].new, parent |-> op[p].cur]]
        \/ /\ meta[c].state # "none" \/ "commit" \in Faults
           /\ UNCHANGED meta
     /\ layerMap' = layerMap \cup {c}
     /\ count' = [count EXCEPT ![c] = 1]
     /\ refs' = [refs EXCEPT ![c] = {p}]
     /\ cache' = [cache EXCEPT ![c] = op[p].new]
     /\ parent' = [parent EXCEPT ![c] = op[p].cur]
     /\ Return(p)
     /\ UNCHANGED <<panicked, mounts, mountMeta, data>>

\* Under layerL: somebody else was first, or the metadata directory is renamed into
\* place (which fails when there is one already) and the layer enters the map.
RegisterCommit(p) ==
  LET c == op[p].l
  IN /\ At(p, "commit") /\ layerL = NoProc
     /\ \/ /\ c \in layerMap
           /\ count' = Retain(c)
           /\ refs' = [refs EXCEPT ![c] = @ \cup {p}]
           /\ Goto(p, "cleanup")
           /\ UNCHANGED <<layerMap, cache, parent, locks, meta>>
        \/ /\ c \notin layerMap /\ meta[c].state = "none"
           /\ meta' = [meta EXCEPT ![c] = [state |-> "full", cache |-> op[p].new, parent |-> op[p].cur]]
           /\ layerMap' = layerMap \cup {c}
           /\ count' = [count EXCEPT ![c] = 1]
           /\ refs' = [refs EXCEPT ![c] = {p}]
           /\ cache' = [cache EXCEPT ![c] = op[p].new]
           /\ parent' = [parent EXCEPT ![c] = op[p].cur]
           /\ Return(p)
        \/ /\ c \notin layerMap
           /\ meta[c].state # "none" \/ "commit" \in Faults
           /\ Goto(p, "cleanup")
           /\ UNCHANGED <<layerMap, count, refs, cache, parent, locks, meta>>
     /\ UNCHANGED <<panicked, mounts, mountMeta, data>>

\* Variant: the cleanup after a lost race removes nothing.
RegisterCleanupForgets(p) ==
  /\ At(p, "cleanup")
  /\ Fail(p)
  /\ UNCHANGED <<memory, mounts, disk, data>>

\* The deferred cleanup; an error of the driver is only logged.
RegisterCleanup(p) ==
  /\ At(p, "cleanup")
  /\ DriverRemove(op[p].new) \/ ("rmdata" \in Faults /\ UNCHANGED data)
  /\ Fail(p)
  /\ UNCHANGED <<memory, mounts, disk>>
-------------------------------------------------------------------------------
(* CreateRWLayer, GetRWLayer and ReleaseRWLayer *)

CreateRWLayer(p, m, c) ==
  /\ At(p, "idle") /\ mountL = NoProc /\ layerL = NoProc
  /\ ~mounts[m].in /\ c \in layerMap
  /\ mountL' = p
  /\ count' = Retain(c)
  /\ op' = [op EXCEPT ![p] = [Idle EXCEPT !.m = {m}, !.cur = c, !.pc = "init"]]
  /\ UNCHANGED <<layerMap, refs, cache, parent, panicked, mounts, layerL, disk, data>>

\* initMount: a failure after driver.Create leaves the init layer behind.
InitMount(p) ==
  /\ At(p, "init")
  /\ LET b == CacheOf(op[p].cur)
     IN \/ \E d \in Data :
             /\ DriverCreate(d, b)
             /\ \/ op' = [op EXCEPT ![p].init = d, ![p].pc = "rw"] /\ UNCHANGED locks
                \/ "init" \in Faults /\ Fail(p)
        \/ DriverCreateFails(b) /\ Fail(p)
  /\ UNCHANGED <<memory, mounts, disk>>

CreateReadWrite(p) ==
  /\ At(p, "rw")
  /\ LET b == op[p].init
     IN \/ /\ \E d \in Data : DriverCreate(d, b) /\ op' = [op EXCEPT ![p].new = d, ![p].pc = "save"]
           /\ UNCHANGED locks
        \/ DriverCreateFails(b) /\ Fail(p)
  /\ UNCHANGED <<memory, mounts, disk>>

\* The mount of a goroutine's call.
Mount(p) == CHOOSE m \in Mounts : m \in op[p].m

\* What saveMount has written when it stops early: mount-id, init-id, parent, in order.
Saved(p, n) ==
  LET old == mountMeta[Mount(p)]
  IN [rw     |-> IF n >= 1 THEN op[p].new ELSE old.rw,
      init   |-> IF n >= 2 THEN op[p].init ELSE old.init,
      parent |-> IF n >= 3 THEN op[p].cur ELSE old.parent]

SaveMount(p) ==
  /\ At(p, "save")
  /\ LET m == Mount(p)
     IN \/ /\ mountMeta' = [mountMeta EXCEPT ![m] = Saved(p, 3)]
           /\ mounts' = [mounts EXCEPT ![m] = [in |-> TRUE, parent |-> op[p].cur, rw |-> op[p].new,
                                               init |-> op[p].init, refs |-> {p}]]
           /\ Return(p)
        \/ /\ "save" \in Faults
           /\ \E n \in 0..2 : mountMeta' = [mountMeta EXCEPT ![m] = Saved(p, n)]
           /\ Fail(p)
           /\ UNCHANGED mounts
  /\ UNCHANGED <<memory, meta, data>>

GetRWLayer(p, m) ==
  /\ At(p, "idle") /\ mountL = NoProc
  /\ mounts[m].in /\ p \notin mounts[m].refs
  /\ mounts' = [mounts EXCEPT ![m].refs = @ \cup {p}]
  /\ UNCHANGED <<memory, locks, op, disk, data>>

\* The last reference removes the writable layer.
ReleaseRWLayer(p, m) ==
  /\ At(p, "idle") /\ mountL = NoProc
  /\ p \in mounts[m].refs
  /\ mounts' = [mounts EXCEPT ![m].refs = @ \ {p}]
  /\ IF mounts[m].refs # {p} THEN UNCHANGED <<mountL, op>>
     ELSE mountL' = p /\ op' = [op EXCEPT ![p].pc = "rmrw", ![p].m = {m}]
  /\ UNCHANGED <<memory, layerL, disk, data>>

\* retakeReference: the caller may try again.
Retake(p) == mounts' = [mounts EXCEPT ![Mount(p)].refs = @ \cup {p}] /\ Return(p)

RemoveRW(p) ==
  /\ At(p, "rmrw")
  /\ \/ DriverRemove(mounts[Mount(p)].rw) /\ Goto(p, "rminit") /\ UNCHANGED <<mounts, locks>>
     \/ "rmdata" \in Faults /\ Retake(p) /\ UNCHANGED data
  /\ UNCHANGED <<memory, disk>>

RemoveInit(p) ==
  /\ At(p, "rminit")
  /\ \/ DriverRemove(mounts[Mount(p)].init) /\ Goto(p, "rmmount") /\ UNCHANGED <<mounts, locks>>
     \/ "rmdata" \in Faults /\ mounts[Mount(p)].init # 0 /\ Retake(p) /\ UNCHANGED data
  /\ UNCHANGED <<memory, disk>>

\* What os.RemoveAll may leave of the files of a mount.
MountLeftovers(f) ==
  [rw : {f.rw, 0}, init : {f.init, 0}, parent : {f.parent, <<>>}]

\* RemoveMount; the mount leaves the map and its parent is released.
RemoveMount(p) ==
  /\ At(p, "rmmount")
  /\ LET m == Mount(p)
     IN \/ /\ mountMeta' = [mountMeta EXCEPT ![m] = NoFiles]
           /\ mounts' = [mounts EXCEPT ![m] = NoMount]
           /\ IF mounts[m].parent = <<>> THEN Return(p)
              ELSE /\ op' = [op EXCEPT ![p].pc = "dec", ![p].cur = mounts[m].parent]
                   /\ UNCHANGED locks
        \/ /\ "rmmeta" \in Faults
           /\ \E f \in MountLeftovers(mountMeta[m]) : mountMeta' = [mountMeta EXCEPT ![m] = f]
           /\ Retake(p)
  /\ UNCHANGED <<memory, meta, data>>
-------------------------------------------------------------------------------
(* The daemon dies and NewStoreFromGraphDriver loads the store again *)

\* What the disk may hold when the daemon dies: as it is, or the effect of a part of
\* what the holder of the lock was doing.
DyingMeta(c) ==
  {meta[c]} \cup (IF \E p \in Procs : At(p, "rmmeta") /\ op[p].cur = c THEN Leftovers(meta[c]) ELSE {})

DyingMount(m) ==
  {mountMeta[m]}
    \cup (UNION {{Saved(p, n) : n \in 0..3} : p \in {q \in Procs : At(q, "save") /\ Mount(q) = m}})
    \cup (UNION {MountLeftovers(mountMeta[m]) : p \in {q \in Procs : At(q, "rmmount") /\ Mount(q) = m}})

\* loadLayer succeeds: the metadata of the layer, of its parent, and so on down to a
\* layer without parent file, can be read.
Loadable(mt, c) ==
  \E k \in 1..Len(c) :
    /\ mt[SubSeq(c, 1, k)].parent = <<>>
    /\ \A n \in k..Len(c) : mt[SubSeq(c, 1, n)].state = "full"
    /\ \A n \in k + 1 .. Len(c) : mt[SubSeq(c, 1, n)].parent # <<>>

\* loadMount succeeds.
MountLoadable(mt, f) == f.rw # 0 /\ (f.parent # <<>> => Loadable(mt, f.parent))

\* Variant: mounts are loaded without retaining their parent.
LoadedCountNoMounts(mt, mm, c) == Cardinality({d \in Chains : Loadable(mt, d) /\ mt[d].parent = c})

\* The reference counts of a store that was loaded: its children and its mounts.
LoadedCount(mt, mm, c) ==
  Cardinality({d \in Chains : Loadable(mt, d) /\ mt[d].parent = c})
    + Cardinality({m \in Mounts : MountLoadable(mt, mm[m]) /\ mm[m].parent = c})

Crash ==
  /\ "crash" \in Faults
  /\ ~panicked
  /\ meta' \in [Chains -> UNION {DyingMeta(c) : c \in Chains}]
  /\ \A c \in Chains : meta'[c] \in DyingMeta(c)
  /\ mountMeta' \in [Mounts -> UNION {DyingMount(m) : m \in Mounts}]
  /\ \A m \in Mounts : mountMeta'[m] \in DyingMount(m)
  /\ layerMap' = {c \in Chains : Loadable(meta', c)}
  /\ count' = [c \in Chains |-> IF c \in layerMap' THEN LoadedCount(meta', mountMeta', c) ELSE 0]
  /\ refs' = [c \in Chains |-> {}]
  /\ cache' = [c \in Chains |-> IF c \in layerMap' THEN meta'[c].cache ELSE 0]
  /\ parent' = [c \in Chains |-> IF c \in layerMap' THEN meta'[c].parent ELSE <<>>]
  /\ mounts' = [m \in Mounts |->
       LET f == mountMeta'[m]
       IN IF MountLoadable(meta', f)
          THEN [in |-> TRUE, parent |-> f.parent, rw |-> f.rw, init |-> f.init, refs |-> {}]
          ELSE NoMount]
  /\ layerL' = NoProc /\ mountL' = NoProc
  /\ op' = [p \in Procs |-> Idle]
  /\ UNCHANGED <<panicked, data>>
-------------------------------------------------------------------------------
\* A call makes its next step.
Step(p) ==
  \/ Dec(p) \/ RemoveData(p) \/ RemoveMeta(p)
  \/ RegisterCreate(p) \/ RegisterApply(p) \/ RegisterCommit(p) \/ RegisterCleanup(p)
  \/ InitMount(p) \/ CreateReadWrite(p) \/ SaveMount(p)
  \/ RemoveRW(p) \/ RemoveInit(p) \/ RemoveMount(p)

\* A goroutine calls the store.
Enter(p) ==
  \/ \E c \in Chains : Get(p, c) \/ Release(p, c) \/ Register(p, c)
  \/ \E m \in Mounts : GetRWLayer(p, m) \/ ReleaseRWLayer(p, m)
  \/ \E m \in Mounts, c \in Chains : CreateRWLayer(p, m, c)

Next == (\E p \in Procs : Enter(p) \/ Step(p)) \/ Crash

Spec == Init /\ [][Next]_vars

-------------------------------------------------------------------------------
(* Properties *)

Bases == Chains \cup {<<>>}
Metas == [state : {"none", "partial", "full"}, cache : 0..MaxData, parent : Bases]

TypeOK ==
  /\ layerMap \subseteq Chains
  /\ count \in [Chains -> Nat]
  /\ refs \in [Chains -> SUBSET Procs]
  /\ cache \in [Chains -> 0..MaxData]
  /\ parent \in [Chains -> Bases]
  /\ mounts \in [Mounts -> [in : BOOLEAN, parent : Bases, rw : 0..MaxData, init : 0..MaxData,
                            refs : SUBSET Procs]]
  /\ layerL \in Procs \cup {NoProc} /\ mountL \in Procs \cup {NoProc}
  /\ op \in [Procs -> [pc : {"idle", "dec", "rmdata", "rmmeta", "create", "apply", "commit", "cleanup",
                             "init", "rw", "save", "rmrw", "rminit", "rmmount"},
                       l : Bases, m : SUBSET Mounts, new : 0..MaxData, init : 0..MaxData, cur : Bases]]
  /\ panicked \in BOOLEAN
  /\ meta \in [Chains -> Metas]
  /\ mountMeta \in [Mounts -> [rw : 0..MaxData, init : 0..MaxData, parent : Bases]]
  /\ driver \subseteq Data
  /\ base \in [Data -> 0..MaxData]

\* The calls that have retained c and not passed it on.
Retainers(c) == {p \in Procs : op[p].cur = c /\ op[p].pc \notin {"idle", "rmdata", "rmmeta"}}

\* referenceCount is exact: handles given out, layers on top, mounts, and calls in
\* flight, through every error path and after loading (layer_store.go:394, 460, 146, 252),
\* and so releaseLayer never panics (layer_store.go:465-476).
CountsExact ==
  /\ ~panicked
  /\ \A c \in layerMap :
       count[c] = Cardinality(refs[c]) + Cardinality({d \in layerMap : parent[d] = c})
                    + Cardinality({m \in Mounts : mounts[m].in /\ mounts[m].parent = c})
                    + Cardinality(Retainers(c))

\* Data in use is there: the driver's layer of a layer somebody holds (layer.go:134, "TarStream
\* returns a tar archive stream for the contents of a layer"), that of a mount somebody holds,
\* and whatever a driver's layer was made on: layers are released from the top down, whoever
\* holds the ones below (layer_store.go:460-492).
DataPresent ==
  /\ \A c \in layerMap : count[c] > 0 => cache[c] \in driver
  /\ \A m \in Mounts :
       mounts[m].in /\ mounts[m].refs # {} => {mounts[m].rw, mounts[m].init} \subseteq driver
  /\ \A d \in driver : base[d] # 0 => base[d] \in driver

\* What the daemon would load after dying now: every layer somebody holds, with the
\* same data, and every mount.
SurvivesRestart ==
  /\ \A c \in layerMap : count[c] > 0 => meta[c] = [state |-> "full", cache |-> cache[c], parent |-> parent[c]]
  /\ \A m \in Mounts : mounts[m].in /\ mounts[m].refs # {} =>
       mountMeta[m] = [rw |-> mounts[m].rw, init |-> mounts[m].init, parent |-> mounts[m].parent]

\* The driver's layers that the store knows of.
Known ==
  {cache[c] : c \in layerMap} \cup {mounts[m].rw : m \in Mounts} \cup {mounts[m].init : m \in Mounts}
    \cup {op[p].new : p \in Procs} \cup {op[p].init : p \in Procs}

\* Registering cleans up after itself (layer_store.go:303, "the error which will always
\* trigger cleanup of creates sources"): the driver has no layer the store forgot.
NoOrphanData == driver \subseteq Known

-------------------------------------------------------------------------------
(* The store implements what it promises *)

\* The layers and the mounts that are being deleted, and the mounts as LayerPromise sees them.
LeavingLayers == {c \in layerMap : \E p \in Procs : op[p].cur = c /\ op[p].pc \in {"rmdata", "rmmeta"}}
LeavingMounts == {m \in Mounts : \E p \in Procs : op[p].m = {m} /\ op[p].pc \in {"rmrw", "rminit", "rmmount"}}
Writable ==
  [m \in Mounts |-> [in |-> mounts[m].in, on |-> mounts[m].parent, users |-> mounts[m].refs]]

\* The files of every layer in the map, retained or not, and of every mount say what the
\* memory says, and there are no complete files of another layer.
Written(c) == meta[c] = [state |-> "full", cache |-> cache[c], parent |-> parent[c]]
MountWritten(m) ==
  mountMeta[m] = [rw |-> mounts[m].rw, init |-> mounts[m].init, parent |-> mounts[m].parent]
DiskMatches ==
  /\ \A c \in layerMap : Written(c)
  /\ \A m \in Mounts : mounts[m].in => MountWritten(m)
NothingElse == \A c \in Chains : c \notin layerMap => meta[c].state # "full"
Damaged == ~(DiskMatches /\ NothingElse)

Abs == INSTANCE LayerPromise
  WITH there <- layerMap, below <- parent, holders <- refs, leaving <- LeavingLayers,
       writable <- Writable, leavingRW <- LeavingMounts, damaged <- Damaged

\* Every step of the store, of its error paths and of its loading is a step of LayerPromise or
\* changes nothing there: a layer that somebody holds or something is on is never deleted
\* (layer_store.go:460-492), nobody gets a layer or a mount that is being deleted, and only
\* what was being deleted is lost when the daemon dies, unless a deletion failed before.
ImplementsPromise == Abs!AbsSpec
===============================================================================
