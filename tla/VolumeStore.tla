------------------------------ MODULE VolumeStore ------------------------------
(***************************************************************************)
(* volume/store, with the daemon's requests that use it: creating,         *)
(* starting and removing containers with a volume, --volumes-from, volume  *)
(* create, inspect, rm and prune, and a restart of the daemon.             *)
(*                                                                         *)
(* Every call of the store holds the lock of the volume's name, one of     *)
(* NamedMutex (which Locker implements), from beginning to end.  Purge is  *)
(* the exception: VolumeRm calls it without.  A section under globalLock   *)
(* is one step, a call of a driver is one step, and other calls go on in   *)
(* between.  A volume object is the pair of its name and its driver; "no   *)
(* volume" is NoDriver.  Drivers are registered extensions (local, legacy  *)
(* plugins), for which acquiring and releasing a driver changes nothing.   *)
(***************************************************************************)
EXTENDS NamedMutex

CONSTANTS Drivers,    \* volume drivers
          Local,      \* volume.DefaultDriverName
          NoDriver,   \* no volume, or no driver named
          Containers, \* containers, each with one volume mounted
          Requests,   \* what clients ask for
          Faults      \* what may go wrong: "comm", "driver", "create", "remove", "db", "mount", "crash"

ASSUME LocalAssumption == Local \in Drivers
ASSUME NoDriverAssumption == NoDriver \notin Drivers
ASSUME NoNameAssumption == "" \notin Names /\ "" \notin Containers

VARIABLES names,   \* VolumeStore.names: the cached volume's driver
          refs,    \* VolumeStore.refs: the containers that reference a name
          meta,    \* the database: the driver recorded for a name
          vols,    \* what the drivers have: external
          mounts,  \* mounts[c]: the container's mount point
          op,      \* op[p]: the request of goroutine p and where it is
          dropped  \* history: containers whose reference a Purge has deleted

vars == <<wants, owns, names, refs, meta, vols, mounts, op, dropped>>
store == <<names, refs, meta, dropped>>
lock == <<wants, owns>>

NoMount == [n |-> "", d |-> NoDriver, vol |-> FALSE, anon |-> FALSE]
Idle == [do |-> "idle", call |-> "", pc |-> "idle", n |-> "", d |-> NoDriver, c |-> "",
         v |-> NoDriver, rm |-> FALSE, anon |-> FALSE, ok |-> FALSE]

Calls == {"create", "getref", "get", "remove", "deref", "refs"}
PCs == {"idle", "lock", "cache", "exists", "meta", "lookup", "driver", "reset",
        "setmeta", "named", "check", "rmdriver", "purge", "deref", "refs", "getref", "returned"}

TypeOK ==
  /\ AbsTypeOK
  /\ names \in [Names -> Drivers \cup {NoDriver}]
  /\ refs \in [Names -> SUBSET Containers]
  /\ meta \in [Names -> Drivers \cup {NoDriver}]
  /\ vols \in [Drivers -> SUBSET Names]
  /\ DOMAIN mounts = Containers
  /\ DOMAIN op = Procs
  /\ \A p \in Procs : op[p].pc \in PCs
  /\ dropped \in SUBSET Containers

Init ==
  /\ AbsInit
  /\ names = [n \in Names |-> NoDriver]
  /\ refs = [n \in Names |-> {}]
  /\ meta = [n \in Names |-> NoDriver]
  /\ vols = [d \in Drivers |-> {}]
  /\ mounts = [c \in Containers |-> NoMount]
  /\ op = [p \in Procs |-> Idle]
  /\ dropped = {}

At(p, pc) == op[p].pc = pc

\* What the daemon has still to do when a call of the store has returned.
GoesOn(o) ==
  \/ o.do = "createC" /\ o.call # "deref" /\ o.ok
  \/ o.do = "startC" /\ o.ok
  \/ o.do = "rmC" /\ o.call = "deref" /\ o.rm
  \/ o.do = "volRm"
  \/ o.do = "prune" /\ (o.call = "get" \/ (o.call = "refs" /\ o.ok))

Go(p, o) == op' = [op EXCEPT ![p] = o]
Goto(p, pc) == /\ Go(p, [op[p] EXCEPT !.pc = pc, !.v = IF pc \in {"meta", "driver"} THEN NoDriver ELSE @])
               /\ UNCHANGED lock
Found(p, d, pc) == /\ Go(p, [op[p] EXCEPT !.v = d, !.pc = pc, !.d = IF pc \in {"named", "reset"} THEN NoDriver ELSE @])
                   /\ UNCHANGED lock
\* The call ends, with a volume or with an error: defer s.locks.Unlock(name).
Leave(p, o) ==
  /\ Go(p, IF GoesOn(o) THEN [o EXCEPT !.pc = "returned", !.d = NoDriver] ELSE Idle)
  /\ GiveBack(p, op[p].n)
Answer(p) == Leave(p, [op[p] EXCEPT !.ok = TRUE])
Error(p) == Leave(p, [op[p] EXCEPT !.ok = FALSE])

\* The driver has the volume and says so; it may also not answer, or answer with an
\* error of its own, which lookupVolume takes for "no such volume".
Has(d, n) == n \in vols[d]
\* lookupVolume
Lookups(d, n) == {IF Has(d, n) THEN "yes" ELSE "no"}
                   \cup (IF "comm" \in Faults THEN {"error"} ELSE {})
                   \cup (IF "driver" \in Faults THEN {"no"} ELSE {})
-------------------------------------------------------------------------------
(* What clients ask for.  Each request begins with a call of the store.         *)

Free(c) == \A p \in Procs : op[p].c # c
\* stringid.GenerateNonCryptoID: a name nobody has used.
Unused(n) ==
  /\ names[n] = NoDriver
  /\ meta[n] = NoDriver
  /\ \A d \in Drivers : ~Has(d, n)
  /\ \A p \in Procs : op[p].n # n
  /\ \A c \in Containers : mounts[c].n # n

Begin(p, r) ==
  /\ At(p, "idle")
  /\ Go(p, r)
  /\ Ask(p, r.n)

FirstStep == [create |-> "cache", getref |-> "getref", get |-> "meta",
              remove |-> "check", deref |-> "deref", refs |-> "refs"]

\* A request that has read and changed nothing before its first call of the store is taken
\* to begin when that call has the lock.
BeginLocked(p, r) ==
  /\ At(p, "idle")
  /\ owns[r.n] = {}
  /\ owns' = [owns EXCEPT ![r.n] = {p}]
  /\ Go(p, [r EXCEPT !.pc = FirstStep[r.call]])
  /\ UNCHANGED wants

\* docker create or run -v: registerMountPoints calls CreateWithRef.
CreateContainer(p) ==
  /\ "createC" \in Requests
  /\ \E c \in Containers, n \in Names, d \in Drivers \cup {NoDriver}, anon \in BOOLEAN :
       /\ mounts[c] = NoMount /\ Free(c)
       /\ anon => Unused(n)
       /\ BeginLocked(p, [Idle EXCEPT !.do = "createC", !.call = "create",
                                      !.n = n, !.d = d, !.c = c, !.anon = anon])
  /\ UNCHANGED <<store, vols, mounts>>

\* docker create --volumes-from.  A mount of a named volume has a Source, the path of the
\* volume: it is copied, and without a volume.  An anonymous volume has none, and is taken
\* with GetWithRef.
CreateFrom(p) ==
  /\ "fromC" \in Requests
  /\ \E c, o \in Containers :
       /\ mounts[c] = NoMount /\ Free(c)
       /\ mounts[o] # NoMount
       /\ IF mounts[o].anon
            THEN /\ Begin(p, [Idle EXCEPT !.do = "createC", !.call = "getref", !.pc = "lock",
                                         !.n = mounts[o].n, !.d = mounts[o].d, !.c = c, !.anon = TRUE])
                 /\ UNCHANGED mounts
            ELSE /\ At(p, "idle")
                 /\ mounts' = [mounts EXCEPT ![c] = [mounts[o] EXCEPT !.vol = FALSE]]
                 /\ UNCHANGED <<lock, op>>
  /\ UNCHANGED <<store, vols>>

\* docker start: lazyInitializeVolume, when the mount has no volume yet.
StartContainer(p) ==
  /\ \E c \in Containers :
       /\ mounts[c] # NoMount /\ ~mounts[c].vol /\ Free(c)
       /\ Begin(p, [Idle EXCEPT !.do = "startC", !.call = "getref", !.pc = "lock",
                                !.n = mounts[c].n, !.d = mounts[c].d, !.c = c])
  /\ UNCHANGED <<store, vols, mounts>>

\* docker rm, with or without -v: the container is off the disk when removeMountPoints runs.
\* A mount without a volume object is skipped.
RemoveContainer(p) ==
  /\ \E c \in Containers, rm \in BOOLEAN :
       /\ mounts[c] # NoMount /\ Free(c)
       /\ mounts' = [mounts EXCEPT ![c] = NoMount]
       /\ IF mounts[c].vol
            THEN Begin(p, [Idle EXCEPT !.do = "rmC", !.call = "deref", !.pc = "lock", !.n = mounts[c].n,
                                       !.c = c, !.v = mounts[c].d, !.rm = rm /\ mounts[c].anon])
            ELSE At(p, "idle") /\ UNCHANGED <<lock, op>>
  /\ UNCHANGED <<store, vols>>

\* docker volume create
VolumeCreate(p) ==
  /\ "volCreate" \in Requests
  /\ \E n \in Names, d \in Drivers :
       BeginLocked(p, [Idle EXCEPT !.do = "volCreate", !.call = "create", !.n = n, !.d = d])
  /\ UNCHANGED <<store, vols, mounts>>

\* docker volume rm, docker volume inspect, and docker volume prune for one volume the
\* local driver listed: all begin with Get.
VolumeGet(p) ==
  /\ \E n \in Names, do \in {"volRm", "inspect", "prune"} \cap Requests :
       /\ do = "prune" => Has(Local, n)
       /\ BeginLocked(p, [Idle EXCEPT !.do = do, !.call = "get", !.n = n])
  /\ UNCHANGED <<store, vols, mounts>>
-------------------------------------------------------------------------------
(* The calls of the store                                                       *)

\* s.locks.Lock(name) returns.
Lock(p) ==
  /\ At(p, "lock")
  /\ Go(p, [op[p] EXCEPT !.pc = FirstStep[op[p].call]])
  /\ Grant(p, op[p].n)
  /\ UNCHANGED <<store, vols, mounts>>

\* Purge: one section under globalLock.
Purge(n) ==
  /\ names' = [names EXCEPT ![n] = NoDriver]
  /\ refs' = [refs EXCEPT ![n] = {}]
  /\ meta' = [meta EXCEPT ![n] = NoDriver]

\* Variant: setNamed replaces the references of the name by the new one.
SetNamedReplaces(p) ==
  LET n == op[p].n
      r == IF op[p].call = "get" THEN {} ELSE {op[p].c} \cap Containers
  IN /\ At(p, "named")
     /\ names' = [names EXCEPT ![n] = op[p].v]
     /\ refs' = [refs EXCEPT ![n] = r]
     /\ dropped' = dropped \ r
     /\ Answer(p)
     /\ UNCHANGED <<meta, vols, mounts>>

\* setNamed at the end of CreateWithRef, GetWithRef (with the container) and Get (without).
SetNamed(p) ==
  LET n == op[p].n
      r == IF op[p].call = "get" THEN {} ELSE {op[p].c} \cap Containers
  IN /\ At(p, "named")
     /\ names' = [names EXCEPT ![n] = op[p].v]
     /\ refs' = [refs EXCEPT ![n] = @ \cup r]
     /\ dropped' = dropped \ r
     /\ Answer(p)
     /\ UNCHANGED <<meta, vols, mounts>>

\* create: without a driver, the volume is first looked for (getVolume).
AfterCheck(p) == IF op[p].d = NoDriver THEN "meta" ELSE "driver"

\* checkConflict, first part: is a volume of that name cached?
CheckCache(p) ==
  /\ At(p, "cache")
  /\ Found(p, names[op[p].n], IF names[op[p].n] = NoDriver THEN AfterCheck(p) ELSE "exists")
  /\ UNCHANGED <<store, vols, mounts>>

\* checkConflict, second part: a cached volume is asked for at its driver.  It is
\* returned, or conflicts, or is purged when it is gone and has no references.
CheckExists(p) ==
  LET n == op[p].n
      conflict == op[p].d \notin {NoDriver, op[p].v}
  IN /\ At(p, "exists")
     /\ \E answer \in Lookups(op[p].v, n) :
          \/ /\ answer = "yes" /\ ~conflict
             /\ Goto(p, "named")
             /\ UNCHANGED store
          \/ /\ answer = "error" \/ (answer = "yes" /\ conflict) \/ (answer = "no" /\ refs[n] # {})
             /\ Error(p)
             /\ UNCHANGED store
          \/ /\ answer = "no" /\ refs[n] = {}
             /\ Purge(n)
             /\ Goto(p, AfterCheck(p))
             /\ UNCHANGED dropped
     /\ UNCHANGED <<vols, mounts>>

\* getVolume fails: Get returns the error, create goes on to make the volume.
NotFound(p) == IF op[p].call = "create" THEN Goto(p, "driver") ELSE Error(p)

\* getVolume: the driver in the database, or else the cached one, which is then recorded.
ReadMeta(p) ==
  LET n == op[p].n
      known == IF meta[n] # NoDriver THEN meta[n] ELSE names[n]
  IN /\ At(p, "meta")
     /\ \/ /\ meta' = [meta EXCEPT ![n] = known]
           /\ Found(p, known, "lookup")
        \/ /\ "db" \in Faults /\ meta[n] # known
           /\ NotFound(p)
           /\ UNCHANGED meta
     /\ UNCHANGED <<names, refs, dropped, vols, mounts>>

\* getVolume: the driver is known.  When it does not have the volume, the name is purged,
\* its references included.
LookupKnown(p) ==
  LET n == op[p].n
  IN /\ At(p, "lookup")
     /\ op[p].v # NoDriver
     /\ \E answer \in Lookups(op[p].v, n) :
          \/ /\ answer = "yes"
             /\ Goto(p, "named")
             /\ UNCHANGED store
          \/ /\ answer = "no"
             /\ Purge(n)
             /\ dropped' = dropped \cup refs[n]
             /\ NotFound(p)
          \/ /\ answer = "error"
             /\ NotFound(p)
             /\ UNCHANGED store
     /\ UNCHANGED <<vols, mounts>>

\* getVolume: all drivers are asked, in any order; one that fails is passed over.
Probe(p) ==
  LET n == op[p].n
      has == {d \in Drivers : Has(d, n)}
  IN /\ At(p, "lookup")
     /\ op[p].v = NoDriver
     /\ \/ \E d \in has :
             /\ meta' = [meta EXCEPT ![n] = d]
             /\ Found(p, d, "named")
        \/ /\ has = {} \/ Faults \cap {"comm", "driver", "db"} # {}
           /\ NotFound(p)
           /\ UNCHANGED meta
     /\ UNCHANGED <<names, refs, dropped, vols, mounts>>

\* create: the driver is asked for the volume, and makes it when it has none.
CreateInDriver(p) ==
  LET n == op[p].n
      d == IF op[p].d = NoDriver THEN Local ELSE op[p].d
  IN /\ At(p, "driver")
     /\ \/ /\ Has(d, n)
           /\ Found(p, d, "named")
           /\ UNCHANGED vols
        \/ /\ ~Has(d, n) \/ Faults \cap {"comm", "driver"} # {}
           /\ vols' = [vols EXCEPT ![d] = @ \cup {n}]
           /\ Found(p, d, "reset")
        \/ /\ Faults \cap {"comm", "create"} # {}
           /\ Error(p)
           /\ UNCHANGED vols
     /\ UNCHANGED <<store, mounts>>

\* create: labels, options and references of the name begin anew.
CreateReset(p) ==
  /\ At(p, "reset")
  /\ refs' = [refs EXCEPT ![op[p].n] = {}]
  /\ Goto(p, "setmeta")
  /\ UNCHANGED <<names, meta, dropped, vols, mounts>>

\* create: the volume is recorded in the database.
CreateSetMeta(p) ==
  /\ At(p, "setmeta")
  /\ \/ /\ meta' = [meta EXCEPT ![op[p].n] = op[p].v]
        /\ Goto(p, "named")
     \/ /\ "db" \in Faults
        /\ Error(p)
        /\ UNCHANGED meta
  /\ UNCHANGED <<names, refs, dropped, vols, mounts>>

\* GetWithRef: the driver named must have the volume.
GetFromDriver(p) ==
  LET d == op[p].d
  IN /\ At(p, "getref")
     /\ \/ /\ Has(d, op[p].n)
           /\ Found(p, d, "named")
        \/ /\ ~Has(d, op[p].n) \/ Faults \cap {"comm", "driver"} # {}
           /\ Error(p)
     /\ UNCHANGED <<store, vols, mounts>>

\* Variant: Remove does not look at the references.
RemoveCheckNone(p) ==
  /\ At(p, "check")
  /\ Goto(p, "rmdriver")
  /\ UNCHANGED <<store, vols, mounts>>

\* Remove: a volume that is referenced is not removed, and --force does not help (IsInUse).
RemoveCheck(p) ==
  /\ At(p, "check")
  /\ IF refs[op[p].n] # {} THEN Leave(p, Idle) ELSE Goto(p, "rmdriver")
  /\ UNCHANGED <<store, vols, mounts>>

\* Remove: the driver removes the volume.  What is not there may be an error or not.
RemoveInDriver(p) ==
  LET n == op[p].n
      d == op[p].v
  IN /\ At(p, "rmdriver")
     /\ \/ /\ vols' = [vols EXCEPT ![d] = @ \ {n}]
           /\ Goto(p, "purge")
        \/ /\ ~Has(d, n) \/ Faults \cap {"comm", "remove"} # {}
           /\ Error(p)
           /\ UNCHANGED vols
     /\ UNCHANGED <<store, mounts>>

\* Variant: Remove leaves the name in the cache.
RemovePurgeKeeps(p) ==
  /\ At(p, "purge")
  /\ Answer(p)
  /\ UNCHANGED <<store, vols, mounts>>

\* Remove: the name is purged.
RemovePurge(p) ==
  /\ At(p, "purge")
  /\ Purge(op[p].n)
  /\ Answer(p)
  /\ UNCHANGED <<dropped, vols, mounts>>

\* Dereference
Dereference(p) ==
  /\ At(p, "deref")
  /\ refs' = [refs EXCEPT ![op[p].n] = @ \ {op[p].c}]
  /\ Answer(p)
  /\ UNCHANGED <<names, meta, dropped, vols, mounts>>

\* Refs, as prune uses it.
Refs(p) ==
  /\ At(p, "refs")
  /\ Leave(p, [op[p] EXCEPT !.ok = refs[op[p].n] = {}])
  /\ UNCHANGED <<store, vols, mounts>>
-------------------------------------------------------------------------------
(* How the requests go on when a call of the store has returned                 *)

Returned(p, do, call, ok) ==
  /\ At(p, "returned")
  /\ op[p].do = do /\ op[p].call = call /\ op[p].ok = ok

Done(p) == Go(p, Idle) /\ UNCHANGED lock

NextCall(p, call) ==
  /\ Go(p, [op[p] EXCEPT !.call = call, !.pc = "lock", !.ok = FALSE])
  /\ Ask(p, op[p].n)

\* The container gets its mount point and is written to disk.
Register(p) ==
  /\ \E call \in {"create", "getref"} : Returned(p, "createC", call, TRUE)
  /\ mounts' = [mounts EXCEPT ![op[p].c] =
                  [n |-> op[p].n, d |-> op[p].v, vol |-> TRUE, anon |-> op[p].anon]]
  /\ Done(p)
  /\ UNCHANGED <<store, vols>>

\* Creating the container fails after it got its volume: registerMountPoints dereferences it,
\* or cleanupContainer does and removes it when it is anonymous.  When an anonymous volume
\* cannot be labelled the container does not have it yet, and the reference stays.
RegisterFails(p) ==
  /\ "mount" \in Faults
  /\ \/ /\ Returned(p, "createC", "getref", TRUE)
        /\ NextCall(p, "deref")
     \/ /\ \E call \in {"create", "getref"} : Returned(p, "createC", call, TRUE)
        /\ Go(p, [op[p] EXCEPT !.do = "rmC", !.call = "deref", !.pc = "lock", !.rm = op[p].anon, !.ok = FALSE])
        /\ Ask(p, op[p].n)
     \/ /\ Returned(p, "createC", "create", TRUE) /\ op[p].anon
        /\ Done(p)
  /\ UNCHANGED <<store, vols, mounts>>

\* lazyInitializeVolume sets m.Volume.
Attach(p) ==
  /\ Returned(p, "startC", "getref", TRUE)
  /\ mounts' = [mounts EXCEPT ![op[p].c].vol = TRUE]
  /\ Done(p)
  /\ UNCHANGED <<store, vols>>

\* removeMountPoints with rm: an anonymous volume is removed.
RemoveAnonymous(p) ==
  /\ At(p, "returned") /\ op[p].do = "rmC" /\ op[p].call = "deref" /\ op[p].rm
  /\ NextCall(p, "remove")
  /\ UNCHANGED <<store, vols, mounts>>

\* volumeRm: Remove what Get has found.
VolumeRmRemove(p) ==
  /\ Returned(p, "volRm", "get", TRUE)
  /\ NextCall(p, "remove")
  /\ UNCHANGED <<store, vols, mounts>>

\* VolumeRm after volumeRm: without the lock of the name, it is purged once more; with
\* --force also after an error, unless the volume was in use.
VolumeRmPurge(p) ==
  /\ At(p, "returned") /\ op[p].do = "volRm"
  /\ op[p].call = "get" => ~op[p].ok
  /\ Purge(op[p].n)
  /\ dropped' = dropped \cup refs[op[p].n]
  /\ Done(p)
  /\ UNCHANGED <<vols, mounts>>

\* ... without --force an error is returned.
VolumeRmFails(p) ==
  /\ At(p, "returned") /\ op[p].do = "volRm" /\ ~op[p].ok
  /\ Done(p)
  /\ UNCHANGED <<store, vols, mounts>>

\* VolumesPrune: a volume without references is removed.  When Get failed it is the one
\* the local driver listed.
PruneRefs(p) ==
  /\ At(p, "returned") /\ op[p].do = "prune" /\ op[p].call = "get"
  /\ Go(p, [op[p] EXCEPT !.call = "refs", !.pc = "lock", !.ok = FALSE,
                          !.v = IF op[p].ok THEN @ ELSE Local])
  /\ Ask(p, op[p].n)
  /\ UNCHANGED <<store, vols, mounts>>

PruneRemove(p) ==
  /\ Returned(p, "prune", "refs", TRUE)
  /\ NextCall(p, "remove")
  /\ UNCHANGED <<store, vols, mounts>>

-------------------------------------------------------------------------------
\* The daemon dies and starts again.  restore caches what is in the database and at the
\* driver, and forgets what the driver says it does not have; then prepareMountPoints
\* takes the references of the containers that are on disk, where the driver answers.
\* Clients are served after that.
Restart ==
  /\ "crash" \in Faults
  /\ \E answer \in [Names -> {"yes", "no", "error"}],
        att \in SUBSET {c \in Containers : mounts[c] # NoMount /\ Has(mounts[c].d, mounts[c].n)} :
       LET restored(n) == IF meta[n] # NoDriver /\ answer[n] = "yes" THEN {meta[n]} ELSE {NoDriver}
           got(n) == {mounts[c].d : c \in {c \in att : mounts[c].n = n}}
       IN /\ \A n \in Names : IF meta[n] = NoDriver THEN answer[n] = "no"
                                                    ELSE answer[n] \in Lookups(meta[n], n)
          /\ Faults \cap {"comm", "driver"} = {} =>
               \A c \in Containers \ att : mounts[c] # NoMount => ~Has(mounts[c].d, mounts[c].n)
          /\ names' \in [Names -> Drivers \cup {NoDriver}]
          /\ \A n \in Names : names'[n] \in IF got(n) # {} THEN got(n) ELSE restored(n)
          /\ meta' = [n \in Names |-> IF answer[n] = "no" THEN NoDriver ELSE meta[n]]
          /\ refs' = [n \in Names |-> {c \in att : mounts[c].n = n}]
          /\ mounts' = [c \in Containers |-> [mounts[c] EXCEPT !.vol = c \in att]]
  /\ dropped' = {}
  /\ op' = [p \in Procs |-> Idle]
  /\ wants' = [p \in Procs |-> {}]
  /\ owns' = [n \in Names |-> {}]
  /\ UNCHANGED vols

ClientStep(p) ==
  \/ CreateContainer(p) \/ CreateFrom(p) \/ StartContainer(p) \/ RemoveContainer(p)
  \/ VolumeCreate(p) \/ VolumeGet(p)

StoreStep(p) ==
  \/ Lock(p) \/ SetNamed(p)
  \/ CheckCache(p) \/ CheckExists(p) \/ CreateInDriver(p)
  \/ CreateReset(p) \/ CreateSetMeta(p)
  \/ ReadMeta(p) \/ LookupKnown(p) \/ Probe(p) \/ GetFromDriver(p)
  \/ RemoveCheck(p) \/ RemoveInDriver(p) \/ RemovePurge(p)
  \/ Dereference(p) \/ Refs(p)

DaemonStep(p) ==
  \/ Register(p) \/ RegisterFails(p) \/ Attach(p) \/ RemoveAnonymous(p)
  \/ VolumeRmRemove(p) \/ VolumeRmPurge(p) \/ VolumeRmFails(p)
  \/ PruneRefs(p) \/ PruneRemove(p)

Next ==
  \/ \E p \in Procs : ClientStep(p) \/ StoreStep(p) \/ DaemonStep(p)
  \/ Restart

Spec == Init /\ [][Next]_vars
-------------------------------------------------------------------------------
(* Properties *)

\* The containers that have been given the volume of name n from driver d: their mount
\* point holds it, or the call that took it for them has returned.
Users(n, d) ==
  {c \in Containers :
     \/ mounts[c].vol /\ mounts[c].n = n /\ mounts[c].d = d
     \/ \E p \in Procs : /\ op[p].do \in {"createC", "startC"} /\ op[p].c = c
                         /\ At(p, "returned") /\ op[p].ok
                         /\ op[p].n = n /\ op[p].v = d}

\* A container that has been given a volume is among the references of its name, unless a
\* Purge has deleted them: no interleaving of creating, getting and removing loses one
\* ("makes sure there are no races between checking for the existence of a volume and
\* adding a reference for it", store.go:433).
RefsCoverMounts ==
  \A n \in Names, d \in Drivers : Users(n, d) \subseteq refs[n] \cup dropped

\* A container's volume is not removed from its driver under it, whatever rm, rm -v, volume
\* rm and prune do at the same time and across restarts, as long as no Purge has deleted
\* its reference.
MountedExists ==
  \A n \in Names, d \in Drivers : Users(n, d) \ dropped # {} => Has(d, n)

\* The cache names no volume that its driver has lost: whoever removed it is about to
\* purge the name, and a restart forgets it.
CachedIsBacked ==
  \A n \in Names :
    \/ names[n] = NoDriver
    \/ Has(names[n], n)
    \/ \E p \in Procs : op[p].n = n /\ At(p, "purge")
===============================================================================
