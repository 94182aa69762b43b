------------------------------- MODULE DeviceSet -------------------------------
(***************************************************************************)
(* The thin devices of the devicemapper graph driver, DeviceSet of         *)
(* daemon/graphdriver/devmapper/deviceset.go, as driver.go uses it.        *)
(*                                                                         *)
(* A device is recorded three times: in the map Devices, in a metadata     *)
(* file, and by its number in the kernel's thin pool.  Making and deleting *)
(* one is a transaction: its file names the device, the pool's transaction *)
(* id is raised at the end, and a daemon that starts with an open one      *)
(* rolls it back.  The daemon may die between any two writes.              *)
(*                                                                         *)
(* DeviceSet's lock is held across the steps of a section (`lock'); the    *)
(* lock of one device is held with it, and alone only while removeDevice   *)
(* sleeps (pc "busy").  A transaction id is raised by one at a time, so of *)
(* the ids only two comparisons remain: the open transaction is `ahead' of *)
(* the pool, and the pool's id is still zero (`unused').  Sizes, file      *)
(* systems and discards are left out.                                      *)
(***************************************************************************)
EXTENDS Integers, FiniteSets, FiniteSetsExt

CONSTANTS
  Clients,   \* goroutines that call the driver
  Worker,    \* the deletion worker
  Main,      \* the daemon's start
  NoOne,     \* nobody
  Base,      \* the hash of the base device, ""
  Layers,    \* the other hashes; the layer store makes them up at random
  NrIDs,     \* maxDeviceID + 1
  Configs    \* faults, deferred removal and deletion, dm.thinpooldev, and the bound
             \* on how often the daemon ends

Hashes == Layers \cup {Base}
IDs == 0..NrIDs - 1
Procs == Clients \cup {Worker, Main}

ASSUME DeviceSetAssumption ==
  /\ Worker \notin Clients /\ Main \notin Clients /\ Worker # Main
  /\ NoOne \notin Procs \cup Hashes /\ Base \notin Layers
  /\ NrIDs \in Nat \ {0}
  /\ Configs \subseteq [faults : SUBSET {"save", "pool", "close", "crash", "crashdelete"},
                        deferred : BOOLEAN, thinpool : BOOLEAN, stops : Nat]

VARIABLES
  config,    \* one of Configs; never changes
  stops,     \* how often the daemon has ended
  mode,      \* the daemon: "down", "starting" or "up"
  lock,      \* the holder of DeviceSet's lock
  op,        \* what every goroutine is doing
  devs,      \* Devices
  nr,        \* nrDeletedDevices
  used,      \* deviceIDMap: the numbers marked used
  next,      \* NextDeviceID
  file,      \* the metadata files of devices
  txn,       \* the transaction file
  savedNext, \* NextDeviceID in the file of the device set
  pool,      \* the thin pool: for which hash the device of a number was made
  unused,    \* is the pool's transaction id zero
  act,       \* the kernel's active devices, by name: "off", "on", or "deferred" removal
  open,      \* who has an active device open: "docker" mounts it, "other" name spaces do
  own        \* what the layer store thinks of a hash

memory == <<lock, devs, nr, used, next>>
disk == <<file, txn, savedNext>>
kernel == <<pool, unused, act, open>>
vars == <<config, stops, mode, memory, op, disk, kernel, own>>

Faults == config.faults

NoInfo == [in |-> FALSE, id |-> 0, deleted |-> FALSE, init |-> FALSE]
Info(id) == [in |-> TRUE, id |-> id, deleted |-> FALSE, init |-> FALSE]
Off == [st |-> "off", id |-> 0]
Idle == [pc |-> "idle", h |-> NoOne, at |-> NoOne, id |-> 0, info |-> NoInfo, ok |-> TRUE, todo |-> {}]

Init ==
  /\ config \in Configs
  /\ stops = 0
  /\ mode = "down"
  /\ lock = NoOne
  /\ op = [p \in Procs |-> Idle]
  /\ devs = [h \in Hashes |-> NoInfo]
  /\ nr = 0 /\ used = {} /\ next = 0
  /\ file = [h \in Hashes |-> NoInfo]
  /\ txn = [ahead |-> FALSE, h |-> NoOne, id |-> 0]
  /\ savedNext = 0
  /\ pool = [i \in IDs |-> NoOne]
  /\ unused = TRUE
  /\ act = [h \in Hashes |-> Off]
  /\ open = [h \in Hashes |-> {}]
  /\ own = [h \in Hashes |-> "new"]

At(p, pc) == op[p].pc = pc
Goto(p, pc) == op' = [op EXCEPT ![p].pc = pc]

\* Nobody sleeps with the lock of device h.
InfoFree(h) == \A q \in Procs : ~(At(q, "busy") /\ op[q].at = h)

\* The daemon's process ends.
Die ==
  /\ mode' = "down"
  /\ lock' = NoOne
  /\ op' = [p \in Procs |-> Idle]

\* A section ends and so does its call: the layer store learns how it went, the worker
\* goes on to the next device, the start of the daemon continues or fails.
Return(p, ok) ==
  LET h == op[p].h
      removing == op[p].at = h
  IN /\ IF p = Main /\ ~ok THEN Die
        ELSE /\ lock' = NoOne
             /\ op' = [op EXCEPT ![p] = IF p # Main THEN [Idle EXCEPT !.todo = op[p].todo]
                                        ELSE [Idle EXCEPT !.pc = IF removing THEN "create" ELSE "init"]]
             /\ UNCHANGED mode
     /\ own' = IF p \notin Clients THEN own
               ELSE [own EXCEPT ![h] = IF removing THEN (IF ok THEN "gone" ELSE "asked")
                                       ELSE (IF ok THEN "live" ELSE "gone")]
--------------------------------------------------------------------------------
(* Lookup, numbers and the transaction file *)

\* lookupDevice: the entry of the map, or what its metadata file says.
Lookup(h) == IF devs[h].in THEN devs[h] ELSE file[h]

\* The steps from NextDeviceID to the next free number.
FreeSteps == {k \in 1..NrIDs : (next + k) % NrIDs \notin used}

\* openTransaction and refreshTransaction write the transaction file.
SaveTransaction(h, id) == txn' = [ahead |-> TRUE, h |-> h, id |-> id]

\* closeTransaction raises the pool's id to that of the transaction.
CloseTransaction == txn' = [txn EXCEPT !.ahead = FALSE] /\ unused' = FALSE

\* devicemapper.DeleteDevice refuses a device that is active.
Active(id) == \E h \in Hashes : act[h].st # "off" /\ act[h].id = id
--------------------------------------------------------------------------------
(* AddDevice and createRegisterDevice *)

\* A hash that left no trace stands for a new one.
Fresh(h) ==
  /\ own[h] \in {"new", "gone"}
  /\ ~devs[h].in /\ ~file[h].in
  /\ \A i \in IDs : pool[i] # h
  /\ act[h] = Off
  /\ txn.h # h

\* driver.Create: the base is looked up before the locks are taken.  The layer store
\* holds the layer below, so nobody removes it meanwhile.
Create(p, h, b) ==
  /\ mode = "up" /\ At(p, "idle") /\ lock = NoOne
  /\ Fresh(h) /\ (b = Base \/ own[b] = "live")
  /\ devs' = [devs EXCEPT ![b] = Lookup(b)]
  /\ IF Lookup(b).in /\ ~Lookup(b).deleted
     THEN /\ op' = [op EXCEPT ![p] = [Idle EXCEPT !.pc = "add", !.h = h, !.at = b]]
          /\ own' = [own EXCEPT ![h] = "creating"]
     ELSE UNCHANGED <<op, own>>
  /\ UNCHANGED <<config, stops, mode, lock, nr, used, next, disk, kernel>>

\* Variant: the number is not marked used.
AddUnmarked(p) ==
  /\ At(p, "add") /\ lock = NoOne /\ InfoFree(op[p].at)
  /\ FreeSteps # {}
  /\ next' = (next + Min(FreeSteps)) % NrIDs
  /\ SaveTransaction(op[p].h, next')
  /\ lock' = p
  /\ op' = [op EXCEPT ![p].pc = "make", ![p].id = next']
  /\ UNCHANGED <<config, stops, mode, devs, nr, used, file, savedNext, kernel, own>>

\* Under the locks: a number is taken and the transaction opened.
Add(p) ==
  /\ At(p, "add") /\ lock = NoOne /\ InfoFree(op[p].at)
  /\ ~Lookup(op[p].h).in
  /\ FreeSteps # {}
  /\ next' = (next + Min(FreeSteps)) % NrIDs
  /\ used' = used \cup {next'}
  /\ SaveTransaction(op[p].h, next')
  /\ lock' = p
  /\ op' = [op EXCEPT ![p].pc = "make", ![p].id = next']
  /\ UNCHANGED <<config, stops, mode, devs, nr, file, savedNext, kernel, own>>

\* The hash exists, or the pool is full or in error; or there is no number left, or the
\* transaction cannot be saved.
AddFails(p) ==
  /\ At(p, "add") /\ lock = NoOne /\ InfoFree(op[p].at)
  /\ \/ /\ Lookup(op[p].h).in \/ (p # Main /\ "pool" \in Faults)
        /\ UNCHANGED next
     \/ /\ ~Lookup(op[p].h).in
        /\ FreeSteps = {} \/ "save" \in Faults
        /\ next' = (next + IF FreeSteps = {} THEN 1 ELSE Min(FreeSteps)) % NrIDs
  /\ Return(p, FALSE)
  /\ UNCHANGED <<config, stops, devs, nr, used, disk, kernel>>

\* CreateDevice or CreateSnapDeviceRaw makes the device in the pool.
Make(p) ==
  /\ At(p, "make") /\ pool[op[p].id] = NoOne
  /\ op[p].at # NoOne => pool[devs[op[p].at].id] # NoOne
  /\ pool' = [pool EXCEPT ![op[p].id] = op[p].h]
  /\ Goto(p, "register")
  /\ UNCHANGED <<config, stops, mode, memory, disk, unused, act, open, own>>

\* "Device ID already exists.  This should not happen": try the next number.  Whether it
\* could be written to the transaction file is not looked at.
MakeExists(p) ==
  /\ At(p, "make") /\ pool[op[p].id] # NoOne
  /\ FreeSteps # {}
  /\ next' = (next + Min(FreeSteps)) % NrIDs
  /\ used' = used \cup {next'}
  /\ op' = [op EXCEPT ![p].id = next']
  /\ SaveTransaction(op[p].h, next') \/ ("save" \in Faults /\ UNCHANGED txn)
  /\ UNCHANGED <<config, stops, mode, lock, devs, nr, file, savedNext, kernel, own>>

\* There is no number left, or the pool reports another error.
MakeFails(p) ==
  /\ At(p, "make")
  /\ \/ /\ pool[op[p].id] # NoOne /\ FreeSteps = {}
        /\ UNCHANGED used
     \/ /\ pool[op[p].id] = NoOne
        /\ "pool" \in Faults \/ (op[p].at # NoOne /\ pool[devs[op[p].at].id] = NoOne)
        /\ used' = used \ {op[p].id}
  /\ Return(p, FALSE)
  /\ UNCHANGED <<config, stops, devs, nr, next, disk, kernel>>

\* registerDevice: the entry and its file.
Register(p) ==
  /\ At(p, "register")
  /\ devs' = [devs EXCEPT ![op[p].h] = Info(op[p].id)]
  /\ file' = [file EXCEPT ![op[p].h] = Info(op[p].id)]
  /\ Goto(p, "close")
  /\ UNCHANGED <<config, stops, mode, lock, nr, used, next, txn, savedNext, kernel, own>>

\* Making the device is undone; whether the pool could delete it is not looked at.
Undo(p) ==
  /\ pool' = [pool EXCEPT ![op[p].id] = NoOne] \/ ("pool" \in Faults /\ UNCHANGED pool)
  /\ used' = used \ {op[p].id}
  /\ Return(p, FALSE)

RegisterFails(p) ==
  /\ At(p, "register") /\ "save" \in Faults
  /\ Undo(p)
  /\ UNCHANGED <<config, stops, devs, nr, next, disk, unused, act, open>>

CloseAdd(p) ==
  /\ At(p, "close")
  /\ CloseTransaction
  /\ Return(p, TRUE)
  /\ UNCHANGED <<config, stops, devs, nr, used, next, file, savedNext, pool, act, open>>

\* The pool's id cannot be raised; unregisterDevice takes back entry and file.
CloseAddFails(p) ==
  /\ At(p, "close") /\ "close" \in Faults
  /\ devs' = [devs EXCEPT ![op[p].h] = NoInfo]
  /\ file' = [file EXCEPT ![op[p].h] = NoInfo] \/ ("save" \in Faults /\ UNCHANGED file)
  /\ Undo(p)
  /\ UNCHANGED <<config, stops, nr, next, txn, savedNext, unused, act, open>>
--------------------------------------------------------------------------------
(* DeleteDevice *)

\* DeleteDevice looks the device up before it takes the locks.
Find(p, h) ==
  /\ lock = NoOne
  /\ devs' = [devs EXCEPT ![h] = Lookup(h)]
  /\ op' = [op EXCEPT ![p] = [Idle EXCEPT !.pc = "delete", !.h = h, !.at = h, !.todo = op[p].todo \ {h}]]

\* driver.Remove, of a device that is not mounted and that nobody makes another on: one
\* that is not there counts as removed.
Remove(p, h) ==
  /\ mode = "up" /\ At(p, "idle") /\ lock = NoOne
  /\ own[h] \in {"live", "asked"} /\ "docker" \notin open[h]
  /\ \A q \in Clients : op[q].at # h
  /\ IF Lookup(h).in THEN Find(p, h) /\ own' = [own EXCEPT ![h] = "asked"]
     ELSE own' = [own EXCEPT ![h] = "gone"] /\ UNCHANGED <<devs, op>>
  /\ UNCHANGED <<config, stops, mode, lock, nr, used, next, disk, kernel>>

\* cleanupDeletedDevices: the worker notes the devices marked for deletion ...
Tick ==
  /\ mode # "down" /\ ~At(Main, "rollback")
  /\ At(Worker, "idle") /\ op[Worker].todo = {} /\ lock = NoOne
  /\ nr # 0
  /\ op' = [op EXCEPT ![Worker].todo = {h \in Hashes : devs[h].in /\ devs[h].deleted}]
  /\ UNCHANGED <<config, stops, mode, memory, disk, kernel, own>>

\* ... and deletes them one by one.
TickDelete(h) ==
  /\ At(Worker, "idle") /\ h \in op[Worker].todo /\ lock = NoOne
  /\ IF Lookup(h).in THEN Find(Worker, h)
     ELSE op' = [op EXCEPT ![Worker].todo = @ \ {h}] /\ UNCHANGED devs
  /\ UNCHANGED <<config, stops, mode, lock, nr, used, next, disk, kernel, own>>

\* The device a call found: an entry that has left the map since is used as it was.
Found(p) == IF op[p].info.in THEN op[p].info ELSE Lookup(op[p].h)

\* deactivateDevice: the kernel's device goes, or is to go when it is closed.
Deactivated(h, openers) ==
  IF act[h].st = "off" \/ openers = {} THEN Off ELSE [act[h] EXCEPT !.st = "deferred"]

\* Under the locks: deactivate, and open the transaction.
Delete(p) ==
  /\ At(p, "delete") \/ At(p, "busy")
  /\ lock = NoOne /\ (At(p, "delete") => InfoFree(op[p].h))
  /\ LET h == op[p].h
     IN /\ act[h].st = "off" \/ config.deferred \/ open[h] = {}
        /\ act' = [act EXCEPT ![h] = Deactivated(h, open[h])]
        /\ SaveTransaction(h, Found(p).id)
        /\ lock' = p
        /\ op' = [op EXCEPT ![p].pc = "pool", ![p].info = Found(p), ![p].id = Found(p).id]
  /\ UNCHANGED <<config, stops, mode, devs, nr, used, next, file, savedNext, pool, unused, open, own>>

\* Without deferred removal a busy device is tried again: the lock of the set is let go
\* for a while, that of the device is not.
DeleteBusy(p) ==
  /\ At(p, "delete") /\ lock = NoOne /\ InfoFree(op[p].h)
  /\ act[op[p].h].st # "off" /\ ~config.deferred /\ open[op[p].h] # {}
  /\ op' = [op EXCEPT ![p].pc = "busy", ![p].info = Found(p)]
  /\ UNCHANGED <<config, stops, mode, memory, disk, kernel, own>>

\* It stays busy 200 times, or the transaction cannot be saved.
DeleteFails(p) ==
  /\ At(p, "delete") \/ At(p, "busy")
  /\ lock = NoOne /\ (At(p, "delete") => InfoFree(op[p].h))
  /\ LET h == op[p].h
     IN \/ At(p, "busy") /\ UNCHANGED act
        \/ /\ "save" \in Faults
           /\ act[h].st = "off" \/ config.deferred \/ open[h] = {}
           /\ act' = [act EXCEPT ![h] = Deactivated(h, open[h])]
  /\ Return(p, FALSE)
  /\ UNCHANGED <<config, stops, devs, nr, used, next, disk, pool, unused, open>>

\* The transaction is going to be closed whatever happens (defer); ok is the result.
Closing(p, ok) == op' = [op EXCEPT ![p].pc = "closing", ![p].ok = ok]

\* The pool deletes the device.
DeletePool(p) ==
  /\ At(p, "pool") /\ pool[op[p].id] # NoOne /\ ~Active(op[p].id)
  /\ pool' = [pool EXCEPT ![op[p].id] = NoOne]
  /\ Goto(p, "unregister")
  /\ UNCHANGED <<config, stops, mode, memory, disk, unused, act, open, own>>

\* It is active, and deletion may be deferred; for the base device (syncDelete) not.
DeletePoolBusy(p) ==
  /\ At(p, "pool") /\ Active(op[p].id)
  /\ config.deferred /\ p # Main
  /\ Goto(p, "mark")
  /\ UNCHANGED <<config, stops, mode, memory, disk, kernel, own>>

\* It has no such device, or fails, or is busy and deletion may not be deferred.
DeletePoolFails(p) ==
  /\ At(p, "pool")
  /\ \/ pool[op[p].id] = NoOne \/ "pool" \in Faults
     \/ Active(op[p].id) /\ ~(config.deferred /\ p # Main)
  /\ Closing(p, FALSE)
  /\ UNCHANGED <<config, stops, mode, memory, disk, kernel, own>>

\* Entry h leaves the map: who has looked it up keeps what it was.
Forgets(p, h) ==
  [q \in Procs |-> IF q # p /\ At(q, "delete") /\ op[q].h = h /\ ~op[q].info.in
                   THEN [op[q] EXCEPT !.info = devs[h]] ELSE op[q]]

\* unregisterDevice; the number is free again.
Unregister(p) ==
  /\ At(p, "unregister")
  /\ devs' = [devs EXCEPT ![op[p].h] = NoInfo]
  /\ file' = [file EXCEPT ![op[p].h] = NoInfo]
  /\ nr' = IF op[p].info.deleted THEN nr - 1 ELSE nr
  /\ used' = used \ {op[p].id}
  /\ op' = [Forgets(p, op[p].h) EXCEPT ![p].pc = "closing", ![p].ok = TRUE]
  /\ UNCHANGED <<config, stops, mode, lock, next, txn, savedNext, kernel, own>>

\* The file cannot be removed: neither the count nor the number is given back.
UnregisterFails(p) ==
  /\ At(p, "unregister") /\ "save" \in Faults
  /\ devs' = [devs EXCEPT ![op[p].h] = NoInfo]
  /\ op' = [Forgets(p, op[p].h) EXCEPT ![p].pc = "closing", ![p].ok = FALSE]
  /\ UNCHANGED <<config, stops, mode, lock, nr, used, next, disk, kernel, own>>

\* Variant: the mark is not counted.
MarkUncounted(p) ==
  /\ At(p, "mark")
  /\ devs' = [devs EXCEPT ![op[p].h].deleted = TRUE]
  /\ file' = [file EXCEPT ![op[p].h].deleted = TRUE]
  /\ Closing(p, TRUE)
  /\ UNCHANGED <<config, stops, mode, lock, nr, used, next, txn, savedNext, kernel, own>>

\* markForDeferredDeletion: a device that is marked stays as it is.
Mark(p) ==
  /\ At(p, "mark")
  /\ \/ /\ ~op[p].info.deleted
        /\ devs' = [devs EXCEPT ![op[p].h].deleted = devs[op[p].h].in]
        /\ file' = [file EXCEPT ![op[p].h] = [op[p].info EXCEPT !.deleted = TRUE]]
        /\ nr' = nr + 1
        /\ Closing(p, TRUE)
     \/ /\ op[p].info.deleted \/ "save" \in Faults
        /\ Closing(p, op[p].info.deleted)
        /\ UNCHANGED <<devs, file, nr>>
  /\ UNCHANGED <<config, stops, mode, lock, used, next, txn, savedNext, kernel, own>>

\* The deferred closeTransaction; whether it could is not looked at.
CloseDelete(p) ==
  /\ At(p, "closing")
  /\ CloseTransaction \/ ("close" \in Faults /\ UNCHANGED <<txn, unused>>)
  /\ Return(p, op[p].ok)
  /\ UNCHANGED <<config, stops, devs, nr, used, next, file, savedNext, pool, act, open>>
--------------------------------------------------------------------------------
(* MountDevice and UnmountDevice; the kernel *)

MountDevice(h) ==
  /\ mode = "up" /\ lock = NoOne /\ InfoFree(h)
  /\ own[h] = "live" /\ open[h] = {} /\ \A p \in Clients : op[p].h # h
  /\ Lookup(h).in /\ ~Lookup(h).deleted /\ pool[Lookup(h).id] # NoOne
  /\ devs' = [devs EXCEPT ![h] = Lookup(h)]
  /\ act' = [act EXCEPT ![h] = [st |-> "on", id |-> IF act[h].st = "off" THEN Lookup(h).id ELSE act[h].id]]
  /\ open' = [open EXCEPT ![h] = {"docker"}]
  /\ UNCHANGED <<config, stops, mode, lock, nr, used, next, op, disk, pool, unused, own>>

\* A device others have open cannot be deactivated unless that may be deferred.
UnmountDevice(h) ==
  /\ mode = "up" /\ lock = NoOne /\ InfoFree(h)
  /\ "docker" \in open[h] /\ Lookup(h).in
  /\ LET rest == open[h] \ {"docker"}
     IN /\ open' = [open EXCEPT ![h] = rest]
        /\ act' = IF config.deferred \/ rest = {} THEN [act EXCEPT ![h] = Deactivated(h, rest)] ELSE act
  /\ UNCHANGED <<config, stops, mode, lock, nr, used, next, op, devs, disk, pool, unused, own>>

\* A mount is copied into another name space, and goes away with it.
Copied(h) ==
  /\ open[h] = {"docker"}
  /\ open' = [open EXCEPT ![h] = @ \cup {"other"}]
  /\ UNCHANGED <<config, stops, mode, memory, op, disk, pool, unused, act, own>>

Closed(h) ==
  /\ "other" \in open[h]
  /\ open' = [open EXCEPT ![h] = @ \ {"other"}]
  /\ act' = [act EXCEPT ![h] = IF @.st = "deferred" /\ open'[h] = {} THEN Off ELSE @]
  /\ UNCHANGED <<config, stops, mode, memory, op, disk, pool, unused, own>>
--------------------------------------------------------------------------------
(* The daemon dies and starts *)

InDelete == \E p \in Procs : op[p].pc \in {"pool", "unregister", "mark", "closing"}

\* Nothing in memory survives.  The layer store has lost what was being made, and still
\* has what was being removed.
Crash ==
  /\ "crash" \in Faults /\ stops < config.stops
  /\ mode # "down"
  /\ InDelete => "crashdelete" \in Faults
  /\ stops' = stops + 1
  /\ Die
  /\ own' = [h \in Hashes |-> IF own[h] = "creating" THEN "gone" ELSE own[h]]
  /\ UNCHANGED <<config, devs, nr, used, next, disk, kernel>>

\* Shutdown saves NextDeviceID, unmounts, and deactivates what it can; whoever waits for the
\* lock ends with the process.
Shutdown ==
  /\ mode = "up" /\ lock = NoOne /\ stops < config.stops
  /\ stops' = stops + 1
  /\ savedNext' = next
  /\ open' = [h \in Hashes |-> open[h] \ {"docker"}]
  /\ act' = [h \in Hashes |-> IF config.deferred \/ open'[h] = {} THEN Deactivated(h, open'[h]) ELSE act[h]]
  /\ Die
  /\ own' = [h \in Hashes |-> IF own[h] = "creating" THEN "gone" ELSE own[h]]
  /\ UNCHANGED <<config, devs, nr, used, next, file, txn, pool, unused>>

\* initMetaData and loadDeviceSetMetaData: devices, numbers, count; an open transaction
\* is rolled back.
Load ==
  /\ mode = "down"
  /\ mode' = "starting"
  /\ devs' = file
  /\ used' = {file[h].id : h \in {g \in Hashes : file[g].in}}
  /\ nr' = Cardinality({h \in Hashes : file[h].in /\ file[h].deleted})
  /\ next' = savedNext
  /\ op' = [op EXCEPT ![Main].pc = IF txn.ahead THEN "rollback" ELSE "setup"]
  /\ UNCHANGED <<config, stops, lock, disk, kernel, own>>

\* Variant: the device of an open transaction is left in the pool.
RollbackKeepsDevice ==
  /\ At(Main, "rollback")
  /\ file' = [file EXCEPT ![txn.h] = NoInfo]
  /\ used' = used \ {txn.id}
  /\ txn' = [txn EXCEPT !.ahead = FALSE]
  /\ Goto(Main, "setup")
  /\ UNCHANGED <<config, stops, mode, lock, devs, nr, next, savedNext, kernel, own>>

\* rollbackTransaction: the pool's device, the metadata file, the number and the
\* transaction file.  The entry that was loaded stays in the map.  Another death on the way
\* would only have it done again.
Rollback ==
  /\ At(Main, "rollback")
  /\ pool' = IF Active(txn.id) THEN pool ELSE [pool EXCEPT ![txn.id] = NoOne]
  /\ \/ file' = [file EXCEPT ![txn.h] = NoInfo] /\ used' = used \ {txn.id}
     \/ "save" \in Faults /\ UNCHANGED <<file, used>>
  /\ txn' = [txn EXCEPT !.ahead = FALSE]
  /\ Goto(Main, "setup")
  /\ UNCHANGED <<config, stops, mode, lock, devs, nr, next, savedNext, unused, act, open, own>>

\* setupBaseImage: the base device is there, or is deleted and made, or is made; a pool
\* that was given (dm.thinpooldev) must be new then.
Setup ==
  /\ At(Main, "setup") /\ lock = NoOne
  /\ LET base == Lookup(Base)
     IN IF base.in /\ base.init /\ ~base.deleted
        THEN /\ op' = [op EXCEPT ![Main] = Idle]
             /\ mode' = "up"
             /\ UNCHANGED <<devs, lock>>
        ELSE IF base.in THEN Find(Main, Base) /\ UNCHANGED <<mode, lock>>
        ELSE IF config.thinpool /\ ~(unused /\ \A i \in IDs : pool[i] = NoOne)
             THEN Die /\ UNCHANGED devs
        ELSE Goto(Main, "create") /\ UNCHANGED <<mode, devs, lock>>
  /\ UNCHANGED <<config, stops, nr, used, next, disk, kernel, own>>

\* createRegisterDevice of the base device begins like an AddDevice without a base.
SetupCreate ==
  /\ At(Main, "create")
  /\ op' = [op EXCEPT ![Main] = [Idle EXCEPT !.pc = "add", !.h = Base]]
  /\ UNCHANGED <<config, stops, mode, memory, disk, kernel, own>>

\* The base device has a file system; it and the device set are saved.
SetupInit ==
  /\ At(Main, "init") /\ lock = NoOne
  /\ \/ /\ devs' = [devs EXCEPT ![Base].init = TRUE]
        /\ file' = [file EXCEPT ![Base] = devs'[Base]]
        /\ savedNext' = next
        /\ mode' = "up"
        /\ op' = [op EXCEPT ![Main] = Idle]
        /\ UNCHANGED lock
     \/ "save" \in Faults /\ Die /\ UNCHANGED <<devs, file, savedNext>>
  /\ UNCHANGED <<config, stops, nr, used, next, txn, kernel, own>>
--------------------------------------------------------------------------------
AddStep(p) ==
  \/ Add(p) \/ AddFails(p) \/ Make(p) \/ MakeExists(p) \/ MakeFails(p)
  \/ Register(p) \/ RegisterFails(p) \/ CloseAdd(p) \/ CloseAddFails(p)

DeleteStep(p) ==
  \/ Delete(p) \/ DeleteBusy(p) \/ DeleteFails(p) \/ DeletePool(p) \/ DeletePoolBusy(p)
  \/ DeletePoolFails(p) \/ Unregister(p) \/ UnregisterFails(p) \/ Mark(p) \/ CloseDelete(p)

Start == Load \/ Rollback \/ Setup \/ SetupCreate \/ SetupInit

Clean == Tick \/ \E h \in Hashes : TickDelete(h)

Next ==
  \/ \E p \in Procs : AddStep(p) \/ DeleteStep(p)
  \/ \E p \in Clients, h \in Layers : Remove(p, h) \/ \E b \in Hashes \ {h} : Create(p, h, b)
  \/ \E h \in Layers : MountDevice(h) \/ UnmountDevice(h) \/ Copied(h) \/ Closed(h)
  \/ Start \/ Clean \/ Crash \/ Shutdown

Spec == Init /\ [][Next]_vars

\* Goroutines that can run do run, the worker's ticker ticks and the worker gets the lock some
\* time, the daemon is started again, and name spaces go away.
Fairness ==
  /\ \A p \in Procs : WF_vars(AddStep(p) \/ DeleteStep(p))
  /\ SF_vars(Clean) /\ SF_vars(DeleteStep(Worker))
  /\ WF_vars(Start)
  /\ \A h \in Layers : WF_vars(Closed(h))

FairSpec == Spec /\ Fairness
--------------------------------------------------------------------------------
(* Properties *)

\* A device the layer store has, and has not asked to remove, is found, and the pool's
\* device of its number is the one that was made for it: numbers that are given back,
\* skipped, found again at start or rolled back are never those of a device in use
\* (deviceset.go:471, 815, 1513).
LiveDevices ==
  \A h \in Hashes : own[h] = "live" /\ mode = "up" =>
    Lookup(h).in /\ ~Lookup(h).deleted /\ pool[Lookup(h).id] = h

\* Without errors of the pool or of the disk no number is lost: the pool has no device, and
\* the map of numbers no bit, but for a device that is recorded and for the transaction
\* under way, after a restart as well (deviceset.go:815, 1513).
NoLostNumber ==
  Faults \cap {"pool", "save"} = {} /\ mode = "up" =>
    \A i \in IDs : pool[i] # NoOne \/ i \in used =>
      \/ \E h \in Hashes : file[h].in /\ file[h].id = i
      \/ \E p \in Procs : op[p].pc \in {"make", "register", "close", "unregister"} /\ op[p].id = i

\* A device whose deletion was deferred is deleted in the end (deviceset.go:724): the count
\* that lets the worker skip its round is never wrong.
DeferredIsDeleted ==
  \A h \in Layers : Faults \subseteq {"crash"} /\ file[h].in /\ file[h].deleted ~> ~file[h].in

\* "Remove removes a device with a given id" (driver.go:157): the device DeleteDevice takes
\* from the pool is the one that was made for the hash.
RemovesOwn ==
  [][\A p \in Procs : At(p, "pool") /\ pool' # pool => pool[op[p].id] = op[p].h]_vars
================================================================================
