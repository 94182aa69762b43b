---------------------------- MODULE DeviceSetProofs ----------------------------
(***************************************************************************)
(* Proofs about DeviceSet, for any number of clients, layers and device    *)
(* numbers, for every combination of faults but one: a deletion must not   *)
(* leave its transaction open for a start that follows (ClosesDeletions).  *)
(*                                                                         *)
(* The inductive invariant DevInv says who works on which device, which    *)
(* devices are still somebody's (Kept), that their numbers are marked used *)
(* and differ from each other, from the number under way and from that of  *)
(* an open transaction.                                                    *)
(*                                                                         *)
(* For NoLostNumber two more are needed.  ActiveKept: what is active in    *)
(* the kernel belongs to a layer that is somebody's, so that the device of *)
(* a transaction that is rolled back can be deleted.  NumInv, while pool   *)
(* and disk do not fail: every number the pool has or the map marks is in  *)
(* a file, with a goroutine, or in the open transaction.                   *)
(***************************************************************************)
EXTENDS DeviceSet, WellFoundedInduction, TLAPS

\* No deletion leaves its transaction open for a start to roll back: its transaction is
\* always closed and the daemon does not die in it, or the daemon never ends.
ClosesDeletions ==
  \A c \in Configs : c.stops = 0 \/ c.faults \cap {"close", "crashdelete"} = {}

Adding == {"add", "make", "register", "close"}
Taking == {"make", "register", "close"}              \* with a number of its own
InTxn == {"pool", "unregister", "mark", "closing"}   \* in the transaction of a deletion
Deleting == {"delete", "busy"} \cup InTxn
Starting == {"rollback", "setup", "create", "init"}

InfoRecord == [in : BOOLEAN, id : IDs, deleted : BOOLEAN, init : BOOLEAN]
OpRecord ==
  [pc : {"idle"} \cup Adding \cup Deleting \cup Starting,
   h : Hashes \cup {NoOne}, at : Hashes \cup {NoOne}, id : IDs,
   info : InfoRecord, ok : BOOLEAN, todo : SUBSET Hashes]

TxnRecord == [ahead : BOOLEAN, h : Hashes \cup {NoOne}, id : IDs]
Owned == {"new", "creating", "live", "asked", "gone"}

TypeOK ==
  /\ config \in Configs /\ stops \in Nat
  /\ mode \in {"down", "starting", "up"}
  /\ op \in [Procs -> OpRecord]
  /\ devs \in [Hashes -> InfoRecord] /\ file \in [Hashes -> InfoRecord]
  /\ used \subseteq IDs /\ next \in IDs /\ savedNext \in IDs
  /\ txn \in TxnRecord
  /\ pool \in [IDs -> Hashes \cup {NoOne}]
  /\ own \in [Hashes -> Owned]

\* Who makes changes holds the lock.
LockHeld == \A p \in Procs : op[p].pc \in Taking \cup InTxn => lock = p

\* What a client does to which device.
ClientsWork ==
  \A p \in Clients :
    /\ op[p].pc \in {"idle"} \cup Adding \cup Deleting
    /\ op[p].pc # "idle" => mode = "up" /\ op[p].h \in Layers
    /\ op[p].pc \in Adding => op[p].at # op[p].h /\ own[op[p].h] = "creating"
    /\ op[p].pc \in Deleting => op[p].at = op[p].h /\ own[op[p].h] = "asked"

\* No two work on one device.
Exclusive ==
  \A p, q \in Clients : p # q /\ op[p].pc # "idle" /\ op[q].pc # "idle" => op[p].h # op[q].h

\* The worker deletes what has been marked and what the layer store has forgotten.
WorkerWorks ==
  LET o == op[Worker]
  IN /\ o.pc \in {"idle"} \cup Deleting
     /\ o.pc # "idle" => o.h \in Layers /\ own[o.h] = "gone" /\ o.h \notin o.todo
     /\ o.pc \in Deleting \ {"closing"} => file[o.h].deleted
     /\ \A h \in o.todo : h \in Layers /\ own[h] = "gone" /\ file[h].deleted

\* The start makes and deletes the base device, while that has no file system.
MainWorks ==
  LET o == op[Main]
  IN /\ mode = "starting" <=> o.pc # "idle"
     /\ mode = "down" \/ o.pc = "rollback" => op[Worker] = Idle
     /\ o.pc \notin {"idle", "rollback", "setup"} => ~file[Base].init
     /\ o.pc \in Adding => o.h = Base /\ o.at = NoOne
     /\ o.pc \in Deleting => o.h = Base /\ o.at = Base
     /\ o.pc # "mark"
     /\ o.pc \in {"close", "init"} => devs[Base].in
     /\ o.pc = "init" => config.stops = 0 \/ ~txn.ahead
     /\ o.pc = "rollback" => txn.ahead

\* What a deletion has found is what the file of the device says.
Finds ==
  \A p \in Procs \ {Main} :
    /\ op[p].pc = "delete" => ~op[p].info.in /\ devs[op[p].h].in
    /\ op[p].pc \in {"busy", "pool", "unregister", "mark"} =>
         op[p].info.in /\ op[p].info = file[op[p].h]
    /\ op[p].pc \in {"pool", "unregister"} => op[p].id = file[op[p].h].id

\* Device h is somebody's: the layer store's, or it waits to be deleted.
Kept(h) == file[h].in /\ (own[h] \in {"live", "asked"} \/ file[h].deleted)

\* The number of a layer's device that is being made.
Allocated ==
  \A p \in Clients :
    /\ op[p].pc \in Taking =>
         op[p].id \in used /\ \A g \in Layers : Kept(g) => file[g].id # op[p].id
    /\ op[p].pc \in {"register", "close"} => pool[op[p].id] = op[p].h
    /\ op[p].pc = "close" => devs[op[p].h] = Info(op[p].id) /\ file[op[p].h] = Info(op[p].id)

\* The layer store has forgotten what is marked for deletion, or is about to.
Marked ==
  \A h \in Hashes : file[h].deleted =>
    /\ file[h].in /\ h \in Layers
    /\ own[h] = "gone" \/ \E p \in Clients : op[p].pc = "closing" /\ op[p].h = h /\ op[p].ok

\* Entry and file agree for a device that is somebody's.
Agree ==
  \A h \in Layers :
    devs[h].in /\ (own[h] \in {"live", "asked"} \/ devs[h].deleted \/ file[h].deleted) =>
        devs[h] = file[h]

\* Numbers in use are marked, no two are the same, and the pool has the right device.
Numbers ==
  /\ \A h \in Layers : own[h] = "live" => file[h].in /\ pool[file[h].id] = h
  /\ \A h \in Layers : Kept(h) => file[h].id \in used /\ pool[file[h].id] \in {h, NoOne}
  /\ \A g, h \in Layers : Kept(g) /\ Kept(h) /\ g # h => file[g].id # file[h].id

\* A transaction that a start could find open made a device that never became anybody's.
Open ==
  config.stops # 0 /\ txn.ahead =>
    \/ \E p \in Procs : op[p].pc \in InTxn
    \/ /\ txn.h \in Layers => own[txn.h] \notin {"live", "asked"} /\ ~file[txn.h].deleted
       /\ txn.h = Base => ~file[Base].init
       /\ \A g \in Layers : Kept(g) => file[g].id # txn.id

\* Before the base device has its file system there are no layers.
Young ==
  ~file[Base].init =>
    /\ mode # "up"
    /\ \A h \in Layers : own[h] = "new" /\ ~file[h].in /\ ~devs[h].in
    /\ \A i \in IDs : pool[i] \in {NoOne, Base}
    /\ op[Worker] = Idle

\* The entry of the base device; and a daemon that never ends starts only once.
BaseDevice ==
  /\ devs[Base].init => file[Base].init
  /\ file[Base].init => file[Base].in /\ (devs[Base].in => devs[Base].init)
  /\ ~devs[Base].deleted /\ own[Base] = "new"
  /\ config.stops = 0 /\ mode # "up" => ~file[Base].init

DevInv ==
  /\ TypeOK /\ LockHeld
  /\ ClientsWork /\ Exclusive /\ WorkerWorks /\ MainWorks
  /\ Finds /\ Allocated /\ Marked /\ Agree /\ Numbers /\ Open /\ Young /\ BaseDevice

\* The constants.
LEMMA Basics ==
  /\ Worker \notin Clients /\ Main \notin Clients /\ Worker # Main /\ NoOne \notin Procs
  /\ NoOne \notin Hashes /\ Base \notin Layers
  /\ Worker \in Procs /\ Main \in Procs /\ \A p \in Clients : p \in Procs
  /\ \A p \in Procs : p \in Clients \/ p = Worker \/ p = Main
  /\ Base \in Hashes /\ \A h \in Layers : h \in Hashes /\ h # Base
  /\ \A h \in Hashes : h \in Layers \/ h = Base
  BY DeviceSetAssumption DEF Procs, Hashes

\* The numbers are those from zero to the last.
LEMMA SomeIDs == NrIDs \in Nat \ {0} /\ IDs = 0..NrIDs - 1 /\ 0 \in IDs
  BY DeviceSetAssumption DEF IDs

\* A nonempty set of numbers has a least one.
LEMMA Smallest ==
  ASSUME NEW S \in SUBSET Nat, S # {}
  PROVE  Min(S) \in S
<1>1. PICK x \in S : \A y \in S : ~(<<y, x>> \in OpToRel(<, Nat))
  BY NatLessThanWellFounded, WFMin
<1>2. \A y \in S : x <= y
  <2> SUFFICES ASSUME NEW y \in S, ~(x <= y) PROVE FALSE
    OBVIOUS
  <2>1. y < x /\ x \in Nat /\ y \in Nat
    OBVIOUS
  <2> QED
    BY <1>1, <2>1 DEF OpToRel
<1> QED
  BY <1>2 DEF Min

\* The remainder is a number.
LEMMA Remainder ==
  ASSUME NEW n \in Nat
  PROVE  n % NrIDs \in IDs
  BY SomeIDs

\* The number a new device gets is not marked used.
LEMMA FreeNumber ==
  ASSUME next \in IDs, FreeSteps # {}
  PROVE  /\ (next + Min(FreeSteps)) % NrIDs \in IDs
         /\ (next + Min(FreeSteps)) % NrIDs \notin used
<1>1. FreeSteps \in SUBSET Nat
  BY DEF FreeSteps
<1>2. Min(FreeSteps) \in FreeSteps
  BY <1>1, Smallest
<1>3. Min(FreeSteps) \in Nat
  BY <1>1, <1>2
<1>4. (next + Min(FreeSteps)) % NrIDs \in IDs
  <2>1. next + Min(FreeSteps) \in Nat
    BY <1>3, SomeIDs
  <2> QED
    BY <2>1, Remainder
<1> QED
  BY <1>2, <1>4 DEF FreeSteps

\* So are the numbers that are passed over.
LEMMA NextNumber ==
  ASSUME next \in IDs
  PROVE  (next + IF FreeSteps = {} THEN 1 ELSE Min(FreeSteps)) % NrIDs \in IDs
<1>1. CASE FreeSteps = {}
  <2>1. next + 1 \in Nat
    BY SomeIDs
  <2> QED
    BY <1>1, <2>1, Remainder
<1>2. CASE FreeSteps # {}
  BY <1>2, FreeNumber
<1> QED
  BY <1>1, <1>2

\* The parts of what a goroutine is doing.
LEMMA OpTypes ==
  ASSUME TypeOK, NEW p \in Procs
  PROVE  /\ op[p].h \in Hashes \cup {NoOne} /\ op[p].at \in Hashes \cup {NoOne} /\ op[p].id \in IDs
         /\ op[p].info \in InfoRecord /\ op[p].todo \subseteq Hashes /\ op[p].ok \in BOOLEAN
         /\ op[p] \in OpRecord
<1>1. op[p] \in OpRecord
  BY DEF TypeOK
<1> QED
  BY <1>1 DEF OpRecord

\* Numbers are numbers.
LEMMA FileIDs ==
  ASSUME TypeOK, NEW h \in Hashes
  PROVE  /\ file[h].id \in IDs /\ devs[h].id \in IDs /\ txn.id \in IDs
         /\ file[h] \in InfoRecord /\ devs[h] \in InfoRecord
  BY DEF TypeOK, InfoRecord, TxnRecord

\* Clients and the worker work on layers.
LEMMA OnLayers ==
  ASSUME DevInv
  PROVE  \A q \in Procs \ {Main} : op[q].pc # "idle" => op[q].h \in Layers /\ op[q].h \in Hashes
  BY Basics DEF DevInv, ClientsWork, WorkerWorks

\* A client that makes a device.
LEMMA Adder ==
  ASSUME DevInv, NEW p \in Clients, op[p].pc \in Adding
  PROVE  /\ op[p].h \in Layers /\ own[op[p].h] = "creating"
         /\ op[p].at # op[p].h /\ ~file[op[p].h].deleted
         /\ mode = "up" /\ file[Base].init /\ op[Main].pc = "idle"
         /\ \A q \in Procs \ {p} : op[q].pc # "idle" => op[q].h # op[p].h
         /\ op[p].h \notin op[Worker].todo
<1>1. op[p].h \in Layers /\ own[op[p].h] = "creating" /\ op[p].at # op[p].h /\ mode = "up"
  BY DEF DevInv, ClientsWork, Adding
<1>2. ~file[op[p].h].deleted
  <2> SUFFICES ASSUME file[op[p].h].deleted PROVE FALSE
    OBVIOUS
  <2>1. PICK q \in Clients : op[q].pc = "closing" /\ op[q].h = op[p].h
    BY <1>1, Basics DEF DevInv, Marked
  <2> QED
    BY <1>1, <2>1 DEF DevInv, ClientsWork, Deleting, InTxn
<1>3. file[Base].init /\ op[Main].pc = "idle"
  BY <1>1 DEF DevInv, Young, MainWorks
<1>4. ASSUME NEW q \in Procs \ {p}, op[q].pc # "idle"
      PROVE  op[q].h # op[p].h
  <2>1. q # Main /\ op[p].pc # "idle"
    BY <1>3, <1>4 DEF Adding
  <2>2. CASE q \in Clients
    BY <1>4, <2>1, <2>2 DEF DevInv, Exclusive
  <2>3. CASE q = Worker
    BY <1>1, <1>4, <2>3 DEF DevInv, WorkerWorks
  <2> QED
    BY <2>1, <2>2, <2>3, Basics
<1>5. op[p].h \notin op[Worker].todo
  BY <1>1 DEF DevInv, WorkerWorks
<1> QED
  BY <1>1, <1>2, <1>3, <1>4, <1>5

\* A client or the worker that deletes one.
LEMMA Deleter ==
  ASSUME DevInv, NEW p \in Procs \ {Main}, op[p].pc \in Deleting
  PROVE  /\ op[p].h \in Layers /\ op[p].h \notin op[Worker].todo
         /\ mode # "down" /\ file[Base].init /\ op[Main].pc \in {"idle", "setup"}
         /\ \A q \in Procs \ {p} : op[q].pc \in Adding \cup Deleting => op[q].h # op[p].h
         /\ p \in Clients => own[op[p].h] = "asked" /\ op[p].at = op[p].h
         /\ p = Worker => own[op[p].h] = "gone" /\ (op[p].pc # "closing" => file[op[p].h].deleted)
<1>1. CASE p \in Clients
  <2>1. op[p].h \in Layers /\ op[p].at = op[p].h /\ own[op[p].h] = "asked" /\ mode = "up"
    BY <1>1 DEF DevInv, ClientsWork, Deleting, InTxn
  <2>2. file[Base].init /\ op[Main].pc = "idle"
    BY <2>1 DEF DevInv, Young, MainWorks
  <2>3. ASSUME NEW q \in Procs \ {p}, op[q].pc \in Adding \cup Deleting
        PROVE  op[q].h # op[p].h
    <3>1. op[q].pc # "idle" /\ op[p].pc # "idle" /\ q # Main
      BY <2>2, <2>3 DEF Adding, Deleting, InTxn
    <3>2. CASE q \in Clients
      BY <1>1, <3>1, <3>2 DEF DevInv, Exclusive
    <3>3. CASE q = Worker
      BY <2>1, <3>1, <3>3 DEF DevInv, WorkerWorks
    <3> QED
      BY <3>1, <3>2, <3>3, Basics
  <2>4. op[p].h \notin op[Worker].todo
    BY <2>1 DEF DevInv, WorkerWorks
  <2> QED
    BY <1>1, <2>1, <2>2, <2>3, <2>4, Basics
<1>2. CASE p = Worker
  <2>1. /\ op[p].h \in Layers /\ own[op[p].h] = "gone" /\ op[p].h \notin op[p].todo
        /\ op[p].pc # "idle"
        /\ op[p].pc # "closing" => file[op[p].h].deleted
    BY <1>2 DEF DevInv, WorkerWorks, Deleting, InTxn
  <2>2. op[p] # Idle
    BY <2>1 DEF Idle
  <2>3. mode # "down" /\ file[Base].init /\ op[Main].pc # "rollback"
    BY <1>2, <2>2 DEF DevInv, MainWorks, Young
  <2>4. op[Main].pc \in {"idle", "setup"}
    BY <2>3 DEF DevInv, MainWorks
  <2>5. ASSUME NEW q \in Procs \ {p}, op[q].pc \in Adding \cup Deleting
        PROVE  op[q].h # op[p].h
    <3>1. q # Main
      BY <2>4, <2>5 DEF Adding, Deleting, InTxn
    <3>2. q \in Clients
      BY <1>2, <3>1, Basics
    <3> QED
      BY <2>1, <2>5, <3>2 DEF DevInv, ClientsWork
  <2> QED
    BY <1>2, <2>1, <2>3, <2>4, <2>5, Basics
<1> QED
  BY <1>1, <1>2, Basics

\* What a deletion of a client or of the worker goes by is the file of the device.
LEMMA FoundIs ==
  ASSUME DevInv, NEW p \in Procs \ {Main}, op[p].pc \in {"delete", "busy"}
  PROVE  Found(p) = file[op[p].h] /\ file[op[p].h].in
<1>1. op[p].pc \in Deleting
  BY DEF Deleting
<1>2. /\ op[p].h \in Layers
      /\ own[op[p].h] = "asked" \/ file[op[p].h].deleted
  BY <1>1, Deleter, Basics
<1>3. CASE op[p].pc = "delete"
  <2>1. ~op[p].info.in /\ devs[op[p].h].in
    BY <1>3 DEF DevInv, Finds
  <2>2. devs[op[p].h] = file[op[p].h]
    BY <1>2, <2>1 DEF DevInv, Agree
  <2> QED
    BY <2>1, <2>2 DEF Found, Lookup
<1>4. CASE op[p].pc = "busy"
  BY <1>4 DEF DevInv, Finds, Found
<1> QED
  BY <1>3, <1>4

\* The parts of what a goroutine at rest is doing, and of the absent entry.
LEMMA IdleIs ==
  /\ Idle.pc = "idle" /\ Idle.h = NoOne /\ Idle.at = NoOne /\ Idle.id = 0 /\ Idle.info = NoInfo
  /\ Idle.ok = TRUE /\ Idle.todo = {} /\ Idle \in OpRecord
  /\ ~NoInfo.in /\ ~NoInfo.deleted /\ ~NoInfo.init /\ NoInfo \in InfoRecord
<1>1. NoInfo \in InfoRecord /\ ~NoInfo.in /\ ~NoInfo.deleted /\ ~NoInfo.init
  BY SomeIDs DEF NoInfo, InfoRecord
<1> QED
  BY <1>1, SomeIDs DEF Idle, OpRecord

\* A call of a client or of the worker ends.
LEMMA Returns ==
  ASSUME DevInv, NEW p \in Procs \ {Main}, NEW ok, Return(p, ok), op[p].h \in Layers
  PROVE  /\ lock' = NoOne /\ mode' = mode
         /\ op'[p].pc = "idle" /\ op'[p].todo = op[p].todo /\ op' \in [Procs -> OpRecord]
         /\ \A q \in Procs \ {p} : op'[q] = op[q]
         /\ own' \in [Hashes -> Owned]
         /\ \A g \in Hashes \ {op[p].h} : own'[g] = own[g]
         /\ p = Worker => own' = own
         /\ p \in Clients =>
              own'[op[p].h] = IF op[p].at = op[p].h THEN IF ok THEN "gone" ELSE "asked"
                              ELSE IF ok THEN "live" ELSE "gone"
<1> USE Basics DEF DevInv
<1>1. op \in [Procs -> OpRecord] /\ op[p].todo \subseteq Hashes
  BY OpTypes DEF TypeOK
<1>2. lock' = NoOne /\ mode' = mode /\ op' = [op EXCEPT ![p] = [Idle EXCEPT !.todo = op[p].todo]]
  BY <1>1 DEF Return
<1>3. [Idle EXCEPT !.todo = op[p].todo] \in OpRecord
  BY <1>1, IdleIs DEF OpRecord
<1>4. [Idle EXCEPT !.todo = op[p].todo].pc = "idle"
      /\ [Idle EXCEPT !.todo = op[p].todo].todo = op[p].todo
  BY DEF Idle
<1>5. /\ op'[p].pc = "idle" /\ op'[p].todo = op[p].todo /\ op' \in [Procs -> OpRecord]
      /\ \A q \in Procs \ {p} : op'[q] = op[q]
  BY <1>1, <1>2, <1>3, <1>4
<1>6. CASE p = Worker
  <2>1. own' = own
    BY <1>6 DEF Return
  <2> QED
    BY <1>2, <1>5, <1>6, <2>1 DEF TypeOK
<1>7. CASE p \in Clients
  <2>1. own' = [own EXCEPT ![op[p].h] = IF op[p].at = op[p].h THEN IF ok THEN "gone" ELSE "asked"
                                        ELSE IF ok THEN "live" ELSE "gone"]
    BY <1>7 DEF Return
  <2> QED
    BY <1>2, <1>5, <1>7, <2>1 DEF TypeOK, Owned
<1> QED
  BY <1>6, <1>7

\* A number is taken.
LEMMA AddKeeps ==
  ASSUME DevInv, NEW p \in Clients, Add(p)
  PROVE  DevInv'
<1> USE Basics DEF DevInv
<1>1. op[p].pc \in Adding
  BY DEF Add, At, Adding
<1>2. /\ op[p].h \in Layers /\ op[p].h \in Hashes /\ own[op[p].h] = "creating"
      /\ op[p].at # op[p].h /\ ~file[op[p].h].deleted
      /\ mode = "up" /\ file[Base].init /\ op[Main].pc = "idle"
      /\ \A q \in Procs \ {p} : op[q].pc # "idle" => op[q].h # op[p].h
      /\ op[p].h \notin op[Worker].todo /\ p \in Procs /\ p # Main /\ p # Worker
  BY <1>1, Adder
<1>3. next' \in IDs /\ next' \notin used
  BY FreeNumber DEF Add, TypeOK
<1>4. /\ op[p].pc = "add" /\ lock = NoOne
      /\ next' \in IDs /\ next' \notin used
      /\ used' = used \cup {next'}
      /\ txn' = [ahead |-> TRUE, h |-> op[p].h, id |-> next'] /\ lock' = p
      /\ UNCHANGED <<config, stops, mode, devs, nr, file, savedNext, pool, own>>
  BY <1>1, <1>2, <1>3 DEF TypeOK, Add, SaveTransaction, At, kernel
<1>5. /\ op'[p].pc = "make" /\ op'[p].h = op[p].h /\ op'[p].at = op[p].at
      /\ op'[p].id = next' /\ op'[p].info = op[p].info /\ op'[p].ok = op[p].ok
      /\ op'[p].todo = op[p].todo
      /\ op' \in [Procs -> OpRecord]
      /\ \A q \in Procs \ {p} : op'[q] = op[q]
  <2>1. op[p] \in OpRecord /\ op \in [Procs -> OpRecord]
    BY DEF TypeOK
  <2>2. op' = [op EXCEPT ![p] = [op[p] EXCEPT !.pc = "make", !.id = next']]
    BY <1>3, <2>1 DEF Add, SaveTransaction, At, kernel
  <2>3. /\ op'[p] = [op[p] EXCEPT !.pc = "make", !.id = next']
        /\ \A q \in Procs \ {p} : op'[q] = op[q]
    BY <2>1, <2>2
  <2>4. /\ op'[p].pc = "make" /\ op'[p].h = op[p].h /\ op'[p].at = op[p].at
        /\ op'[p].id = next' /\ op'[p].info = op[p].info /\ op'[p].ok = op[p].ok
        /\ op'[p].todo = op[p].todo
        /\ op'[p] \in OpRecord
    BY <1>3, <2>1, <2>3 DEF OpRecord, Adding, Taking, InTxn, Deleting, Starting
  <2> QED
    BY <2>1, <2>2, <2>3, <2>4
<1>6. TypeOK'
  BY <1>1, <1>2, <1>3, <1>4, <1>5, OpTypes DEF TypeOK, TxnRecord
<1>7. LockHeld'
  BY <1>4, <1>5 DEF LockHeld, Taking, InTxn
<1>8. ClientsWork'
  BY <1>4, <1>5 DEF ClientsWork, Adding, Taking, InTxn, Deleting, Starting
<1>9. Exclusive'
  BY <1>4, <1>5 DEF Exclusive
<1>10. WorkerWorks'
  BY <1>4, <1>5 DEF WorkerWorks, Adding, Taking, InTxn, Deleting, Starting
<1>11. MainWorks'
  BY <1>1, <1>2, <1>3, <1>4, <1>5 DEF MainWorks, Adding, Taking, InTxn, Deleting, Starting
<1>12. Finds'
  BY <1>4, <1>5 DEF Finds
<1>13. Allocated'
  BY <1>4, <1>5 DEF Allocated, Kept, Taking, Numbers, LockHeld, InTxn
<1>14. Marked'
  BY <1>4, <1>5 DEF Marked
<1>15. Agree'
  BY <1>4, <1>5 DEF Agree
<1>16. Numbers'
  BY <1>4, <1>5 DEF Numbers, Kept
<1>17. Open'
  BY <1>1, <1>2, <1>3, <1>4, <1>5 DEF Open, Kept, InTxn, Numbers
<1>18. Young'
  BY <1>1, <1>2, <1>3, <1>4, <1>5 DEF Young
<1>19. BaseDevice'
  BY <1>4, <1>5 DEF BaseDevice
<1> QED
  BY <1>6, <1>7, <1>8, <1>9, <1>10, <1>11, <1>12, <1>13, <1>14, <1>15, <1>16, <1>17, <1>18, <1>19

\* The pool has the device.
LEMMA MakeKeeps ==
  ASSUME DevInv, NEW p \in Clients, Make(p)
  PROVE  DevInv'
<1> USE Basics DEF DevInv
<1>1. op[p].pc \in Adding
  BY DEF Make, At, Adding
<1>2. /\ op[p].h \in Layers /\ op[p].h \in Hashes /\ own[op[p].h] = "creating"
      /\ op[p].at # op[p].h /\ ~file[op[p].h].deleted
      /\ mode = "up" /\ file[Base].init /\ op[Main].pc = "idle"
      /\ \A q \in Procs \ {p} : op[q].pc # "idle" => op[q].h # op[p].h
      /\ op[p].h \notin op[Worker].todo /\ p \in Procs /\ p # Main /\ p # Worker
  BY <1>1, Adder
<1>3. /\ op[p].pc = "make" /\ lock = p /\ pool[op[p].id] = NoOne /\ op[p].id \in IDs
      /\ pool' \in [IDs -> Hashes \cup {NoOne}] /\ pool'[op[p].id] = op[p].h
      /\ \A i \in IDs \ {op[p].id} : pool'[i] = pool[i]
      /\ UNCHANGED <<config, stops, mode, lock, devs, nr, used, next, file, txn, savedNext, own>>
  BY <1>1, <1>2, OpTypes DEF TypeOK, Make, Goto, At, memory, disk, LockHeld, Taking
<1>4. /\ op'[p].pc = "register" /\ op'[p].h = op[p].h /\ op'[p].at = op[p].at
      /\ op'[p].id = op[p].id /\ op'[p].info = op[p].info /\ op'[p].ok = op[p].ok
      /\ op'[p].todo = op[p].todo
      /\ op' \in [Procs -> OpRecord]
      /\ \A q \in Procs \ {p} : op'[q] = op[q]
  <2>1. op[p] \in OpRecord /\ op \in [Procs -> OpRecord]
    BY DEF TypeOK
  <2>2. op' = [op EXCEPT ![p] = [op[p] EXCEPT !.pc = "register"]]
    BY <2>1 DEF Make, Goto, At, memory, disk, LockHeld, Taking
  <2>3. /\ op'[p] = [op[p] EXCEPT !.pc = "register"]
        /\ \A q \in Procs \ {p} : op'[q] = op[q]
    BY <2>1, <2>2
  <2>4. /\ op'[p].pc = "register" /\ op'[p].h = op[p].h /\ op'[p].at = op[p].at
        /\ op'[p].id = op[p].id /\ op'[p].info = op[p].info /\ op'[p].ok = op[p].ok
        /\ op'[p].todo = op[p].todo
        /\ op'[p] \in OpRecord
    BY <2>1, <2>3 DEF OpRecord, Adding, Taking, InTxn, Deleting, Starting
  <2> QED
    BY <2>1, <2>2, <2>3, <2>4
<1>5. TypeOK'
  BY <1>1, <1>2, <1>3, <1>4, OpTypes DEF TypeOK, TxnRecord
<1>6. LockHeld'
  BY <1>3, <1>4 DEF LockHeld, Taking, InTxn
<1>7. ClientsWork'
  BY <1>3, <1>4 DEF ClientsWork, Adding, Taking, InTxn, Deleting, Starting
<1>8. Exclusive'
  BY <1>3, <1>4 DEF Exclusive
<1>9. WorkerWorks'
  BY <1>3, <1>4 DEF WorkerWorks, Adding, Taking, InTxn, Deleting, Starting
<1>10. MainWorks'
  BY <1>1, <1>2, <1>3, <1>4 DEF MainWorks, Adding, Taking, InTxn, Deleting, Starting
<1>11. Finds'
  BY <1>3, <1>4 DEF Finds
<1>12. Allocated'
  BY <1>3, <1>4 DEF Allocated, Kept, Taking, LockHeld
<1>13. Marked'
  BY <1>3, <1>4 DEF Marked
<1>14. Agree'
  BY <1>3, <1>4 DEF Agree
<1>15. Numbers'
  BY <1>1, <1>2, <1>3, <1>4, FileIDs DEF Numbers, Kept, Allocated, Taking
<1>16. Open'
  BY <1>3, <1>4 DEF Open, Kept, InTxn
<1>17. Young'
  BY <1>1, <1>2, <1>3, <1>4 DEF Young
<1>18. BaseDevice'
  BY <1>3, <1>4 DEF BaseDevice
<1> QED
  BY <1>5, <1>6, <1>7, <1>8, <1>9, <1>10, <1>11, <1>12, <1>13, <1>14, <1>15, <1>16, <1>17, <1>18

\* The number is taken in the pool, the next one is tried.
LEMMA MakeExistsKeeps ==
  ASSUME DevInv, NEW p \in Clients, MakeExists(p)
  PROVE  DevInv'
<1> USE Basics DEF DevInv
<1>1. op[p].pc \in Adding
  BY DEF MakeExists, At, Adding
<1>2. /\ op[p].h \in Layers /\ op[p].h \in Hashes /\ own[op[p].h] = "creating"
      /\ op[p].at # op[p].h /\ ~file[op[p].h].deleted
      /\ mode = "up" /\ file[Base].init /\ op[Main].pc = "idle"
      /\ \A q \in Procs \ {p} : op[q].pc # "idle" => op[q].h # op[p].h
      /\ op[p].h \notin op[Worker].todo /\ p \in Procs /\ p # Main /\ p # Worker
  BY <1>1, Adder
<1>3. next' \in IDs /\ next' \notin used
  BY FreeNumber DEF MakeExists, TypeOK
<1>4. /\ op[p].pc = "make" /\ lock = p
      /\ next' \in IDs /\ next' \notin used
      /\ used' = used \cup {next'}
      /\ txn' = [ahead |-> TRUE, h |-> op[p].h, id |-> next'] \/ txn' = txn
      /\ UNCHANGED <<config, stops, mode, lock, devs, nr, file, savedNext, pool, own>>
  BY <1>1, <1>2, <1>3 DEF TypeOK, MakeExists, SaveTransaction, At, kernel, LockHeld, Taking
<1>5. /\ op'[p].pc = op[p].pc /\ op'[p].h = op[p].h /\ op'[p].at = op[p].at
      /\ op'[p].id = next' /\ op'[p].info = op[p].info /\ op'[p].ok = op[p].ok
      /\ op'[p].todo = op[p].todo
      /\ op' \in [Procs -> OpRecord]
      /\ \A q \in Procs \ {p} : op'[q] = op[q]
  <2>1. op[p] \in OpRecord /\ op \in [Procs -> OpRecord]
    BY DEF TypeOK
  <2>2. op' = [op EXCEPT ![p] = [op[p] EXCEPT !.id = next']]
    BY <1>3, <2>1 DEF MakeExists, SaveTransaction, At, kernel, LockHeld, Taking
  <2>3. /\ op'[p] = [op[p] EXCEPT !.id = next']
        /\ \A q \in Procs \ {p} : op'[q] = op[q]
    BY <2>1, <2>2
  <2>4. /\ op'[p].pc = op[p].pc /\ op'[p].h = op[p].h /\ op'[p].at = op[p].at
        /\ op'[p].id = next' /\ op'[p].info = op[p].info /\ op'[p].ok = op[p].ok
        /\ op'[p].todo = op[p].todo
        /\ op'[p] \in OpRecord
    BY <1>3, <2>1, <2>3 DEF OpRecord, Adding, Taking, InTxn, Deleting, Starting
  <2> QED
    BY <2>1, <2>2, <2>3, <2>4
<1>6. TypeOK'
  <2>1. txn' \in TxnRecord
    <3>1. CASE txn' = [ahead |-> TRUE, h |-> op[p].h, id |-> next']
      BY <1>2, <1>3, <3>1 DEF TxnRecord
    <3> QED
      BY <1>4, <3>1 DEF TypeOK
  <2> QED
    BY <2>1, <1>4, <1>5 DEF TypeOK
<1>7. LockHeld'
  BY <1>4, <1>5 DEF LockHeld, Taking, InTxn
<1>8. ClientsWork'
  BY <1>4, <1>5 DEF ClientsWork, Adding, Taking, InTxn, Deleting, Starting
<1>9. Exclusive'
  BY <1>4, <1>5 DEF Exclusive
<1>10. WorkerWorks'
  BY <1>4, <1>5 DEF WorkerWorks, Adding, Taking, InTxn, Deleting, Starting
<1>11. MainWorks'
  BY <1>1, <1>2, <1>3, <1>4, <1>5 DEF MainWorks, Adding, Taking, InTxn, Deleting, Starting
<1>12. Finds'
  BY <1>4, <1>5 DEF Finds
<1>13. Allocated'
  BY <1>4, <1>5 DEF Allocated, Kept, Taking, Numbers, LockHeld, InTxn
<1>14. Marked'
  BY <1>4, <1>5 DEF Marked
<1>15. Agree'
  BY <1>4, <1>5 DEF Agree
<1>16. Numbers'
  BY <1>4, <1>5 DEF Numbers, Kept
<1>17. Open'
  BY <1>1, <1>2, <1>3, <1>4, <1>5 DEF Open, Kept, InTxn, Numbers, LockHeld
<1>18. Young'
  BY <1>1, <1>2, <1>3, <1>4, <1>5 DEF Young
<1>19. BaseDevice'
  BY <1>4, <1>5 DEF BaseDevice
<1> QED
  BY <1>6, <1>7, <1>8, <1>9, <1>10, <1>11, <1>12, <1>13, <1>14, <1>15, <1>16, <1>17, <1>18, <1>19

\* No number could be taken.
LEMMA AddFailsKeeps ==
  ASSUME DevInv, NEW p \in Clients, AddFails(p)
  PROVE  DevInv'
<1> USE Basics DEF DevInv
<1>1. op[p].pc \in Adding
  BY DEF AddFails, At, Adding
<1>2. /\ op[p].h \in Layers /\ op[p].h \in Hashes /\ own[op[p].h] = "creating"
      /\ op[p].at # op[p].h /\ ~file[op[p].h].deleted
      /\ mode = "up" /\ file[Base].init /\ op[Main].pc = "idle"
      /\ \A q \in Procs \ {p} : op[q].pc # "idle" => op[q].h # op[p].h
      /\ op[p].h \notin op[Worker].todo /\ p \in Procs /\ p # Main /\ p # Worker
  BY <1>1, Adder
<1>3. /\ op[p].pc = "add" /\ lock = NoOne
      /\ next' \in IDs
      /\ UNCHANGED <<config, stops, devs, nr, used, file, txn, savedNext, pool>>
  BY <1>1, <1>2, NextNumber DEF TypeOK, AddFails, At, kernel, disk
<1>4. /\ lock' = NoOne /\ mode' = mode
      /\ op'[p].pc = "idle" /\ op'[p].todo = op[p].todo /\ op' \in [Procs -> OpRecord]
      /\ \A q \in Procs \ {p} : op'[q] = op[q]
      /\ own' \in [Hashes -> Owned] /\ \A g \in Hashes \ {op[p].h} : own'[g] = own[g]
      /\ own'[op[p].h] = "gone"
  <2>1. Return(p, FALSE)
    BY DEF AddFails
  <2> QED
    BY <1>1, <1>2, NextNumber, <2>1, Returns
<1>5. TypeOK'
  BY <1>1, <1>2, <1>3, <1>4, OpTypes DEF TypeOK, TxnRecord
<1>6. LockHeld'
  BY <1>3, <1>4 DEF LockHeld, Taking, InTxn
<1>7. ClientsWork'
  BY <1>1, <1>2, <1>3, <1>4, OnLayers DEF ClientsWork, Adding, Taking, InTxn, Deleting, Starting
<1>8. Exclusive'
  BY <1>3, <1>4 DEF Exclusive
<1>9. WorkerWorks'
  BY <1>1, <1>2, <1>3, <1>4 DEF WorkerWorks, Adding, Taking, InTxn, Deleting, Starting
<1>10. MainWorks'
  BY <1>1, <1>2, <1>3, <1>4 DEF MainWorks, Adding, Taking, InTxn, Deleting, Starting
<1>11. Finds'
  BY <1>3, <1>4 DEF Finds
<1>12. Allocated'
  BY <1>3, <1>4 DEF Allocated, Kept, Taking, LockHeld, Taking, InTxn
<1>13. Marked'
  BY <1>3, <1>4 DEF Marked
<1>14. Agree'
  BY <1>1, <1>2, <1>3, <1>4 DEF Agree
<1>15. Numbers'
  BY <1>1, <1>2, <1>3, <1>4 DEF Numbers, Kept
<1>16. Open'
  BY <1>1, <1>2, <1>3, <1>4 DEF Open, Kept, InTxn, LockHeld
<1>17. Young'
  BY <1>1, <1>2, <1>3, <1>4 DEF Young
<1>18. BaseDevice'
  BY <1>1, <1>2, <1>3, <1>4 DEF BaseDevice
<1> QED
  BY <1>5, <1>6, <1>7, <1>8, <1>9, <1>10, <1>11, <1>12, <1>13, <1>14, <1>15, <1>16, <1>17, <1>18

\* The pool has no device.
LEMMA MakeFailsKeeps ==
  ASSUME DevInv, NEW p \in Clients, MakeFails(p)
  PROVE  DevInv'
<1> USE Basics DEF DevInv
<1>1. op[p].pc \in Adding
  BY DEF MakeFails, At, Adding
<1>2. /\ op[p].h \in Layers /\ op[p].h \in Hashes /\ own[op[p].h] = "creating"
      /\ op[p].at # op[p].h /\ ~file[op[p].h].deleted
      /\ mode = "up" /\ file[Base].init /\ op[Main].pc = "idle"
      /\ \A q \in Procs \ {p} : op[q].pc # "idle" => op[q].h # op[p].h
      /\ op[p].h \notin op[Worker].todo /\ p \in Procs /\ p # Main /\ p # Worker
  BY <1>1, Adder
<1>3. /\ op[p].pc = "make" /\ lock = p
      /\ used' = used \/ used' = used \ {op[p].id}
      /\ UNCHANGED <<config, stops, devs, nr, next, file, txn, savedNext, pool>>
  BY <1>1, <1>2 DEF TypeOK, MakeFails, At, kernel, disk, LockHeld, Taking
<1>4. /\ lock' = NoOne /\ mode' = mode
      /\ op'[p].pc = "idle" /\ op'[p].todo = op[p].todo /\ op' \in [Procs -> OpRecord]
      /\ \A q \in Procs \ {p} : op'[q] = op[q]
      /\ own' \in [Hashes -> Owned] /\ \A g \in Hashes \ {op[p].h} : own'[g] = own[g]
      /\ own'[op[p].h] = "gone"
  <2>1. Return(p, FALSE)
    BY DEF MakeFails
  <2> QED
    BY <1>1, <1>2, <2>1, Returns
<1>5. TypeOK'
  BY <1>1, <1>2, <1>3, <1>4, OpTypes DEF TypeOK, TxnRecord
<1>6. LockHeld'
  BY <1>3, <1>4 DEF LockHeld, Taking, InTxn
<1>7. ClientsWork'
  BY <1>1, <1>2, <1>3, <1>4, OnLayers DEF ClientsWork, Adding, Taking, InTxn, Deleting, Starting
<1>8. Exclusive'
  BY <1>3, <1>4 DEF Exclusive
<1>9. WorkerWorks'
  BY <1>1, <1>2, <1>3, <1>4 DEF WorkerWorks, Adding, Taking, InTxn, Deleting, Starting
<1>10. MainWorks'
  BY <1>1, <1>2, <1>3, <1>4 DEF MainWorks, Adding, Taking, InTxn, Deleting, Starting
<1>11. Finds'
  BY <1>3, <1>4 DEF Finds
<1>12. Allocated'
  BY <1>3, <1>4 DEF Allocated, Kept, Taking, LockHeld
<1>13. Marked'
  BY <1>3, <1>4 DEF Marked
<1>14. Agree'
  BY <1>1, <1>2, <1>3, <1>4 DEF Agree
<1>15. Numbers'
  BY <1>1, <1>2, <1>3, <1>4 DEF Numbers, Kept, Allocated, Taking
<1>16. Open'
  BY <1>1, <1>2, <1>3, <1>4 DEF Open, Kept, InTxn, LockHeld
<1>17. Young'
  BY <1>1, <1>2, <1>3, <1>4 DEF Young
<1>18. BaseDevice'
  BY <1>1, <1>2, <1>3, <1>4 DEF BaseDevice
<1> QED
  BY <1>5, <1>6, <1>7, <1>8, <1>9, <1>10, <1>11, <1>12, <1>13, <1>14, <1>15, <1>16, <1>17, <1>18

\* Entry and file are there.
LEMMA RegisterKeeps ==
  ASSUME DevInv, NEW p \in Clients, Register(p)
  PROVE  DevInv'
<1> USE Basics DEF DevInv
<1>1. op[p].pc \in Adding
  BY DEF Register, At, Adding
<1>2. /\ op[p].h \in Layers /\ op[p].h \in Hashes /\ own[op[p].h] = "creating"
      /\ op[p].at # op[p].h /\ ~file[op[p].h].deleted
      /\ mode = "up" /\ file[Base].init /\ op[Main].pc = "idle"
      /\ \A q \in Procs \ {p} : op[q].pc # "idle" => op[q].h # op[p].h
      /\ op[p].h \notin op[Worker].todo /\ p \in Procs /\ p # Main /\ p # Worker
  BY <1>1, Adder
<1>3. /\ op[p].pc = "register" /\ lock = p /\ op[p].id \in IDs /\ pool[op[p].id] = op[p].h
      /\ devs' \in [Hashes -> InfoRecord] /\ file' \in [Hashes -> InfoRecord]
      /\ devs'[op[p].h] = Info(op[p].id) /\ file'[op[p].h] = Info(op[p].id)
      /\ ~Info(op[p].id).deleted
      /\ \A g \in Hashes \ {op[p].h} : devs'[g] = devs[g] /\ file'[g] = file[g]
      /\ UNCHANGED <<config, stops, mode, lock, nr, used, next, txn, savedNext, pool, own>>
  BY <1>1, <1>2, OpTypes DEF TypeOK, Register, Info, InfoRecord, Goto, At, kernel, LockHeld,
    Allocated, Taking
<1>4. /\ op'[p].pc = "close" /\ op'[p].h = op[p].h /\ op'[p].at = op[p].at
      /\ op'[p].id = op[p].id /\ op'[p].info = op[p].info /\ op'[p].ok = op[p].ok
      /\ op'[p].todo = op[p].todo
      /\ op' \in [Procs -> OpRecord]
      /\ \A q \in Procs \ {p} : op'[q] = op[q]
  <2>1. op[p] \in OpRecord /\ op \in [Procs -> OpRecord]
    BY DEF TypeOK
  <2>2. op' = [op EXCEPT ![p] = [op[p] EXCEPT !.pc = "close"]]
    BY <2>1 DEF Register, Info, InfoRecord, Goto, At, kernel, LockHeld, Allocated, Taking
  <2>3. /\ op'[p] = [op[p] EXCEPT !.pc = "close"]
        /\ \A q \in Procs \ {p} : op'[q] = op[q]
    BY <2>1, <2>2
  <2>4. /\ op'[p].pc = "close" /\ op'[p].h = op[p].h /\ op'[p].at = op[p].at
        /\ op'[p].id = op[p].id /\ op'[p].info = op[p].info /\ op'[p].ok = op[p].ok
        /\ op'[p].todo = op[p].todo
        /\ op'[p] \in OpRecord
    BY <2>1, <2>3 DEF OpRecord, Adding, Taking, InTxn, Deleting, Starting
  <2> QED
    BY <2>1, <2>2, <2>3, <2>4
<1>5. TypeOK'
  BY <1>1, <1>2, <1>3, <1>4, OpTypes DEF TypeOK, TxnRecord
<1>6. LockHeld'
  BY <1>3, <1>4 DEF LockHeld, Taking, InTxn
<1>7. ClientsWork'
  BY <1>3, <1>4 DEF ClientsWork, Adding, Taking, InTxn, Deleting, Starting
<1>8. Exclusive'
  BY <1>3, <1>4 DEF Exclusive
<1>9. WorkerWorks'
  BY <1>1, <1>2, <1>3, <1>4 DEF WorkerWorks, Adding, Taking, InTxn, Deleting, Starting
<1>10. MainWorks'
  BY <1>1, <1>2, <1>3, <1>4 DEF MainWorks, Adding, Taking, InTxn, Deleting, Starting
<1>11. Finds'
  BY <1>1, <1>2, <1>3, <1>4, OnLayers DEF Finds
<1>12. Allocated'
  BY <1>1, <1>2, <1>3, <1>4 DEF Allocated, Kept, Taking, LockHeld
<1>13. Marked'
  BY <1>1, <1>2, <1>3, <1>4 DEF Marked
<1>14. Agree'
  BY <1>1, <1>2, <1>3, <1>4 DEF Agree
<1>15. Numbers'
  BY <1>1, <1>2, <1>3, <1>4 DEF Numbers, Kept
<1>16. Open'
  BY <1>1, <1>2, <1>3, <1>4 DEF Open, Kept, InTxn, LockHeld
<1>17. Young'
  BY <1>1, <1>2, <1>3, <1>4 DEF Young
<1>18. BaseDevice'
  BY <1>1, <1>2, <1>3, <1>4 DEF BaseDevice
<1> QED
  BY <1>5, <1>6, <1>7, <1>8, <1>9, <1>10, <1>11, <1>12, <1>13, <1>14, <1>15, <1>16, <1>17, <1>18

\* Entry and file could not be made.
LEMMA RegisterFailsKeeps ==
  ASSUME DevInv, NEW p \in Clients, RegisterFails(p)
  PROVE  DevInv'
<1> USE Basics DEF DevInv
<1>1. op[p].pc \in Adding
  BY DEF RegisterFails, At, Adding
<1>2. /\ op[p].h \in Layers /\ op[p].h \in Hashes /\ own[op[p].h] = "creating"
      /\ op[p].at # op[p].h /\ ~file[op[p].h].deleted
      /\ mode = "up" /\ file[Base].init /\ op[Main].pc = "idle"
      /\ \A q \in Procs \ {p} : op[q].pc # "idle" => op[q].h # op[p].h
      /\ op[p].h \notin op[Worker].todo /\ p \in Procs /\ p # Main /\ p # Worker
  BY <1>1, Adder
<1>3. /\ op[p].pc = "register" /\ lock = p
      /\ pool' \in [IDs -> Hashes \cup {NoOne}]
      /\ \A i \in IDs : pool'[i] = pool[i] \/ (i = op[p].id /\ pool'[i] = NoOne)
      /\ used' = used \ {op[p].id}
      /\ UNCHANGED <<config, stops, devs, nr, next, file, txn, savedNext>>
  BY <1>1, <1>2, OpTypes DEF TypeOK, RegisterFails, Undo, At, disk, LockHeld, Taking
<1>4. /\ lock' = NoOne /\ mode' = mode
      /\ op'[p].pc = "idle" /\ op'[p].todo = op[p].todo /\ op' \in [Procs -> OpRecord]
      /\ \A q \in Procs \ {p} : op'[q] = op[q]
      /\ own' \in [Hashes -> Owned] /\ \A g \in Hashes \ {op[p].h} : own'[g] = own[g]
      /\ own'[op[p].h] = "gone"
  <2>1. Return(p, FALSE)
    BY DEF RegisterFails, Undo
  <2> QED
    BY <1>1, <1>2, OpTypes, <2>1, Returns
<1>5. TypeOK'
  BY <1>1, <1>2, <1>3, <1>4, OpTypes DEF TypeOK, TxnRecord
<1>6. LockHeld'
  BY <1>3, <1>4 DEF LockHeld, Taking, InTxn
<1>7. ClientsWork'
  BY <1>1, <1>2, <1>3, <1>4, OnLayers DEF ClientsWork, Adding, Taking, InTxn, Deleting, Starting
<1>8. Exclusive'
  BY <1>3, <1>4 DEF Exclusive
<1>9. WorkerWorks'
  BY <1>1, <1>2, <1>3, <1>4 DEF WorkerWorks, Adding, Taking, InTxn, Deleting, Starting
<1>10. MainWorks'
  BY <1>1, <1>2, <1>3, <1>4 DEF MainWorks, Adding, Taking, InTxn, Deleting, Starting
<1>11. Finds'
  BY <1>3, <1>4 DEF Finds
<1>12. Allocated'
  BY <1>3, <1>4 DEF Allocated, Kept, Taking, LockHeld
<1>13. Marked'
  BY <1>3, <1>4 DEF Marked
<1>14. Agree'
  BY <1>1, <1>2, <1>3, <1>4 DEF Agree
<1>15. Numbers'
  BY <1>1, <1>2, <1>3, <1>4, FileIDs DEF Numbers, Kept, Allocated, Taking
<1>16. Open'
  BY <1>1, <1>2, <1>3, <1>4 DEF Open, Kept, InTxn, LockHeld
<1>17. Young'
  BY <1>1, <1>2, <1>3, <1>4 DEF Young
<1>18. BaseDevice'
  BY <1>1, <1>2, <1>3, <1>4 DEF BaseDevice
<1> QED
  BY <1>5, <1>6, <1>7, <1>8, <1>9, <1>10, <1>11, <1>12, <1>13, <1>14, <1>15, <1>16, <1>17, <1>18

\* The device is made.
LEMMA CloseAddKeeps ==
  ASSUME DevInv, NEW p \in Clients, CloseAdd(p)
  PROVE  DevInv'
<1> USE Basics DEF DevInv
<1>1. op[p].pc \in Adding
  BY DEF CloseAdd, At, Adding
<1>2. /\ op[p].h \in Layers /\ op[p].h \in Hashes /\ own[op[p].h] = "creating"
      /\ op[p].at # op[p].h /\ ~file[op[p].h].deleted
      /\ mode = "up" /\ file[Base].init /\ op[Main].pc = "idle"
      /\ \A q \in Procs \ {p} : op[q].pc # "idle" => op[q].h # op[p].h
      /\ op[p].h \notin op[Worker].todo /\ p \in Procs /\ p # Main /\ p # Worker
  BY <1>1, Adder
<1>3. /\ op[p].pc = "close" /\ lock = p /\ op[p].id \in used /\ op[p].id \in IDs
      /\ devs[op[p].h] = Info(op[p].id) /\ file[op[p].h] = Info(op[p].id) /\ Info(op[p].id).in
      /\ Info(op[p].id).id = op[p].id /\ pool[op[p].id] = op[p].h
      /\ \A g \in Layers : Kept(g) => file[g].id # op[p].id
      /\ txn' = [txn EXCEPT !.ahead = FALSE] /\ txn' \in TxnRecord /\ ~txn'.ahead
      /\ UNCHANGED <<config, stops, devs, nr, used, next, file, savedNext, pool>>
  BY <1>1, <1>2, OpTypes DEF TypeOK, CloseAdd, CloseTransaction, At, disk, Info, LockHeld,
    Allocated, Taking, TxnRecord
<1>4. /\ lock' = NoOne /\ mode' = mode
      /\ op'[p].pc = "idle" /\ op'[p].todo = op[p].todo /\ op' \in [Procs -> OpRecord]
      /\ \A q \in Procs \ {p} : op'[q] = op[q]
      /\ own' \in [Hashes -> Owned] /\ \A g \in Hashes \ {op[p].h} : own'[g] = own[g]
      /\ own'[op[p].h] = "live"
  <2>1. Return(p, TRUE)
    BY DEF CloseAdd
  <2> QED
    BY <1>1, <1>2, OpTypes, <2>1, Returns
<1>5. TypeOK'
  BY <1>1, <1>2, <1>3, <1>4, OpTypes DEF TypeOK, TxnRecord
<1>6. LockHeld'
  BY <1>3, <1>4 DEF LockHeld, Taking, InTxn
<1>7. ClientsWork'
  BY <1>1, <1>2, <1>3, <1>4, OnLayers DEF ClientsWork, Adding, Taking, InTxn, Deleting, Starting
<1>8. Exclusive'
  BY <1>3, <1>4 DEF Exclusive
<1>9. WorkerWorks'
  BY <1>1, <1>2, <1>3, <1>4 DEF WorkerWorks, Adding, Taking, InTxn, Deleting, Starting
<1>10. MainWorks'
  BY <1>1, <1>2, <1>3, <1>4 DEF MainWorks, Adding, Taking, InTxn, Deleting, Starting
<1>11. Finds'
  BY <1>1, <1>2, <1>3, <1>4, OnLayers DEF Finds
<1>12. Allocated'
  BY <1>1, <1>2, <1>3, <1>4 DEF Allocated, Kept, Taking, LockHeld
<1>13. Marked'
  BY <1>1, <1>2, <1>3, <1>4 DEF Marked
<1>14. Agree'
  BY <1>1, <1>2, <1>3, <1>4 DEF Agree
<1>15. Numbers'
  BY <1>1, <1>2, <1>3, <1>4 DEF Numbers, Kept
<1>16. Open'
  BY <1>3, <1>4 DEF Open, Kept, InTxn
<1>17. Young'
  BY <1>1, <1>2, <1>3, <1>4 DEF Young
<1>18. BaseDevice'
  BY <1>1, <1>2, <1>3, <1>4 DEF BaseDevice
<1> QED
  BY <1>5, <1>6, <1>7, <1>8, <1>9, <1>10, <1>11, <1>12, <1>13, <1>14, <1>15, <1>16, <1>17, <1>18

\* The transaction could not be closed, the device is unmade.
LEMMA CloseAddFailsKeeps ==
  ASSUME DevInv, NEW p \in Clients, CloseAddFails(p)
  PROVE  DevInv'
<1> USE Basics DEF DevInv
<1>1. op[p].pc \in Adding
  BY DEF CloseAddFails, At, Adding
<1>2. /\ op[p].h \in Layers /\ op[p].h \in Hashes /\ own[op[p].h] = "creating"
      /\ op[p].at # op[p].h /\ ~file[op[p].h].deleted
      /\ mode = "up" /\ file[Base].init /\ op[Main].pc = "idle"
      /\ \A q \in Procs \ {p} : op[q].pc # "idle" => op[q].h # op[p].h
      /\ op[p].h \notin op[Worker].todo /\ p \in Procs /\ p # Main /\ p # Worker
  BY <1>1, Adder
<1>3. /\ op[p].pc = "close" /\ lock = p
      /\ pool' \in [IDs -> Hashes \cup {NoOne}]
      /\ \A i \in IDs : pool'[i] = pool[i] \/ (i = op[p].id /\ pool'[i] = NoOne)
      /\ used' = used \ {op[p].id}
      /\ devs' \in [Hashes -> InfoRecord] /\ file' \in [Hashes -> InfoRecord]
      /\ ~devs'[op[p].h].in /\ ~file'[op[p].h].deleted
      /\ \A g \in Hashes \ {op[p].h} : devs'[g] = devs[g] /\ file'[g] = file[g]
      /\ UNCHANGED <<config, stops, nr, next, txn, savedNext>>
  BY <1>1, <1>2, OpTypes, IdleIs DEF TypeOK, CloseAddFails, Undo, At, disk, LockHeld, Taking
<1>4. /\ lock' = NoOne /\ mode' = mode
      /\ op'[p].pc = "idle" /\ op'[p].todo = op[p].todo /\ op' \in [Procs -> OpRecord]
      /\ \A q \in Procs \ {p} : op'[q] = op[q]
      /\ own' \in [Hashes -> Owned] /\ \A g \in Hashes \ {op[p].h} : own'[g] = own[g]
      /\ own'[op[p].h] = "gone"
  <2>1. Return(p, FALSE)
    BY DEF CloseAddFails, Undo
  <2> QED
    BY <1>1, <1>2, OpTypes, IdleIs, <2>1, Returns
<1>5. TypeOK'
  BY <1>1, <1>2, <1>3, <1>4, OpTypes DEF TypeOK, TxnRecord
<1>6. LockHeld'
  BY <1>3, <1>4 DEF LockHeld, Taking, InTxn
<1>7. ClientsWork'
  BY <1>1, <1>2, <1>3, <1>4, OnLayers DEF ClientsWork, Adding, Taking, InTxn, Deleting, Starting
<1>8. Exclusive'
  BY <1>3, <1>4 DEF Exclusive
<1>9. WorkerWorks'
  BY <1>1, <1>2, <1>3, <1>4 DEF WorkerWorks, Adding, Taking, InTxn, Deleting, Starting
<1>10. MainWorks'
  BY <1>1, <1>2, <1>3, <1>4 DEF MainWorks, Adding, Taking, InTxn, Deleting, Starting
<1>11. Finds'
  BY <1>1, <1>2, <1>3, <1>4, OnLayers DEF Finds
<1>12. Allocated'
  BY <1>1, <1>2, <1>3, <1>4 DEF Allocated, Kept, Taking, LockHeld
<1>13. Marked'
  BY <1>1, <1>2, <1>3, <1>4 DEF Marked
<1>14. Agree'
  BY <1>1, <1>2, <1>3, <1>4 DEF Agree
<1>15. Numbers'
  BY <1>1, <1>2, <1>3, <1>4, FileIDs DEF Numbers, Kept, Allocated, Taking
<1>16. Open'
  BY <1>1, <1>2, <1>3, <1>4 DEF Open, Kept, InTxn, LockHeld
<1>17. Young'
  BY <1>1, <1>2, <1>3, <1>4 DEF Young
<1>18. BaseDevice'
  BY <1>1, <1>2, <1>3, <1>4 DEF BaseDevice
<1> QED
  BY <1>5, <1>6, <1>7, <1>8, <1>9, <1>10, <1>11, <1>12, <1>13, <1>14, <1>15, <1>16, <1>17, <1>18

\* The transaction of a deletion is open.
LEMMA DeleteKeeps ==
  ASSUME DevInv, NEW p \in Procs \ {Main}, Delete(p)
  PROVE  DevInv'
<1> USE Basics DEF DevInv
<1>1. op[p].pc \in Deleting
  BY DEF Delete, At, Deleting, InTxn
<1>2. /\ op[p].h \in Layers /\ op[p].h \in Hashes /\ op[p].h \notin op[Worker].todo
      /\ mode # "down" /\ file[Base].init /\ op[Main].pc \in {"idle", "setup"}
      /\ \A q \in Procs \ {p} : op[q].pc \in Adding \cup Deleting => op[q].h # op[p].h
      /\ p \in Clients => own[op[p].h] = "asked" /\ op[p].at = op[p].h
      /\ p = Worker => own[op[p].h] = "gone" /\ (op[p].pc # "closing" => file[op[p].h].deleted)
      /\ p \in Procs /\ p # Main
  BY <1>1, Deleter
<1>3. Found(p) = file[op[p].h] /\ file[op[p].h].in /\ file[op[p].h] \in InfoRecord
      /\ file[op[p].h].id \in IDs
  BY <1>2, FoundIs, FileIDs DEF Delete, At
<1>4. PICK i \in InfoRecord : i = file[op[p].h] /\ i.in
  BY <1>3
<1>5. PICK n \in IDs : n = file[op[p].h].id
  BY <1>3
<1>6. /\ op[p].pc \in {"delete", "busy"} /\ lock = NoOne /\ i = file[op[p].h] /\ i.in
      /\ n = file[op[p].h].id
      /\ txn' = [ahead |-> TRUE, h |-> op[p].h, id |-> file[op[p].h].id] /\ lock' = p
      /\ txn' \in TxnRecord
      /\ UNCHANGED <<config, stops, mode, devs, nr, used, next, file, savedNext, pool, own>>
  BY <1>1, <1>2, <1>3, <1>4, <1>5 DEF TypeOK, Delete, SaveTransaction, At, TxnRecord
<1>7. /\ op'[p].pc = "pool" /\ op'[p].h = op[p].h /\ op'[p].at = op[p].at
      /\ op'[p].id = n /\ op'[p].info = i /\ op'[p].ok = op[p].ok /\ op'[p].todo = op[p].todo
      /\ op' \in [Procs -> OpRecord]
      /\ \A q \in Procs \ {p} : op'[q] = op[q]
  <2>1. op[p] \in OpRecord /\ op \in [Procs -> OpRecord]
    BY DEF TypeOK
  <2>2. op' = [op EXCEPT ![p] = [op[p] EXCEPT !.pc = "pool", !.info = i, !.id = n]]
    BY <1>3, <1>4, <1>5, <2>1 DEF Delete, SaveTransaction, At, TxnRecord
  <2>3. /\ op'[p] = [op[p] EXCEPT !.pc = "pool", !.info = i, !.id = n]
        /\ \A q \in Procs \ {p} : op'[q] = op[q]
    BY <2>1, <2>2
  <2>4. /\ op'[p].pc = "pool" /\ op'[p].h = op[p].h /\ op'[p].at = op[p].at
        /\ op'[p].id = n /\ op'[p].info = i /\ op'[p].ok = op[p].ok /\ op'[p].todo = op[p].todo
        /\ op'[p] \in OpRecord
    BY <2>1, <2>3 DEF OpRecord, Adding, Taking, InTxn, Deleting, Starting
  <2> QED
    BY <2>1, <2>2, <2>3, <2>4
<1>8. TypeOK'
  BY <1>1, <1>2, <1>3, <1>4, <1>5, <1>6, <1>7, OpTypes DEF TypeOK, TxnRecord
<1>9. LockHeld'
  BY <1>6, <1>7 DEF LockHeld, Taking, InTxn
<1>10. ClientsWork'
  BY <1>6, <1>7 DEF ClientsWork, Adding, Taking, InTxn, Deleting, Starting
<1>11. Exclusive'
  BY <1>6, <1>7 DEF Exclusive
<1>12. WorkerWorks'
  BY <1>1, <1>2, <1>3, <1>4, <1>5, <1>6, <1>7 DEF WorkerWorks, Adding, Taking, InTxn, Deleting,
    Starting
<1>13. MainWorks'
  BY <1>1, <1>2, <1>3, <1>4, <1>5, <1>6, <1>7 DEF MainWorks, Adding, Taking, InTxn, Deleting,
    Starting
<1>14. Finds'
  BY <1>1, <1>2, <1>3, <1>4, <1>5, <1>6, <1>7, OnLayers DEF Finds, Adding, Deleting, InTxn
<1>15. Allocated'
  BY <1>1, <1>2, <1>3, <1>4, <1>5, <1>6, <1>7 DEF Allocated, Kept, Taking, LockHeld, InTxn
<1>16. Marked'
  BY <1>6, <1>7 DEF Marked
<1>17. Agree'
  BY <1>6, <1>7 DEF Agree
<1>18. Numbers'
  BY <1>6, <1>7 DEF Numbers, Kept
<1>19. Open'
  BY <1>6, <1>7 DEF Open, Kept, InTxn
<1>20. Young'
  BY <1>1, <1>2, <1>3, <1>4, <1>5, <1>6, <1>7 DEF Young
<1>21. BaseDevice'
  BY <1>6, <1>7 DEF BaseDevice
<1> QED
  BY <1>8, <1>9, <1>10, <1>11, <1>12, <1>13, <1>14, <1>15, <1>16, <1>17, <1>18, <1>19, <1>20, <1>21

\* The device is busy.
LEMMA DeleteBusyKeeps ==
  ASSUME DevInv, NEW p \in Procs \ {Main}, DeleteBusy(p)
  PROVE  DevInv'
<1> USE Basics DEF DevInv
<1>1. op[p].pc \in Deleting
  BY DEF DeleteBusy, At, Deleting, InTxn
<1>2. /\ op[p].h \in Layers /\ op[p].h \in Hashes /\ op[p].h \notin op[Worker].todo
      /\ mode # "down" /\ file[Base].init /\ op[Main].pc \in {"idle", "setup"}
      /\ \A q \in Procs \ {p} : op[q].pc \in Adding \cup Deleting => op[q].h # op[p].h
      /\ p \in Clients => own[op[p].h] = "asked" /\ op[p].at = op[p].h
      /\ p = Worker => own[op[p].h] = "gone" /\ (op[p].pc # "closing" => file[op[p].h].deleted)
      /\ p \in Procs /\ p # Main
  BY <1>1, Deleter
<1>3. Found(p) = file[op[p].h] /\ file[op[p].h].in /\ file[op[p].h] \in InfoRecord
      /\ file[op[p].h].id \in IDs
  BY <1>2, FoundIs, FileIDs DEF DeleteBusy, At
<1>4. PICK i \in InfoRecord : i = file[op[p].h] /\ i.in
  BY <1>3
<1>5. /\ op[p].pc = "delete" /\ lock = NoOne /\ i = file[op[p].h] /\ i.in
      /\ UNCHANGED <<config, stops, mode, lock, devs, nr, used, next, file, txn, savedNext, pool,
                     own>>
  BY <1>1, <1>2, <1>3, <1>4 DEF TypeOK, DeleteBusy, At, memory, disk, kernel
<1>6. /\ op'[p].pc = "busy" /\ op'[p].h = op[p].h /\ op'[p].at = op[p].at
      /\ op'[p].id = op[p].id /\ op'[p].info = i /\ op'[p].ok = op[p].ok /\ op'[p].todo = op[p].todo
      /\ op' \in [Procs -> OpRecord]
      /\ \A q \in Procs \ {p} : op'[q] = op[q]
  <2>1. op[p] \in OpRecord /\ op \in [Procs -> OpRecord]
    BY DEF TypeOK
  <2>2. op' = [op EXCEPT ![p] = [op[p] EXCEPT !.pc = "busy", !.info = i]]
    BY <1>3, <1>4, <2>1 DEF DeleteBusy, At, memory, disk, kernel
  <2>3. /\ op'[p] = [op[p] EXCEPT !.pc = "busy", !.info = i]
        /\ \A q \in Procs \ {p} : op'[q] = op[q]
    BY <2>1, <2>2
  <2>4. /\ op'[p].pc = "busy" /\ op'[p].h = op[p].h /\ op'[p].at = op[p].at
        /\ op'[p].id = op[p].id /\ op'[p].info = i /\ op'[p].ok = op[p].ok
        /\ op'[p].todo = op[p].todo
        /\ op'[p] \in OpRecord
    BY <2>1, <2>3 DEF OpRecord, Adding, Taking, InTxn, Deleting, Starting
  <2> QED
    BY <2>1, <2>2, <2>3, <2>4
<1>7. TypeOK'
  BY <1>1, <1>2, <1>3, <1>4, <1>5, <1>6, OpTypes DEF TypeOK, TxnRecord
<1>8. LockHeld'
  BY <1>5, <1>6 DEF LockHeld, Taking, InTxn
<1>9. ClientsWork'
  BY <1>5, <1>6 DEF ClientsWork, Adding, Taking, InTxn, Deleting, Starting
<1>10. Exclusive'
  BY <1>5, <1>6 DEF Exclusive
<1>11. WorkerWorks'
  BY <1>1, <1>2, <1>3, <1>4, <1>5, <1>6 DEF WorkerWorks, Adding, Taking, InTxn, Deleting, Starting
<1>12. MainWorks'
  BY <1>1, <1>2, <1>3, <1>4, <1>5, <1>6 DEF MainWorks, Adding, Taking, InTxn, Deleting, Starting
<1>13. Finds'
  BY <1>1, <1>2, <1>3, <1>4, <1>5, <1>6, OnLayers DEF Finds, Adding, Deleting, InTxn
<1>14. Allocated'
  BY <1>5, <1>6 DEF Allocated, Kept, Taking
<1>15. Marked'
  BY <1>5, <1>6 DEF Marked
<1>16. Agree'
  BY <1>5, <1>6 DEF Agree
<1>17. Numbers'
  BY <1>5, <1>6 DEF Numbers, Kept
<1>18. Open'
  BY <1>5, <1>6 DEF Open, Kept, InTxn
<1>19. Young'
  BY <1>1, <1>2, <1>3, <1>4, <1>5, <1>6 DEF Young
<1>20. BaseDevice'
  BY <1>5, <1>6 DEF BaseDevice
<1> QED
  BY <1>7, <1>8, <1>9, <1>10, <1>11, <1>12, <1>13, <1>14, <1>15, <1>16, <1>17, <1>18, <1>19, <1>20

\* The deletion is given up before it begins.
LEMMA DeleteFailsKeeps ==
  ASSUME DevInv, NEW p \in Procs \ {Main}, DeleteFails(p)
  PROVE  DevInv'
<1> USE Basics DEF DevInv
<1>1. op[p].pc \in Deleting
  BY DEF DeleteFails, At, Deleting, InTxn
<1>2. /\ op[p].h \in Layers /\ op[p].h \in Hashes /\ op[p].h \notin op[Worker].todo
      /\ mode # "down" /\ file[Base].init /\ op[Main].pc \in {"idle", "setup"}
      /\ \A q \in Procs \ {p} : op[q].pc \in Adding \cup Deleting => op[q].h # op[p].h
      /\ p \in Clients => own[op[p].h] = "asked" /\ op[p].at = op[p].h
      /\ p = Worker => own[op[p].h] = "gone" /\ (op[p].pc # "closing" => file[op[p].h].deleted)
      /\ p \in Procs /\ p # Main
  BY <1>1, Deleter
<1>3. /\ op[p].pc \in {"delete", "busy"} /\ lock = NoOne
      /\ UNCHANGED <<config, stops, devs, nr, used, next, file, txn, savedNext, pool>>
  BY <1>1, <1>2 DEF TypeOK, DeleteFails, At, disk
<1>4. /\ lock' = NoOne /\ mode' = mode
      /\ op'[p].pc = "idle" /\ op'[p].todo = op[p].todo /\ op' \in [Procs -> OpRecord]
      /\ \A q \in Procs \ {p} : op'[q] = op[q]
      /\ own' \in [Hashes -> Owned] /\ \A g \in Hashes \ {op[p].h} : own'[g] = own[g]
      /\ p = Worker => own' = own
      /\ p \in Clients => own'[op[p].h] = "asked"
  <2>1. Return(p, FALSE)
    BY DEF DeleteFails
  <2> QED
    BY <1>1, <1>2, <2>1, Returns
<1>5. TypeOK'
  BY <1>1, <1>2, <1>3, <1>4, OpTypes DEF TypeOK, TxnRecord
<1>6. LockHeld'
  BY <1>3, <1>4 DEF LockHeld, Taking, InTxn
<1>7. ClientsWork'
  BY <1>1, <1>2, <1>3, <1>4, OnLayers DEF ClientsWork, Adding, Taking, InTxn, Deleting, Starting
<1>8. Exclusive'
  BY <1>3, <1>4 DEF Exclusive
<1>9. WorkerWorks'
  BY <1>1, <1>2, <1>3, <1>4 DEF WorkerWorks, Adding, Taking, InTxn, Deleting, Starting
<1>10. MainWorks'
  BY <1>1, <1>2, <1>3, <1>4 DEF MainWorks, Adding, Taking, InTxn, Deleting, Starting
<1>11. Finds'
  BY <1>1, <1>2, <1>3, <1>4, OnLayers DEF Finds, Adding, Deleting, InTxn
<1>12. Allocated'
  BY <1>1, <1>2, <1>3, <1>4 DEF Allocated, Kept, Taking, LockHeld, InTxn
<1>13. Marked'
  BY <1>1, <1>2, <1>3, <1>4 DEF Marked
<1>14. Agree'
  BY <1>1, <1>2, <1>3, <1>4 DEF Agree
<1>15. Numbers'
  BY <1>1, <1>2, <1>3, <1>4 DEF Numbers, Kept
<1>16. Open'
  BY <1>1, <1>2, <1>3, <1>4 DEF Open, Kept, InTxn, LockHeld
<1>17. Young'
  BY <1>1, <1>2, <1>3, <1>4 DEF Young
<1>18. BaseDevice'
  BY <1>1, <1>2, <1>3, <1>4 DEF BaseDevice
<1> QED
  BY <1>5, <1>6, <1>7, <1>8, <1>9, <1>10, <1>11, <1>12, <1>13, <1>14, <1>15, <1>16, <1>17, <1>18

\* The pool has deleted the device.
LEMMA DeletePoolKeeps ==
  ASSUME DevInv, NEW p \in Procs \ {Main}, DeletePool(p)
  PROVE  DevInv'
<1> USE Basics DEF DevInv
<1>1. op[p].pc \in Deleting
  BY DEF DeletePool, At, Deleting, InTxn
<1>2. /\ op[p].h \in Layers /\ op[p].h \in Hashes /\ op[p].h \notin op[Worker].todo
      /\ mode # "down" /\ file[Base].init /\ op[Main].pc \in {"idle", "setup"}
      /\ \A q \in Procs \ {p} : op[q].pc \in Adding \cup Deleting => op[q].h # op[p].h
      /\ p \in Clients => own[op[p].h] = "asked" /\ op[p].at = op[p].h
      /\ p = Worker => own[op[p].h] = "gone" /\ (op[p].pc # "closing" => file[op[p].h].deleted)
      /\ p \in Procs /\ p # Main
  BY <1>1, Deleter
<1>3. /\ op[p].pc = "pool" /\ lock = p /\ op[p].id \in IDs
      /\ file[op[p].h].in /\ op[p].id = file[op[p].h].id
      /\ pool' \in [IDs -> Hashes \cup {NoOne}] /\ pool'[op[p].id] = NoOne
      /\ \A i \in IDs \ {op[p].id} : pool'[i] = pool[i]
      /\ UNCHANGED <<config, stops, mode, lock, devs, nr, used, next, file, txn, savedNext, own>>
  BY <1>1, <1>2, OpTypes DEF TypeOK, DeletePool, At, Goto, memory, disk, LockHeld, InTxn, Finds
<1>4. /\ op'[p].pc = "unregister" /\ op'[p].h = op[p].h /\ op'[p].at = op[p].at
      /\ op'[p].id = op[p].id /\ op'[p].info = op[p].info /\ op'[p].ok = op[p].ok
      /\ op'[p].todo = op[p].todo
      /\ op' \in [Procs -> OpRecord]
      /\ \A q \in Procs \ {p} : op'[q] = op[q]
  <2>1. op[p] \in OpRecord /\ op \in [Procs -> OpRecord]
    BY DEF TypeOK
  <2>2. op' = [op EXCEPT ![p] = [op[p] EXCEPT !.pc = "unregister"]]
    BY <2>1 DEF DeletePool, At, Goto, memory, disk, LockHeld, InTxn, Finds
  <2>3. /\ op'[p] = [op[p] EXCEPT !.pc = "unregister"]
        /\ \A q \in Procs \ {p} : op'[q] = op[q]
    BY <2>1, <2>2
  <2>4. /\ op'[p].pc = "unregister" /\ op'[p].h = op[p].h /\ op'[p].at = op[p].at
        /\ op'[p].id = op[p].id /\ op'[p].info = op[p].info /\ op'[p].ok = op[p].ok
        /\ op'[p].todo = op[p].todo
        /\ op'[p] \in OpRecord
    BY <2>1, <2>3 DEF OpRecord, Adding, Taking, InTxn, Deleting, Starting
  <2> QED
    BY <2>1, <2>2, <2>3, <2>4
<1>5. TypeOK'
  BY <1>1, <1>2, <1>3, <1>4, OpTypes DEF TypeOK, TxnRecord
<1>6. LockHeld'
  BY <1>3, <1>4 DEF LockHeld, Taking, InTxn
<1>7. ClientsWork'
  BY <1>3, <1>4 DEF ClientsWork, Adding, Taking, InTxn, Deleting, Starting
<1>8. Exclusive'
  BY <1>3, <1>4 DEF Exclusive
<1>9. WorkerWorks'
  BY <1>1, <1>2, <1>3, <1>4 DEF WorkerWorks, Adding, Taking, InTxn, Deleting, Starting
<1>10. MainWorks'
  BY <1>1, <1>2, <1>3, <1>4 DEF MainWorks, Adding, Taking, InTxn, Deleting, Starting
<1>11. Finds'
  BY <1>1, <1>2, <1>3, <1>4, OnLayers DEF Finds, Adding, Deleting, InTxn
<1>12. Allocated'
  BY <1>1, <1>2, <1>3, <1>4 DEF Allocated, Kept, Taking, LockHeld
<1>13. Marked'
  BY <1>3, <1>4 DEF Marked
<1>14. Agree'
  BY <1>3, <1>4 DEF Agree
<1>15. Numbers'
  BY <1>1, <1>2, <1>3, <1>4, FileIDs DEF Numbers, Kept
<1>16. Open'
  BY <1>3, <1>4 DEF Open, Kept, InTxn
<1>17. Young'
  BY <1>1, <1>2, <1>3, <1>4 DEF Young
<1>18. BaseDevice'
  BY <1>3, <1>4 DEF BaseDevice
<1> QED
  BY <1>5, <1>6, <1>7, <1>8, <1>9, <1>10, <1>11, <1>12, <1>13, <1>14, <1>15, <1>16, <1>17, <1>18

\* The device is to be marked.
LEMMA DeletePoolBusyKeeps ==
  ASSUME DevInv, NEW p \in Procs \ {Main}, DeletePoolBusy(p)
  PROVE  DevInv'
<1> USE Basics DEF DevInv
<1>1. op[p].pc \in Deleting
  BY DEF DeletePoolBusy, At, Deleting, InTxn
<1>2. /\ op[p].h \in Layers /\ op[p].h \in Hashes /\ op[p].h \notin op[Worker].todo
      /\ mode # "down" /\ file[Base].init /\ op[Main].pc \in {"idle", "setup"}
      /\ \A q \in Procs \ {p} : op[q].pc \in Adding \cup Deleting => op[q].h # op[p].h
      /\ p \in Clients => own[op[p].h] = "asked" /\ op[p].at = op[p].h
      /\ p = Worker => own[op[p].h] = "gone" /\ (op[p].pc # "closing" => file[op[p].h].deleted)
      /\ p \in Procs /\ p # Main
  BY <1>1, Deleter
<1>3. /\ op[p].pc = "pool" /\ lock = p
      /\ UNCHANGED <<config, stops, mode, lock, devs, nr, used, next, file, txn, savedNext, pool,
                     own>>
  BY <1>1, <1>2 DEF TypeOK, DeletePoolBusy, At, Goto, memory, disk, kernel, LockHeld, InTxn
<1>4. /\ op'[p].pc = "mark" /\ op'[p].h = op[p].h /\ op'[p].at = op[p].at
      /\ op'[p].id = op[p].id /\ op'[p].info = op[p].info /\ op'[p].ok = op[p].ok
      /\ op'[p].todo = op[p].todo
      /\ op' \in [Procs -> OpRecord]
      /\ \A q \in Procs \ {p} : op'[q] = op[q]
  <2>1. op[p] \in OpRecord /\ op \in [Procs -> OpRecord]
    BY DEF TypeOK
  <2>2. op' = [op EXCEPT ![p] = [op[p] EXCEPT !.pc = "mark"]]
    BY <2>1 DEF DeletePoolBusy, At, Goto, memory, disk, kernel, LockHeld, InTxn
  <2>3. /\ op'[p] = [op[p] EXCEPT !.pc = "mark"]
        /\ \A q \in Procs \ {p} : op'[q] = op[q]
    BY <2>1, <2>2
  <2>4. /\ op'[p].pc = "mark" /\ op'[p].h = op[p].h /\ op'[p].at = op[p].at
        /\ op'[p].id = op[p].id /\ op'[p].info = op[p].info /\ op'[p].ok = op[p].ok
        /\ op'[p].todo = op[p].todo
        /\ op'[p] \in OpRecord
    BY <2>1, <2>3 DEF OpRecord, Adding, Taking, InTxn, Deleting, Starting
  <2> QED
    BY <2>1, <2>2, <2>3, <2>4
<1>5. TypeOK'
  BY <1>1, <1>2, <1>3, <1>4, OpTypes DEF TypeOK, TxnRecord
<1>6. LockHeld'
  BY <1>3, <1>4 DEF LockHeld, Taking, InTxn
<1>7. ClientsWork'
  BY <1>3, <1>4 DEF ClientsWork, Adding, Taking, InTxn, Deleting, Starting
<1>8. Exclusive'
  BY <1>3, <1>4 DEF Exclusive
<1>9. WorkerWorks'
  BY <1>1, <1>2, <1>3, <1>4 DEF WorkerWorks, Adding, Taking, InTxn, Deleting, Starting
<1>10. MainWorks'
  BY <1>1, <1>2, <1>3, <1>4 DEF MainWorks, Adding, Taking, InTxn, Deleting, Starting
<1>11. Finds'
  BY <1>1, <1>2, <1>3, <1>4, OnLayers DEF Finds, Adding, Deleting, InTxn
<1>12. Allocated'
  BY <1>3, <1>4 DEF Allocated, Kept, Taking
<1>13. Marked'
  BY <1>3, <1>4 DEF Marked
<1>14. Agree'
  BY <1>3, <1>4 DEF Agree
<1>15. Numbers'
  BY <1>3, <1>4 DEF Numbers, Kept
<1>16. Open'
  BY <1>1, <1>2, <1>3, <1>4 DEF Open, Kept, InTxn
<1>17. Young'
  BY <1>1, <1>2, <1>3, <1>4 DEF Young
<1>18. BaseDevice'
  BY <1>3, <1>4 DEF BaseDevice
<1> QED
  BY <1>5, <1>6, <1>7, <1>8, <1>9, <1>10, <1>11, <1>12, <1>13, <1>14, <1>15, <1>16, <1>17, <1>18

\* The pool has not deleted the device.
LEMMA DeletePoolFailsKeeps ==
  ASSUME DevInv, NEW p \in Procs \ {Main}, DeletePoolFails(p)
  PROVE  DevInv'
<1> USE Basics DEF DevInv
<1>1. op[p].pc \in Deleting
  BY DEF DeletePoolFails, At, Deleting, InTxn
<1>2. /\ op[p].h \in Layers /\ op[p].h \in Hashes /\ op[p].h \notin op[Worker].todo
      /\ mode # "down" /\ file[Base].init /\ op[Main].pc \in {"idle", "setup"}
      /\ \A q \in Procs \ {p} : op[q].pc \in Adding \cup Deleting => op[q].h # op[p].h
      /\ p \in Clients => own[op[p].h] = "asked" /\ op[p].at = op[p].h
      /\ p = Worker => own[op[p].h] = "gone" /\ (op[p].pc # "closing" => file[op[p].h].deleted)
      /\ p \in Procs /\ p # Main
  BY <1>1, Deleter
<1>3. /\ op[p].pc = "pool" /\ lock = p
      /\ UNCHANGED <<config, stops, mode, lock, devs, nr, used, next, file, txn, savedNext, pool,
                     own>>
  BY <1>1, <1>2 DEF TypeOK, DeletePoolFails, Closing, At, memory, disk, kernel, LockHeld, InTxn
<1>4. /\ op'[p].pc = "closing" /\ op'[p].h = op[p].h /\ op'[p].at = op[p].at
      /\ op'[p].id = op[p].id /\ op'[p].info = op[p].info /\ op'[p].ok = FALSE
      /\ op'[p].todo = op[p].todo
      /\ op' \in [Procs -> OpRecord]
      /\ \A q \in Procs \ {p} : op'[q] = op[q]
  <2>1. op[p] \in OpRecord /\ op \in [Procs -> OpRecord]
    BY DEF TypeOK
  <2>2. op' = [op EXCEPT ![p] = [op[p] EXCEPT !.pc = "closing", !.ok = FALSE]]
    BY <2>1 DEF DeletePoolFails, Closing, At, memory, disk, kernel, LockHeld, InTxn
  <2>3. /\ op'[p] = [op[p] EXCEPT !.pc = "closing", !.ok = FALSE]
        /\ \A q \in Procs \ {p} : op'[q] = op[q]
    BY <2>1, <2>2
  <2>4. /\ op'[p].pc = "closing" /\ op'[p].h = op[p].h /\ op'[p].at = op[p].at
        /\ op'[p].id = op[p].id /\ op'[p].info = op[p].info /\ op'[p].ok = FALSE
        /\ op'[p].todo = op[p].todo
        /\ op'[p] \in OpRecord
    BY <2>1, <2>3 DEF OpRecord, Adding, Taking, InTxn, Deleting, Starting
  <2> QED
    BY <2>1, <2>2, <2>3, <2>4
<1>5. TypeOK'
  BY <1>1, <1>2, <1>3, <1>4, OpTypes DEF TypeOK, TxnRecord
<1>6. LockHeld'
  BY <1>3, <1>4 DEF LockHeld, Taking, InTxn
<1>7. ClientsWork'
  BY <1>3, <1>4 DEF ClientsWork, Adding, Taking, InTxn, Deleting, Starting
<1>8. Exclusive'
  BY <1>3, <1>4 DEF Exclusive
<1>9. WorkerWorks'
  BY <1>1, <1>2, <1>3, <1>4 DEF WorkerWorks, Adding, Taking, InTxn, Deleting, Starting
<1>10. MainWorks'
  BY <1>1, <1>2, <1>3, <1>4 DEF MainWorks, Adding, Taking, InTxn, Deleting, Starting
<1>11. Finds'
  BY <1>1, <1>2, <1>3, <1>4, OnLayers DEF Finds, Adding, Deleting, InTxn
<1>12. Allocated'
  BY <1>3, <1>4 DEF Allocated, Kept, Taking
<1>13. Marked'
  BY <1>3, <1>4 DEF Marked
<1>14. Agree'
  BY <1>3, <1>4 DEF Agree
<1>15. Numbers'
  BY <1>3, <1>4 DEF Numbers, Kept
<1>16. Open'
  BY <1>1, <1>2, <1>3, <1>4 DEF Open, Kept, InTxn
<1>17. Young'
  BY <1>1, <1>2, <1>3, <1>4 DEF Young
<1>18. BaseDevice'
  BY <1>3, <1>4 DEF BaseDevice
<1> QED
  BY <1>5, <1>6, <1>7, <1>8, <1>9, <1>10, <1>11, <1>12, <1>13, <1>14, <1>15, <1>16, <1>17, <1>18

\* Entry and file are gone.
LEMMA UnregisterKeeps ==
  ASSUME DevInv, NEW p \in Procs \ {Main}, Unregister(p)
  PROVE  DevInv'
<1> USE Basics DEF DevInv
<1>1. op[p].pc \in Deleting
  BY DEF Unregister, At, Deleting, InTxn
<1>2. /\ op[p].h \in Layers /\ op[p].h \in Hashes /\ op[p].h \notin op[Worker].todo
      /\ mode # "down" /\ file[Base].init /\ op[Main].pc \in {"idle", "setup"}
      /\ \A q \in Procs \ {p} : op[q].pc \in Adding \cup Deleting => op[q].h # op[p].h
      /\ p \in Clients => own[op[p].h] = "asked" /\ op[p].at = op[p].h
      /\ p = Worker => own[op[p].h] = "gone" /\ (op[p].pc # "closing" => file[op[p].h].deleted)
      /\ p \in Procs /\ p # Main
  BY <1>1, Deleter
<1>3. Forgets(p, op[p].h) = op
  BY <1>2, OnLayers DEF Forgets, At, Deleting, Adding, TypeOK
<1>4. /\ op[p].pc = "unregister" /\ lock = p /\ op[p].id \in IDs
      /\ file[op[p].h].in /\ op[p].id = file[op[p].h].id /\ used' = used \ {op[p].id}
      /\ devs' \in [Hashes -> InfoRecord] /\ file' \in [Hashes -> InfoRecord]
      /\ ~devs'[op[p].h].in /\ ~file'[op[p].h].in /\ ~file'[op[p].h].deleted
      /\ \A g \in Hashes \ {op[p].h} : devs'[g] = devs[g] /\ file'[g] = file[g]
      /\ UNCHANGED <<config, stops, mode, lock, next, txn, savedNext, pool, own>>
  BY <1>1, <1>2, <1>3, OpTypes, IdleIs DEF TypeOK, Unregister, At, kernel, LockHeld, InTxn, Finds
<1>5. /\ op'[p].pc = "closing" /\ op'[p].h = op[p].h /\ op'[p].at = op[p].at
      /\ op'[p].id = op[p].id /\ op'[p].info = op[p].info /\ op'[p].ok = TRUE
      /\ op'[p].todo = op[p].todo
      /\ op' \in [Procs -> OpRecord]
      /\ \A q \in Procs \ {p} : op'[q] = op[q]
  <2>1. op[p] \in OpRecord /\ op \in [Procs -> OpRecord]
    BY DEF TypeOK
  <2>2. op' = [op EXCEPT ![p] = [op[p] EXCEPT !.pc = "closing", !.ok = TRUE]]
    BY <1>3, <2>1 DEF Unregister, At, kernel, LockHeld, InTxn, Finds
  <2>3. /\ op'[p] = [op[p] EXCEPT !.pc = "closing", !.ok = TRUE]
        /\ \A q \in Procs \ {p} : op'[q] = op[q]
    BY <2>1, <2>2
  <2>4. /\ op'[p].pc = "closing" /\ op'[p].h = op[p].h /\ op'[p].at = op[p].at
        /\ op'[p].id = op[p].id /\ op'[p].info = op[p].info /\ op'[p].ok = TRUE
        /\ op'[p].todo = op[p].todo
        /\ op'[p] \in OpRecord
    BY <1>3, <2>1, <2>3 DEF OpRecord, Adding, Taking, InTxn, Deleting, Starting
  <2> QED
    BY <2>1, <2>2, <2>3, <2>4
<1>6. TypeOK'
  BY <1>1, <1>2, <1>3, <1>4, <1>5, OpTypes DEF TypeOK, TxnRecord
<1>7. LockHeld'
  BY <1>4, <1>5 DEF LockHeld, Taking, InTxn
<1>8. ClientsWork'
  BY <1>4, <1>5 DEF ClientsWork, Adding, Taking, InTxn, Deleting, Starting
<1>9. Exclusive'
  BY <1>4, <1>5 DEF Exclusive
<1>10. WorkerWorks'
  BY <1>1, <1>2, <1>3, <1>4, <1>5 DEF WorkerWorks, Adding, Taking, InTxn, Deleting, Starting
<1>11. MainWorks'
  BY <1>1, <1>2, <1>3, <1>4, <1>5 DEF MainWorks, Adding, Taking, InTxn, Deleting, Starting
<1>12. Finds'
  BY <1>1, <1>2, <1>3, <1>4, <1>5, OnLayers DEF Finds, Adding, Deleting, InTxn
<1>13. Allocated'
  BY <1>1, <1>2, <1>3, <1>4, <1>5 DEF Allocated, Kept, Taking, LockHeld
<1>14. Marked'
  BY <1>1, <1>2, <1>3, <1>4, <1>5 DEF Marked
<1>15. Agree'
  BY <1>1, <1>2, <1>3, <1>4, <1>5 DEF Agree
<1>16. Numbers'
  BY <1>1, <1>2, <1>3, <1>4, <1>5, FileIDs DEF Numbers, Kept
<1>17. Open'
  BY <1>1, <1>2, <1>3, <1>4, <1>5 DEF Open, Kept, InTxn
<1>18. Young'
  BY <1>1, <1>2, <1>3, <1>4, <1>5 DEF Young
<1>19. BaseDevice'
  BY <1>1, <1>2, <1>3, <1>4, <1>5 DEF BaseDevice
<1> QED
  BY <1>6, <1>7, <1>8, <1>9, <1>10, <1>11, <1>12, <1>13, <1>14, <1>15, <1>16, <1>17, <1>18, <1>19

\* The entry is gone, the file is not.
LEMMA UnregisterFailsKeeps ==
  ASSUME DevInv, NEW p \in Procs \ {Main}, UnregisterFails(p)
  PROVE  DevInv'
<1> USE Basics DEF DevInv
<1>1. op[p].pc \in Deleting
  BY DEF UnregisterFails, At, Deleting, InTxn
<1>2. /\ op[p].h \in Layers /\ op[p].h \in Hashes /\ op[p].h \notin op[Worker].todo
      /\ mode # "down" /\ file[Base].init /\ op[Main].pc \in {"idle", "setup"}
      /\ \A q \in Procs \ {p} : op[q].pc \in Adding \cup Deleting => op[q].h # op[p].h
      /\ p \in Clients => own[op[p].h] = "asked" /\ op[p].at = op[p].h
      /\ p = Worker => own[op[p].h] = "gone" /\ (op[p].pc # "closing" => file[op[p].h].deleted)
      /\ p \in Procs /\ p # Main
  BY <1>1, Deleter
<1>3. Forgets(p, op[p].h) = op
  BY <1>2, OnLayers DEF Forgets, At, Deleting, Adding, TypeOK
<1>4. /\ op[p].pc = "unregister" /\ lock = p
      /\ devs' \in [Hashes -> InfoRecord] /\ ~devs'[op[p].h].in
      /\ \A g \in Hashes \ {op[p].h} : devs'[g] = devs[g]
      /\ UNCHANGED <<config, stops, mode, lock, nr, used, next, file, txn, savedNext, pool, own>>
  BY <1>1, <1>2, <1>3, IdleIs DEF TypeOK, UnregisterFails, At, disk, kernel, LockHeld, InTxn
<1>5. /\ op'[p].pc = "closing" /\ op'[p].h = op[p].h /\ op'[p].at = op[p].at
      /\ op'[p].id = op[p].id /\ op'[p].info = op[p].info /\ op'[p].ok = FALSE
      /\ op'[p].todo = op[p].todo
      /\ op' \in [Procs -> OpRecord]
      /\ \A q \in Procs \ {p} : op'[q] = op[q]
  <2>1. op[p] \in OpRecord /\ op \in [Procs -> OpRecord]
    BY DEF TypeOK
  <2>2. op' = [op EXCEPT ![p] = [op[p] EXCEPT !.pc = "closing", !.ok = FALSE]]
    BY <1>3, <2>1 DEF UnregisterFails, At, disk, kernel, LockHeld, InTxn
  <2>3. /\ op'[p] = [op[p] EXCEPT !.pc = "closing", !.ok = FALSE]
        /\ \A q \in Procs \ {p} : op'[q] = op[q]
    BY <2>1, <2>2
  <2>4. /\ op'[p].pc = "closing" /\ op'[p].h = op[p].h /\ op'[p].at = op[p].at
        /\ op'[p].id = op[p].id /\ op'[p].info = op[p].info /\ op'[p].ok = FALSE
        /\ op'[p].todo = op[p].todo
        /\ op'[p] \in OpRecord
    BY <1>3, <2>1, <2>3 DEF OpRecord, Adding, Taking, InTxn, Deleting, Starting
  <2> QED
    BY <2>1, <2>2, <2>3, <2>4
<1>6. TypeOK'
  BY <1>1, <1>2, <1>3, <1>4, <1>5, OpTypes DEF TypeOK, TxnRecord
<1>7. LockHeld'
  BY <1>4, <1>5 DEF LockHeld, Taking, InTxn
<1>8. ClientsWork'
  BY <1>4, <1>5 DEF ClientsWork, Adding, Taking, InTxn, Deleting, Starting
<1>9. Exclusive'
  BY <1>4, <1>5 DEF Exclusive
<1>10. WorkerWorks'
  BY <1>1, <1>2, <1>3, <1>4, <1>5 DEF WorkerWorks, Adding, Taking, InTxn, Deleting, Starting
<1>11. MainWorks'
  BY <1>1, <1>2, <1>3, <1>4, <1>5 DEF MainWorks, Adding, Taking, InTxn, Deleting, Starting
<1>12. Finds'
  BY <1>1, <1>2, <1>3, <1>4, <1>5, OnLayers DEF Finds, Adding, Deleting, InTxn
<1>13. Allocated'
  BY <1>1, <1>2, <1>3, <1>4, <1>5 DEF Allocated, Kept, Taking, LockHeld
<1>14. Marked'
  BY <1>4, <1>5 DEF Marked
<1>15. Agree'
  BY <1>1, <1>2, <1>3, <1>4, <1>5 DEF Agree
<1>16. Numbers'
  BY <1>4, <1>5 DEF Numbers, Kept
<1>17. Open'
  BY <1>1, <1>2, <1>3, <1>4, <1>5 DEF Open, Kept, InTxn
<1>18. Young'
  BY <1>1, <1>2, <1>3, <1>4, <1>5 DEF Young
<1>19. BaseDevice'
  BY <1>1, <1>2, <1>3, <1>4, <1>5 DEF BaseDevice
<1> QED
  BY <1>6, <1>7, <1>8, <1>9, <1>10, <1>11, <1>12, <1>13, <1>14, <1>15, <1>16, <1>17, <1>18, <1>19

\* A deletion is going to succeed
LEMMA ClosesWell ==
  ASSUME TypeOK, NEW p \in Procs, Closing(p, TRUE)
  PROVE  /\ op'[p].pc = "closing" /\ op'[p].h = op[p].h /\ op'[p].at = op[p].at
         /\ op'[p].id = op[p].id /\ op'[p].info = op[p].info /\ op'[p].ok = TRUE
         /\ op'[p].todo = op[p].todo
         /\ op' \in [Procs -> OpRecord]
         /\ \A q \in Procs \ {p} : op'[q] = op[q]
<1>1. op[p] \in OpRecord /\ op \in [Procs -> OpRecord]
  BY DEF TypeOK
<1>2. op' = [op EXCEPT ![p] = [op[p] EXCEPT !.pc = "closing", !.ok = TRUE]]
  BY <1>1 DEF Closing
<1>3. /\ op'[p] = [op[p] EXCEPT !.pc = "closing", !.ok = TRUE]
      /\ \A q \in Procs \ {p} : op'[q] = op[q]
  BY <1>1, <1>2
<1>4. /\ op'[p].pc = "closing" /\ op'[p].h = op[p].h /\ op'[p].at = op[p].at
      /\ op'[p].id = op[p].id /\ op'[p].info = op[p].info /\ op'[p].ok = TRUE
      /\ op'[p].todo = op[p].todo
      /\ op'[p] \in OpRecord
  BY <1>1, <1>3 DEF OpRecord, Adding, Taking, InTxn, Deleting, Starting
<1> QED
  BY <1>1, <1>2, <1>3, <1>4

\* or to fail.
LEMMA ClosesBadly ==
  ASSUME TypeOK, NEW p \in Procs, Closing(p, FALSE)
  PROVE  /\ op'[p].pc = "closing" /\ op'[p].h = op[p].h /\ op'[p].at = op[p].at
         /\ op'[p].id = op[p].id /\ op'[p].info = op[p].info /\ op'[p].ok = FALSE
         /\ op'[p].todo = op[p].todo
         /\ op' \in [Procs -> OpRecord]
         /\ \A q \in Procs \ {p} : op'[q] = op[q]
<1>1. op[p] \in OpRecord /\ op \in [Procs -> OpRecord]
  BY DEF TypeOK
<1>2. op' = [op EXCEPT ![p] = [op[p] EXCEPT !.pc = "closing", !.ok = FALSE]]
  BY <1>1 DEF Closing
<1>3. /\ op'[p] = [op[p] EXCEPT !.pc = "closing", !.ok = FALSE]
      /\ \A q \in Procs \ {p} : op'[q] = op[q]
  BY <1>1, <1>2
<1>4. /\ op'[p].pc = "closing" /\ op'[p].h = op[p].h /\ op'[p].at = op[p].at
      /\ op'[p].id = op[p].id /\ op'[p].info = op[p].info /\ op'[p].ok = FALSE
      /\ op'[p].todo = op[p].todo
      /\ op'[p] \in OpRecord
  BY <1>1, <1>3 DEF OpRecord, Adding, Taking, InTxn, Deleting, Starting
<1> QED
  BY <1>1, <1>2, <1>3, <1>4

\* The device is marked, or is marked already.
LEMMA MarkKeeps ==
  ASSUME DevInv, NEW p \in Procs \ {Main}, Mark(p)
  PROVE  DevInv'
<1> USE Basics DEF DevInv
<1>1. op[p].pc \in Deleting
  BY DEF Mark, At, Deleting, InTxn
<1>2. /\ op[p].h \in Layers /\ op[p].h \in Hashes /\ op[p].h \notin op[Worker].todo
      /\ mode # "down" /\ file[Base].init /\ op[Main].pc \in {"idle", "setup"}
      /\ \A q \in Procs \ {p} : op[q].pc \in Adding \cup Deleting => op[q].h # op[p].h
      /\ p \in Clients => own[op[p].h] = "asked" /\ op[p].at = op[p].h
      /\ p = Worker => own[op[p].h] = "gone" /\ (op[p].pc # "closing" => file[op[p].h].deleted)
      /\ p \in Procs /\ p # Main
  BY <1>1, Deleter
<1>3. /\ op[p].pc = "mark" /\ lock = p /\ op[p].info = file[op[p].h] /\ file[op[p].h].in
      /\ file[op[p].h] \in InfoRecord /\ devs[op[p].h] \in InfoRecord
      /\ devs[op[p].h].in => devs[op[p].h] = file[op[p].h]
  BY <1>1, <1>2, FileIDs DEF Mark, At, LockHeld, InTxn, Finds, Agree
<1>4. \/ /\ ~file[op[p].h].deleted /\ Closing(p, TRUE)
         /\ devs' = [devs EXCEPT ![op[p].h].deleted = devs[op[p].h].in]
         /\ file' = [file EXCEPT ![op[p].h] = [file[op[p].h] EXCEPT !.deleted = TRUE]]
      \/ Closing(p, file[op[p].h].deleted) /\ devs' = devs /\ file' = file
  BY <1>3 DEF Mark
<1>5. /\ devs' \in [Hashes -> InfoRecord] /\ file' \in [Hashes -> InfoRecord]
      /\ file'[op[p].h].in /\ file'[op[p].h].id = file[op[p].h].id
      /\ file'[op[p].h].deleted => file[op[p].h].deleted \/ p \in Clients
      /\ file[op[p].h].deleted => file'[op[p].h].deleted
      /\ devs'[op[p].h].in => devs'[op[p].h] = file'[op[p].h]
      /\ \A g \in Hashes \ {op[p].h} : devs'[g] = devs[g] /\ file'[g] = file[g]
    <2>2. CASE devs' = devs /\ file' = file
    BY <1>2, <1>3, <2>2 DEF TypeOK
  <2>3. CASE ~(devs' = devs /\ file' = file)
    <3>1. /\ ~file[op[p].h].deleted
          /\ devs' = [devs EXCEPT ![op[p].h].deleted = devs[op[p].h].in]
          /\ file' = [file EXCEPT ![op[p].h] = [file[op[p].h] EXCEPT !.deleted = TRUE]]
      BY <1>4, <2>3
    <3>2. p \in Clients
      BY <1>2, <1>3, <3>1
    <3>3. /\ devs'[op[p].h] = [devs[op[p].h] EXCEPT !.deleted = devs[op[p].h].in]
          /\ file'[op[p].h] = [file[op[p].h] EXCEPT !.deleted = TRUE]
          /\ \A g \in Hashes \ {op[p].h} : devs'[g] = devs[g] /\ file'[g] = file[g]
      BY <1>2, <3>1 DEF TypeOK
    <3>4. /\ devs'[op[p].h] \in InfoRecord /\ file'[op[p].h] \in InfoRecord
          /\ file'[op[p].h].in /\ file'[op[p].h].id = file[op[p].h].id /\ file'[op[p].h].deleted
      BY <1>3, <3>3 DEF InfoRecord
    <3>5. devs'[op[p].h].in => devs'[op[p].h] = file'[op[p].h]
      BY <1>3, <3>3 DEF InfoRecord
    <3>6. devs' \in [Hashes -> InfoRecord] /\ file' \in [Hashes -> InfoRecord]
      BY <1>2, <3>1, <3>3, <3>4 DEF TypeOK
    <3> QED
      BY <3>1, <3>2, <3>3, <3>4, <3>5, <3>6
  <2> QED
    BY <2>2, <2>3
<1>6. /\ op'[p].pc = "closing" /\ op'[p].h = op[p].h /\ op'[p].at = op[p].at
      /\ op'[p].id = op[p].id /\ op'[p].info = op[p].info /\ op'[p].todo = op[p].todo
      /\ op' \in [Procs -> OpRecord]
      /\ \A q \in Procs \ {p} : op'[q] = op[q]
      /\ file'[op[p].h].deleted => op'[p].ok
    <2>1. CASE Closing(p, TRUE)
    BY <1>2, <2>1, ClosesWell
  <2>2. CASE Closing(p, FALSE) /\ ~file'[op[p].h].deleted
    BY <1>2, <2>2, ClosesBadly
  <2>3. \/ Closing(p, TRUE)
        \/ Closing(p, FALSE) /\ ~file'[op[p].h].deleted
    <3>1. CASE Closing(p, file[op[p].h].deleted) /\ file' = file
      <4>1. file[op[p].h].deleted = TRUE \/ file[op[p].h].deleted = FALSE
        BY <1>3 DEF InfoRecord
      <4> QED
        BY <3>1, <4>1
    <3> QED
      BY <1>4, <3>1
  <2> QED
    BY <2>1, <2>2, <2>3
<1>7. /\ UNCHANGED <<config, stops, mode, lock, used, next, txn, savedNext, pool, own>>
  BY DEF Mark, kernel
<1>8. TypeOK'
  BY <1>1, <1>2, <1>3, <1>5, <1>6, <1>7, OpTypes DEF TypeOK, TxnRecord
<1>9. LockHeld'
  BY <1>3, <1>6, <1>7 DEF LockHeld, Taking, InTxn
<1>10. ClientsWork'
  BY <1>1, <1>2, <1>3, <1>6, <1>7 DEF ClientsWork, Adding, Taking, InTxn, Deleting, Starting
<1>11. Exclusive'
  BY <1>3, <1>6, <1>7 DEF Exclusive
<1>12. WorkerWorks'
  BY <1>1, <1>2, <1>3, <1>5, <1>6, <1>7 DEF WorkerWorks, Adding, Taking, InTxn, Deleting, Starting
<1>13. MainWorks'
  BY <1>1, <1>2, <1>3, <1>5, <1>6, <1>7 DEF MainWorks, Adding, Taking, InTxn, Deleting, Starting
<1>14. Finds'
  BY <1>1, <1>2, <1>3, <1>5, <1>6, <1>7, OnLayers DEF Finds, Adding, Deleting, InTxn
<1>15. Allocated'
  BY <1>1, <1>2, <1>3, <1>5, <1>6, <1>7 DEF Allocated, Kept, Taking, LockHeld
<1>16. Marked'
  BY <1>1, <1>2, <1>3, <1>5, <1>6, <1>7 DEF Marked
<1>17. Agree'
  BY <1>1, <1>2, <1>3, <1>5, <1>6, <1>7 DEF Agree
<1>18. Numbers'
  BY <1>1, <1>2, <1>3, <1>5, <1>6, <1>7, FileIDs DEF Numbers, Kept
<1>19. Open'
  BY <1>1, <1>2, <1>3, <1>5, <1>6, <1>7 DEF Open, Kept, InTxn
<1>20. Young'
  BY <1>1, <1>2, <1>3, <1>5, <1>6, <1>7 DEF Young
<1>21. BaseDevice'
  BY <1>1, <1>2, <1>3, <1>5, <1>6, <1>7 DEF BaseDevice
<1> QED
  BY <1>8, <1>9, <1>10, <1>11, <1>12, <1>13, <1>14, <1>15, <1>16, <1>17, <1>18, <1>19, <1>20, <1>21

\* The transaction of a deletion ends.
LEMMA CloseDeleteKeeps ==
  ASSUME DevInv, ClosesDeletions, NEW p \in Procs \ {Main}, CloseDelete(p)
  PROVE  DevInv'
<1> USE Basics DEF DevInv
<1>1. op[p].pc \in Deleting
  BY DEF CloseDelete, At, Deleting, InTxn
<1>2. /\ op[p].h \in Layers /\ op[p].h \in Hashes /\ op[p].h \notin op[Worker].todo
      /\ mode # "down" /\ file[Base].init /\ op[Main].pc \in {"idle", "setup"}
      /\ \A q \in Procs \ {p} : op[q].pc \in Adding \cup Deleting => op[q].h # op[p].h
      /\ p \in Clients => own[op[p].h] = "asked" /\ op[p].at = op[p].h
      /\ p = Worker => own[op[p].h] = "gone" /\ (op[p].pc # "closing" => file[op[p].h].deleted)
      /\ p \in Procs /\ p # Main
  BY <1>1, Deleter
<1>3. config.stops = 0 \/ config.faults \cap {"close", "crashdelete"} = {}
  BY DEF ClosesDeletions, TypeOK
<1>4. txn' = [txn EXCEPT !.ahead = FALSE] \/ (config.stops = 0 /\ txn' = txn)
  BY <1>3 DEF CloseDelete, CloseTransaction, Faults
<1>5. /\ op[p].pc = "closing" /\ lock = p
      /\ txn' \in TxnRecord /\ (config.stops # 0 => ~txn'.ahead)
      /\ UNCHANGED <<config, stops, devs, nr, used, next, file, savedNext, pool>>
  <2>1. txn \in TxnRecord
    BY DEF TypeOK
  <2>2. txn' \in TxnRecord /\ (config.stops # 0 => ~txn'.ahead)
    BY <1>4, <2>1 DEF TxnRecord
  <2> QED
    BY <2>2 DEF CloseDelete, At, disk, LockHeld, InTxn
<1>6. /\ lock' = NoOne /\ mode' = mode
      /\ op'[p].pc = "idle" /\ op'[p].todo = op[p].todo /\ op' \in [Procs -> OpRecord]
      /\ \A q \in Procs \ {p} : op'[q] = op[q]
      /\ own' \in [Hashes -> Owned] /\ \A g \in Hashes \ {op[p].h} : own'[g] = own[g]
      /\ p = Worker => own' = own
      /\ p \in Clients => own'[op[p].h] = IF op[p].ok THEN "gone" ELSE "asked"
  <2>1. Return(p, op[p].ok)
    BY DEF CloseDelete
  <2> QED
    BY <1>1, <1>2, <1>3, <1>4, <2>1, Returns
<1>7. TypeOK'
  BY <1>1, <1>2, <1>3, <1>4, <1>5, <1>6, OpTypes DEF TypeOK, TxnRecord
<1>8. LockHeld'
  BY <1>5, <1>6 DEF LockHeld, Taking, InTxn
<1>9. ClientsWork'
  BY <1>1, <1>2, <1>3, <1>4, <1>5, <1>6, OnLayers DEF ClientsWork, Adding, Taking, InTxn, Deleting,
    Starting
<1>10. Exclusive'
  BY <1>5, <1>6 DEF Exclusive
<1>11. WorkerWorks'
  BY <1>1, <1>2, <1>3, <1>4, <1>5, <1>6 DEF WorkerWorks, Adding, Taking, InTxn, Deleting, Starting
<1>12. MainWorks'
  BY <1>1, <1>2, <1>3, <1>4, <1>5, <1>6 DEF MainWorks, Adding, Taking, InTxn, Deleting, Starting
<1>13. Finds'
  BY <1>1, <1>2, <1>3, <1>4, <1>5, <1>6, OnLayers DEF Finds, Adding, Deleting, InTxn
<1>14. Allocated'
  BY <1>1, <1>2, <1>3, <1>4, <1>5, <1>6 DEF Allocated, Kept, Taking, LockHeld
<1>15. Marked'
  BY <1>1, <1>2, <1>3, <1>4, <1>5, <1>6 DEF Marked
<1>16. Agree'
  BY <1>1, <1>2, <1>3, <1>4, <1>5, <1>6 DEF Agree
<1>17. Numbers'
  BY <1>1, <1>2, <1>3, <1>4, <1>5, <1>6 DEF Numbers, Kept
<1>18. Open'
  BY <1>1, <1>2, <1>3, <1>4, <1>5, <1>6 DEF Open, Kept, InTxn
<1>19. Young'
  BY <1>1, <1>2, <1>3, <1>4, <1>5, <1>6 DEF Young
<1>20. BaseDevice'
  BY <1>1, <1>2, <1>3, <1>4, <1>5, <1>6 DEF BaseDevice
<1> QED
  BY <1>7, <1>8, <1>9, <1>10, <1>11, <1>12, <1>13, <1>14, <1>15, <1>16, <1>17, <1>18, <1>19, <1>20

\* While the lock is free nobody is between taking it and giving it back.
LEMMA LockFree ==
  ASSUME DevInv, lock = NoOne
  PROVE  \A q \in Procs : op[q].pc \notin Taking /\ op[q].pc \notin InTxn
  BY Basics DEF DevInv, LockHeld

\* An AddDevice begins.
LEMMA AddBegins ==
  ASSUME TypeOK, NEW p \in Procs, NEW h \in Hashes, NEW b \in Hashes \cup {NoOne},
         op' = [op EXCEPT ![p] = [Idle EXCEPT !.pc = "add", !.h = h, !.at = b]]
  PROVE  /\ op'[p].pc = "add" /\ op'[p].h = h /\ op'[p].at = b
         /\ op' \in [Procs -> OpRecord]
         /\ \A q \in Procs \ {p} : op'[q] = op[q]
<1>1. op \in [Procs -> OpRecord]
  BY DEF TypeOK
<1>2. PICK o : o = [Idle EXCEPT !.pc = "add", !.h = h, !.at = b]
  OBVIOUS
<1>3. /\ o.pc = "add" /\ o.h = h /\ o.at = b
  BY <1>2, IdleIs DEF Idle
<1>4. o \in OpRecord
  BY <1>2, IdleIs DEF OpRecord, Adding
<1>5. op' = [op EXCEPT ![p] = o]
  BY <1>2
<1> QED
  BY <1>1, <1>3, <1>4, <1>5

\* A deletion begins.
LEMMA Finding ==
  ASSUME TypeOK, NEW p \in Procs, NEW h \in Hashes, Find(p, h)
  PROVE  /\ lock = NoOne
         /\ op'[p].pc = "delete" /\ op'[p].h = h /\ op'[p].at = h /\ ~op'[p].info.in
         /\ op'[p].todo = op[p].todo \ {h}
         /\ op' \in [Procs -> OpRecord]
         /\ \A q \in Procs \ {p} : op'[q] = op[q]
         /\ devs' \in [Hashes -> InfoRecord] /\ devs'[h] = Lookup(h)
         /\ \A g \in Hashes \ {h} : devs'[g] = devs[g]
<1>1. op \in [Procs -> OpRecord] /\ op[p].todo \subseteq Hashes
  BY OpTypes DEF TypeOK
<1>2. op' = [op EXCEPT ![p] = [Idle EXCEPT !.pc = "delete", !.h = h, !.at = h,
                                          !.todo = op[p].todo \ {h}]]
  BY DEF Find
<1>3. PICK todo \in SUBSET Hashes : todo = op[p].todo \ {h}
  BY <1>1
<1>4. PICK o : o = [Idle EXCEPT !.pc = "delete", !.h = h, !.at = h, !.todo = todo]
  OBVIOUS
<1>5. /\ o.pc = "delete" /\ o.h = h /\ o.at = h /\ ~o.info.in /\ o.todo = todo
  BY <1>4, IdleIs DEF Idle
<1>6. o \in OpRecord
  BY <1>4, IdleIs DEF OpRecord, Deleting
<1>7. op' = [op EXCEPT ![p] = o]
  BY <1>2, <1>3, <1>4
<1>8. Lookup(h) \in InfoRecord
  BY DEF TypeOK, Lookup
<1>9. devs' = [devs EXCEPT ![h] = Lookup(h)] /\ lock = NoOne
  BY DEF Find
<1> QED
  BY <1>1, <1>3, <1>5, <1>6, <1>7, <1>8, <1>9 DEF TypeOK

\* What is known of a device that is somebody's.
LEMMA LookupIs ==
  ASSUME DevInv, NEW h \in Layers, own[h] \in {"live", "asked"} \/ file[h].deleted
  PROVE  Lookup(h) = file[h]
  BY DEF DevInv, Agree, Lookup

\* The layer store has a device removed.
LEMMA RemoveFinds ==
  ASSUME DevInv, NEW p \in Clients, NEW h \in Layers, Remove(p, h), Lookup(h).in
  PROVE  DevInv'
<1> USE Basics DEF DevInv
<1>1. /\ mode = "up" /\ op[p].pc = "idle" /\ lock = NoOne /\ own[h] \in {"live", "asked"}
      /\ \A q \in Clients : op[q].at # h
      /\ Find(p, h) /\ own' = [own EXCEPT ![h] = "asked"]
      /\ UNCHANGED <<config, stops, mode, lock, nr, used, next, file, txn, savedNext, pool>>
  BY DEF Remove, At, disk, kernel
<1>2. /\ Lookup(h) = file[h] /\ file[h].in /\ h \in Hashes /\ p \in Procs /\ p # Worker /\ p # Main
      /\ file[Base].init
  BY <1>1, LookupIs DEF Young
<1>3. /\ op'[p].pc = "delete" /\ op'[p].h = h /\ op'[p].at = h /\ ~op'[p].info.in
      /\ op' \in [Procs -> OpRecord]
      /\ \A q \in Procs \ {p} : op'[q] = op[q]
      /\ devs' \in [Hashes -> InfoRecord] /\ devs'[h] = file[h]
      /\ \A g \in Hashes \ {h} : devs'[g] = devs[g]
  BY <1>1, <1>2, Finding
<1>4. /\ own' \in [Hashes -> Owned] /\ own'[h] = "asked"
      /\ \A g \in Hashes \ {h} : own'[g] = own[g]
  BY <1>1, <1>2 DEF TypeOK, Owned
<1>5. \A q \in Procs \ {p} : op[q].pc # "idle" => op[q].h # h
  <2> SUFFICES ASSUME NEW q \in Procs \ {p}, op[q].pc # "idle", op[q].h = h PROVE FALSE
    OBVIOUS
  <2>1. q # Main
    BY <1>1 DEF MainWorks
  <2>2. CASE q \in Clients
    BY <1>1, <2>2 DEF ClientsWork
  <2>3. CASE q = Worker
    BY <1>1, <2>3 DEF WorkerWorks
  <2> QED
    BY <2>1, <2>2, <2>3
<1>6. h \notin op[Worker].todo /\ ~file[h].deleted
  <2>1. h \notin op[Worker].todo
    BY <1>1 DEF WorkerWorks
  <2>2. ASSUME file[h].deleted PROVE FALSE
    <3>1. PICK q \in Clients : op[q].pc = "closing" /\ op[q].h = h
      BY <1>1, <1>2, <2>2 DEF Marked
    <3>2. op[q].at = h
      BY <3>1 DEF ClientsWork, Deleting, InTxn
    <3> QED
      BY <1>1, <3>2
  <2> QED
    BY <2>1, <2>2
<1>7. TypeOK'
  BY <1>1, <1>2, <1>3, <1>4, <1>5, <1>6 DEF TypeOK, TxnRecord
<1>8. LockHeld'
  BY <1>1, <1>2, <1>3, <1>4, <1>5, <1>6 DEF LockHeld, Taking, InTxn
<1>9. ClientsWork'
  BY <1>1, <1>2, <1>3, <1>4, <1>5, <1>6, OnLayers DEF ClientsWork, Adding, Taking, InTxn, Deleting,
    Starting
<1>10. Exclusive'
  BY <1>1, <1>2, <1>3, <1>4, <1>5, <1>6 DEF Exclusive
<1>11. WorkerWorks'
  BY <1>1, <1>2, <1>3, <1>4, <1>5, <1>6 DEF WorkerWorks, Adding, Taking, InTxn, Deleting, Starting
<1>12. MainWorks'
  BY <1>1, <1>2, <1>3, <1>4, <1>5, <1>6 DEF MainWorks, Adding, Taking, InTxn, Deleting, Starting
<1>13. Finds'
  BY <1>1, <1>2, <1>3, <1>4, <1>5, <1>6, OnLayers DEF Finds
<1>14. Allocated'
  BY <1>1, <1>2, <1>3, <1>4, <1>5, <1>6, LockFree DEF Allocated, Kept, Taking
<1>15. Marked'
  BY <1>1, <1>2, <1>3, <1>4, <1>5, <1>6 DEF Marked
<1>16. Agree'
  BY <1>1, <1>2, <1>3, <1>4, <1>5, <1>6 DEF Agree
<1>17. Numbers'
  BY <1>1, <1>2, <1>3, <1>4, <1>5, <1>6 DEF Numbers, Kept
<1>18. Open'
  BY <1>1, <1>2, <1>3, <1>4, <1>5, <1>6, LockFree DEF Open, Kept, InTxn
<1>19. Young'
  BY <1>1, <1>2, <1>3, <1>4, <1>5, <1>6 DEF Young
<1>20. BaseDevice'
  BY <1>1, <1>2, <1>3, <1>4, <1>5, <1>6 DEF BaseDevice
<1> QED
  BY <1>7, <1>8, <1>9, <1>10, <1>11, <1>12, <1>13, <1>14, <1>15, <1>16, <1>17, <1>18, <1>19, <1>20

\* A device that is not there counts as removed.
LEMMA RemoveGone ==
  ASSUME DevInv, NEW p \in Clients, NEW h \in Layers, Remove(p, h), ~Lookup(h).in
  PROVE  DevInv'
<1> USE Basics DEF DevInv
<1>1. /\ mode = "up" /\ op[p].pc = "idle" /\ lock = NoOne /\ own[h] \in {"live", "asked"}
      /\ \A q \in Clients : op[q].at # h
      /\ own' = [own EXCEPT ![h] = "gone"]
      /\ UNCHANGED <<config, stops, mode, lock, op, devs, nr, used, next, file, txn, savedNext,
                     pool>>
  BY DEF Remove, At, disk, kernel
<1>2. /\ Lookup(h) = file[h] /\ ~file[h].in /\ ~devs[h].in /\ h \in Hashes
      /\ file[Base].init
  BY <1>1, LookupIs DEF Young, Lookup
<1>3. /\ own' \in [Hashes -> Owned] /\ own'[h] = "gone"
      /\ \A g \in Hashes \ {h} : own'[g] = own[g]
  BY <1>1, <1>2 DEF TypeOK, Owned
<1>4. \A q \in Procs : op[q].pc # "idle" => op[q].h # h
  <2> SUFFICES ASSUME NEW q \in Procs, op[q].pc # "idle", op[q].h = h PROVE FALSE
    OBVIOUS
  <2>1. q # Main
    BY <1>1 DEF MainWorks
  <2>2. CASE q \in Clients
    BY <1>1, <2>2 DEF ClientsWork
  <2>3. CASE q = Worker
    BY <1>1, <2>3 DEF WorkerWorks
  <2> QED
    BY <2>1, <2>2, <2>3
<1>5. ~file[h].deleted
  BY <1>2 DEF Marked
<1>6. TypeOK'
  BY <1>1, <1>2, <1>3, <1>4, <1>5 DEF TypeOK, TxnRecord
<1>7. LockHeld'
  BY <1>1, <1>2, <1>3, <1>4, <1>5 DEF LockHeld, Taking, InTxn
<1>8. ClientsWork'
  BY <1>1, <1>2, <1>3, <1>4, <1>5, OnLayers DEF ClientsWork, Adding, Taking, InTxn, Deleting,
    Starting
<1>9. Exclusive'
  BY <1>1, <1>2, <1>3, <1>4, <1>5 DEF Exclusive
<1>10. WorkerWorks'
  BY <1>1, <1>2, <1>3, <1>4, <1>5 DEF WorkerWorks, Adding, Taking, InTxn, Deleting, Starting
<1>11. MainWorks'
  BY <1>1, <1>2, <1>3, <1>4, <1>5 DEF MainWorks, Adding, Taking, InTxn, Deleting, Starting
<1>12. Finds'
  BY <1>1, <1>2, <1>3, <1>4, <1>5, OnLayers DEF Finds
<1>13. Allocated'
  BY <1>1, <1>2, <1>3, <1>4, <1>5 DEF Allocated, Kept, Taking
<1>14. Marked'
  BY <1>1, <1>2, <1>3, <1>4, <1>5 DEF Marked
<1>15. Agree'
  BY <1>1, <1>2, <1>3, <1>4, <1>5 DEF Agree
<1>16. Numbers'
  BY <1>1, <1>2, <1>3, <1>4, <1>5 DEF Numbers, Kept
<1>17. Open'
  BY <1>1, <1>2, <1>3, <1>4, <1>5 DEF Open, Kept, InTxn
<1>18. Young'
  BY <1>1, <1>2, <1>3, <1>4, <1>5 DEF Young
<1>19. BaseDevice'
  BY <1>1, <1>2, <1>3, <1>4, <1>5 DEF BaseDevice
<1> QED
  BY <1>6, <1>7, <1>8, <1>9, <1>10, <1>11, <1>12, <1>13, <1>14, <1>15, <1>16, <1>17, <1>18, <1>19

\* A device is to be made.
LEMMA CreateKeeps ==
  ASSUME DevInv, NEW p \in Clients, NEW h \in Layers, NEW b \in Hashes \ {h}, Create(p, h, b),
         Lookup(b).in, ~Lookup(b).deleted
  PROVE  DevInv'
<1> USE Basics DEF DevInv
<1>1. /\ mode = "up" /\ op[p].pc = "idle" /\ lock = NoOne /\ own[h] \in {"new", "gone"}
      /\ ~devs[h].in /\ ~file[h].in
      /\ b = Base \/ own[b] = "live"
      /\ devs' = [devs EXCEPT ![b] = Lookup(b)]
      /\ op' = [op EXCEPT ![p] = [Idle EXCEPT !.pc = "add", !.h = h, !.at = b]]
      /\ own' = [own EXCEPT ![h] = "creating"]
      /\ UNCHANGED <<config, stops, mode, lock, nr, used, next, file, txn, savedNext, pool>>
  BY DEF Create, Fresh, At, disk, kernel
<1>2. /\ h \in Hashes /\ h # b /\ b \in Hashes /\ p \in Procs /\ p # Worker /\ p # Main
      /\ file[Base].init /\ ~file[h].deleted
  BY <1>1 DEF Young, Marked
<1>3. /\ op'[p].pc = "add" /\ op'[p].h = h /\ op'[p].at = b
      /\ op' \in [Procs -> OpRecord]
      /\ \A q \in Procs \ {p} : op'[q] = op[q]
  BY <1>1, <1>2, AddBegins
<1>4. /\ devs' \in [Hashes -> InfoRecord] /\ devs'[b] = Lookup(b)
      /\ \A g \in Hashes \ {b} : devs'[g] = devs[g]
  BY <1>1, <1>2 DEF TypeOK, Lookup
<1>5. /\ own' \in [Hashes -> Owned] /\ own'[h] = "creating"
      /\ \A g \in Hashes \ {h} : own'[g] = own[g]
  BY <1>1, <1>2 DEF TypeOK, Owned
<1>6. \A q \in Procs \ {p} : op[q].pc # "idle" => op[q].h # h
  <2> SUFFICES ASSUME NEW q \in Procs \ {p}, op[q].pc # "idle", op[q].h = h PROVE FALSE
    OBVIOUS
  <2>1. q # Main
    BY <1>1 DEF MainWorks
  <2>2. CASE q \in Clients
    BY <1>1, <2>2 DEF ClientsWork, Adding, Deleting, InTxn
  <2>3. CASE q = Worker
    <3>1. op[q].pc \in Deleting \ {"closing"}
      BY <1>1, <1>2, <2>3, LockFree DEF WorkerWorks, InTxn
    <3> QED
      BY <1>2, <2>3, <3>1 DEF WorkerWorks
  <2> QED
    BY <2>1, <2>2, <2>3
<1>7. h \notin op[Worker].todo
  BY <1>2 DEF WorkerWorks
<1>8. \A q \in Procs : op[q].pc = "delete" /\ op[q].h = b => devs'[b].in
  BY <1>4
<1>9. b = Base => ~devs'[b].deleted
  BY <1>4
<1>10. TypeOK'
  BY <1>1, <1>2, <1>3, <1>4, <1>5, <1>6, <1>7 DEF TypeOK, TxnRecord
<1>11. LockHeld'
  BY <1>1, <1>2, <1>3, <1>4, <1>5, <1>6, <1>7 DEF LockHeld, Taking, InTxn
<1>12. ClientsWork'
  BY <1>1, <1>2, <1>3, <1>4, <1>5, <1>6, <1>7, OnLayers DEF ClientsWork, Adding, Taking, InTxn,
    Deleting, Starting
<1>13. Exclusive'
  BY <1>1, <1>2, <1>3, <1>4, <1>5, <1>6, <1>7 DEF Exclusive
<1>14. WorkerWorks'
  BY <1>1, <1>2, <1>3, <1>4, <1>5, <1>6, <1>7 DEF WorkerWorks, Adding, Taking, InTxn, Deleting,
    Starting
<1>15. MainWorks'
  BY <1>1, <1>2, <1>3, <1>4, <1>5, <1>6, <1>7 DEF MainWorks, Adding, Taking, InTxn, Deleting,
    Starting
<1>16. Finds'
  BY <1>1, <1>2, <1>3, <1>4, <1>5, <1>6, <1>7, OnLayers DEF Finds
<1>17. Allocated'
  BY <1>1, <1>2, <1>3, <1>4, <1>5, <1>6, <1>7, LockFree DEF Allocated, Kept, Taking
<1>18. Marked'
  BY <1>1, <1>2, <1>3, <1>4, <1>5, <1>6, <1>7 DEF Marked
<1>19. Agree'
  BY <1>1, <1>2, <1>3, <1>4, <1>5, <1>6, <1>7 DEF Agree, Lookup
<1>20. Numbers'
  BY <1>1, <1>2, <1>3, <1>4, <1>5, <1>6, <1>7 DEF Numbers, Kept
<1>21. Open'
  BY <1>1, <1>2, <1>3, <1>4, <1>5, <1>6, <1>7, LockFree DEF Open, Kept, InTxn
<1>22. Young'
  BY <1>1, <1>2, <1>3, <1>4, <1>5, <1>6, <1>7 DEF Young
<1>23. BaseDevice'
  BY <1>1, <1>2, <1>3, <1>4, <1>5, <1>6, <1>7, <1>9 DEF BaseDevice, Lookup
<1> QED
  BY <1>10, <1>11, <1>12, <1>13, <1>14, <1>15, <1>16, <1>17, <1>18, <1>19, <1>20, <1>21, <1>22,
    <1>23

\* The device below is not there or waits to be deleted.
LEMMA CreateFails ==
  ASSUME DevInv, NEW h \in Layers, NEW b \in Hashes, devs' = [devs EXCEPT ![b] = Lookup(b)],
         UNCHANGED <<config, stops, mode, lock, op, nr, used, next, file, txn, savedNext, pool,
                     own>>, mode = "up"
  PROVE  DevInv'
<1> USE Basics DEF DevInv
<1>1. file[Base].init
  BY DEF Young
<1>2. /\ devs' \in [Hashes -> InfoRecord] /\ devs'[b] = Lookup(b)
      /\ \A g \in Hashes \ {b} : devs'[g] = devs[g]
  BY DEF TypeOK, Lookup
<1>3. b = Base => ~devs'[b].deleted
  BY <1>2 DEF Lookup, BaseDevice, Marked
<1>4. \A g \in Hashes : devs[g].in => devs'[g] = devs[g]
  BY <1>2 DEF Lookup
<1>5. UNCHANGED <<config, stops, mode, lock, op, nr, used, next, file, txn, savedNext, pool, own>>
  OBVIOUS
<1>6. \A p \in Clients : op[p].pc = "close" => devs'[op[p].h] = devs[op[p].h]
  <2> SUFFICES ASSUME NEW p \in Clients, op[p].pc = "close" PROVE devs'[op[p].h] = devs[op[p].h]
    OBVIOUS
  <2>1. devs[op[p].h] = Info(op[p].id) /\ op[p].h \in Hashes
    BY OnLayers DEF Allocated
  <2>2. Info(op[p].id).in
    BY DEF Info
  <2> QED
    BY <1>4, <2>1, <2>2
<1>7. TypeOK'
  BY <1>1, <1>2, <1>3, <1>4, <1>5 DEF TypeOK, TxnRecord
<1>8. LockHeld'
  BY <1>1, <1>2, <1>3, <1>4, <1>5 DEF LockHeld, Taking, InTxn
<1>9. ClientsWork'
  BY <1>1, <1>2, <1>3, <1>4, <1>5 DEF ClientsWork, Adding, Taking, InTxn, Deleting, Starting
<1>10. Exclusive'
  BY <1>1, <1>2, <1>3, <1>4, <1>5 DEF Exclusive
<1>11. WorkerWorks'
  BY <1>1, <1>2, <1>3, <1>4, <1>5 DEF WorkerWorks, Adding, Taking, InTxn, Deleting, Starting
<1>12. MainWorks'
  BY <1>1, <1>2, <1>3, <1>4, <1>5 DEF MainWorks, Adding, Taking, InTxn, Deleting, Starting
<1>13. Finds'
  BY <1>1, <1>2, <1>3, <1>4, <1>5, OnLayers DEF Finds
<1>14. Allocated'
  BY <1>1, <1>2, <1>3, <1>4, <1>5, <1>6 DEF Allocated, Kept, Taking
<1>15. Marked'
  BY <1>1, <1>2, <1>3, <1>4, <1>5 DEF Marked
<1>16. Agree'
  BY <1>1, <1>2, <1>3, <1>4, <1>5 DEF Agree, Lookup
<1>17. Numbers'
  BY <1>1, <1>2, <1>3, <1>4, <1>5 DEF Numbers, Kept
<1>18. Open'
  BY <1>1, <1>2, <1>3, <1>4, <1>5 DEF Open, Kept, InTxn
<1>19. Young'
  BY <1>1, <1>2, <1>3, <1>4, <1>5 DEF Young
<1>20. BaseDevice'
  BY <1>1, <1>2, <1>3, <1>4, <1>5 DEF BaseDevice, Lookup
<1> QED
  BY <1>7, <1>8, <1>9, <1>10, <1>11, <1>12, <1>13, <1>14, <1>15, <1>16, <1>17, <1>18, <1>19, <1>20

\* A device is mounted: its entry is there.
LEMMA MountKeeps ==
  ASSUME DevInv, NEW h \in Layers, MountDevice(h)
  PROVE  DevInv'
  BY CreateFails, Basics DEF MountDevice, disk

\* Steps that leave all this as it is.
LEMMA NothingKeeps ==
  ASSUME DevInv, UNCHANGED <<config, stops, mode, lock, op, devs, used, next, file, txn, savedNext,
         pool, own>>
  PROVE  DevInv'
<1> USE DEF DevInv
<1>1. TypeOK' /\ LockHeld' /\ ClientsWork' /\ Exclusive' /\ WorkerWorks' /\ MainWorks'
  BY DEF TypeOK, LockHeld, ClientsWork, Exclusive, WorkerWorks, MainWorks
<1>2. Finds' /\ Allocated' /\ Marked' /\ Agree'
  BY DEF Finds, Allocated, Marked, Agree, Kept
<1>3. Numbers' /\ Open' /\ Young' /\ BaseDevice'
  BY DEF Numbers, Open, Young, BaseDevice, Kept
<1> QED
  BY <1>1, <1>2, <1>3

\* The worker notes what is marked.
LEMMA TickKeeps ==
  ASSUME DevInv, Tick
  PROVE  DevInv'
<1> USE Basics DEF DevInv
<1>1. /\ mode # "down" /\ op[Main].pc # "rollback" /\ op[Worker].pc = "idle" /\ op[Worker].todo = {}
      /\ lock = NoOne
      /\ op' = [op EXCEPT ![Worker].todo = {h \in Hashes : devs[h].in /\ devs[h].deleted}]
      /\ UNCHANGED <<config, stops, mode, lock, devs, nr, used, next, file, txn, savedNext, pool,
                     own>>
  BY DEF Tick, At, memory, disk, kernel
<1>2. PICK todo \in SUBSET Hashes : todo = {h \in Hashes : devs[h].in /\ devs[h].deleted}
  OBVIOUS
<1>3. \A h \in todo : h \in Layers /\ own[h] = "gone" /\ file[h].deleted /\ devs[h].in
  <2> SUFFICES ASSUME NEW h \in todo
               PROVE  h \in Layers /\ own[h] = "gone" /\ file[h].deleted /\ devs[h].in
    OBVIOUS
  <2>1. h \in Layers /\ devs[h].in /\ devs[h].deleted
    BY <1>2 DEF BaseDevice
  <2>2. file[h].deleted
    BY <2>1 DEF Agree
  <2>3. ~\E p \in Clients : op[p].pc = "closing"
    BY <1>1, LockFree DEF InTxn
  <2> QED
    BY <2>1, <2>2, <2>3 DEF Marked
<1>4. /\ op'[Worker].pc = op[Worker].pc /\ op'[Worker].h = op[Worker].h /\ op'[Worker].todo = todo
      /\ op' \in [Procs -> OpRecord]
      /\ \A q \in Procs \ {Worker} : op'[q] = op[q]
      /\ todo = op[Worker].todo => op'[Worker] = op[Worker]
  <2>1. op[Worker] \in OpRecord /\ op \in [Procs -> OpRecord]
    BY DEF TypeOK
  <2>2. op' = [op EXCEPT ![Worker] = [op[Worker] EXCEPT !.todo = todo]]
    BY <1>1, <1>2, <2>1
  <2>3. /\ op'[Worker] = [op[Worker] EXCEPT !.todo = todo]
        /\ \A q \in Procs \ {Worker} : op'[q] = op[q]
    BY <2>1, <2>2
  <2>4. /\ op'[Worker].pc = op[Worker].pc /\ op'[Worker].h = op[Worker].h /\ op'[Worker].todo = todo
        /\ op'[Worker] \in OpRecord
    BY <2>1, <2>3 DEF OpRecord
  <2>5. todo = op[Worker].todo => op'[Worker] = op[Worker]
    BY <2>1, <2>3 DEF OpRecord
  <2> QED
    BY <2>1, <2>2, <2>3, <2>4, <2>5
<1>5. ~file[Base].init => op'[Worker] = op[Worker]
  BY <1>1, <1>3, <1>4 DEF Young
<1>6. UNCHANGED <<config, stops, mode, lock, devs, nr, used, next, file, txn, savedNext, pool, own>>
  BY <1>1
<1>7. TypeOK'
  BY <1>4, <1>6 DEF TypeOK, TxnRecord
<1>8. LockHeld'
  BY <1>4, <1>6 DEF LockHeld, Taking, InTxn
<1>9. ClientsWork'
  BY <1>4, <1>6 DEF ClientsWork, Adding, Taking, InTxn, Deleting, Starting
<1>10. Exclusive'
  BY <1>4, <1>6 DEF Exclusive
<1>11. WorkerWorks'
  BY <1>4, <1>6, <1>1, <1>3 DEF WorkerWorks, Adding, Taking, InTxn, Deleting, Starting
<1>12. MainWorks'
  BY <1>4, <1>6, <1>1 DEF MainWorks, Adding, Taking, InTxn, Deleting, Starting
<1>13. Finds'
  BY <1>4, <1>6, <1>1 DEF Finds
<1>14. Allocated'
  BY <1>4, <1>6 DEF Allocated, Kept, Taking
<1>15. Marked'
  BY <1>4, <1>6 DEF Marked
<1>16. Agree'
  BY <1>4, <1>6 DEF Agree
<1>17. Numbers'
  BY <1>4, <1>6 DEF Numbers, Kept
<1>18. Open'
  BY <1>4, <1>6, <1>1 DEF Open, Kept, InTxn
<1>19. Young'
  BY <1>4, <1>6, <1>5 DEF Young
<1>20. BaseDevice'
  BY <1>4, <1>6 DEF BaseDevice
<1> QED
  BY <1>7, <1>8, <1>9, <1>10, <1>11, <1>12, <1>13, <1>14, <1>15, <1>16, <1>17, <1>18, <1>19, <1>20

\* A device that is not there any more is passed over.
LEMMA TickSkips ==
  ASSUME DevInv, NEW h \in Hashes, TickDelete(h), ~Lookup(h).in
  PROVE  DevInv'
<1> USE Basics DEF DevInv
<1>1. /\ op[Worker].pc = "idle" /\ h \in op[Worker].todo
      /\ op' = [op EXCEPT ![Worker].todo = @ \ {h}]
      /\ UNCHANGED <<config, stops, mode, lock, devs, nr, used, next, file, txn, savedNext, pool,
                     own>>
  BY DEF TickDelete, At, disk, kernel
<1>2. PICK todo \in SUBSET Hashes : todo = op[Worker].todo \ {h}
  BY OpTypes
<1>3. op[Worker] # Idle
  BY <1>1 DEF Idle
<1>4. /\ op'[Worker].pc = op[Worker].pc /\ op'[Worker].h = op[Worker].h /\ op'[Worker].todo = todo
      /\ op' \in [Procs -> OpRecord]
      /\ \A q \in Procs \ {Worker} : op'[q] = op[q]
      /\ todo = op[Worker].todo => op'[Worker] = op[Worker]
  <2>1. op[Worker] \in OpRecord /\ op \in [Procs -> OpRecord]
    BY DEF TypeOK
  <2>2. op' = [op EXCEPT ![Worker] = [op[Worker] EXCEPT !.todo = todo]]
    BY <1>1, <1>2, <2>1
  <2>3. /\ op'[Worker] = [op[Worker] EXCEPT !.todo = todo]
        /\ \A q \in Procs \ {Worker} : op'[q] = op[q]
    BY <2>1, <2>2
  <2>4. /\ op'[Worker].pc = op[Worker].pc /\ op'[Worker].h = op[Worker].h /\ op'[Worker].todo = todo
        /\ op'[Worker] \in OpRecord
    BY <2>1, <2>3 DEF OpRecord
  <2>5. todo = op[Worker].todo => op'[Worker] = op[Worker]
    BY <2>1, <2>3 DEF OpRecord
  <2> QED
    BY <2>1, <2>2, <2>3, <2>4, <2>5
<1>5. \A g \in todo : g \in Layers /\ own[g] = "gone" /\ file[g].deleted
  BY <1>2 DEF WorkerWorks
<1>6. UNCHANGED <<config, stops, mode, lock, devs, nr, used, next, file, txn, savedNext, pool, own>>
  BY <1>1
<1>7. TypeOK'
  BY <1>4, <1>6 DEF TypeOK, TxnRecord
<1>8. LockHeld'
  BY <1>4, <1>6 DEF LockHeld, Taking, InTxn
<1>9. ClientsWork'
  BY <1>4, <1>6 DEF ClientsWork, Adding, Taking, InTxn, Deleting, Starting
<1>10. Exclusive'
  BY <1>4, <1>6 DEF Exclusive
<1>11. WorkerWorks'
  BY <1>4, <1>6, <1>1, <1>5 DEF WorkerWorks, Adding, Taking, InTxn, Deleting, Starting
<1>12. MainWorks'
  BY <1>4, <1>6, <1>1, <1>3 DEF MainWorks, Adding, Taking, InTxn, Deleting, Starting
<1>13. Finds'
  BY <1>4, <1>6, <1>1 DEF Finds
<1>14. Allocated'
  BY <1>4, <1>6 DEF Allocated, Kept, Taking
<1>15. Marked'
  BY <1>4, <1>6 DEF Marked
<1>16. Agree'
  BY <1>4, <1>6 DEF Agree
<1>17. Numbers'
  BY <1>4, <1>6 DEF Numbers, Kept
<1>18. Open'
  BY <1>4, <1>6, <1>1 DEF Open, Kept, InTxn
<1>19. Young'
  BY <1>4, <1>6, <1>3 DEF Young
<1>20. BaseDevice'
  BY <1>4, <1>6 DEF BaseDevice
<1> QED
  BY <1>7, <1>8, <1>9, <1>10, <1>11, <1>12, <1>13, <1>14, <1>15, <1>16, <1>17, <1>18, <1>19, <1>20

\* The worker deletes a device.
LEMMA TickFinds ==
  ASSUME DevInv, NEW h \in Hashes, TickDelete(h), Lookup(h).in
  PROVE  DevInv'
<1> USE Basics DEF DevInv
<1>1. /\ op[Worker].pc = "idle" /\ h \in op[Worker].todo /\ lock = NoOne /\ Find(Worker, h)
      /\ UNCHANGED <<config, stops, mode, lock, nr, used, next, file, txn, savedNext, pool, own>>
  BY DEF TickDelete, At, disk, kernel
<1>2. h \in Layers /\ own[h] = "gone" /\ file[h].deleted /\ op[Worker] # Idle
  BY <1>1 DEF WorkerWorks, Idle
<1>3. Lookup(h) = file[h] /\ file[h].in /\ file[Base].init /\ mode # "down"
      /\ op[Main].pc # "rollback"
  BY <1>2, LookupIs DEF Young, MainWorks
<1>4. /\ op'[Worker].pc = "delete" /\ op'[Worker].h = h /\ ~op'[Worker].info.in
      /\ op'[Worker].todo = op[Worker].todo \ {h}
      /\ op' \in [Procs -> OpRecord]
      /\ \A q \in Procs \ {Worker} : op'[q] = op[q]
      /\ devs' \in [Hashes -> InfoRecord] /\ devs'[h] = file[h]
      /\ \A g \in Hashes \ {h} : devs'[g] = devs[g]
  BY <1>1, <1>3, Finding
<1>5. UNCHANGED <<config, stops, mode, lock, nr, used, next, file, txn, savedNext, pool, own>>
  BY <1>1
<1>6. TypeOK'
  BY <1>1, <1>2, <1>3, <1>4, <1>5 DEF TypeOK, TxnRecord
<1>7. LockHeld'
  BY <1>1, <1>2, <1>3, <1>4, <1>5 DEF LockHeld, Taking, InTxn
<1>8. ClientsWork'
  BY <1>1, <1>2, <1>3, <1>4, <1>5 DEF ClientsWork, Adding, Taking, InTxn, Deleting, Starting
<1>9. Exclusive'
  BY <1>1, <1>2, <1>3, <1>4, <1>5 DEF Exclusive
<1>10. WorkerWorks'
  BY <1>1, <1>2, <1>3, <1>4, <1>5 DEF WorkerWorks, Adding, Taking, InTxn, Deleting, Starting
<1>11. MainWorks'
  BY <1>1, <1>2, <1>3, <1>4, <1>5 DEF MainWorks, Adding, Taking, InTxn, Deleting, Starting
<1>12. Finds'
  BY <1>1, <1>2, <1>3, <1>4, <1>5, OnLayers DEF Finds
<1>13. Allocated'
  BY <1>1, <1>2, <1>3, <1>4, <1>5, OnLayers DEF Allocated, Kept, Taking
<1>14. Marked'
  BY <1>1, <1>2, <1>3, <1>4, <1>5 DEF Marked
<1>15. Agree'
  BY <1>1, <1>2, <1>3, <1>4, <1>5 DEF Agree
<1>16. Numbers'
  BY <1>1, <1>2, <1>3, <1>4, <1>5 DEF Numbers, Kept
<1>17. Open'
  BY <1>1, <1>2, <1>3, <1>4, <1>5, LockFree DEF Open, Kept, InTxn
<1>18. Young'
  BY <1>1, <1>2, <1>3, <1>4, <1>5 DEF Young
<1>19. BaseDevice'
  BY <1>1, <1>2, <1>3, <1>4, <1>5 DEF BaseDevice
<1> QED
  BY <1>6, <1>7, <1>8, <1>9, <1>10, <1>11, <1>12, <1>13, <1>14, <1>15, <1>16, <1>17, <1>18, <1>19

\* While the daemon starts without a base device only the start does anything.
LEMMA Starter ==
  ASSUME DevInv,
         \/ op[Main].pc \notin {"idle", "rollback", "setup"}
         \/ op[Main].pc = "setup" /\ ~file[Base].init
  PROVE  /\ mode = "starting" /\ ~file[Base].init /\ ~file[Base].deleted
         /\ ~devs[Base].deleted /\ ~devs[Base].init
         /\ op[Worker] = Idle /\ op[Worker].pc = "idle"
         /\ \A p \in Clients : op[p].pc = "idle"
         /\ \A h \in Layers : ~file[h].in /\ ~devs[h].in /\ ~file[h].deleted /\ own[h] = "new"
         /\ \A i \in IDs : pool[i] \in {NoOne, Base}
<1> USE Basics DEF DevInv
<1>1. mode = "starting" /\ ~file[Base].init
  BY DEF MainWorks
<1>2. /\ op[Worker] = Idle
      /\ \A h \in Layers : ~file[h].in /\ ~devs[h].in /\ own[h] = "new"
      /\ \A i \in IDs : pool[i] \in {NoOne, Base}
  BY <1>1 DEF Young
<1>3. \A p \in Clients : op[p].pc = "idle"
  BY <1>1 DEF ClientsWork
<1>4. ~file[Base].deleted /\ \A h \in Layers : ~file[h].deleted
  BY <1>2 DEF Marked
<1>5. ~devs[Base].deleted /\ ~devs[Base].init
  BY <1>1 DEF BaseDevice
<1> QED
  BY <1>1, <1>2, <1>3, <1>4, <1>5, IdleIs

\* So only what concerns the base device can be disturbed.
LEMMA YoungStep ==
  ASSUME DevInv, ~file[Base].init, ~file'[Base].init, ~file'[Base].deleted, mode' # "up",
         \A h \in Layers : file'[h] = file[h] /\ devs'[h] = devs[h],
         \A i \in IDs : pool'[i] \in {NoOne, Base},
         op'[Worker] = Idle, \A p \in Clients : op'[p].pc = "idle",
         op'[Main].pc \in Taking \cup InTxn => lock' = Main,
         UNCHANGED <<config, own>>, TypeOK', MainWorks', BaseDevice'
  PROVE  DevInv'
<1> USE Basics DEF DevInv
<1>1. /\ op'[Worker].pc = "idle" /\ op'[Worker].todo = {}
      /\ \A p \in Procs \ {Main} : op'[p].pc = "idle"
  BY IdleIs
<1>2. \A h \in Layers : own'[h] = "new" /\ ~file'[h].in /\ ~devs'[h].in /\ ~file'[h].deleted
  BY DEF Young, Marked
<1>3. \A h \in Layers : ~Kept(h)'
  BY <1>2 DEF Kept
<1>4. LockHeld' /\ ClientsWork' /\ Exclusive' /\ WorkerWorks' /\ Finds' /\ Allocated'
  BY <1>1 DEF LockHeld, ClientsWork, Exclusive, WorkerWorks, Finds, Allocated, Adding, Taking,
    InTxn, Deleting
<1>5. Marked' /\ Agree' /\ Numbers'
  BY <1>2, <1>3 DEF Marked, Agree, Numbers
<1>6. Open'
  BY <1>2, <1>3 DEF Open
<1>7. Young'
  BY <1>1, <1>2 DEF Young
<1> QED
  BY <1>4, <1>5, <1>6, <1>7

\* A section of the start ends.
LEMMA MainReturns ==
  ASSUME DevInv, op[Main].pc \in Adding \cup Deleting, NEW ok \in BOOLEAN, Return(Main, ok)
  PROVE  /\ lock' = NoOne /\ own' = own
         /\ mode' = IF ok THEN "starting" ELSE "down"
         /\ op' \in [Procs -> OpRecord]
         /\ op'[Worker] = Idle /\ \A p \in Clients : op'[p].pc = "idle"
         /\ op'[Main].pc = IF ~ok THEN "idle" ELSE IF op[Main].at = op[Main].h THEN "create"
              ELSE "init"
<1> USE Basics
<1>1. op[Main].pc \notin {"idle", "rollback", "setup"}
  BY DEF Adding, Deleting, InTxn
<1>2. mode = "starting" /\ op[Worker] = Idle /\ \A p \in Clients : op[p].pc = "idle"
  BY <1>1, Starter
<1>3. op \in [Procs -> OpRecord] /\ own' = own
  BY DEF DevInv, TypeOK, Return
<1>4. CASE ~ok
  BY <1>3, <1>4, IdleIs DEF Return, Die
<1>5. CASE ok
  <2>1. PICK pc \in {"create", "init"} : pc = IF op[Main].at = op[Main].h THEN "create" ELSE "init"
    OBVIOUS
  <2>2. PICK o : o = [Idle EXCEPT !.pc = pc]
    OBVIOUS
  <2>3. o.pc = pc /\ o \in OpRecord
    BY <2>2, IdleIs DEF Idle, OpRecord, Starting
  <2>4. op' = [op EXCEPT ![Main] = o] /\ lock' = NoOne /\ mode' = mode
    BY <1>5, <2>1, <2>2 DEF Return
  <2> QED
    BY <1>2, <1>3, <1>5, <2>1, <2>3, <2>4
<1> QED
  BY <1>4, <1>5

\* The start makes the base device: a number is taken.
LEMMA AddStarts ==
  ASSUME DevInv, Add(Main)
  PROVE  DevInv'
<1> USE Basics DEF DevInv
<1>1. op[Main].pc \in Adding
  BY DEF Add, At, Adding, Deleting, InTxn
<1>2. /\ mode = "starting" /\ ~file[Base].init /\ ~file[Base].deleted /\ ~devs[Base].deleted
      /\ ~devs[Base].init
      /\ op[Worker] = Idle /\ \A q \in Clients : op[q].pc = "idle"
      /\ \A i \in IDs : pool[i] \in {NoOne, Base}
      /\ op[Main].h = Base /\ op[Main].at # Base /\ op[Main].pc # "mark"
      /\ op[Main].pc = "close" => devs[Base].in
  <2>1. op[Main].pc \notin {"idle", "rollback", "setup"}
    BY <1>1 DEF Adding, Deleting, InTxn
  <2> QED
    BY <1>1, <2>1, Starter DEF MainWorks
<1>3. next' \in IDs
  BY FreeNumber DEF Add, TypeOK
<1>4. /\ op[Main].pc = "add" /\ lock' = Main
      /\ next' \in IDs /\ used' = used \cup {next'}
      /\ txn' = [ahead |-> TRUE, h |-> op[Main].h, id |-> next']
      /\ UNCHANGED <<config, stops, mode, devs, nr, file, savedNext, pool, own>>
  BY <1>1, <1>2, <1>3 DEF TypeOK, Add, SaveTransaction, At, kernel
<1>5. /\ op'[Main].pc = "make" /\ op'[Main].h = op[Main].h /\ op'[Main].at = op[Main].at
      /\ op' \in [Procs -> OpRecord]
      /\ \A q \in Procs \ {Main} : op'[q] = op[q]
  <2>1. op[Main] \in OpRecord /\ op \in [Procs -> OpRecord]
    BY DEF TypeOK
  <2>2. op' = [op EXCEPT ![Main] = [op[Main] EXCEPT !.pc = "make", !.id = next']]
    BY <1>1, <1>2, <1>3, <2>1 DEF Add, SaveTransaction, At, kernel
  <2>3. /\ op'[Main] = [op[Main] EXCEPT !.pc = "make", !.id = next']
        /\ \A q \in Procs \ {Main} : op'[q] = op[q]
    BY <2>1, <2>2
  <2>4. /\ op'[Main].pc = "make" /\ op'[Main].h = op[Main].h /\ op'[Main].at = op[Main].at
        /\ op'[Main] \in OpRecord
    BY <1>3, <2>1, <2>3 DEF OpRecord, Adding, Taking, InTxn, Deleting, Starting
  <2> QED
    BY <2>1, <2>2, <2>3, <2>4
<1>6. TypeOK'
  BY <1>1, <1>2, <1>4, <1>5 DEF TypeOK, TxnRecord
<1>7. MainWorks'
  BY <1>1, <1>2, <1>4, <1>5 DEF MainWorks, Adding, Taking, InTxn, Deleting, Starting
<1>8. BaseDevice'
  BY <1>1, <1>2, <1>4, <1>5 DEF BaseDevice
<1> QED
  BY <1>1, <1>2, <1>4, <1>5, <1>6, <1>7, <1>8, YoungStep DEF Adding, Taking, Deleting, InTxn

\* No number could be taken.
LEMMA AddFailsStarts ==
  ASSUME DevInv, AddFails(Main)
  PROVE  DevInv'
<1> USE Basics DEF DevInv
<1>1. op[Main].pc \in Adding
  BY DEF AddFails, At, Adding, Deleting, InTxn
<1>2. /\ mode = "starting" /\ ~file[Base].init /\ ~file[Base].deleted /\ ~devs[Base].deleted
      /\ ~devs[Base].init
      /\ op[Worker] = Idle /\ \A q \in Clients : op[q].pc = "idle"
      /\ \A i \in IDs : pool[i] \in {NoOne, Base}
      /\ op[Main].h = Base /\ op[Main].at # Base /\ op[Main].pc # "mark"
      /\ op[Main].pc = "close" => devs[Base].in
  <2>1. op[Main].pc \notin {"idle", "rollback", "setup"}
    BY <1>1 DEF Adding, Deleting, InTxn
  <2> QED
    BY <1>1, <2>1, Starter DEF MainWorks
<1>3. /\ op[Main].pc = "add"
      /\ next' \in IDs
      /\ UNCHANGED <<config, stops, devs, nr, used, file, txn, savedNext, pool>>
  BY <1>1, <1>2, NextNumber DEF TypeOK, AddFails, At, kernel, disk
<1>4. /\ lock' = NoOne /\ own' = own /\ mode' = IF FALSE THEN "starting" ELSE "down"
      /\ op' \in [Procs -> OpRecord] /\ op'[Worker] = Idle /\ \A q \in Clients : op'[q].pc = "idle"
      /\ op'[Main].pc = "idle"
  <2>1. Return(Main, FALSE) /\ FALSE \in BOOLEAN
    BY <1>1, <1>2 DEF AddFails
  <2> HIDE DEF DevInv
  <2>2. op[Main].pc \in Adding \cup Deleting
    BY <1>1
  <2>3. DevInv
    BY DEF DevInv
  <2> QED
    BY <1>2, <2>1, <2>2, <2>3, MainReturns
<1>5. TypeOK'
  BY <1>1, <1>2, <1>3, <1>4 DEF TypeOK, TxnRecord
<1>6. MainWorks'
  BY <1>1, <1>2, <1>3, <1>4 DEF MainWorks, Adding, Taking, InTxn, Deleting, Starting
<1>7. BaseDevice'
  BY <1>1, <1>2, <1>3, <1>4 DEF BaseDevice
<1> QED
  BY <1>1, <1>2, <1>3, <1>4, <1>5, <1>6, <1>7, YoungStep DEF Adding, Taking, Deleting, InTxn

\* The pool has the device.
LEMMA MakeStarts ==
  ASSUME DevInv, Make(Main)
  PROVE  DevInv'
<1> USE Basics DEF DevInv
<1>1. op[Main].pc \in Adding
  BY DEF Make, At, Adding, Deleting, InTxn
<1>2. /\ mode = "starting" /\ ~file[Base].init /\ ~file[Base].deleted /\ ~devs[Base].deleted
      /\ ~devs[Base].init
      /\ op[Worker] = Idle /\ \A q \in Clients : op[q].pc = "idle"
      /\ \A i \in IDs : pool[i] \in {NoOne, Base}
      /\ op[Main].h = Base /\ op[Main].at # Base /\ op[Main].pc # "mark"
      /\ op[Main].pc = "close" => devs[Base].in
  <2>1. op[Main].pc \notin {"idle", "rollback", "setup"}
    BY <1>1 DEF Adding, Deleting, InTxn
  <2> QED
    BY <1>1, <2>1, Starter DEF MainWorks
<1>3. /\ op[Main].pc = "make" /\ lock = Main /\ op[Main].id \in IDs
      /\ pool' \in [IDs -> Hashes \cup {NoOne}] /\ pool'[op[Main].id] = Base
      /\ \A i \in IDs \ {op[Main].id} : pool'[i] = pool[i]
      /\ UNCHANGED <<config, stops, mode, lock, devs, nr, used, next, file, txn, savedNext, own>>
  BY <1>1, <1>2, OpTypes DEF TypeOK, Make, Goto, At, memory, disk, LockHeld, Taking
<1>4. /\ op'[Main].pc = "register" /\ op'[Main].h = op[Main].h /\ op'[Main].at = op[Main].at
      /\ op' \in [Procs -> OpRecord]
      /\ \A q \in Procs \ {Main} : op'[q] = op[q]
  <2>1. op[Main] \in OpRecord /\ op \in [Procs -> OpRecord]
    BY DEF TypeOK
  <2>2. op' = [op EXCEPT ![Main] = [op[Main] EXCEPT !.pc = "register"]]
    BY <1>1, <1>2, <2>1 DEF Make, Goto, At, memory, disk, LockHeld, Taking
  <2>3. /\ op'[Main] = [op[Main] EXCEPT !.pc = "register"]
        /\ \A q \in Procs \ {Main} : op'[q] = op[q]
    BY <2>1, <2>2
  <2>4. /\ op'[Main].pc = "register" /\ op'[Main].h = op[Main].h /\ op'[Main].at = op[Main].at
        /\ op'[Main] \in OpRecord
    BY <2>1, <2>3 DEF OpRecord, Adding, Taking, InTxn, Deleting, Starting
  <2> QED
    BY <2>1, <2>2, <2>3, <2>4
<1>5. TypeOK'
  BY <1>1, <1>2, <1>3, <1>4 DEF TypeOK, TxnRecord
<1>6. MainWorks'
  BY <1>1, <1>2, <1>3, <1>4 DEF MainWorks, Adding, Taking, InTxn, Deleting, Starting
<1>7. BaseDevice'
  BY <1>1, <1>2, <1>3, <1>4 DEF BaseDevice
<1> QED
  BY <1>1, <1>2, <1>3, <1>4, <1>5, <1>6, <1>7, YoungStep DEF Adding, Taking, Deleting, InTxn

\* The number is taken in the pool, the next one is tried.
LEMMA MakeExistsStarts ==
  ASSUME DevInv, MakeExists(Main)
  PROVE  DevInv'
<1> USE Basics DEF DevInv
<1>1. op[Main].pc \in Adding
  BY DEF MakeExists, At, Adding, Deleting, InTxn
<1>2. /\ mode = "starting" /\ ~file[Base].init /\ ~file[Base].deleted /\ ~devs[Base].deleted
      /\ ~devs[Base].init
      /\ op[Worker] = Idle /\ \A q \in Clients : op[q].pc = "idle"
      /\ \A i \in IDs : pool[i] \in {NoOne, Base}
      /\ op[Main].h = Base /\ op[Main].at # Base /\ op[Main].pc # "mark"
      /\ op[Main].pc = "close" => devs[Base].in
  <2>1. op[Main].pc \notin {"idle", "rollback", "setup"}
    BY <1>1 DEF Adding, Deleting, InTxn
  <2> QED
    BY <1>1, <2>1, Starter DEF MainWorks
<1>3. next' \in IDs
  BY FreeNumber DEF MakeExists, TypeOK
<1>4. /\ op[Main].pc = "make" /\ lock = Main
      /\ next' \in IDs /\ used' = used \cup {next'}
      /\ txn' = [ahead |-> TRUE, h |-> op[Main].h, id |-> next'] \/ txn' = txn
      /\ UNCHANGED <<config, stops, mode, lock, devs, nr, file, savedNext, pool, own>>
  BY <1>1, <1>2, <1>3 DEF TypeOK, MakeExists, SaveTransaction, At, kernel, LockHeld, Taking
<1>5. /\ op'[Main].pc = op[Main].pc /\ op'[Main].h = op[Main].h /\ op'[Main].at = op[Main].at
      /\ op' \in [Procs -> OpRecord]
      /\ \A q \in Procs \ {Main} : op'[q] = op[q]
  <2>1. op[Main] \in OpRecord /\ op \in [Procs -> OpRecord]
    BY DEF TypeOK
  <2>2. op' = [op EXCEPT ![Main] = [op[Main] EXCEPT !.id = next']]
    BY <1>1, <1>2, <1>3, <2>1 DEF MakeExists, SaveTransaction, At, kernel, LockHeld, Taking
  <2>3. /\ op'[Main] = [op[Main] EXCEPT !.id = next']
        /\ \A q \in Procs \ {Main} : op'[q] = op[q]
    BY <2>1, <2>2
  <2>4. /\ op'[Main].pc = op[Main].pc /\ op'[Main].h = op[Main].h /\ op'[Main].at = op[Main].at
        /\ op'[Main] \in OpRecord
    BY <1>3, <2>1, <2>3 DEF OpRecord, Adding, Taking, InTxn, Deleting, Starting
  <2> QED
    BY <2>1, <2>2, <2>3, <2>4
<1>6. TypeOK'
  <2>1. txn' \in TxnRecord
    <3>1. CASE txn' = [ahead |-> TRUE, h |-> op[Main].h, id |-> next']
      BY <1>2, <1>4, <3>1 DEF TxnRecord
    <3> QED
      BY <1>4, <3>1 DEF TypeOK
  <2> QED
    BY <2>1, <1>4, <1>5 DEF TypeOK
<1>7. MainWorks'
  BY <1>1, <1>2, <1>4, <1>5 DEF MainWorks, Adding, Taking, InTxn, Deleting, Starting
<1>8. BaseDevice'
  BY <1>1, <1>2, <1>4, <1>5 DEF BaseDevice
<1> QED
  BY <1>1, <1>2, <1>4, <1>5, <1>6, <1>7, <1>8, YoungStep DEF Adding, Taking, Deleting, InTxn

\* The pool has no device.
LEMMA MakeFailsStarts ==
  ASSUME DevInv, MakeFails(Main)
  PROVE  DevInv'
<1> USE Basics DEF DevInv
<1>1. op[Main].pc \in Adding
  BY DEF MakeFails, At, Adding, Deleting, InTxn
<1>2. /\ mode = "starting" /\ ~file[Base].init /\ ~file[Base].deleted /\ ~devs[Base].deleted
      /\ ~devs[Base].init
      /\ op[Worker] = Idle /\ \A q \in Clients : op[q].pc = "idle"
      /\ \A i \in IDs : pool[i] \in {NoOne, Base}
      /\ op[Main].h = Base /\ op[Main].at # Base /\ op[Main].pc # "mark"
      /\ op[Main].pc = "close" => devs[Base].in
  <2>1. op[Main].pc \notin {"idle", "rollback", "setup"}
    BY <1>1 DEF Adding, Deleting, InTxn
  <2> QED
    BY <1>1, <2>1, Starter DEF MainWorks
<1>3. /\ op[Main].pc = "make"
      /\ used' = used \/ used' = used \ {op[Main].id}
      /\ UNCHANGED <<config, stops, devs, nr, next, file, txn, savedNext, pool>>
  BY <1>1, <1>2 DEF TypeOK, MakeFails, At, kernel, disk
<1>4. /\ lock' = NoOne /\ own' = own /\ mode' = IF FALSE THEN "starting" ELSE "down"
      /\ op' \in [Procs -> OpRecord] /\ op'[Worker] = Idle /\ \A q \in Clients : op'[q].pc = "idle"
      /\ op'[Main].pc = "idle"
  <2>1. Return(Main, FALSE) /\ FALSE \in BOOLEAN
    BY <1>1, <1>2 DEF MakeFails
  <2> HIDE DEF DevInv
  <2>2. op[Main].pc \in Adding \cup Deleting
    BY <1>1
  <2>3. DevInv
    BY DEF DevInv
  <2> QED
    BY <1>2, <2>1, <2>2, <2>3, MainReturns
<1>5. TypeOK'
  BY <1>1, <1>2, <1>3, <1>4 DEF TypeOK, TxnRecord
<1>6. MainWorks'
  BY <1>1, <1>2, <1>3, <1>4 DEF MainWorks, Adding, Taking, InTxn, Deleting, Starting
<1>7. BaseDevice'
  BY <1>1, <1>2, <1>3, <1>4 DEF BaseDevice
<1> QED
  BY <1>1, <1>2, <1>3, <1>4, <1>5, <1>6, <1>7, YoungStep DEF Adding, Taking, Deleting, InTxn

\* Entry and file are there.
LEMMA RegisterStarts ==
  ASSUME DevInv, Register(Main)
  PROVE  DevInv'
<1> USE Basics DEF DevInv
<1>1. op[Main].pc \in Adding
  BY DEF Register, At, Adding, Deleting, InTxn
<1>2. /\ mode = "starting" /\ ~file[Base].init /\ ~file[Base].deleted /\ ~devs[Base].deleted
      /\ ~devs[Base].init
      /\ op[Worker] = Idle /\ \A q \in Clients : op[q].pc = "idle"
      /\ \A i \in IDs : pool[i] \in {NoOne, Base}
      /\ op[Main].h = Base /\ op[Main].at # Base /\ op[Main].pc # "mark"
      /\ op[Main].pc = "close" => devs[Base].in
  <2>1. op[Main].pc \notin {"idle", "rollback", "setup"}
    BY <1>1 DEF Adding, Deleting, InTxn
  <2> QED
    BY <1>1, <2>1, Starter DEF MainWorks
<1>3. /\ op[Main].pc = "register" /\ lock = Main /\ op[Main].id \in IDs
      /\ devs' \in [Hashes -> InfoRecord] /\ file' \in [Hashes -> InfoRecord]
      /\ devs'[Base].in /\ ~devs'[Base].init /\ ~devs'[Base].deleted /\ ~file'[Base].init
      /\ ~file'[Base].deleted
      /\ \A g \in Hashes \ {Base} : devs'[g] = devs[g] /\ file'[g] = file[g]
      /\ UNCHANGED <<config, stops, mode, lock, nr, used, next, txn, savedNext, pool, own>>
  BY <1>1, <1>2, OpTypes DEF TypeOK, Register, Info, InfoRecord, Goto, At, kernel, LockHeld, Taking
<1>4. /\ op'[Main].pc = "close" /\ op'[Main].h = op[Main].h /\ op'[Main].at = op[Main].at
      /\ op' \in [Procs -> OpRecord]
      /\ \A q \in Procs \ {Main} : op'[q] = op[q]
  <2>1. op[Main] \in OpRecord /\ op \in [Procs -> OpRecord]
    BY DEF TypeOK
  <2>2. op' = [op EXCEPT ![Main] = [op[Main] EXCEPT !.pc = "close"]]
    BY <1>1, <1>2, <2>1 DEF Register, Info, InfoRecord, Goto, At, kernel, LockHeld, Taking
  <2>3. /\ op'[Main] = [op[Main] EXCEPT !.pc = "close"]
        /\ \A q \in Procs \ {Main} : op'[q] = op[q]
    BY <2>1, <2>2
  <2>4. /\ op'[Main].pc = "close" /\ op'[Main].h = op[Main].h /\ op'[Main].at = op[Main].at
        /\ op'[Main] \in OpRecord
    BY <2>1, <2>3 DEF OpRecord, Adding, Taking, InTxn, Deleting, Starting
  <2> QED
    BY <2>1, <2>2, <2>3, <2>4
<1>5. TypeOK'
  BY <1>1, <1>2, <1>3, <1>4 DEF TypeOK, TxnRecord
<1>6. MainWorks'
  BY <1>1, <1>2, <1>3, <1>4 DEF MainWorks, Adding, Taking, InTxn, Deleting, Starting
<1>7. BaseDevice'
  BY <1>1, <1>2, <1>3, <1>4 DEF BaseDevice
<1> QED
  BY <1>1, <1>2, <1>3, <1>4, <1>5, <1>6, <1>7, YoungStep DEF Adding, Taking, Deleting, InTxn

\* Entry and file could not be made.
LEMMA RegisterFailsStarts ==
  ASSUME DevInv, RegisterFails(Main)
  PROVE  DevInv'
<1> USE Basics DEF DevInv
<1>1. op[Main].pc \in Adding
  BY DEF RegisterFails, At, Adding, Deleting, InTxn
<1>2. /\ mode = "starting" /\ ~file[Base].init /\ ~file[Base].deleted /\ ~devs[Base].deleted
      /\ ~devs[Base].init
      /\ op[Worker] = Idle /\ \A q \in Clients : op[q].pc = "idle"
      /\ \A i \in IDs : pool[i] \in {NoOne, Base}
      /\ op[Main].h = Base /\ op[Main].at # Base /\ op[Main].pc # "mark"
      /\ op[Main].pc = "close" => devs[Base].in
  <2>1. op[Main].pc \notin {"idle", "rollback", "setup"}
    BY <1>1 DEF Adding, Deleting, InTxn
  <2> QED
    BY <1>1, <2>1, Starter DEF MainWorks
<1>3. /\ op[Main].pc = "register"
      /\ pool' \in [IDs -> Hashes \cup {NoOne}]
      /\ \A i \in IDs : pool'[i] = pool[i] \/ pool'[i] = NoOne
      /\ used' = used \ {op[Main].id}
      /\ UNCHANGED <<config, stops, devs, nr, next, file, txn, savedNext>>
  BY <1>1, <1>2, OpTypes DEF TypeOK, RegisterFails, Undo, At, disk
<1>4. /\ lock' = NoOne /\ own' = own /\ mode' = IF FALSE THEN "starting" ELSE "down"
      /\ op' \in [Procs -> OpRecord] /\ op'[Worker] = Idle /\ \A q \in Clients : op'[q].pc = "idle"
      /\ op'[Main].pc = "idle"
  <2>1. Return(Main, FALSE) /\ FALSE \in BOOLEAN
    BY <1>1, <1>2 DEF RegisterFails, Undo
  <2> HIDE DEF DevInv
  <2>2. op[Main].pc \in Adding \cup Deleting
    BY <1>1
  <2>3. DevInv
    BY DEF DevInv
  <2> QED
    BY <1>2, <2>1, <2>2, <2>3, MainReturns
<1>5. TypeOK'
  BY <1>1, <1>2, <1>3, <1>4 DEF TypeOK, TxnRecord
<1>6. MainWorks'
  BY <1>1, <1>2, <1>3, <1>4 DEF MainWorks, Adding, Taking, InTxn, Deleting, Starting
<1>7. BaseDevice'
  BY <1>1, <1>2, <1>3, <1>4 DEF BaseDevice
<1> QED
  BY <1>1, <1>2, <1>3, <1>4, <1>5, <1>6, <1>7, YoungStep DEF Adding, Taking, Deleting, InTxn

\* The device is made.
LEMMA CloseAddStarts ==
  ASSUME DevInv, CloseAdd(Main)
  PROVE  DevInv'
<1> USE Basics DEF DevInv
<1>1. op[Main].pc \in Adding
  BY DEF CloseAdd, At, Adding, Deleting, InTxn
<1>2. /\ mode = "starting" /\ ~file[Base].init /\ ~file[Base].deleted /\ ~devs[Base].deleted
      /\ ~devs[Base].init
      /\ op[Worker] = Idle /\ \A q \in Clients : op[q].pc = "idle"
      /\ \A i \in IDs : pool[i] \in {NoOne, Base}
      /\ op[Main].h = Base /\ op[Main].at # Base /\ op[Main].pc # "mark"
      /\ op[Main].pc = "close" => devs[Base].in
  <2>1. op[Main].pc \notin {"idle", "rollback", "setup"}
    BY <1>1 DEF Adding, Deleting, InTxn
  <2> QED
    BY <1>1, <2>1, Starter DEF MainWorks
<1>3. /\ op[Main].pc = "close"
      /\ txn' \in TxnRecord /\ ~txn'.ahead
      /\ UNCHANGED <<config, stops, devs, nr, used, next, file, savedNext, pool>>
  BY <1>1, <1>2 DEF TypeOK, CloseAdd, CloseTransaction, At, disk, TxnRecord
<1>4. /\ lock' = NoOne /\ own' = own /\ mode' = IF TRUE THEN "starting" ELSE "down"
      /\ op' \in [Procs -> OpRecord] /\ op'[Worker] = Idle /\ \A q \in Clients : op'[q].pc = "idle"
      /\ op'[Main].pc = "init"
  <2>1. Return(Main, TRUE) /\ TRUE \in BOOLEAN
    BY <1>1, <1>2 DEF CloseAdd
  <2> HIDE DEF DevInv
  <2>2. op[Main].pc \in Adding \cup Deleting
    BY <1>1
  <2>3. DevInv
    BY DEF DevInv
  <2> QED
    BY <1>2, <2>1, <2>2, <2>3, MainReturns
<1>5. TypeOK'
  BY <1>1, <1>2, <1>3, <1>4 DEF TypeOK, TxnRecord
<1>6. MainWorks'
  BY <1>1, <1>2, <1>3, <1>4 DEF MainWorks, Adding, Taking, InTxn, Deleting, Starting
<1>7. BaseDevice'
  BY <1>1, <1>2, <1>3, <1>4 DEF BaseDevice
<1> QED
  BY <1>1, <1>2, <1>3, <1>4, <1>5, <1>6, <1>7, YoungStep DEF Adding, Taking, Deleting, InTxn

\* The transaction could not be closed, the device is unmade.
LEMMA CloseAddFailsStarts ==
  ASSUME DevInv, CloseAddFails(Main)
  PROVE  DevInv'
<1> USE Basics DEF DevInv
<1>1. op[Main].pc \in Adding
  BY DEF CloseAddFails, At, Adding, Deleting, InTxn
<1>2. /\ mode = "starting" /\ ~file[Base].init /\ ~file[Base].deleted /\ ~devs[Base].deleted
      /\ ~devs[Base].init
      /\ op[Worker] = Idle /\ \A q \in Clients : op[q].pc = "idle"
      /\ \A i \in IDs : pool[i] \in {NoOne, Base}
      /\ op[Main].h = Base /\ op[Main].at # Base /\ op[Main].pc # "mark"
      /\ op[Main].pc = "close" => devs[Base].in
  <2>1. op[Main].pc \notin {"idle", "rollback", "setup"}
    BY <1>1 DEF Adding, Deleting, InTxn
  <2> QED
    BY <1>1, <2>1, Starter DEF MainWorks
<1>3. /\ op[Main].pc = "close"
      /\ pool' \in [IDs -> Hashes \cup {NoOne}]
      /\ \A i \in IDs : pool'[i] = pool[i] \/ pool'[i] = NoOne
      /\ used' = used \ {op[Main].id}
      /\ devs' \in [Hashes -> InfoRecord] /\ file' \in [Hashes -> InfoRecord]
      /\ ~devs'[Base].in /\ ~devs'[Base].init /\ ~devs'[Base].deleted /\ ~file'[Base].init
      /\ ~file'[Base].deleted
      /\ \A g \in Hashes \ {Base} : devs'[g] = devs[g] /\ file'[g] = file[g]
      /\ UNCHANGED <<config, stops, nr, next, txn, savedNext>>
  BY <1>1, <1>2, OpTypes, IdleIs DEF TypeOK, CloseAddFails, Undo, At, disk
<1>4. /\ lock' = NoOne /\ own' = own /\ mode' = IF FALSE THEN "starting" ELSE "down"
      /\ op' \in [Procs -> OpRecord] /\ op'[Worker] = Idle /\ \A q \in Clients : op'[q].pc = "idle"
      /\ op'[Main].pc = "idle"
  <2>1. Return(Main, FALSE) /\ FALSE \in BOOLEAN
    BY <1>1, <1>2 DEF CloseAddFails, Undo
  <2> HIDE DEF DevInv
  <2>2. op[Main].pc \in Adding \cup Deleting
    BY <1>1
  <2>3. DevInv
    BY DEF DevInv
  <2> QED
    BY <1>2, <2>1, <2>2, <2>3, MainReturns
<1>5. TypeOK'
  BY <1>1, <1>2, <1>3, <1>4 DEF TypeOK, TxnRecord
<1>6. MainWorks'
  BY <1>1, <1>2, <1>3, <1>4 DEF MainWorks, Adding, Taking, InTxn, Deleting, Starting
<1>7. BaseDevice'
  BY <1>1, <1>2, <1>3, <1>4 DEF BaseDevice
<1> QED
  BY <1>1, <1>2, <1>3, <1>4, <1>5, <1>6, <1>7, YoungStep DEF Adding, Taking, Deleting, InTxn

\* The start deletes a base device without a file system: the transaction is open.
LEMMA DeleteStarts ==
  ASSUME DevInv, Delete(Main)
  PROVE  DevInv'
<1> USE Basics DEF DevInv
<1>1. op[Main].pc \in Deleting
  BY DEF Delete, At, Adding, Deleting, InTxn
<1>2. /\ mode = "starting" /\ ~file[Base].init /\ ~file[Base].deleted /\ ~devs[Base].deleted
      /\ ~devs[Base].init
      /\ op[Worker] = Idle /\ \A q \in Clients : op[q].pc = "idle"
      /\ \A i \in IDs : pool[i] \in {NoOne, Base}
      /\ op[Main].h = Base /\ op[Main].at = Base /\ op[Main].pc # "mark"
      /\ op[Main].pc = "close" => devs[Base].in
  <2>1. op[Main].pc \notin {"idle", "rollback", "setup"}
    BY <1>1 DEF Adding, Deleting, InTxn
  <2> QED
    BY <1>1, <2>1, Starter DEF MainWorks
<1>3. Found(Main) \in InfoRecord
  BY <1>2, OpTypes, FileIDs DEF Found, Lookup
<1>4. PICK i \in InfoRecord : i = Found(Main)
  BY <1>3
<1>5. PICK n \in IDs : n = i.id
  BY DEF InfoRecord
<1>6. /\ op[Main].pc \in {"delete", "busy"} /\ lock' = Main
      /\ txn' = [ahead |-> TRUE, h |-> Base, id |-> n]
      /\ txn' \in TxnRecord
      /\ i = Found(Main) /\ n = i.id
      /\ UNCHANGED <<config, stops, mode, devs, nr, used, next, file, savedNext, pool, own>>
  BY <1>1, <1>2, <1>3, <1>4, <1>5 DEF TypeOK, Delete, SaveTransaction, At, TxnRecord
<1>7. /\ op'[Main].pc = "pool" /\ op'[Main].h = op[Main].h /\ op'[Main].at = op[Main].at
      /\ op' \in [Procs -> OpRecord]
      /\ \A q \in Procs \ {Main} : op'[q] = op[q]
  <2>1. op[Main] \in OpRecord /\ op \in [Procs -> OpRecord]
    BY DEF TypeOK
  <2>2. op' = [op EXCEPT ![Main] = [op[Main] EXCEPT !.pc = "pool", !.info = i, !.id = n]]
    BY <1>1, <1>2, <1>3, <1>4, <1>5, <2>1 DEF Delete, SaveTransaction, At, TxnRecord
  <2>3. /\ op'[Main] = [op[Main] EXCEPT !.pc = "pool", !.info = i, !.id = n]
        /\ \A q \in Procs \ {Main} : op'[q] = op[q]
    BY <2>1, <2>2
  <2>4. /\ op'[Main].pc = "pool" /\ op'[Main].h = op[Main].h /\ op'[Main].at = op[Main].at
        /\ op'[Main] \in OpRecord
    BY <1>3, <1>4, <1>5, <2>1, <2>3 DEF OpRecord, Adding, Taking, InTxn, Deleting, Starting
  <2> QED
    BY <2>1, <2>2, <2>3, <2>4
<1>8. TypeOK'
  BY <1>1, <1>2, <1>6, <1>7 DEF TypeOK, TxnRecord
<1>9. MainWorks'
  BY <1>1, <1>2, <1>6, <1>7 DEF MainWorks, Adding, Taking, InTxn, Deleting, Starting
<1>10. BaseDevice'
  BY <1>1, <1>2, <1>6, <1>7 DEF BaseDevice
<1> QED
  BY <1>1, <1>2, <1>6, <1>7, <1>8, <1>9, <1>10, YoungStep DEF Adding, Taking, Deleting, InTxn

\* The device is busy.
LEMMA DeleteBusyStarts ==
  ASSUME DevInv, DeleteBusy(Main)
  PROVE  DevInv'
<1> USE Basics DEF DevInv
<1>1. op[Main].pc \in Deleting
  BY DEF DeleteBusy, At, Adding, Deleting, InTxn
<1>2. /\ mode = "starting" /\ ~file[Base].init /\ ~file[Base].deleted /\ ~devs[Base].deleted
      /\ ~devs[Base].init
      /\ op[Worker] = Idle /\ \A q \in Clients : op[q].pc = "idle"
      /\ \A i \in IDs : pool[i] \in {NoOne, Base}
      /\ op[Main].h = Base /\ op[Main].at = Base /\ op[Main].pc # "mark"
      /\ op[Main].pc = "close" => devs[Base].in
  <2>1. op[Main].pc \notin {"idle", "rollback", "setup"}
    BY <1>1 DEF Adding, Deleting, InTxn
  <2> QED
    BY <1>1, <2>1, Starter DEF MainWorks
<1>3. Found(Main) \in InfoRecord
  BY <1>2, OpTypes, FileIDs DEF Found, Lookup
<1>4. PICK i \in InfoRecord : i = Found(Main)
  BY <1>3
<1>5. /\ op[Main].pc = "delete"
      /\ UNCHANGED <<config, stops, mode, lock, devs, nr, used, next, file, txn, savedNext, pool,
                     own>>
  BY <1>1, <1>2, <1>3, <1>4 DEF TypeOK, DeleteBusy, At, memory, disk, kernel
<1>6. /\ op'[Main].pc = "busy" /\ op'[Main].h = op[Main].h /\ op'[Main].at = op[Main].at
      /\ op' \in [Procs -> OpRecord]
      /\ \A q \in Procs \ {Main} : op'[q] = op[q]
  <2>1. op[Main] \in OpRecord /\ op \in [Procs -> OpRecord]
    BY DEF TypeOK
  <2>2. op' = [op EXCEPT ![Main] = [op[Main] EXCEPT !.pc = "busy", !.info = i]]
    BY <1>1, <1>2, <1>3, <1>4, <2>1 DEF DeleteBusy, At, memory, disk, kernel
  <2>3. /\ op'[Main] = [op[Main] EXCEPT !.pc = "busy", !.info = i]
        /\ \A q \in Procs \ {Main} : op'[q] = op[q]
    BY <2>1, <2>2
  <2>4. /\ op'[Main].pc = "busy" /\ op'[Main].h = op[Main].h /\ op'[Main].at = op[Main].at
        /\ op'[Main] \in OpRecord
    BY <1>3, <1>4, <2>1, <2>3 DEF OpRecord, Adding, Taking, InTxn, Deleting, Starting
  <2> QED
    BY <2>1, <2>2, <2>3, <2>4
<1>7. TypeOK'
  BY <1>1, <1>2, <1>5, <1>6 DEF TypeOK, TxnRecord
<1>8. MainWorks'
  BY <1>1, <1>2, <1>5, <1>6 DEF MainWorks, Adding, Taking, InTxn, Deleting, Starting
<1>9. BaseDevice'
  BY <1>1, <1>2, <1>5, <1>6 DEF BaseDevice
<1> QED
  BY <1>1, <1>2, <1>5, <1>6, <1>7, <1>8, <1>9, YoungStep DEF Adding, Taking, Deleting, InTxn

\* The deletion is given up before it begins.
LEMMA DeleteFailsStarts ==
  ASSUME DevInv, DeleteFails(Main)
  PROVE  DevInv'
<1> USE Basics DEF DevInv
<1>1. op[Main].pc \in Deleting
  BY DEF DeleteFails, At, Adding, Deleting, InTxn
<1>2. /\ mode = "starting" /\ ~file[Base].init /\ ~file[Base].deleted /\ ~devs[Base].deleted
      /\ ~devs[Base].init
      /\ op[Worker] = Idle /\ \A q \in Clients : op[q].pc = "idle"
      /\ \A i \in IDs : pool[i] \in {NoOne, Base}
      /\ op[Main].h = Base /\ op[Main].at = Base /\ op[Main].pc # "mark"
      /\ op[Main].pc = "close" => devs[Base].in
  <2>1. op[Main].pc \notin {"idle", "rollback", "setup"}
    BY <1>1 DEF Adding, Deleting, InTxn
  <2> QED
    BY <1>1, <2>1, Starter DEF MainWorks
<1>3. /\ op[Main].pc \in {"delete", "busy"}
      /\ UNCHANGED <<config, stops, devs, nr, used, next, file, txn, savedNext, pool>>
  BY <1>1, <1>2 DEF TypeOK, DeleteFails, At, disk
<1>4. /\ lock' = NoOne /\ own' = own /\ mode' = IF FALSE THEN "starting" ELSE "down"
      /\ op' \in [Procs -> OpRecord] /\ op'[Worker] = Idle /\ \A q \in Clients : op'[q].pc = "idle"
      /\ op'[Main].pc = "idle"
  <2>1. Return(Main, FALSE) /\ FALSE \in BOOLEAN
    BY <1>1, <1>2 DEF DeleteFails
  <2> HIDE DEF DevInv
  <2>2. op[Main].pc \in Adding \cup Deleting
    BY <1>1
  <2>3. DevInv
    BY DEF DevInv
  <2> QED
    BY <1>2, <2>1, <2>2, <2>3, MainReturns
<1>5. TypeOK'
  BY <1>1, <1>2, <1>3, <1>4 DEF TypeOK, TxnRecord
<1>6. MainWorks'
  BY <1>1, <1>2, <1>3, <1>4 DEF MainWorks, Adding, Taking, InTxn, Deleting, Starting
<1>7. BaseDevice'
  BY <1>1, <1>2, <1>3, <1>4 DEF BaseDevice
<1> QED
  BY <1>1, <1>2, <1>3, <1>4, <1>5, <1>6, <1>7, YoungStep DEF Adding, Taking, Deleting, InTxn

\* The pool has deleted the device.
LEMMA DeletePoolStarts ==
  ASSUME DevInv, DeletePool(Main)
  PROVE  DevInv'
<1> USE Basics DEF DevInv
<1>1. op[Main].pc \in Deleting
  BY DEF DeletePool, At, Adding, Deleting, InTxn
<1>2. /\ mode = "starting" /\ ~file[Base].init /\ ~file[Base].deleted /\ ~devs[Base].deleted
      /\ ~devs[Base].init
      /\ op[Worker] = Idle /\ \A q \in Clients : op[q].pc = "idle"
      /\ \A i \in IDs : pool[i] \in {NoOne, Base}
      /\ op[Main].h = Base /\ op[Main].at = Base /\ op[Main].pc # "mark"
      /\ op[Main].pc = "close" => devs[Base].in
  <2>1. op[Main].pc \notin {"idle", "rollback", "setup"}
    BY <1>1 DEF Adding, Deleting, InTxn
  <2> QED
    BY <1>1, <2>1, Starter DEF MainWorks
<1>3. /\ op[Main].pc = "pool" /\ lock = Main
      /\ pool' \in [IDs -> Hashes \cup {NoOne}]
      /\ \A i \in IDs : pool'[i] = pool[i] \/ pool'[i] = NoOne
      /\ UNCHANGED <<config, stops, mode, lock, devs, nr, used, next, file, txn, savedNext, own>>
  BY <1>1, <1>2, OpTypes DEF TypeOK, DeletePool, At, Goto, memory, disk, LockHeld, InTxn
<1>4. /\ op'[Main].pc = "unregister" /\ op'[Main].h = op[Main].h /\ op'[Main].at = op[Main].at
      /\ op' \in [Procs -> OpRecord]
      /\ \A q \in Procs \ {Main} : op'[q] = op[q]
  <2>1. op[Main] \in OpRecord /\ op \in [Procs -> OpRecord]
    BY DEF TypeOK
  <2>2. op' = [op EXCEPT ![Main] = [op[Main] EXCEPT !.pc = "unregister"]]
    BY <1>1, <1>2, <2>1 DEF DeletePool, At, Goto, memory, disk, LockHeld, InTxn
  <2>3. /\ op'[Main] = [op[Main] EXCEPT !.pc = "unregister"]
        /\ \A q \in Procs \ {Main} : op'[q] = op[q]
    BY <2>1, <2>2
  <2>4. /\ op'[Main].pc = "unregister" /\ op'[Main].h = op[Main].h /\ op'[Main].at = op[Main].at
        /\ op'[Main] \in OpRecord
    BY <2>1, <2>3 DEF OpRecord, Adding, Taking, InTxn, Deleting, Starting
  <2> QED
    BY <2>1, <2>2, <2>3, <2>4
<1>5. TypeOK'
  BY <1>1, <1>2, <1>3, <1>4 DEF TypeOK, TxnRecord
<1>6. MainWorks'
  BY <1>1, <1>2, <1>3, <1>4 DEF MainWorks, Adding, Taking, InTxn, Deleting, Starting
<1>7. BaseDevice'
  BY <1>1, <1>2, <1>3, <1>4 DEF BaseDevice
<1> QED
  BY <1>1, <1>2, <1>3, <1>4, <1>5, <1>6, <1>7, YoungStep DEF Adding, Taking, Deleting, InTxn

\* The pool has not deleted the device.
LEMMA DeletePoolFailsStarts ==
  ASSUME DevInv, DeletePoolFails(Main)
  PROVE  DevInv'
<1> USE Basics DEF DevInv
<1>1. op[Main].pc \in Deleting
  BY DEF DeletePoolFails, At, Adding, Deleting, InTxn
<1>2. /\ mode = "starting" /\ ~file[Base].init /\ ~file[Base].deleted /\ ~devs[Base].deleted
      /\ ~devs[Base].init
      /\ op[Worker] = Idle /\ \A q \in Clients : op[q].pc = "idle"
      /\ \A i \in IDs : pool[i] \in {NoOne, Base}
      /\ op[Main].h = Base /\ op[Main].at = Base /\ op[Main].pc # "mark"
      /\ op[Main].pc = "close" => devs[Base].in
  <2>1. op[Main].pc \notin {"idle", "rollback", "setup"}
    BY <1>1 DEF Adding, Deleting, InTxn
  <2> QED
    BY <1>1, <2>1, Starter DEF MainWorks
<1>3. /\ op[Main].pc = "pool" /\ lock = Main
      /\ UNCHANGED <<config, stops, mode, lock, devs, nr, used, next, file, txn, savedNext, pool,
                     own>>
  BY <1>1, <1>2 DEF TypeOK, DeletePoolFails, Closing, At, memory, disk, kernel, LockHeld, InTxn
<1>4. /\ op'[Main].pc = "closing" /\ op'[Main].h = op[Main].h /\ op'[Main].at = op[Main].at
      /\ op' \in [Procs -> OpRecord]
      /\ \A q \in Procs \ {Main} : op'[q] = op[q]
  <2>1. op[Main] \in OpRecord /\ op \in [Procs -> OpRecord]
    BY DEF TypeOK
  <2>2. op' = [op EXCEPT ![Main] = [op[Main] EXCEPT !.pc = "closing", !.ok = FALSE]]
    BY <1>1, <1>2, <2>1 DEF DeletePoolFails, Closing, At, memory, disk, kernel, LockHeld, InTxn
  <2>3. /\ op'[Main] = [op[Main] EXCEPT !.pc = "closing", !.ok = FALSE]
        /\ \A q \in Procs \ {Main} : op'[q] = op[q]
    BY <2>1, <2>2
  <2>4. /\ op'[Main].pc = "closing" /\ op'[Main].h = op[Main].h /\ op'[Main].at = op[Main].at
        /\ op'[Main] \in OpRecord
    BY <2>1, <2>3 DEF OpRecord, Adding, Taking, InTxn, Deleting, Starting
  <2> QED
    BY <2>1, <2>2, <2>3, <2>4
<1>5. TypeOK'
  BY <1>1, <1>2, <1>3, <1>4 DEF TypeOK, TxnRecord
<1>6. MainWorks'
  BY <1>1, <1>2, <1>3, <1>4 DEF MainWorks, Adding, Taking, InTxn, Deleting, Starting
<1>7. BaseDevice'
  BY <1>1, <1>2, <1>3, <1>4 DEF BaseDevice
<1> QED
  BY <1>1, <1>2, <1>3, <1>4, <1>5, <1>6, <1>7, YoungStep DEF Adding, Taking, Deleting, InTxn

\* Entry and file are gone.
LEMMA UnregisterStarts ==
  ASSUME DevInv, Unregister(Main)
  PROVE  DevInv'
<1> USE Basics DEF DevInv
<1>1. op[Main].pc \in Deleting
  BY DEF Unregister, At, Adding, Deleting, InTxn
<1>2. /\ mode = "starting" /\ ~file[Base].init /\ ~file[Base].deleted /\ ~devs[Base].deleted
      /\ ~devs[Base].init
      /\ op[Worker] = Idle /\ \A q \in Clients : op[q].pc = "idle"
      /\ \A i \in IDs : pool[i] \in {NoOne, Base}
      /\ op[Main].h = Base /\ op[Main].at = Base /\ op[Main].pc # "mark"
      /\ op[Main].pc = "close" => devs[Base].in
  <2>1. op[Main].pc \notin {"idle", "rollback", "setup"}
    BY <1>1 DEF Adding, Deleting, InTxn
  <2> QED
    BY <1>1, <2>1, Starter DEF MainWorks
<1>3. Forgets(Main, op[Main].h) = op
  BY <1>2, IdleIs DEF Forgets, At, TypeOK
<1>4. /\ op[Main].pc = "unregister" /\ lock = Main /\ used' \subseteq IDs
      /\ devs' \in [Hashes -> InfoRecord] /\ file' \in [Hashes -> InfoRecord]
      /\ ~devs'[Base].in /\ ~devs'[Base].init /\ ~devs'[Base].deleted /\ ~file'[Base].init
      /\ ~file'[Base].deleted
      /\ \A g \in Hashes \ {Base} : devs'[g] = devs[g] /\ file'[g] = file[g]
      /\ UNCHANGED <<config, stops, mode, lock, next, txn, savedNext, pool, own>>
  BY <1>1, <1>2, <1>3, IdleIs DEF TypeOK, Unregister, At, kernel, LockHeld, InTxn
<1>5. /\ op'[Main].pc = "closing" /\ op'[Main].h = op[Main].h /\ op'[Main].at = op[Main].at
      /\ op' \in [Procs -> OpRecord]
      /\ \A q \in Procs \ {Main} : op'[q] = op[q]
  <2>1. op[Main] \in OpRecord /\ op \in [Procs -> OpRecord]
    BY DEF TypeOK
  <2>2. op' = [op EXCEPT ![Main] = [op[Main] EXCEPT !.pc = "closing", !.ok = TRUE]]
    BY <1>1, <1>2, <1>3, <2>1 DEF Unregister, At, kernel, LockHeld, InTxn
  <2>3. /\ op'[Main] = [op[Main] EXCEPT !.pc = "closing", !.ok = TRUE]
        /\ \A q \in Procs \ {Main} : op'[q] = op[q]
    BY <2>1, <2>2
  <2>4. /\ op'[Main].pc = "closing" /\ op'[Main].h = op[Main].h /\ op'[Main].at = op[Main].at
        /\ op'[Main] \in OpRecord
    BY <1>3, <2>1, <2>3 DEF OpRecord, Adding, Taking, InTxn, Deleting, Starting
  <2> QED
    BY <2>1, <2>2, <2>3, <2>4
<1>6. TypeOK'
  BY <1>1, <1>2, <1>4, <1>5 DEF TypeOK, TxnRecord
<1>7. MainWorks'
  BY <1>1, <1>2, <1>4, <1>5 DEF MainWorks, Adding, Taking, InTxn, Deleting, Starting
<1>8. BaseDevice'
  BY <1>1, <1>2, <1>4, <1>5 DEF BaseDevice
<1> QED
  BY <1>1, <1>2, <1>4, <1>5, <1>6, <1>7, <1>8, YoungStep DEF Adding, Taking, Deleting, InTxn

\* The entry is gone, the file is not.
LEMMA UnregisterFailsStarts ==
  ASSUME DevInv, UnregisterFails(Main)
  PROVE  DevInv'
<1> USE Basics DEF DevInv
<1>1. op[Main].pc \in Deleting
  BY DEF UnregisterFails, At, Adding, Deleting, InTxn
<1>2. /\ mode = "starting" /\ ~file[Base].init /\ ~file[Base].deleted /\ ~devs[Base].deleted
      /\ ~devs[Base].init
      /\ op[Worker] = Idle /\ \A q \in Clients : op[q].pc = "idle"
      /\ \A i \in IDs : pool[i] \in {NoOne, Base}
      /\ op[Main].h = Base /\ op[Main].at = Base /\ op[Main].pc # "mark"
      /\ op[Main].pc = "close" => devs[Base].in
  <2>1. op[Main].pc \notin {"idle", "rollback", "setup"}
    BY <1>1 DEF Adding, Deleting, InTxn
  <2> QED
    BY <1>1, <2>1, Starter DEF MainWorks
<1>3. Forgets(Main, op[Main].h) = op
  BY <1>2, IdleIs DEF Forgets, At, TypeOK
<1>4. /\ op[Main].pc = "unregister" /\ lock = Main
      /\ devs' \in [Hashes -> InfoRecord] /\ ~devs'[Base].in /\ ~devs'[Base].init
      /\ ~devs'[Base].deleted
      /\ \A g \in Hashes \ {Base} : devs'[g] = devs[g]
      /\ UNCHANGED <<config, stops, mode, lock, nr, used, next, file, txn, savedNext, pool, own>>
  BY <1>1, <1>2, <1>3, IdleIs DEF TypeOK, UnregisterFails, At, disk, kernel, LockHeld, InTxn
<1>5. /\ op'[Main].pc = "closing" /\ op'[Main].h = op[Main].h /\ op'[Main].at = op[Main].at
      /\ op' \in [Procs -> OpRecord]
      /\ \A q \in Procs \ {Main} : op'[q] = op[q]
  <2>1. op[Main] \in OpRecord /\ op \in [Procs -> OpRecord]
    BY DEF TypeOK
  <2>2. op' = [op EXCEPT ![Main] = [op[Main] EXCEPT !.pc = "closing", !.ok = FALSE]]
    BY <1>1, <1>2, <1>3, <2>1 DEF UnregisterFails, At, disk, kernel, LockHeld, InTxn
  <2>3. /\ op'[Main] = [op[Main] EXCEPT !.pc = "closing", !.ok = FALSE]
        /\ \A q \in Procs \ {Main} : op'[q] = op[q]
    BY <2>1, <2>2
  <2>4. /\ op'[Main].pc = "closing" /\ op'[Main].h = op[Main].h /\ op'[Main].at = op[Main].at
        /\ op'[Main] \in OpRecord
    BY <1>3, <2>1, <2>3 DEF OpRecord, Adding, Taking, InTxn, Deleting, Starting
  <2> QED
    BY <2>1, <2>2, <2>3, <2>4
<1>6. TypeOK'
  BY <1>1, <1>2, <1>4, <1>5 DEF TypeOK, TxnRecord
<1>7. MainWorks'
  BY <1>1, <1>2, <1>4, <1>5 DEF MainWorks, Adding, Taking, InTxn, Deleting, Starting
<1>8. BaseDevice'
  BY <1>1, <1>2, <1>4, <1>5 DEF BaseDevice
<1> QED
  BY <1>1, <1>2, <1>4, <1>5, <1>6, <1>7, <1>8, YoungStep DEF Adding, Taking, Deleting, InTxn

\* The transaction of a deletion ends.
LEMMA CloseDeleteStarts ==
  ASSUME DevInv, CloseDelete(Main)
  PROVE  DevInv'
<1> USE Basics DEF DevInv
<1>1. op[Main].pc \in Deleting
  BY DEF CloseDelete, At, Adding, Deleting, InTxn
<1>2. /\ mode = "starting" /\ ~file[Base].init /\ ~file[Base].deleted /\ ~devs[Base].deleted
      /\ ~devs[Base].init
      /\ op[Worker] = Idle /\ \A q \in Clients : op[q].pc = "idle"
      /\ \A i \in IDs : pool[i] \in {NoOne, Base}
      /\ op[Main].h = Base /\ op[Main].at = Base /\ op[Main].pc # "mark"
      /\ op[Main].pc = "close" => devs[Base].in
  <2>1. op[Main].pc \notin {"idle", "rollback", "setup"}
    BY <1>1 DEF Adding, Deleting, InTxn
  <2> QED
    BY <1>1, <2>1, Starter DEF MainWorks
<1>3. op[Main].ok \in BOOLEAN
  BY OpTypes
<1>4. /\ op[Main].pc = "closing"
      /\ txn' = [txn EXCEPT !.ahead = FALSE] \/ txn' = txn
      /\ txn' \in TxnRecord
      /\ UNCHANGED <<config, stops, devs, nr, used, next, file, savedNext, pool>>
  BY <1>1, <1>2, <1>3 DEF TypeOK, CloseDelete, CloseTransaction, At, disk, TxnRecord
<1>5. /\ lock' = NoOne /\ own' = own /\ mode' = IF op[Main].ok THEN "starting" ELSE "down"
      /\ op' \in [Procs -> OpRecord] /\ op'[Worker] = Idle /\ \A q \in Clients : op'[q].pc = "idle"
      /\ op'[Main].pc = IF ~op[Main].ok THEN "idle" ELSE "create"
  <2>1. Return(Main, op[Main].ok) /\ op[Main].ok \in BOOLEAN
    BY <1>1, <1>2, <1>3, OpTypes DEF CloseDelete
  <2> HIDE DEF DevInv
  <2>2. op[Main].pc \in Adding \cup Deleting
    BY <1>1
  <2>3. DevInv
    BY DEF DevInv
  <2> QED
    BY <1>2, <2>1, <2>2, <2>3, MainReturns
<1>6. TypeOK'
  BY <1>1, <1>2, <1>4, <1>5 DEF TypeOK, TxnRecord
<1>7. MainWorks'
  BY <1>1, <1>2, <1>4, <1>5 DEF MainWorks, Adding, Taking, InTxn, Deleting, Starting
<1>8. BaseDevice'
  BY <1>1, <1>2, <1>4, <1>5 DEF BaseDevice
<1> QED
  BY <1>1, <1>2, <1>4, <1>5, <1>6, <1>7, <1>8, YoungStep DEF Adding, Taking, Deleting, InTxn

\* The daemon ends outside of the transaction of a deletion.
LEMMA Dies ==
  ASSUME DevInv, Die, UNCHANGED <<config, devs, used, next, file, txn, pool>>,
         stops' \in Nat, savedNext' \in IDs, config.stops = 0 => mode # "up",
         own' = own \/ own' = [h \in Hashes |-> IF own[h] = "creating" THEN "gone" ELSE own[h]],
         \A p \in Procs : op[p].pc \notin InTxn
  PROVE  DevInv'
<1> USE Basics DEF DevInv
<1>1. /\ mode' = "down" /\ lock' = NoOne /\ op' \in [Procs -> OpRecord]
      /\ \A p \in Procs : op'[p] = Idle /\ op'[p].pc = "idle" /\ op'[p].todo = {}
  BY IdleIs DEF Die
<1>2. /\ own' \in [Hashes -> Owned]
      /\ \A h \in Hashes : own'[h] = own[h] \/ (own[h] = "creating" /\ own'[h] = "gone")
  BY DEF TypeOK, Owned
<1>3. \A p \in Clients : op[p].pc # "closing"
  BY DEF InTxn
<1>4. \A h \in Hashes : Kept(h)' = Kept(h)
  BY <1>2 DEF Kept
<1>5. UNCHANGED <<config, devs, used, next, file, txn,
                  pool>> /\ stops' \in Nat /\ savedNext' \in IDs
  OBVIOUS
<1>6. TypeOK'
  BY <1>1, <1>2, <1>3, <1>4, <1>5 DEF TypeOK, TxnRecord
<1>7. LockHeld'
  BY <1>1, <1>2, <1>3, <1>4, <1>5 DEF LockHeld, Taking, InTxn
<1>8. ClientsWork'
  BY <1>1, <1>2, <1>3, <1>4, <1>5 DEF ClientsWork, Adding, Taking, InTxn, Deleting, Starting
<1>9. Exclusive'
  BY <1>1, <1>2, <1>3, <1>4, <1>5 DEF Exclusive
<1>10. WorkerWorks'
  BY <1>1, <1>2, <1>3, <1>4, <1>5 DEF WorkerWorks, Adding, Taking, InTxn, Deleting, Starting
<1>11. MainWorks'
  BY <1>1, <1>2, <1>3, <1>4, <1>5 DEF MainWorks, Adding, Taking, InTxn, Deleting, Starting
<1>12. Finds'
  BY <1>1, <1>2, <1>3, <1>4, <1>5 DEF Finds
<1>13. Allocated'
  BY <1>1, <1>2, <1>3, <1>4, <1>5 DEF Allocated, Kept, Taking
<1>14. Marked'
  BY <1>1, <1>2, <1>3, <1>4, <1>5 DEF Marked
<1>15. Agree'
  BY <1>1, <1>2, <1>3, <1>4, <1>5 DEF Agree
<1>16. Numbers'
  BY <1>1, <1>2, <1>3, <1>4, <1>5 DEF Numbers, Kept
<1>17. Open'
  BY <1>1, <1>2, <1>3, <1>4, <1>5 DEF Open, Kept, InTxn
<1>18. Young'
  BY <1>1, <1>2, <1>3, <1>4, <1>5 DEF Young
<1>19. BaseDevice'
  BY <1>1, <1>2, <1>3, <1>4, <1>5 DEF BaseDevice
<1> QED
  BY <1>6, <1>7, <1>8, <1>9, <1>10, <1>11, <1>12, <1>13, <1>14, <1>15, <1>16, <1>17, <1>18, <1>19

\* The daemon dies.
LEMMA CrashKeeps ==
  ASSUME DevInv, ClosesDeletions, Crash
  PROVE  DevInv'
<1>1. config \in Configs /\ stops \in Nat /\ config.stops \in Nat /\ savedNext \in IDs
  BY DeviceSetAssumption DEF DevInv, TypeOK
<1>2. config.stops # 0
  BY <1>1 DEF Crash
<1>3. "crashdelete" \notin Faults
  BY <1>1, <1>2 DEF ClosesDeletions, Faults
<1>4. \A p \in Procs : op[p].pc \notin InTxn
  BY <1>3 DEF Crash, InDelete, InTxn
<1>5. stops' \in Nat /\ savedNext' \in IDs
  BY <1>1 DEF Crash, disk
<1> QED
  BY <1>2, <1>4, <1>5, Dies DEF Crash, disk, kernel

\* The daemon is shut down.
LEMMA ShutdownKeeps ==
  ASSUME DevInv, Shutdown
  PROVE  DevInv'
<1>1. config \in Configs /\ stops \in Nat /\ config.stops \in Nat /\ next \in IDs
  BY DeviceSetAssumption DEF DevInv, TypeOK
<1>2. config.stops # 0 /\ stops' \in Nat /\ savedNext' \in IDs
  BY <1>1 DEF Shutdown
<1>3. \A p \in Procs : op[p].pc \notin InTxn
  BY LockFree DEF Shutdown
<1> QED
  BY <1>2, <1>3, Dies DEF Shutdown

\* The start loads what the files say.
LEMMA LoadKeeps ==
  ASSUME DevInv, Load
  PROVE  DevInv'
<1> USE Basics DEF DevInv
<1>1. /\ mode = "down" /\ mode' = "starting" /\ devs' = file /\ savedNext \in IDs
      /\ used' = {file[h].id : h \in {g \in Hashes : file[g].in}} /\ next' = savedNext
      /\ UNCHANGED <<config, stops, lock, file, txn, savedNext, pool, own>>
  BY DEF Load, disk, kernel, TypeOK
<1>2. /\ used' \subseteq IDs /\ \A h \in Hashes : file[h].in => file[h].id \in used'
  BY <1>1, FileIDs
<1>3. PICK pc \in {"rollback", "setup"} : pc = IF txn.ahead THEN "rollback" ELSE "setup"
  OBVIOUS
<1>4. /\ op[Main].pc = "idle" /\ op[Worker] = Idle /\ op[Worker].pc = "idle" /\ op[Worker].todo = {}
      /\ \A p \in Clients : op[p].pc = "idle"
  BY <1>1, IdleIs DEF MainWorks, ClientsWork
<1>5. /\ op'[Main].pc = pc /\ op' \in [Procs -> OpRecord]
      /\ \A p \in Procs \ {Main} : op'[p] = op[p] /\ op'[p].pc = "idle"
  <2>1. op \in [Procs -> OpRecord] /\ op[Main] \in OpRecord
    BY DEF TypeOK
  <2>2. op' = [op EXCEPT ![Main] = [op[Main] EXCEPT !.pc = pc]]
    BY <1>3, <2>1 DEF Load
  <2>3. op'[Main] = [op[Main] EXCEPT !.pc = pc] /\ \A p \in Procs \ {Main} : op'[p] = op[p]
    BY <2>1, <2>2
  <2>4. op'[Main].pc = pc /\ op'[Main] \in OpRecord
    BY <2>1, <2>3 DEF OpRecord, Starting
  <2> QED
    BY <1>4, <2>1, <2>2, <2>3, <2>4
<1>6. /\ ~file[Base].deleted /\ op[Main].pc \notin InTxn
  BY <1>4 DEF Marked, InTxn
<1>7. TypeOK'
  BY <1>1, <1>2, <1>4, <1>5, <1>6, <1>3 DEF TypeOK, TxnRecord
<1>8. LockHeld'
  BY <1>3, <1>5 DEF LockHeld, Taking, InTxn
<1>9. ClientsWork'
  BY <1>1, <1>2, <1>4, <1>5, <1>6 DEF ClientsWork, Adding, Taking, InTxn, Deleting, Starting
<1>10. Exclusive'
  BY <1>1, <1>2, <1>4, <1>5, <1>6 DEF Exclusive
<1>11. WorkerWorks'
  BY <1>1, <1>2, <1>4, <1>5, <1>6 DEF WorkerWorks, Adding, Taking, InTxn, Deleting, Starting
<1>12. MainWorks'
  BY <1>1, <1>2, <1>4, <1>5, <1>6, <1>3 DEF MainWorks, Adding, Taking, InTxn, Deleting, Starting
<1>13. Finds'
  BY <1>1, <1>2, <1>4, <1>5, <1>6 DEF Finds
<1>14. Allocated'
  BY <1>1, <1>2, <1>4, <1>5, <1>6 DEF Allocated, Kept, Taking
<1>15. Marked'
  BY <1>1, <1>2, <1>4, <1>5, <1>6 DEF Marked
<1>16. Agree'
  BY <1>1, <1>2, <1>4, <1>5, <1>6 DEF Agree
<1>17. Numbers'
  BY <1>1, <1>2, <1>4, <1>5, <1>6 DEF Numbers, Kept
<1>18. Open'
  BY <1>1, <1>2, <1>4, <1>5, <1>6 DEF Open, Kept, InTxn
<1>19. Young'
  BY <1>1, <1>2, <1>4, <1>5, <1>6 DEF Young
<1>20. BaseDevice'
  BY <1>1, <1>2, <1>4, <1>5, <1>6 DEF BaseDevice
<1> QED
  BY <1>7, <1>8, <1>9, <1>10, <1>11, <1>12, <1>13, <1>14, <1>15, <1>16, <1>17, <1>18, <1>19, <1>20

\* The start rolls a transaction back.
LEMMA RollbackKeeps ==
  ASSUME DevInv, Rollback
  PROVE  DevInv'
<1> USE Basics DEF DevInv
<1>1. /\ op[Main].pc = "rollback" /\ mode = "starting" /\ txn.ahead /\ op[Worker] = Idle
      /\ op[Worker].pc = "idle" /\ op[Worker].todo = {} /\ \A p \in Clients : op[p].pc = "idle"
  BY IdleIs DEF Rollback, At, MainWorks, ClientsWork
<1>2. /\ op'[Main].pc = "setup" /\ op' \in [Procs -> OpRecord]
      /\ \A p \in Procs \ {Main} : op'[p] = op[p] /\ op'[p].pc = "idle"
  <2>1. op \in [Procs -> OpRecord] /\ op[Main] \in OpRecord
    BY DEF TypeOK
  <2>2. op' = [op EXCEPT ![Main] = [op[Main] EXCEPT !.pc = "setup"]]
    BY <2>1 DEF Rollback, Goto
  <2>3. op'[Main] = [op[Main] EXCEPT !.pc = "setup"] /\ \A p \in Procs \ {Main} : op'[p] = op[p]
    BY <2>1, <2>2
  <2>4. op'[Main].pc = "setup" /\ op'[Main] \in OpRecord
    BY <2>1, <2>3 DEF OpRecord, Starting
  <2> QED
    BY <1>1, <2>1, <2>2, <2>3, <2>4
<1>3. /\ txn' \in TxnRecord /\ ~txn'.ahead
      /\ UNCHANGED <<config, stops, mode, lock, devs, next, savedNext, own>>
  BY DEF Rollback, TypeOK, TxnRecord
<1>4. /\ file' \in [Hashes -> InfoRecord] /\ used' \subseteq IDs
      /\ \A h \in Hashes : file'[h] = file[h] \/ (h = txn.h /\ file'[h] = NoInfo)
      /\ \A i \in IDs : i \in used => i \in used' \/ i = txn.id
  <2>1. CASE UNCHANGED <<file, used>>
    BY <2>1 DEF TypeOK
  <2>2. CASE file' = [file EXCEPT ![txn.h] = NoInfo] /\ used' = used \ {txn.id}
    BY <2>2, IdleIs DEF TypeOK
  <2> QED
    BY <2>1, <2>2 DEF Rollback
<1>5. /\ pool' \in [IDs -> Hashes \cup {NoOne}]
      /\ \A i \in IDs : pool'[i] = pool[i] \/ (i = txn.id /\ pool'[i] = NoOne)
  BY DEF Rollback, TypeOK
<1>6. /\ txn.h \in Layers => own[txn.h] \notin {"live", "asked"} /\ ~file[txn.h].deleted
      /\ txn.h = Base => ~file[Base].init
      /\ \A g \in Layers : Kept(g) => file[g].id # txn.id
  <2>1. CASE config.stops # 0
    <3>1. ~\E p \in Procs : op[p].pc \in InTxn
      BY <1>1 DEF InTxn
    <3> QED
      BY <1>1, <2>1, <3>1 DEF Open
  <2>2. CASE config.stops = 0
    BY <1>1, <2>2 DEF BaseDevice, Young, Kept, Marked
  <2> QED
    BY <2>1, <2>2
<1>7. \A h \in Layers : Kept(h)' => Kept(h) /\ file'[h] = file[h]
  BY <1>3, <1>4, IdleIs DEF Kept
<1>8. \A h \in Layers : own[h] \in {"live", "asked"} \/ file[h].deleted => file'[h] = file[h]
  BY <1>4, <1>6
<1>9. \A h \in Hashes : ~file[h].deleted => ~file'[h].deleted
  BY <1>4, IdleIs
<1>10. /\ file[Base].init => file'[Base] = file[Base] /\ file'[Base].init
       /\ ~file[Base].init => ~file'[Base].init
       /\ \A h \in Hashes : ~file[h].in => ~file'[h].in
  BY <1>4, <1>6, IdleIs
<1>11. \A h \in Layers : own[h] = "live" => Kept(h)
  BY DEF Numbers, Kept
<1>12. TypeOK'
  BY <1>2, <1>3, <1>4, <1>5 DEF TypeOK, TxnRecord
<1>13. LockHeld'
  BY <1>2, <1>3 DEF LockHeld, Taking, InTxn
<1>14. ClientsWork'
  BY <1>2 DEF ClientsWork, Adding, Taking, InTxn, Deleting, Starting
<1>15. Exclusive'
  BY <1>2 DEF Exclusive
<1>16. WorkerWorks'
  BY <1>1, <1>2 DEF WorkerWorks, Adding, Taking, InTxn, Deleting, Starting
<1>17. MainWorks'
  BY <1>1, <1>2, <1>3 DEF MainWorks, Adding, Taking, InTxn, Deleting, Starting
<1>18. Finds'
  BY <1>2 DEF Finds
<1>19. Allocated'
  BY <1>2 DEF Allocated, Kept, Taking
<1>20. Marked'
  BY <1>1, <1>3, <1>4, <1>7, <1>8, <1>9 DEF Marked
<1>21. Agree'
  BY <1>3, <1>8, <1>9 DEF Agree
<1>22. Numbers'
  BY <1>3, <1>4, <1>5, <1>6, <1>7, <1>11, FileIDs DEF Numbers, Kept
<1>23. Open'
  BY <1>3 DEF Open, Kept, InTxn
<1>24. Young'
  BY <1>1, <1>2, <1>3, <1>5, <1>10 DEF Young
<1>25. BaseDevice'
  BY <1>1, <1>3, <1>9, <1>10 DEF BaseDevice
<1> QED
  BY <1>12, <1>13, <1>14, <1>15, <1>16, <1>17, <1>18, <1>19, <1>20, <1>21, <1>22, <1>23, <1>24,
    <1>25

\* The start deletes a base device without a file system.
LEMMA SetupFinds ==
  ASSUME DevInv, Setup, Lookup(Base).in, ~(Lookup(Base).init /\ ~Lookup(Base).deleted)
  PROVE  DevInv'
<1> USE Basics DEF DevInv
<1>1. op[Main].pc = "setup" /\ Find(Main, Base) /\ ~file[Base].init /\ Lookup(Base).in
      /\ UNCHANGED <<config, stops, mode, lock, used, next, file, txn, savedNext, pool, own>>
  <2>1. ~file[Base].deleted /\ ~devs[Base].deleted
    BY DEF Marked, BaseDevice
  <2>2. ~file[Base].init
    BY <2>1 DEF Lookup, BaseDevice
  <2> QED
    BY <2>2 DEF Setup, At, disk, kernel
<1>2. /\ mode = "starting" /\ ~file[Base].init /\ ~file[Base].deleted /\ ~devs[Base].deleted
      /\ ~devs[Base].init
      /\ op[Worker] = Idle /\ \A q \in Clients : op[q].pc = "idle"
      /\ \A i \in IDs : pool[i] \in {NoOne, Base}
  BY <1>1, Starter
<1>3. /\ op'[Main].pc = "delete" /\ op'[Main].h = Base /\ op'[Main].at = Base
      /\ op' \in [Procs -> OpRecord]
      /\ \A q \in Procs \ {Main} : op'[q] = op[q]
      /\ devs' \in [Hashes -> InfoRecord] /\ devs'[Base] = Lookup(Base)
      /\ \A g \in Hashes \ {Base} : devs'[g] = devs[g]
  BY <1>1, Finding
<1>4. devs'[Base] = devs[Base] \/ devs'[Base] = file[Base]
  BY <1>3 DEF Lookup
<1>5. ~devs'[Base].init /\ ~devs'[Base].deleted
  BY <1>2, <1>4
<1>6. TypeOK'
  BY <1>1, <1>2, <1>3, <1>5 DEF TypeOK
<1>7. MainWorks'
  BY <1>1, <1>2, <1>3, <1>5 DEF MainWorks, Adding, Taking, InTxn, Deleting, Starting
<1>8. BaseDevice'
  BY <1>1, <1>2, <1>3, <1>5 DEF BaseDevice
<1> QED
  BY <1>1, <1>2, <1>3, <1>5, <1>6, <1>7, <1>8, YoungStep DEF Adding, Taking, Deleting, InTxn

\* The start makes the base device.
LEMMA SetupMakes ==
  ASSUME DevInv, Setup, ~Lookup(Base).in, Goto(Main, "create"), UNCHANGED <<mode, devs, lock>>
  PROVE  DevInv'
<1> USE Basics DEF DevInv
<1>1. op[Main].pc = "setup" /\ lock = NoOne /\ ~file[Base].init
      /\ UNCHANGED <<config, stops, mode, lock, devs, used, next, file, txn, savedNext, pool, own>>
  BY DEF Setup, At, disk, kernel, BaseDevice, Lookup
<1>2. /\ mode = "starting" /\ ~file[Base].init /\ ~file[Base].deleted /\ ~devs[Base].deleted
      /\ ~devs[Base].init
      /\ op[Worker] = Idle /\ \A q \in Clients : op[q].pc = "idle"
      /\ \A i \in IDs : pool[i] \in {NoOne, Base}
  BY <1>1, Starter
<1>3. /\ op'[Main].pc = "create"
      /\ op' \in [Procs -> OpRecord]
      /\ \A q \in Procs \ {Main} : op'[q] = op[q]
  <2>1. op \in [Procs -> OpRecord] /\ op[Main] \in OpRecord
    BY DEF TypeOK
  <2>2. op' = [op EXCEPT ![Main] = [op[Main] EXCEPT !.pc = "create"]]
    BY <2>1 DEF Goto
  <2>3. op'[Main] = [op[Main] EXCEPT !.pc = "create"] /\ \A p \in Procs \ {Main} : op'[p] = op[p]
    BY <2>1, <2>2
  <2>4. op'[Main].pc = "create" /\ op'[Main] \in OpRecord
    BY <2>1, <2>3 DEF OpRecord, Starting
  <2> QED
    BY <2>1, <2>2, <2>3, <2>4
<1>4. TypeOK'
  BY <1>1, <1>2, <1>3 DEF TypeOK
<1>5. MainWorks'
  BY <1>1, <1>2, <1>3 DEF MainWorks, Adding, Taking, InTxn, Deleting, Starting
<1>6. BaseDevice'
  BY <1>1, <1>2, <1>3 DEF BaseDevice
<1> QED
  BY <1>1, <1>2, <1>3, <1>4, <1>5, <1>6, YoungStep DEF Adding, Taking, Deleting, InTxn

\* The base device is there, and the daemon is up.
LEMMA SetupUp ==
  ASSUME DevInv, Setup, Lookup(Base).init, op' = [op EXCEPT ![Main] = Idle], mode' = "up",
         UNCHANGED <<devs, lock>>
  PROVE  DevInv'
<1> USE Basics DEF DevInv
<1>1. op[Main].pc = "setup" /\ lock = NoOne /\ mode = "starting" /\ file[Base].init
      /\ UNCHANGED <<config, stops, lock, devs, used, next, file, txn, savedNext, pool, own>>
  BY DEF Setup, At, disk, kernel, BaseDevice, Lookup, MainWorks
<1>2. /\ op' \in [Procs -> OpRecord] /\ op'[Main] = Idle /\ op'[Main].pc = "idle"
      /\ \A q \in Procs \ {Main} : op'[q] = op[q]
  BY IdleIs DEF TypeOK
<1>3. \A q \in Clients : op[q].pc = "idle"
  BY <1>1 DEF ClientsWork
<1>4. \A q \in Procs : op[q].pc \notin Taking /\ op[q].pc \notin InTxn
  BY <1>1, LockFree
<1>5. TypeOK'
  BY <1>1, <1>2, <1>3, <1>4 DEF TypeOK, TxnRecord
<1>6. LockHeld'
  BY <1>1, <1>2, <1>3, <1>4 DEF LockHeld, Taking, InTxn
<1>7. ClientsWork'
  BY <1>1, <1>2, <1>3, <1>4 DEF ClientsWork, Adding, Taking, InTxn, Deleting, Starting
<1>8. Exclusive'
  BY <1>1, <1>2, <1>3, <1>4 DEF Exclusive
<1>9. WorkerWorks'
  BY <1>1, <1>2, <1>3, <1>4 DEF WorkerWorks, Adding, Taking, InTxn, Deleting, Starting
<1>10. MainWorks'
  BY <1>1, <1>2, <1>3, <1>4 DEF MainWorks, Adding, Taking, InTxn, Deleting, Starting
<1>11. Finds'
  BY <1>1, <1>2, <1>3, <1>4 DEF Finds
<1>12. Allocated'
  BY <1>1, <1>2, <1>3, <1>4 DEF Allocated, Kept, Taking
<1>13. Marked'
  BY <1>1, <1>2, <1>3, <1>4 DEF Marked
<1>14. Agree'
  BY <1>1, <1>2, <1>3, <1>4 DEF Agree
<1>15. Numbers'
  BY <1>1, <1>2, <1>3, <1>4 DEF Numbers, Kept
<1>16. Open'
  BY <1>1, <1>2, <1>3, <1>4 DEF Open, Kept, InTxn
<1>17. Young'
  BY <1>1, <1>2, <1>3, <1>4 DEF Young
<1>18. BaseDevice'
  BY <1>1, <1>2, <1>3, <1>4 DEF BaseDevice
<1> QED
  BY <1>5, <1>6, <1>7, <1>8, <1>9, <1>10, <1>11, <1>12, <1>13, <1>14, <1>15, <1>16, <1>17, <1>18

\* The start looks for the base device.
LEMMA SetupKeeps ==
  ASSUME DevInv, Setup
  PROVE  DevInv'
<1>1. op[Main].pc = "setup" /\ lock = NoOne /\ mode = "starting"
  BY DEF Setup, At, DevInv, MainWorks
<1>2. CASE Lookup(Base).in /\ Lookup(Base).init /\ ~Lookup(Base).deleted
  <2>1. op' = [op EXCEPT ![Main] = Idle] /\ mode' = "up" /\ UNCHANGED <<devs, lock>>
    BY <1>2 DEF Setup
  <2> QED
    BY <1>2, <2>1, SetupUp
<1>3. CASE Lookup(Base).in /\ ~(Lookup(Base).init /\ ~Lookup(Base).deleted)
  BY <1>3, SetupFinds
<1>4. CASE ~Lookup(Base).in
  <2>1. CASE Die /\ UNCHANGED devs
    <3>1. stops \in Nat /\ savedNext \in IDs
      BY DEF DevInv, TypeOK
    <3>2. \A p \in Procs : op[p].pc \notin InTxn
      BY <1>1, LockFree
    <3> QED
      BY <1>1, <2>1, <3>1, <3>2, Dies DEF Setup, disk, kernel
  <2>2. CASE Goto(Main, "create") /\ UNCHANGED <<mode, devs, lock>>
    BY <1>4, <2>2, SetupMakes
  <2> QED
    BY <1>4, <2>1, <2>2 DEF Setup
<1> QED
  BY <1>2, <1>3, <1>4

\* The start begins to make the base device.
LEMMA SetupCreateKeeps ==
  ASSUME DevInv, SetupCreate
  PROVE  DevInv'
<1> USE Basics DEF DevInv
<1>1. op[Main].pc = "create"
      /\ UNCHANGED <<config, stops, mode, lock, devs, used, next, file, txn, savedNext, pool, own>>
  BY DEF SetupCreate, At, disk, kernel, memory
<1>2. /\ mode = "starting" /\ ~file[Base].init /\ ~file[Base].deleted /\ ~devs[Base].deleted
      /\ ~devs[Base].init
      /\ op[Worker] = Idle /\ \A q \in Clients : op[q].pc = "idle"
      /\ \A i \in IDs : pool[i] \in {NoOne, Base}
  BY <1>1, Starter
<1>3. /\ op'[Main].pc = "add" /\ op'[Main].h = Base /\ op'[Main].at = NoOne
      /\ op' \in [Procs -> OpRecord]
      /\ \A q \in Procs \ {Main} : op'[q] = op[q]
  <2>1. op \in [Procs -> OpRecord] /\ op' = [op EXCEPT ![Main] = [Idle EXCEPT !.pc = "add", !.h =
        Base]]
    BY DEF SetupCreate, TypeOK
  <2>2. PICK o : o = [Idle EXCEPT !.pc = "add", !.h = Base]
    OBVIOUS
  <2>3. o.pc = "add" /\ o.h = Base /\ o.at = NoOne /\ o \in OpRecord
    BY <2>2, IdleIs DEF Idle, OpRecord, Adding
  <2> QED
    BY <2>1, <2>2, <2>3
<1>4. TypeOK'
  BY <1>1, <1>2, <1>3 DEF TypeOK
<1>5. MainWorks'
  BY <1>1, <1>2, <1>3 DEF MainWorks, Adding, Taking, InTxn, Deleting, Starting
<1>6. BaseDevice'
  BY <1>1, <1>2, <1>3 DEF BaseDevice
<1> QED
  BY <1>1, <1>2, <1>3, <1>4, <1>5, <1>6, YoungStep DEF Adding, Taking, Deleting, InTxn

\* The base device has its file system, and the daemon is up.
LEMMA SetupInitUp ==
  ASSUME DevInv, SetupInit, mode' = "up"
  PROVE  DevInv'
<1> USE Basics DEF DevInv
<1>1. /\ op[Main].pc = "init" /\ lock = NoOne /\ devs[Base].in /\ devs[Base] \in InfoRecord
      /\ config.stops = 0 \/ ~txn.ahead
  BY DEF SetupInit, At, MainWorks, TypeOK
<1>2. /\ mode = "starting" /\ ~file[Base].init /\ ~file[Base].deleted /\ ~devs[Base].deleted
      /\ op[Worker] = Idle /\ op[Worker].pc = "idle" /\ op[Worker].todo = {}
      /\ \A q \in Clients : op[q].pc = "idle"
      /\ \A h \in Layers : ~file[h].in /\ ~devs[h].in /\ ~file[h].deleted /\ own[h] = "new"
  BY <1>1, Starter, IdleIs
<1>3. /\ devs' = [devs EXCEPT ![Base].init = TRUE]
      /\ file' = [file EXCEPT ![Base] = devs'[Base]]
      /\ savedNext' = next /\ op' = [op EXCEPT ![Main] = Idle] /\ lock' = lock
      /\ UNCHANGED <<config, stops, used, next, txn, pool, own>>
  BY <1>2 DEF SetupInit, Die, kernel
<1>4. /\ devs'[Base].in /\ devs'[Base].init /\ ~devs'[Base].deleted
      /\ file'[Base] = devs'[Base]
      /\ \A g \in Hashes \ {Base} : devs'[g] = devs[g] /\ file'[g] = file[g]
      /\ devs' \in [Hashes -> InfoRecord] /\ file' \in [Hashes -> InfoRecord] /\ savedNext' \in IDs
  <2>1. PICK i \in InfoRecord : i = [devs[Base] EXCEPT !.init = TRUE]
    BY <1>1 DEF InfoRecord
  <2>2. i.in /\ i.init /\ ~i.deleted
    BY <1>1, <1>2, <2>1 DEF InfoRecord
  <2>3. devs' = [devs EXCEPT ![Base] = i]
    BY <1>3, <2>1 DEF TypeOK
  <2>4. devs'[Base] = i /\ devs' \in [Hashes -> InfoRecord]
        /\ \A g \in Hashes \ {Base} : devs'[g] = devs[g]
    BY <2>1, <2>3 DEF TypeOK
  <2>5. file'[Base] = devs'[Base] /\ file' \in [Hashes -> InfoRecord]
        /\ \A g \in Hashes \ {Base} : file'[g] = file[g]
    BY <1>3, <2>4 DEF TypeOK
  <2> QED
    BY <1>3, <2>2, <2>4, <2>5 DEF TypeOK
<1>5. /\ op' \in [Procs -> OpRecord] /\ op'[Main] = Idle /\ op'[Main].pc = "idle"
      /\ \A q \in Procs \ {Main} : op'[q] = op[q]
  BY <1>3, IdleIs DEF TypeOK
<1>6. \A q \in Procs : op[q].pc \notin Taking /\ op[q].pc \notin InTxn
  BY <1>1, LockFree
<1>7. TypeOK'
  BY <1>3, <1>4, <1>5 DEF TypeOK, TxnRecord
<1>8. LockHeld'
  BY <1>1, <1>3, <1>5, <1>6 DEF LockHeld, Taking, InTxn
<1>9. ClientsWork'
  BY <1>1, <1>2, <1>3, <1>4, <1>5, <1>6 DEF ClientsWork, Adding, Taking, InTxn, Deleting, Starting
<1>10. Exclusive'
  BY <1>1, <1>2, <1>3, <1>4, <1>5, <1>6 DEF Exclusive
<1>11. WorkerWorks'
  BY <1>1, <1>2, <1>3, <1>4, <1>5, <1>6 DEF WorkerWorks, Adding, Taking, InTxn, Deleting, Starting
<1>12. MainWorks'
  BY <1>1, <1>2, <1>3, <1>4, <1>5, <1>6 DEF MainWorks, Adding, Taking, InTxn, Deleting, Starting
<1>13. Finds'
  BY <1>1, <1>2, <1>3, <1>4, <1>5, <1>6 DEF Finds
<1>14. Allocated'
  BY <1>1, <1>2, <1>3, <1>4, <1>5, <1>6 DEF Allocated, Kept, Taking
<1>15. Marked'
  BY <1>1, <1>2, <1>3, <1>4, <1>5, <1>6 DEF Marked
<1>16. Agree'
  BY <1>1, <1>2, <1>3, <1>4, <1>5, <1>6 DEF Agree
<1>17. Numbers'
  BY <1>1, <1>2, <1>3, <1>4, <1>5, <1>6 DEF Numbers, Kept
<1>18. Open'
  BY <1>1, <1>2, <1>3, <1>4, <1>5, <1>6 DEF Open, Kept, InTxn
<1>19. Young'
  BY <1>1, <1>2, <1>3, <1>4, <1>5, <1>6 DEF Young
<1>20. BaseDevice'
  BY <1>1, <1>2, <1>3, <1>4, <1>5, <1>6 DEF BaseDevice
<1> QED
  BY <1>7, <1>8, <1>9, <1>10, <1>11, <1>12, <1>13, <1>14, <1>15, <1>16, <1>17, <1>18, <1>19, <1>20

\* It gets its file system, or the daemon fails to start.
LEMMA SetupInitKeeps ==
  ASSUME DevInv, SetupInit
  PROVE  DevInv'
<1>1. op[Main].pc = "init" /\ lock = NoOne /\ mode = "starting" /\ stops \in Nat
      /\ savedNext \in IDs
  BY DEF SetupInit, At, DevInv, MainWorks, TypeOK
<1>2. CASE mode' = "up"
  BY <1>2, SetupInitUp
<1>3. CASE Die /\ UNCHANGED <<devs, file, savedNext>>
  <2>1. \A p \in Procs : op[p].pc \notin InTxn
    BY <1>1, LockFree
  <2> QED
    BY <1>1, <1>3, <2>1, Dies DEF SetupInit, kernel
<1> QED
  BY <1>2, <1>3 DEF SetupInit

\* In the beginning there is nothing.
LEMMA InitDevInv ==
  ASSUME Init
  PROVE  DevInv
<1> USE Basics
<1>1. /\ config \in Configs /\ stops = 0 /\ mode = "down" /\ lock = NoOne
      /\ op \in [Procs -> OpRecord]
      /\ \A p \in Procs : op[p] = Idle /\ op[p].pc = "idle" /\ op[p].todo = {}
  BY IdleIs DEF Init
<1>2. /\ devs \in [Hashes -> InfoRecord] /\ file \in [Hashes -> InfoRecord]
      /\ \A h \in Hashes : ~devs[h].in /\ ~devs[h].deleted /\ ~devs[h].init
      /\ \A h \in Hashes : ~file[h].in /\ ~file[h].deleted /\ ~file[h].init
  BY IdleIs DEF Init
<1>3. /\ used = {} /\ next \in IDs /\ savedNext \in IDs /\ txn \in TxnRecord /\ ~txn.ahead
      /\ pool \in [IDs -> Hashes \cup {NoOne}] /\ \A i \in IDs : pool[i] = NoOne
      /\ own \in [Hashes -> Owned] /\ \A h \in Hashes : own[h] = "new"
  BY SomeIDs DEF Init, TxnRecord, Owned
<1>4. TypeOK
  BY <1>1, <1>2, <1>3 DEF TypeOK
<1>5. LockHeld /\ ClientsWork /\ Exclusive /\ WorkerWorks /\ Finds /\ Allocated
  BY <1>1 DEF LockHeld, ClientsWork, Exclusive, WorkerWorks, Finds, Allocated, Adding, Taking,
    InTxn, Deleting
<1>6. MainWorks
  BY <1>1 DEF MainWorks, Adding, Deleting, InTxn
<1>7. Marked /\ Agree /\ Numbers /\ Open
  BY <1>2, <1>3 DEF Marked, Agree, Numbers, Open, Kept
<1>8. Young /\ BaseDevice
  BY <1>1, <1>2, <1>3 DEF Young, BaseDevice
<1> QED
  BY <1>4, <1>5, <1>6, <1>7, <1>8 DEF DevInv

\* Every step of an AddDevice keeps it.
LEMMA AddStepKeeps ==
  ASSUME DevInv, NEW p \in Procs, AddStep(p)
  PROVE  DevInv'
<1>1. CASE p \in Clients
  <2>1. CASE Add(p)
    BY <1>1, <2>1, AddKeeps
  <2>2. CASE AddFails(p)
    BY <1>1, <2>2, AddFailsKeeps
  <2>3. CASE Make(p)
    BY <1>1, <2>3, MakeKeeps
  <2>4. CASE MakeExists(p)
    BY <1>1, <2>4, MakeExistsKeeps
  <2>5. CASE MakeFails(p)
    BY <1>1, <2>5, MakeFailsKeeps
  <2>6. CASE Register(p)
    BY <1>1, <2>6, RegisterKeeps
  <2>7. CASE RegisterFails(p)
    BY <1>1, <2>7, RegisterFailsKeeps
  <2>8. CASE CloseAdd(p)
    BY <1>1, <2>8, CloseAddKeeps
  <2>9. CASE CloseAddFails(p)
    BY <1>1, <2>9, CloseAddFailsKeeps
  <2> QED
    BY <2>1, <2>2, <2>3, <2>4, <2>5, <2>6, <2>7, <2>8, <2>9 DEF AddStep
<1>2. CASE p = Main
  <2>1. CASE Add(Main)
    BY <2>1, AddStarts
  <2>2. CASE AddFails(Main)
    BY <2>2, AddFailsStarts
  <2>3. CASE Make(Main)
    BY <2>3, MakeStarts
  <2>4. CASE MakeExists(Main)
    BY <2>4, MakeExistsStarts
  <2>5. CASE MakeFails(Main)
    BY <2>5, MakeFailsStarts
  <2>6. CASE Register(Main)
    BY <2>6, RegisterStarts
  <2>7. CASE RegisterFails(Main)
    BY <2>7, RegisterFailsStarts
  <2>8. CASE CloseAdd(Main)
    BY <2>8, CloseAddStarts
  <2>9. CASE CloseAddFails(Main)
    BY <2>9, CloseAddFailsStarts
  <2> QED
    BY <2>1, <2>2, <2>3, <2>4, <2>5, <2>6, <2>7, <2>8, <2>9, <1>2 DEF AddStep
<1>3. CASE p = Worker
  <2>1. op[Worker].pc \notin Adding
    BY DEF DevInv, WorkerWorks, Adding, Deleting, InTxn
  <2>2. op[Worker].pc \in Adding
    BY <1>3 DEF AddStep, Add, AddFails, Make, MakeExists, MakeFails, Register, RegisterFails,
      CloseAdd,
      CloseAddFails, At, Adding
  <2> QED
    BY <2>1, <2>2
<1> QED
  BY <1>1, <1>2, <1>3, Basics

\* Every step of a deletion keeps it.
LEMMA DeleteStepKeeps ==
  ASSUME DevInv, ClosesDeletions, NEW p \in Procs, DeleteStep(p)
  PROVE  DevInv'
<1>1. CASE p # Main
  <2>1. CASE Delete(p)
    BY <1>1, <2>1, DeleteKeeps
  <2>2. CASE DeleteBusy(p)
    BY <1>1, <2>2, DeleteBusyKeeps
  <2>3. CASE DeleteFails(p)
    BY <1>1, <2>3, DeleteFailsKeeps
  <2>4. CASE DeletePool(p)
    BY <1>1, <2>4, DeletePoolKeeps
  <2>5. CASE DeletePoolBusy(p)
    BY <1>1, <2>5, DeletePoolBusyKeeps
  <2>6. CASE DeletePoolFails(p)
    BY <1>1, <2>6, DeletePoolFailsKeeps
  <2>7. CASE Unregister(p)
    BY <1>1, <2>7, UnregisterKeeps
  <2>8. CASE UnregisterFails(p)
    BY <1>1, <2>8, UnregisterFailsKeeps
  <2>9. CASE Mark(p)
    BY <1>1, <2>9, MarkKeeps
  <2>10. CASE CloseDelete(p)
    BY <1>1, <2>10, CloseDeleteKeeps
  <2> QED
    BY <2>1, <2>2, <2>3, <2>4, <2>5, <2>6, <2>7, <2>8, <2>9, <2>10 DEF DeleteStep
<1>2. CASE p = Main
  <2>1. CASE Delete(Main)
    BY <2>1, DeleteStarts
  <2>2. CASE DeleteBusy(Main)
    BY <2>2, DeleteBusyStarts
  <2>3. CASE DeleteFails(Main)
    BY <2>3, DeleteFailsStarts
  <2>4. CASE DeletePool(Main)
    BY <2>4, DeletePoolStarts
  <2>5. CASE DeletePoolBusy(Main)
    BY <2>5 DEF DeletePoolBusy
  <2>6. CASE DeletePoolFails(Main)
    BY <2>6, DeletePoolFailsStarts
  <2>7. CASE Unregister(Main)
    BY <2>7, UnregisterStarts
  <2>8. CASE UnregisterFails(Main)
    BY <2>8, UnregisterFailsStarts
  <2>9. CASE Mark(Main)
    BY <2>9 DEF DevInv, MainWorks, Mark, At
  <2>10. CASE CloseDelete(Main)
    BY <2>10, CloseDeleteStarts
  <2> QED
    BY <2>1, <2>2, <2>3, <2>4, <2>5, <2>6, <2>7, <2>8, <2>9, <2>10, <1>2 DEF DeleteStep
<1> QED
  BY <1>1, <1>2

\* Every step keeps it.
LEMMA NextKeeps ==
  ASSUME DevInv, ClosesDeletions, [Next]_vars
  PROVE  DevInv'
<1>1. CASE UNCHANGED vars
  BY <1>1, NothingKeeps DEF vars, memory, disk, kernel
<1>2. ASSUME NEW p \in Procs, AddStep(p) \/ DeleteStep(p)
      PROVE  DevInv'
  BY <1>2, AddStepKeeps, DeleteStepKeeps
<1>3. ASSUME NEW p \in Clients, NEW h \in Layers, Remove(p, h)
      PROVE  DevInv'
  BY <1>3, RemoveFinds, RemoveGone
<1>4. ASSUME NEW p \in Clients, NEW h \in Layers, NEW b \in Hashes \ {h}, Create(p, h, b)
      PROVE  DevInv'
  <2>1. CASE Lookup(b).in /\ ~Lookup(b).deleted
    BY <1>4, <2>1, CreateKeeps
  <2>2. CASE ~(Lookup(b).in /\ ~Lookup(b).deleted)
    BY <1>4, <2>2, CreateFails DEF Create, disk, kernel
  <2> QED
    BY <2>1, <2>2
<1>5. ASSUME NEW h \in Layers, MountDevice(h)
      PROVE  DevInv'
  BY <1>5, MountKeeps
<1>6. ASSUME NEW h \in Layers, UnmountDevice(h) \/ Copied(h) \/ Closed(h)
      PROVE  DevInv'
  BY <1>6, NothingKeeps DEF UnmountDevice, Copied, Closed, memory, disk
<1>7. CASE Start
  BY <1>7, LoadKeeps, RollbackKeeps, SetupKeeps, SetupCreateKeeps, SetupInitKeeps DEF Start
<1>8. CASE Clean
  BY <1>8, TickKeeps, TickFinds, TickSkips DEF Clean
<1>9. CASE Crash \/ Shutdown
  BY <1>9, CrashKeeps, ShutdownKeeps
<1> QED
  BY <1>1, <1>2, <1>3, <1>4, <1>5, <1>6, <1>7, <1>8, <1>9 DEF Next

\* Everybody works on a device of their own, and the numbers of devices in use are marked,
\* and differ from each other and from those a transaction is about (deviceset.go:815, 1513).
THEOREM DevInvariant ==
  ASSUME ClosesDeletions
  PROVE  Spec => []DevInv
<1>1. Init => DevInv
  BY InitDevInv
<1>2. DevInv /\ [Next]_vars => DevInv'
  BY NextKeeps
<1> QED
  BY <1>1, <1>2, PTL DEF Spec

\* A device the layer store has is found, not marked for deletion, and the pool has the
\* right device under its number, after any number of crashes and starts
\* (deviceset.go:471, 815, 1513).
THEOREM DevicesLive ==
  ASSUME ClosesDeletions
  PROVE  Spec => []LiveDevices
<1>1. ASSUME DevInv, NEW h \in Hashes, own[h] = "live"
      PROVE  Lookup(h).in /\ ~Lookup(h).deleted /\ pool[Lookup(h).id] = h
  <2>1. h \in Layers
    BY <1>1, Basics DEF DevInv, BaseDevice
  <2>2. Lookup(h) = file[h]
    BY <1>1, <2>1, LookupIs
  <2>3. file[h].in /\ pool[file[h].id] = h
    BY <1>1, <2>1 DEF DevInv, Numbers
  <2>4. ~file[h].deleted
    <3> SUFFICES ASSUME file[h].deleted PROVE FALSE
      OBVIOUS
    <3>1. PICK p \in Clients : op[p].pc = "closing" /\ op[p].h = h
      BY <1>1 DEF DevInv, Marked
    <3> QED
      BY <1>1, <3>1 DEF DevInv, ClientsWork, Deleting, InTxn
  <2> QED
    BY <2>2, <2>3, <2>4
<1>2. DevInv => LiveDevices
  BY <1>1 DEF LiveDevices
<1> QED
  BY <1>2, DevInvariant, PTL

\* Only the deletion that is at it takes a device from the pool.
LEMMA PoolTaken ==
  ASSUME DevInv, Next, NEW p \in Procs, At(p, "pool"), pool' # pool
  PROVE  DeletePool(p)
<1> USE Basics DEF DevInv
<1>1. op[p].pc = "pool" /\ lock = p /\ p # NoOne
  BY DEF At, LockHeld, InTxn
<1>2. op[Main].pc # "rollback"
  BY <1>1, IdleIs DEF MainWorks, ClientsWork
<1>3. \A q \in Procs : op[q].pc \notin Taking
  BY <1>1 DEF LockHeld, Taking
<1>4. ASSUME NEW q \in Procs, AddStep(q)
      PROVE  FALSE
  BY <1>3, <1>4 DEF AddStep, Add, AddFails, Make, MakeExists, MakeFails, Register, RegisterFails,
    CloseAdd,
    CloseAddFails, At, Taking, kernel
<1>5. ASSUME NEW q \in Procs, DeleteStep(q)
      PROVE  DeletePool(q)
  BY <1>5 DEF DeleteStep, Delete, DeleteBusy, DeleteFails, DeletePoolBusy, DeletePoolFails,
    Unregister,
    UnregisterFails, Mark, CloseDelete, kernel
<1>6. ASSUME NEW q \in Procs, DeletePool(q)
      PROVE  q = p
  BY <1>1, <1>6 DEF DeletePool, At, LockHeld, InTxn
<1>7. ASSUME NEW q \in Clients, NEW h \in Layers, Remove(q, h)
      \/ \E b \in Hashes \ {h} : Create(q, h, b)
      PROVE  FALSE
  BY <1>7 DEF Remove, Create, kernel
<1>8. ASSUME NEW h \in Layers, MountDevice(h) \/ UnmountDevice(h) \/ Copied(h) \/ Closed(h)
      PROVE  FALSE
  BY <1>8 DEF MountDevice, UnmountDevice, Copied, Closed
<1>9. ~Start
  BY <1>2 DEF Start, Load, Rollback, Setup, SetupCreate, SetupInit, At, kernel
<1>10. ~Clean /\ ~Crash /\ ~Shutdown
  BY DEF Clean, Tick, TickDelete, Crash, Shutdown, kernel
<1> QED
  BY <1>4, <1>5, <1>6, <1>7, <1>8, <1>9, <1>10 DEF Next

\* What a deletion takes from the pool is the device of its hash, as driver.Remove promises
\* (driver.go:157), if no deletion leaves its transaction to the next start.
THEOREM RemoveRemovesOwn ==
  ASSUME ClosesDeletions
  PROVE  Spec => RemovesOwn
<1>1. ASSUME DevInv, Next, NEW p \in Procs, At(p, "pool"), pool' # pool
      PROVE  pool[op[p].id] = op[p].h
  <2>1. op[p].pc = "pool" /\ op[p].id \in IDs /\ pool[op[p].id] # NoOne
    BY <1>1, PoolTaken, OpTypes DEF DeletePool, At, DevInv
  <2>2. op[p].pc \in Deleting
    BY <2>1 DEF Deleting, InTxn
  <2>3. CASE p = Main
    <3>1. op[Main].h = Base
      BY <1>1, <2>2, <2>3 DEF DevInv, MainWorks
    <3>2. pool[op[p].id] \in {NoOne, Base}
      BY <1>1, <2>1, <2>3, Starter
    <3> QED
      BY <2>1, <2>3, <3>1, <3>2
  <2>4. CASE p # Main
    <3>1. op[p].h \in Layers /\ (own[op[p].h] = "asked" \/ file[op[p].h].deleted)
      BY <1>1, <2>1, <2>2, <2>4, Deleter, Basics
    <3>2. op[p].id = file[op[p].h].id /\ file[op[p].h].in
      BY <1>1, <2>1, <2>4 DEF DevInv, Finds
    <3> QED
      BY <1>1, <2>1, <3>1, <3>2 DEF DevInv, Numbers, Kept
  <2> QED
    BY <2>3, <2>4
<1>2. DevInv /\ [Next]_vars => [\A p \in Procs : At(p, "pool") /\ pool' # pool =>
      pool[op[p].id] = op[p].h]_vars
  BY <1>1
<1> QED
  BY <1>2, DevInvariant, PTL DEF Spec, RemovesOwn
--------------------------------------------------------------------------------
(* No number is lost                                                            *)

\* The pool and the disk do not fail.
NoErrors == Faults \cap {"pool", "save"} = {}

\* Goroutines that are between taking and recording a number, or giving it back.
WithNumber == {"make", "register", "close", "unregister"}
Numbered == WithNumber \cup {"pool"}

FileHas(i) == \E h \in Hashes : file[h].in /\ file[h].id = i
CallHas(i) == \E p \in Procs : op[p].pc \in WithNumber /\ op[p].id = i
Recorded(i) == FileHas(i) \/ CallHas(i)

\* The kernel's active devices are layers' that are somebody's.
ActiveKept ==
  /\ act \in [Hashes -> [st : {"off", "on", "deferred"}, id : IDs]]
  /\ \A h \in Hashes : act[h].st # "off" => h \in Layers /\ Kept(h) /\ act[h].id = file[h].id
  /\ \A p \in Procs : op[p].pc = "unregister" => act[op[p].h].st = "off"
  /\ \A p \in Procs \ {Main} :
       op[p].pc = "closing" /\ op[p].ok => ~file[op[p].h].in \/ file[op[p].h].deleted

\* No two files have the same number.
Distinct == \A g, h \in Hashes : file[g].in /\ file[h].in /\ g # h => file[g].id # file[h].id

\* What is marked used, as long as there is a map of numbers, and what the pool has.
FilesMarked == mode # "down" => \A h \in Hashes : file[h].in => file[h].id \in used
MarkedRecorded == mode # "down" => \A i \in used : Recorded(i)
PoolRecorded ==
  \A i \in IDs : pool[i] # NoOne =>
    \/ Recorded(i)
    \/ (mode = "down" \/ op[Main].pc = "rollback") /\ txn.ahead /\ txn.id = i

\* A number under way: it is marked used, the open transaction's, and in no other file.
UnderWay ==
  \A p \in Procs :
    LET o == op[p]
    IN /\ o.pc \in Taking => o.id \in used /\ txn = [ahead |-> TRUE, h |-> o.h, id |-> o.id]
       /\ o.pc \in {"make", "register"} => \A g \in Hashes : file[g].in => file[g].id # o.id
       /\ o.pc = "close" => file[o.h].in /\ file[o.h].id = o.id
       /\ o.pc \in {"make", "unregister"} => pool[o.id] = NoOne
       /\ o.pc \in {"pool", "unregister"} /\ file[o.h].in => o.id = file[o.h].id
       /\ o.pc = "unregister" => file[o.h].in

\* An open transaction's number is in no other file.
OpenNumber ==
  txn.ahead =>
    /\ txn.h \in Hashes
    /\ \A h \in Hashes : file[h].in => (h = txn.h <=> file[h].id = txn.id)

\* The entry of the base device.
BaseNumber ==
  /\ devs[Base].in /\ file[Base].in => devs[Base].id = file[Base].id
  /\ op[Main].pc = "init" => file[Base].in
  /\ op[Main].pc # "busy"
  /\ op[Main].pc = "delete" => ~op[Main].info.in /\ devs[Base].in

NumInv ==
  /\ Distinct /\ FilesMarked /\ MarkedRecorded /\ PoolRecorded
  /\ UnderWay /\ OpenNumber /\ BaseNumber

\* Who holds the lock is the only one at work.
LEMMA OneAtWork ==
  ASSUME DevInv, NEW p \in Procs, op[p].pc \in Taking \cup InTxn
  PROVE  lock = p /\ \A q \in Procs \ {p} : op[q].pc \notin Taking /\ op[q].pc \notin InTxn
  BY DEF DevInv, LockHeld

\* A goroutine goes on.
LEMMA GoesOn ==
  ASSUME TypeOK, NEW p \in Procs, NEW pc, Goto(p, pc)
  PROVE  /\ op'[p].pc = pc /\ op'[p].h = op[p].h /\ op'[p].id = op[p].id
         /\ op'[p].ok = op[p].ok /\ op'[p].info = op[p].info
         /\ \A q \in Procs \ {p} : op'[q] = op[q]
<1>1. op \in [Procs -> OpRecord] /\ op[p] \in OpRecord
  BY DEF TypeOK
<1>2. op' = [op EXCEPT ![p] = [op[p] EXCEPT !.pc = pc]]
  BY <1>1 DEF Goto
<1> QED
  BY <1>1, <1>2 DEF OpRecord

\* Its transaction is to be closed.
LEMMA GoesClosing ==
  ASSUME TypeOK, NEW p \in Procs, NEW ok, Closing(p, ok)
  PROVE  /\ op'[p].pc = "closing" /\ op'[p].ok = ok /\ op'[p].h = op[p].h
         /\ \A q \in Procs \ {p} : op'[q] = op[q]
<1>1. op \in [Procs -> OpRecord] /\ op[p] \in OpRecord
  BY DEF TypeOK
<1>2. op' = [op EXCEPT ![p] = [op[p] EXCEPT !.pc = "closing", !.ok = ok]]
  BY <1>1 DEF Closing
<1> QED
  BY <1>1, <1>2 DEF OpRecord

\* A deletion that ends its transaction, and what the others have found.
LEMMA GoesForgetting ==
  ASSUME TypeOK, NEW p \in Procs, NEW ok,
         op' = [Forgets(p, op[p].h) EXCEPT ![p].pc = "closing", ![p].ok = ok]
  PROVE  /\ op'[p].pc = "closing" /\ op'[p].ok = ok /\ op'[p].h = op[p].h
         /\ \A q \in Procs \ {p} :
              /\ op'[q].pc = op[q].pc /\ op'[q].h = op[q].h /\ op'[q].id = op[q].id
              /\ op'[q].ok = op[q].ok
              /\ op[q].pc # "delete" \/ op[q].h # op[p].h => op'[q] = op[q]
<1>1. op \in [Procs -> OpRecord] /\ op[p] \in OpRecord
  BY DEF TypeOK
<1>2. Forgets(p, op[p].h)[p] = op[p]
  BY DEF Forgets
<1>3. op' = [Forgets(p, op[p].h) EXCEPT ![p] = [op[p] EXCEPT !.pc = "closing", !.ok = ok]]
  BY <1>2 DEF Forgets
<1>4. op'[p] = [op[p] EXCEPT !.pc = "closing", !.ok = ok]
  BY <1>3 DEF Forgets
<1>5. ASSUME NEW q \in Procs \ {p}
      PROVE  op'[q] = IF At(q, "delete") /\ op[q].h = op[p].h /\ ~op[q].info.in
                      THEN [op[q] EXCEPT !.info = devs[op[p].h]] ELSE op[q]
  BY <1>3, <1>5 DEF Forgets
<1>6. ASSUME NEW q \in Procs \ {p}
      PROVE  /\ op'[q].pc = op[q].pc /\ op'[q].h = op[q].h /\ op'[q].id = op[q].id
             /\ op'[q].ok = op[q].ok
             /\ op[q].pc # "delete" \/ op[q].h # op[p].h => op'[q] = op[q]
  <2>1. op[q] \in OpRecord
    BY <1>1
  <2>2. PICK i : i = devs[op[p].h]
    OBVIOUS
  <2>3. op'[q] = op[q] \/ (op'[q] = [op[q] EXCEPT !.info = i] /\ op[q].pc = "delete" /\ op[q].h = op[p].h)
    BY <1>5, <2>2 DEF At
  <2>4. PICK o : o = [op[q] EXCEPT !.info = i]
    OBVIOUS
  <2>5. o.pc = op[q].pc /\ o.h = op[q].h /\ o.id = op[q].id /\ o.ok = op[q].ok
    BY <2>1, <2>4 DEF OpRecord
  <2> QED
    BY <2>3, <2>4, <2>5
<1>7. op'[p].pc = "closing" /\ op'[p].ok = ok /\ op'[p].h = op[p].h
  <2>1. PICK o : o = [op[p] EXCEPT !.pc = "closing", !.ok = ok]
    OBVIOUS
  <2>2. o.pc = "closing" /\ o.ok = ok /\ o.h = op[p].h
    BY <1>1, <2>1 DEF OpRecord
  <2> QED
    BY <1>4, <2>1, <2>2
<1> QED
  BY <1>6, <1>7

\* A call ends, or the section of the start that it is.
LEMMA Leaves ==
  ASSUME DevInv, NEW p \in Procs, op[p].pc \in Adding \cup Deleting, NEW ok \in BOOLEAN,
         Return(p, ok)
  PROVE  /\ op'[p].pc = IF p # Main \/ ~ok THEN "idle" ELSE IF op[Main].at = op[Main].h THEN "create" ELSE "init"
         /\ \A q \in Procs \ {p} : op'[q] = op[q] \/ (op'[q].pc = "idle" /\ op[q].pc = "idle")
         /\ mode' = IF p = Main /\ ~ok THEN "down" ELSE mode
         /\ mode # "down" /\ op[Main].pc # "rollback"
         /\ \A h \in Hashes : own'[h] = own[h] \/ (p \in Clients /\ h = op[p].h)
         /\ p \in Clients => own'[op[p].h] = IF op[p].at = op[p].h THEN IF ok THEN "gone" ELSE "asked"
                                             ELSE IF ok THEN "live" ELSE "gone"
<1> USE Basics
<1>1. CASE p = Main
  <2>1. op[Main].pc \notin {"idle", "rollback", "setup"}
    BY <1>1 DEF Adding, Deleting, InTxn
  <2>2. mode = "starting" /\ op[Worker].pc = "idle" /\ \A q \in Clients : op[q].pc = "idle"
    BY <2>1, Starter
  <2>3. op'[Worker].pc = "idle" /\ \A q \in Clients : op'[q].pc = "idle"
    BY <1>1, MainReturns, IdleIs
  <2> QED
    BY <1>1, <2>1, <2>2, <2>3, MainReturns
<1>2. CASE p # Main
  <2>1. op[p].pc # "idle" /\ op[p].h \in Layers
    BY <1>2, OnLayers DEF Adding, Deleting, InTxn
  <2>2. mode # "down" /\ op[Main].pc # "rollback"
    BY <1>2, <2>1, IdleIs DEF DevInv, ClientsWork, MainWorks
  <2> QED
    BY <1>2, <2>1, <2>2, Returns
<1> QED
  BY <1>1, <1>2

\* ActiveKept when devices are at most deactivated.
LEMMA ActShrinks ==
  ASSUME ActiveKept, act' \in [Hashes -> [st : {"off", "on", "deferred"}, id : IDs]],
         \A h \in Hashes : act'[h].st # "off" =>
             act[h].st # "off" /\ act'[h].id = act[h].id /\ Kept(h)' /\ file'[h].id = file[h].id,
         \A p \in Procs : op'[p].pc = "unregister" =>
             \/ op[p].pc = "unregister" /\ op'[p].h = op[p].h /\ act'[op[p].h] = act[op[p].h]
             \/ act'[op'[p].h].st = "off",
         \A p \in Procs \ {Main} : op'[p].pc = "closing" /\ op'[p].ok =>
             \/ op[p].pc = "closing" /\ op[p].ok /\ op'[p].h = op[p].h /\ file'[op[p].h] = file[op[p].h]
             \/ ~file'[op'[p].h].in \/ file'[op'[p].h].deleted
  PROVE  ActiveKept'
  BY DEF ActiveKept

\* ActiveKept when nothing it is about changes.
LEMMA ActStays ==
  ASSUME ActiveKept, UNCHANGED <<act, file>>,
         \A h \in Layers : Kept(h) => own'[h] = own[h] \/ own'[h] \in {"live", "asked"} \/ file[h].deleted,
         \A p \in Procs : \/ op'[p].pc \notin {"unregister", "closing"}
                          \/ op'[p].pc = "closing" /\ ~op'[p].ok
                          \/ op'[p].pc = op[p].pc /\ op'[p].h = op[p].h /\ op'[p].ok = op[p].ok
  PROVE  ActiveKept'
<1>1. \A h \in Layers : Kept(h) => Kept(h)'
  BY DEF Kept
<1> QED
  BY <1>1, ActShrinks DEF ActiveKept

\* What is being deactivated.
LEMMA DeactivatedIs ==
  ASSUME ActiveKept, NEW h \in Hashes, NEW s
  PROVE  /\ Deactivated(h, s) \in [st : {"off", "on", "deferred"}, id : IDs]
         /\ Deactivated(h, s).st # "off" => act[h].st # "off" /\ Deactivated(h, s).id = act[h].id
<1>1. Off \in [st : {"off", "on", "deferred"}, id : IDs] /\ Off.st = "off"
  BY SomeIDs DEF Off
<1>2. act[h] \in [st : {"off", "on", "deferred"}, id : IDs]
  BY DEF ActiveKept
<1> QED
  BY <1>1, <1>2 DEF Deactivated

\* ActiveKept through the steps that make a device.
LEMMA AddStepActs ==
  ASSUME DevInv, ActiveKept, NEW p \in Procs, AddStep(p)
  PROVE  ActiveKept'
<1> USE Basics
<1>1. TypeOK /\ op[p] \in OpRecord
  BY OpTypes DEF DevInv
<1>2. op[p].pc \in Adding
  BY DEF AddStep, Add, AddFails, Make, MakeExists, MakeFails, Register, RegisterFails, CloseAdd,
    CloseAddFails, At, Adding
<1>3. op[p].h \in Hashes /\ (op[p].h \in Layers => ~Kept(op[p].h) /\ act[op[p].h].st = "off")
  <2>1. CASE p = Main
    BY <1>2, <2>1 DEF DevInv, MainWorks
  <2>2. CASE p # Main
    <3>1. p \in Clients
      BY <1>2, <2>2 DEF DevInv, WorkerWorks, Adding, Deleting, InTxn
    <3>2. op[p].h \in Layers /\ own[op[p].h] = "creating" /\ ~file[op[p].h].deleted
      BY <1>2, <3>1, Adder
    <3> QED
      BY <3>2 DEF Kept, ActiveKept
  <2> QED
    BY <2>1, <2>2
<1>4. ASSUME UNCHANGED <<act, file, own>>, op'[p].pc \notin {"unregister", "closing"},
             \A q \in Procs \ {p} : op'[q] = op[q]
      PROVE  ActiveKept'
  BY <1>4, ActStays
<1>5. ASSUME act' = act, \A h \in Hashes \ {op[p].h} : file'[h] = file[h],
             NEW ok \in BOOLEAN, Return(p, ok)
      PROVE  ActiveKept'
  <2>1. /\ op'[p].pc \notin {"unregister", "closing"}
        /\ \A q \in Procs \ {p} : op'[q] = op[q] \/ op'[q].pc = "idle"
        /\ \A h \in Hashes : own'[h] = own[h] \/ h = op[p].h
    BY <1>2, <1>5, Leaves
  <2>2. \A h \in Hashes : act'[h].st # "off" =>
            act[h].st # "off" /\ act'[h].id = act[h].id /\ Kept(h)' /\ file'[h].id = file[h].id
    BY <1>3, <1>5, <2>1 DEF ActiveKept, Kept
  <2>3. ASSUME NEW q \in Procs, op'[q].pc \in {"unregister", "closing"}
        PROVE  q # p /\ op'[q] = op[q] /\ (q # Main => op[q].h # op[p].h /\ op[q].h \in Hashes)
    <3>1. q # p /\ op'[q] = op[q]
      BY <2>1, <2>3
    <3>2. op[q].pc \in Deleting
      BY <2>3, <3>1 DEF Deleting, InTxn
    <3>3. ASSUME q # Main PROVE op[q].h # op[p].h /\ op[q].h \in Hashes
      BY <1>2, <3>1, <3>2, <3>3, Deleter
    <3> QED
      BY <3>1, <3>3
  <2> QED
    BY <1>5, <2>2, <2>3, ActShrinks DEF ActiveKept
<1>6. CASE Add(p)
  <2>1. op' = [op EXCEPT ![p] = [op[p] EXCEPT !.pc = "make", !.id = next']]
    BY <1>1, <1>6 DEF Add, TypeOK
  <2>2. op'[p].pc = "make" /\ \A q \in Procs \ {p} : op'[q] = op[q]
    BY <1>1, <2>1 DEF TypeOK, OpRecord
  <2> QED
    BY <1>4, <1>6, <2>2 DEF Add, kernel
<1>7. CASE MakeExists(p)
  <2>1. op' = [op EXCEPT ![p] = [op[p] EXCEPT !.id = next']]
    BY <1>1, <1>7 DEF MakeExists, TypeOK
  <2>2. op'[p].pc = "make" /\ \A q \in Procs \ {p} : op'[q] = op[q]
    BY <1>1, <1>7, <2>1 DEF TypeOK, OpRecord, MakeExists, At
  <2> QED
    BY <1>4, <1>7, <2>2 DEF MakeExists, kernel
<1>8. CASE Make(p)
  BY <1>1, <1>4, <1>8, GoesOn DEF Make, disk
<1>9. CASE Register(p)
  <2>1. /\ act' = act /\ own' = own /\ \A h \in Hashes \ {op[p].h} : file'[h] = file[h]
        /\ op'[p].pc = "close" /\ \A q \in Procs \ {p} : op'[q] = op[q]
    BY <1>1, <1>9, GoesOn DEF Register, kernel, TypeOK
  <2>2. \A h \in Hashes : act'[h].st # "off" =>
            act[h].st # "off" /\ act'[h].id = act[h].id /\ Kept(h)' /\ file'[h].id = file[h].id
    BY <1>3, <2>1 DEF ActiveKept, Kept
  <2>3. \A q \in Procs : op'[q].pc \notin {"unregister", "closing"}
    <3>1. op[p].pc \in Taking
      BY <1>9 DEF Register, At, Taking
    <3> QED
      BY <2>1, <3>1, OneAtWork DEF InTxn
  <2> QED
    BY <2>1, <2>2, <2>3, ActShrinks DEF ActiveKept
<1>10. CASE AddFails(p) \/ MakeFails(p) \/ RegisterFails(p)
  BY <1>5, <1>10 DEF AddFails, MakeFails, RegisterFails, Undo, disk, kernel
<1>11. CASE CloseAdd(p)
  BY <1>5, <1>11 DEF CloseAdd
<1>12. CASE CloseAddFails(p)
  <2>1. act' = act /\ \A h \in Hashes \ {op[p].h} : file'[h] = file[h]
    BY <1>1, <1>12 DEF CloseAddFails, TypeOK
  <2> QED
    BY <1>5, <1>12, <2>1 DEF CloseAddFails, Undo
<1> QED
  BY <1>6, <1>7, <1>8, <1>9, <1>10, <1>11, <1>12 DEF AddStep

\* ActiveKept through the steps that delete one.
LEMMA DeleteStepActs ==
  ASSUME DevInv, ActiveKept, NEW p \in Procs, DeleteStep(p)
  PROVE  ActiveKept'
<1> USE Basics
<1>1. TypeOK /\ op[p] \in OpRecord /\ op \in [Procs -> OpRecord]
  BY OpTypes DEF DevInv, TypeOK
<1>2. op[p].pc \in Deleting
  BY DEF DeleteStep, Delete, DeleteBusy, DeleteFails, DeletePool, DeletePoolBusy, DeletePoolFails,
    Unregister, UnregisterFails, Mark, CloseDelete, At, Deleting, InTxn
<1>3. op[p].h \in Hashes /\ (p # Main => op[p].h \in Layers) /\ (p = Main => op[p].h = Base)
  BY <1>2, Deleter DEF DevInv, MainWorks
<1>4. act[Base].st = "off"
  BY DEF ActiveKept
<1>5. ASSUME UNCHANGED <<act, file, own>>, op'[p].pc # "unregister",
             op'[p].pc = "closing" => ~op'[p].ok,
             \A q \in Procs \ {p} : op'[q].pc = op[q].pc /\ op'[q].h = op[q].h /\ op'[q].ok = op[q].ok
      PROVE  ActiveKept'
  BY <1>5, ActStays
<1>6. ASSUME Delete(p) \/ DeleteFails(p), op'[p].pc \notin {"unregister", "closing"},
             \A q \in Procs \ {p} : op'[q] = op[q] \/ op'[q].pc = "idle",
             own' = own \/ (p \in Clients /\ own' = [own EXCEPT ![op[p].h] = "asked"])
      PROVE  ActiveKept'
  <2>1. file' = file /\ (act' = act \/ act' = [act EXCEPT ![op[p].h] = Deactivated(op[p].h, open[op[p].h])])
    BY <1>6 DEF Delete, DeleteFails, disk
  <2>2. /\ act' \in [Hashes -> [st : {"off", "on", "deferred"}, id : IDs]]
        /\ \A h \in Hashes : act'[h].st # "off" => act[h].st # "off" /\ act'[h].id = act[h].id
    BY <1>3, <2>1, DeactivatedIs DEF ActiveKept
  <2>3. \A h \in Hashes : Kept(h) => Kept(h)'
    BY <1>6, <2>1 DEF Kept, DevInv, TypeOK
  <2>4. lock = NoOne
    BY <1>6 DEF Delete, DeleteFails
  <2>5. \A q \in Procs : op'[q].pc \notin {"unregister", "closing"}
    BY <1>6, <2>4, LockFree DEF InTxn
  <2> QED
    BY <2>1, <2>2, <2>3, <2>5, ActShrinks DEF ActiveKept
<1>7. CASE Delete(p)
  <2>1. op' = [op EXCEPT ![p] = [op[p] EXCEPT !.pc = "pool", !.info = Found(p), !.id = Found(p).id]]
    BY <1>1, <1>7 DEF Delete
  <2>2. PICK i, n : i = Found(p) /\ n = Found(p).id
    OBVIOUS
  <2>3. PICK o : o = [op[p] EXCEPT !.pc = "pool", !.info = i, !.id = n]
    OBVIOUS
  <2>4. o.pc = "pool"
    BY <1>1, <2>3 DEF OpRecord
  <2>5. op'[p].pc = "pool" /\ \A q \in Procs \ {p} : op'[q] = op[q]
    BY <1>1, <2>1, <2>2, <2>3, <2>4
  <2> QED
    BY <1>6, <1>7, <2>5 DEF Delete
<1>8. CASE DeleteFails(p)
  <2>1. Return(p, FALSE) /\ op[p].pc \in {"delete", "busy"}
    BY <1>8 DEF DeleteFails, At
  <2>2. /\ op'[p].pc = "idle"
        /\ \A q \in Procs \ {p} : op'[q] = op[q] \/ op'[q].pc = "idle"
    BY <1>2, <2>1, Leaves
  <2>3. p \in Clients => op[p].at = op[p].h
    BY <1>2 DEF DevInv, ClientsWork
  <2>4. own' = own \/ (p \in Clients /\ own' = [own EXCEPT ![op[p].h] = "asked"])
    BY <2>1, <2>3 DEF Return
  <2> QED
    BY <1>6, <1>8, <2>2, <2>4
<1>9. CASE DeleteBusy(p)
  <2>1. op' = [op EXCEPT ![p] = [op[p] EXCEPT !.pc = "busy", !.info = Found(p)]]
    BY <1>1, <1>9 DEF DeleteBusy
  <2>2. PICK i : i = Found(p)
    OBVIOUS
  <2>3. PICK o : o = [op[p] EXCEPT !.pc = "busy", !.info = i]
    OBVIOUS
  <2>4. o.pc = "busy"
    BY <1>1, <2>3 DEF OpRecord
  <2>5. op'[p].pc = "busy" /\ \A q \in Procs \ {p} : op'[q] = op[q]
    BY <1>1, <2>1, <2>2, <2>3, <2>4
  <2> QED
    BY <1>5, <1>9, <2>5 DEF DeleteBusy, disk, kernel
<1>10. CASE DeletePool(p)
  <2>1. /\ UNCHANGED <<act, file, own>> /\ op'[p].pc = "unregister" /\ op'[p].h = op[p].h
        /\ \A q \in Procs \ {p} : op'[q] = op[q]
        /\ op[p].pc = "pool" /\ ~Active(op[p].id)
    BY <1>1, <1>10, GoesOn DEF DeletePool, disk, At
  <2>2. act[op[p].h].st = "off"
    <3>1. CASE p = Main
      BY <1>3, <1>4, <3>1
    <3>2. CASE p # Main
      <4>1. op[p].id = file[op[p].h].id
        BY <2>1, <3>2 DEF DevInv, Finds
      <4> QED
        BY <1>3, <2>1, <4>1 DEF Active, ActiveKept
    <3> QED
      BY <3>1, <3>2
  <2>3. \A h \in Hashes : Kept(h)' = Kept(h)
    BY <2>1 DEF Kept
  <2> QED
    BY <2>1, <2>2, <2>3, ActShrinks DEF ActiveKept
<1>11. CASE DeletePoolBusy(p)
  BY <1>1, <1>5, <1>11, GoesOn DEF DeletePoolBusy, disk, kernel
<1>12. CASE DeletePoolFails(p)
  BY <1>1, <1>5, <1>12, GoesClosing DEF DeletePoolFails, disk, kernel
<1>13. CASE UnregisterFails(p)
  BY <1>1, <1>5, <1>13, GoesForgetting DEF UnregisterFails, disk, kernel
<1>14. CASE Unregister(p) \/ Mark(p) \/ CloseDelete(p)
  <2>1. op[p].pc \in {"unregister", "mark", "closing"} /\ op[p].pc \in InTxn
    BY <1>14 DEF Unregister, Mark, CloseDelete, At, InTxn
  <2>2. \A q \in Procs \ {p} : op[q].pc \notin {"unregister", "closing"}
    BY <2>1, OneAtWork DEF InTxn
  <2>3. CASE Unregister(p)
    <3>1. /\ op'[p].pc = "closing" /\ op'[p].h = op[p].h
          /\ \A q \in Procs \ {p} : op'[q].pc = op[q].pc
          /\ act' = act /\ own' = own /\ file' = [file EXCEPT ![op[p].h] = NoInfo]
      BY <1>1, <2>3, GoesForgetting DEF Unregister, kernel
    <3>2. ~file'[op[p].h].in /\ \A h \in Hashes \ {op[p].h} : file'[h] = file[h]
      BY <1>1, <1>3, <3>1, IdleIs DEF TypeOK
    <3>3. act[op[p].h].st = "off"
      BY <2>3 DEF Unregister, At, ActiveKept
    <3>4. \A h \in Hashes \ {op[p].h} : Kept(h)' = Kept(h)
      BY <3>1, <3>2 DEF Kept
    <3> QED
      BY <2>2, <3>1, <3>2, <3>3, <3>4, ActShrinks DEF ActiveKept
  <2>4. CASE Mark(p)
    <3>1. p # Main /\ op[p].pc = "mark"
      BY <2>4 DEF Mark, At, DevInv, MainWorks
    <3>2. op[p].info.in /\ op[p].info = file[op[p].h]
      BY <3>1 DEF DevInv, Finds
    <3>3. act' = act /\ own' = own
      BY <2>4 DEF Mark, kernel
    <3>4. /\ op'[p].pc = "closing" /\ op'[p].h = op[p].h
          /\ \A q \in Procs \ {p} : op'[q] = op[q]
      BY <1>1, <2>4, GoesClosing DEF Mark
    <3>5. \A h \in Hashes \ {op[p].h} : file'[h] = file[h]
      BY <1>1, <2>4 DEF Mark, TypeOK
    <3>6. /\ file'[op[p].h].in /\ file'[op[p].h].id = file[op[p].h].id
          /\ file[op[p].h].deleted => file'[op[p].h].deleted
          /\ op'[p].ok => file'[op[p].h].deleted
      <4>1. file[op[p].h] \in InfoRecord
        BY <1>1, <1>3 DEF TypeOK
      <4>2. PICK i : i = file[op[p].h]
        OBVIOUS
      <4>3. PICK j : j = [i EXCEPT !.deleted = TRUE]
        OBVIOUS
      <4>4. j.in /\ j.deleted /\ j.id = i.id
        BY <3>2, <4>1, <4>2, <4>3 DEF InfoRecord
      <4>5. CASE file' = [file EXCEPT ![op[p].h] = [op[p].info EXCEPT !.deleted = TRUE]]
        <5>1. file'[op[p].h] = j
          BY <1>1, <1>3, <3>2, <4>2, <4>3, <4>5 DEF TypeOK
        <5> QED
          BY <4>2, <4>4, <5>1
      <4>6. CASE file' = file /\ Closing(p, op[p].info.deleted)
        BY <1>1, <3>2, <4>6, GoesClosing
      <4> QED
        BY <2>4, <4>5, <4>6 DEF Mark
    <3>7. \A h \in Hashes : Kept(h) => Kept(h)' /\ file'[h].id = file[h].id
      BY <3>3, <3>5, <3>6 DEF Kept
    <3> QED
      BY <2>2, <3>3, <3>4, <3>6, <3>7, ActShrinks DEF ActiveKept
  <2>5. CASE CloseDelete(p)
    <3>1. Return(p, op[p].ok) /\ act' = act /\ file' = file /\ op[p].pc = "closing"
      BY <2>5 DEF CloseDelete, At
    <3>2. /\ op'[p].pc \notin {"unregister", "closing"}
          /\ \A q \in Procs \ {p} : op'[q] = op[q] \/ op'[q].pc = "idle"
          /\ \A h \in Hashes : own'[h] = own[h] \/ (p \in Clients /\ h = op[p].h)
          /\ p \in Clients => own'[op[p].h] = IF op[p].at = op[p].h THEN IF op[p].ok THEN "gone" ELSE "asked"
                                              ELSE IF op[p].ok THEN "live" ELSE "gone"
      BY <1>1, <1>2, <3>1, Leaves, OpTypes
    <3>3. p \in Clients => op[p].at = op[p].h
      BY <1>2 DEF DevInv, ClientsWork
    <3>4. p \in Clients /\ op[p].ok => ~file[op[p].h].in \/ file[op[p].h].deleted
      BY <3>1 DEF ActiveKept
    <3>5. \A h \in Hashes : Kept(h) => Kept(h)'
      BY <3>1, <3>2, <3>3, <3>4 DEF Kept
    <3> QED
      BY <2>2, <3>1, <3>2, <3>5, ActShrinks DEF ActiveKept
  <2> QED
    BY <1>14, <2>3, <2>4, <2>5
<1> QED
  BY <1>7, <1>8, <1>9, <1>10, <1>11, <1>12, <1>13, <1>14 DEF DeleteStep

\* The device of a transaction that is rolled back is nobody's.
LEMMA RolledBack ==
  ASSUME DevInv, op[Main].pc = "rollback", NEW h \in Layers, Kept(h)
  PROVE  h # txn.h
<1> USE Basics DEF DevInv
<1>1. /\ txn.ahead /\ mode = "starting" /\ op[Worker].pc = "idle"
      /\ \A p \in Clients : op[p].pc = "idle"
  BY IdleIs DEF MainWorks, ClientsWork
<1>2. \A p \in Procs : op[p].pc \notin InTxn
  BY <1>1 DEF InTxn
<1>3. config.stops # 0
  BY <1>1 DEF BaseDevice, Young, Kept
<1> QED
  BY <1>1, <1>2, <1>3 DEF Open, Kept

\* ActiveKept through mounts.
LEMMA MountActs ==
  ASSUME DevInv, ActiveKept, NEW h \in Layers,
         MountDevice(h) \/ UnmountDevice(h) \/ Copied(h) \/ Closed(h)
  PROVE  ActiveKept'
<1> USE Basics
<1>1. h \in Hashes /\ file' = file /\ own' = own /\ op' = op /\ \A g \in Hashes : Kept(g)' = Kept(g)
  BY DEF MountDevice, UnmountDevice, Copied, Closed, disk, Kept
<1>2. CASE MountDevice(h)
  <2>1. own[h] = "live" /\ lock = NoOne
    BY <1>2 DEF MountDevice
  <2>2. file[h].in /\ Lookup(h) = file[h] /\ Kept(h) /\ file[h].id \in IDs
    BY <1>1, <2>1, LookupIs, FileIDs DEF DevInv, Numbers, Kept
  <2>3. PICK n : n = IF act[h].st = "off" THEN Lookup(h).id ELSE act[h].id
    OBVIOUS
  <2>4. n = file[h].id /\ n \in IDs
    BY <1>1, <2>2, <2>3 DEF ActiveKept
  <2>5. PICK a : a = [st |-> "on", id |-> n]
    OBVIOUS
  <2>6. a \in [st : {"off", "on", "deferred"}, id : IDs] /\ a.id = n
    BY <2>4, <2>5
  <2>7. act' = [act EXCEPT ![h] = a]
    BY <1>2, <2>3, <2>5 DEF MountDevice
  <2>8. act'[h] = a /\ \A g \in Hashes \ {h} : act'[g] = act[g]
    BY <1>1, <2>7 DEF ActiveKept
  <2>9. act' \in [Hashes -> [st : {"off", "on", "deferred"}, id : IDs]]
    BY <1>1, <2>6, <2>7 DEF ActiveKept
  <2>10. \A p \in Procs : op'[p].pc \notin {"unregister", "closing"}
    BY <1>1, <2>1, LockFree DEF DevInv, InTxn
  <2>11. ASSUME NEW g \in Hashes, act'[g].st # "off"
         PROVE  g \in Layers /\ Kept(g) /\ act'[g].id = file[g].id
    BY <2>2, <2>4, <2>6, <2>8, <2>11 DEF ActiveKept
  <2> QED
    BY <1>1, <2>9, <2>10, <2>11 DEF ActiveKept
<1>3. CASE UnmountDevice(h) \/ Copied(h) \/ Closed(h)
  <2>1. act' = act \/ (\E s : act' = [act EXCEPT ![h] = Deactivated(h, s)]) \/ act' = [act EXCEPT ![h] = Off]
    <3>1. CASE UnmountDevice(h)
      BY <3>1 DEF UnmountDevice
    <3>2. CASE Copied(h)
      BY <3>2 DEF Copied
    <3>3. CASE Closed(h)
      <4>1. act' = [act EXCEPT ![h] = IF act[h].st = "deferred" /\ open'[h] = {} THEN Off ELSE act[h]]
        BY <3>3 DEF Closed
      <4> QED
        BY <1>1, <4>1 DEF ActiveKept
    <3> QED
      BY <1>3, <3>1, <3>2, <3>3
  <2>2. Off \in [st : {"off", "on", "deferred"}, id : IDs] /\ Off.st = "off"
    BY SomeIDs DEF Off
  <2>3. /\ act' \in [Hashes -> [st : {"off", "on", "deferred"}, id : IDs]]
        /\ \A g \in Hashes : act'[g].st # "off" => act[g].st # "off" /\ act'[g].id = act[g].id
        /\ act[h].st = "off" => act'[h].st = "off"
    BY <1>1, <2>1, <2>2, DeactivatedIs DEF ActiveKept
  <2>4. \A p \in Procs : op[p].pc = "unregister" => op[p].h \in Hashes
    BY OnLayers DEF DevInv, MainWorks, Deleting, InTxn
  <2>5. ASSUME NEW g \in Hashes, act'[g].st # "off"
        PROVE  g \in Layers /\ Kept(g)' /\ act'[g].id = file'[g].id
    BY <1>1, <2>3, <2>5 DEF ActiveKept
  <2>6. ASSUME NEW p \in Procs, op'[p].pc = "unregister"
        PROVE  act'[op'[p].h].st = "off"
    <3>1. op[p].h \in Hashes /\ act[op[p].h].st = "off" /\ op'[p].h = op[p].h
      BY <1>1, <2>4, <2>6 DEF ActiveKept
    <3> QED
      BY <2>3, <3>1
  <2>7. \A p \in Procs \ {Main} :
          op'[p].pc = "closing" /\ op'[p].ok => ~file'[op'[p].h].in \/ file'[op'[p].h].deleted
    BY <1>1 DEF ActiveKept
  <2> QED
    BY <2>3, <2>5, <2>6, <2>7 DEF ActiveKept
<1> QED
  BY <1>2, <1>3

\* ActiveKept when a call begins.
LEMMA ClientActs ==
  ASSUME DevInv, ActiveKept, NEW p \in Clients, NEW h \in Layers,
         Remove(p, h) \/ \E b \in Hashes \ {h} : Create(p, h, b)
  PROVE  ActiveKept'
<1> USE Basics
<1>1. h \in Hashes /\ p \in Procs /\ TypeOK
  BY DEF DevInv
<1>2. CASE Remove(p, h)
  <2>1. act' = act /\ file' = file /\ own[h] \in {"live", "asked"}
    BY <1>2 DEF Remove, disk, kernel
  <2>2. CASE Lookup(h).in
    <3>1. Find(p, h) /\ own' = [own EXCEPT ![h] = "asked"]
      BY <1>2, <2>2 DEF Remove
    <3>2. op'[p].pc = "delete" /\ \A q \in Procs \ {p} : op'[q] = op[q]
      BY <1>1, <3>1, Finding
    <3>3. \A g \in Hashes : own'[g] = own[g] \/ own'[g] = "asked"
      BY <1>1, <3>1 DEF TypeOK
    <3> QED
      BY <1>1, <2>1, <3>2, <3>3, ActStays
  <2>3. CASE ~Lookup(h).in
    <3>1. op' = op /\ own' = [own EXCEPT ![h] = "gone"] /\ ~file[h].in
      BY <1>2, <2>1, <2>3, LookupIs DEF Remove
    <3>2. \A g \in Layers : Kept(g) => own'[g] = own[g]
      BY <1>1, <3>1 DEF Kept, TypeOK
    <3> QED
      BY <2>1, <3>1, <3>2, ActStays
  <2> QED
    BY <2>2, <2>3
<1>3. ASSUME NEW b \in Hashes \ {h}, Create(p, h, b)
      PROVE  ActiveKept'
  <2>1. act' = act /\ file' = file /\ own[h] \in {"new", "gone"} /\ ~file[h].in
    BY <1>3 DEF Create, Fresh, disk, kernel
  <2>2. \A g \in Layers : Kept(g) => own'[g] = own[g]
    BY <1>1, <1>3, <2>1 DEF Kept, TypeOK, Create
  <2>3. op' = op \/ (op'[p].pc = "add" /\ \A q \in Procs \ {p} : op'[q] = op[q])
    <3>1. CASE Lookup(b).in /\ ~Lookup(b).deleted
      <4>1. op' = [op EXCEPT ![p] = [Idle EXCEPT !.pc = "add", !.h = h, !.at = b]]
        BY <1>3, <3>1 DEF Create
      <4>2. b \in Hashes \cup {NoOne}
        BY <1>3
      <4> QED
        BY <1>1, <4>1, <4>2, AddBegins
    <3>2. CASE ~(Lookup(b).in /\ ~Lookup(b).deleted)
      BY <1>3, <3>2 DEF Create
    <3> QED
      BY <3>1, <3>2
  <2> QED
    BY <2>1, <2>2, <2>3, ActStays
<1> QED
  BY <1>2, <1>3

\* ActiveKept through the rounds of the worker.
LEMMA CleanActs ==
  ASSUME DevInv, ActiveKept, Clean
  PROVE  ActiveKept'
<1> USE Basics
<1>1. UNCHANGED <<act, file, own>> /\ TypeOK /\ op[Worker] \in OpRecord /\ op \in [Procs -> OpRecord]
  BY OpTypes DEF Clean, Tick, TickDelete, disk, kernel, DevInv, TypeOK
<1>2. /\ (op'[Worker].pc = op[Worker].pc /\ op[Worker].pc = "idle") \/ op'[Worker].pc = "delete"
      /\ \A q \in Procs \ {Worker} : op'[q] = op[q]
  <2>1. CASE Tick
    <3>1. PICK s : s = {h \in Hashes : devs[h].in /\ devs[h].deleted}
      OBVIOUS
    <3>2. op' = [op EXCEPT ![Worker] = [op[Worker] EXCEPT !.todo = s]] /\ op[Worker].pc = "idle"
      BY <1>1, <2>1, <3>1 DEF Tick, At
    <3> QED
      BY <1>1, <3>2 DEF OpRecord
  <2>2. ASSUME NEW h \in Hashes, TickDelete(h)
        PROVE  /\ \/ op'[Worker].pc = op[Worker].pc /\ op[Worker].pc = "idle"
                  \/ op'[Worker].pc = "delete"
               /\ \A q \in Procs \ {Worker} : op'[q] = op[q]
    <3>1. CASE Lookup(h).in
      BY <1>1, <2>2, <3>1, Finding DEF TickDelete
    <3>2. CASE ~Lookup(h).in
      <4>1. PICK s : s = op[Worker].todo \ {h}
        OBVIOUS
      <4>2. op' = [op EXCEPT ![Worker] = [op[Worker] EXCEPT !.todo = s]] /\ op[Worker].pc = "idle"
        BY <1>1, <2>2, <3>2, <4>1 DEF TickDelete, At
      <4> QED
        BY <1>1, <4>2 DEF OpRecord
    <3> QED
      BY <3>1, <3>2
  <2> QED
    BY <2>1, <2>2 DEF Clean
<1> QED
  BY <1>1, <1>2, ActStays

\* ActiveKept through the start: what is rolled back was never active.
LEMMA StartActs ==
  ASSUME DevInv, ActiveKept, Start
  PROVE  ActiveKept'
<1> USE Basics
<1>1. act' = act /\ own' = own /\ TypeOK
  BY DEF Start, Load, Rollback, Setup, SetupCreate, SetupInit, kernel, DevInv
<1>2. \A p \in Procs \ {Main} : op'[p] = op[p] \/ op'[p].pc = "idle"
  <2>1. CASE Load \/ Rollback
    BY <1>1, <2>1 DEF Load, Rollback, Goto, TypeOK
  <2>2. CASE Setup
    BY <1>1, <2>2, Finding, GoesOn, IdleIs DEF Setup, Die, TypeOK
  <2>3. CASE SetupCreate \/ SetupInit
    BY <1>1, <2>3, IdleIs DEF SetupCreate, SetupInit, Die, TypeOK
  <2> QED
    BY <2>1, <2>2, <2>3 DEF Start
<1>3. op'[Main].pc # "unregister"
  <2>1. CASE Load
    <3>1. PICK pc \in {"rollback", "setup"} : op' = [op EXCEPT ![Main].pc = pc]
      BY <2>1 DEF Load
    <3> QED
      BY <1>1, <3>1, GoesOn DEF Goto
  <2>2. CASE Rollback
    BY <1>1, <2>2, GoesOn DEF Rollback
  <2>3. CASE Setup
    BY <1>1, <2>3, Finding, GoesOn, IdleIs DEF Setup, Die, TypeOK
  <2>4. CASE SetupCreate
    <3>1. op' = [op EXCEPT ![Main] = [Idle EXCEPT !.pc = "add", !.h = Base]]
      BY <2>4 DEF SetupCreate
    <3> QED
      BY <1>1, <3>1, IdleIs DEF TypeOK, Idle
  <2>5. CASE SetupInit
    BY <1>1, <2>5, IdleIs DEF SetupInit, Die, TypeOK
  <2> QED
    BY <2>1, <2>2, <2>3, <2>4, <2>5 DEF Start
<1>4. CASE file' = file
  <2>1. \A h \in Hashes : Kept(h)' = Kept(h)
    BY <1>1, <1>4 DEF Kept
  <2> QED
    BY <1>1, <1>2, <1>3, <1>4, <2>1, ActShrinks DEF ActiveKept
<1>5. CASE Rollback
  <2>1. \A h \in Hashes : h # txn.h => file'[h] = file[h]
    BY <1>1, <1>5 DEF Rollback, TypeOK
  <2>2. \A h \in Layers : Kept(h) => h # txn.h
    BY <1>5, RolledBack DEF Rollback, At
  <2>3. op[Main].pc = "rollback"
    BY <1>5 DEF Rollback, At
  <2>4. op[Worker].pc = "idle" /\ \A p \in Clients : op[p].pc = "idle"
    BY <2>3, IdleIs DEF DevInv, MainWorks, ClientsWork
  <2>5. \A h \in Layers : Kept(h) => Kept(h)' /\ file'[h] = file[h]
    BY <1>1, <2>1, <2>2 DEF Kept
  <2>6. \A p \in Procs \ {Main} : op'[p].pc = "idle"
    BY <1>2, <2>4
  <2> QED
    BY <1>1, <1>3, <2>5, <2>6, ActShrinks DEF ActiveKept
<1>6. CASE SetupInit
  <2>1. \A h \in Layers : file'[h] = file[h]
    BY <1>1, <1>6 DEF SetupInit, TypeOK
  <2>2. \A h \in Layers : Kept(h)' = Kept(h)
    BY <1>1, <2>1 DEF Kept
  <2>3. lock = NoOne
    BY <1>6 DEF SetupInit
  <2>4. \A p \in Procs \ {Main} : op'[p].pc \notin {"unregister", "closing"}
    BY <1>2, <2>3, LockFree DEF InTxn
  <2> QED
    BY <1>1, <1>3, <2>1, <2>2, <2>4, ActShrinks DEF ActiveKept
<1> QED
  BY <1>4, <1>5, <1>6 DEF Start, Load, Setup, SetupCreate, disk

\* ActiveKept when the daemon ends.
LEMMA StopActs ==
  ASSUME DevInv, ActiveKept, Crash \/ Shutdown
  PROVE  ActiveKept'
<1>1. file' = file /\ \A p \in Procs : op'[p].pc = "idle"
  BY IdleIs DEF Crash, Shutdown, Die, disk
<1>2. \A h \in Hashes : Kept(h) => Kept(h)'
  BY <1>1 DEF Crash, Shutdown, Kept
<1>3. /\ act' \in [Hashes -> [st : {"off", "on", "deferred"}, id : IDs]]
      /\ \A g \in Hashes : act'[g].st # "off" => act[g].st # "off" /\ act'[g].id = act[g].id
  <2>1. CASE Crash
    BY <2>1 DEF Crash, kernel, ActiveKept
  <2>2. CASE Shutdown
    <3>1. act' = [h \in Hashes |-> IF config.deferred \/ open'[h] = {} THEN Deactivated(h, open'[h]) ELSE act[h]]
      BY <2>2 DEF Shutdown
    <3>2. ASSUME NEW g \in Hashes
          PROVE  /\ act'[g] \in [st : {"off", "on", "deferred"}, id : IDs]
                 /\ act'[g].st # "off" => act[g].st # "off" /\ act'[g].id = act[g].id
      BY <3>1, DeactivatedIs DEF ActiveKept
    <3> QED
      BY <3>1, <3>2
  <2> QED
    BY <2>1, <2>2
<1> QED
  BY <1>1, <1>2, <1>3, ActShrinks DEF ActiveKept

\* Every step keeps ActiveKept.
LEMMA ActStep ==
  ASSUME DevInv, ActiveKept, [Next]_vars
  PROVE  ActiveKept'
<1>1. CASE UNCHANGED vars
  BY <1>1 DEF vars, disk, kernel, ActiveKept, Kept
<1> QED
  BY <1>1, AddStepActs, DeleteStepActs, MountActs, ClientActs, CleanActs, StartActs,
    StopActs DEF Next

\* In the beginning nothing is active.
LEMMA InitActs == Init => ActiveKept
<1>1. Off \in [st : {"off", "on", "deferred"}, id : IDs] /\ Off.st = "off"
  BY SomeIDs DEF Off
<1> QED
  BY <1>1, IdleIs DEF Init, ActiveKept

\* Who is at work is at work on a device.
LEMMA AtWork ==
  ASSUME DevInv, NEW p \in Procs, op[p].pc \in Adding \cup Deleting
  PROVE  /\ mode # "down" /\ op[Main].pc # "rollback"
         /\ op[p].h \in Hashes /\ op[p].id \in IDs
         /\ p # Main /\ op[p].pc # "add" => op[Main].pc \in {"idle", "setup"}
<1> USE Basics
<1>1. op[p].pc # "idle" /\ op[p].id \in IDs
  BY OpTypes DEF Adding, Deleting, InTxn, DevInv
<1>2. CASE p = Main
  <2>1. mode = "starting" /\ op[Main].pc # "rollback"
    BY <1>1, <1>2 DEF DevInv, MainWorks, Adding, Deleting, InTxn
  <2>2. op[p].h \in Hashes
    BY <1>2 DEF DevInv, MainWorks
  <2> QED
    BY <1>1, <1>2, <2>1, <2>2
<1>3. CASE p # Main
  <2>1. op[p].h \in Hashes
    BY <1>1, <1>3, OnLayers
  <2>2. CASE op[p].pc \in Deleting
    BY <1>1, <1>3, <2>1, <2>2, Deleter
  <2>3. CASE op[p].pc \in Adding
    <3>1. p \in Clients
      BY <1>3, <2>3 DEF DevInv, WorkerWorks, Adding, Deleting, InTxn
    <3> QED
      BY <1>1, <2>1, <2>3, <3>1, Adder
  <2> QED
    BY <2>2, <2>3
<1> QED
  BY <1>2, <1>3

\* Who holds the lock is the only one with a number.
LEMMA Alone ==
  ASSUME DevInv, NEW p \in Procs, op[p].pc \in Taking \cup InTxn
  PROVE  /\ \A q \in Procs \ {p} : op[q].pc \notin Numbered
         /\ \A i : CallHas(i) => op[p].pc \in WithNumber /\ op[p].id = i
         /\ mode # "down" /\ op[Main].pc # "rollback"
         /\ op[p].h \in Hashes /\ op[p].id \in IDs
         /\ p # Main => op[Main].pc \in {"idle", "setup"}
<1>1. \A q \in Procs \ {p} : op[q].pc \notin Numbered
  BY OneAtWork DEF Numbered, WithNumber, Taking, InTxn
<1>2. op[p].pc \in Adding \cup Deleting /\ op[p].pc # "add"
  BY DEF Adding, Deleting, Taking, InTxn
<1> QED
  BY <1>1, <1>2, AtWork DEF CallHas, Numbered

\* While nobody holds it nobody has one.
LEMMA Nobody ==
  ASSUME DevInv, lock = NoOne
  PROVE  (\A q \in Procs : op[q].pc \notin Numbered) /\ (\A i : ~CallHas(i))
  BY LockFree DEF CallHas, Numbered, WithNumber, Taking, InTxn

\* Steps that are not about numbers.
LEMMA Quiet ==
  ASSUME NumInv, UNCHANGED <<used, pool, txn>>,
         \A h \in Hashes : file'[h].in = file[h].in /\ file'[h].id = file[h].id,
         mode' # "down" => mode # "down",
         (mode = "down" \/ op[Main].pc = "rollback") =>
             (mode' = "down" \/ op'[Main].pc = "rollback"),
         \A q \in Procs : op[q].pc \in WithNumber \/ op'[q].pc \in Numbered =>
             op'[q].pc = op[q].pc /\ op'[q].h = op[q].h /\ op'[q].id = op[q].id,
         \A q \in Procs : op'[q].pc \in Numbered => op'[q].h \in Hashes,
         BaseNumber'
  PROVE  NumInv'
<1>1. \A i : FileHas(i)' = FileHas(i)
  BY DEF FileHas
<1>2. \A i : CallHas(i)' = CallHas(i)
  BY DEF CallHas, Numbered
<1>3. \A i : Recorded(i)' = Recorded(i)
  BY <1>1, <1>2 DEF Recorded
<1>4. Distinct' /\ FilesMarked' /\ OpenNumber'
  BY DEF NumInv, Distinct, FilesMarked, OpenNumber
<1>5. MarkedRecorded'
  BY <1>3 DEF NumInv, MarkedRecorded
<1>6. PoolRecorded'
  BY <1>3 DEF NumInv, PoolRecorded
<1>7. ASSUME NEW q \in Procs, op'[q].pc \in Numbered
      PROVE  LET o == op'[q]
             IN /\ o.pc \in Taking => o.id \in used' /\ txn' = [ahead |-> TRUE, h |-> o.h, id |-> o.id]
                /\ o.pc \in {"make", "register"} => \A g \in Hashes : file'[g].in => file'[g].id # o.id
                /\ o.pc = "close" => file'[o.h].in /\ file'[o.h].id = o.id
                /\ o.pc \in {"make", "unregister"} => pool'[o.id] = NoOne
                /\ o.pc \in {"pool", "unregister"} /\ file'[o.h].in => o.id = file'[o.h].id
                /\ o.pc = "unregister" => file'[o.h].in
  <2>1. op'[q].pc = op[q].pc /\ op'[q].h = op[q].h /\ op'[q].id = op[q].id /\ op'[q].h \in Hashes
    BY <1>7
  <2> QED
    BY <2>1 DEF NumInv, UnderWay
<1>8. UnderWay'
  BY <1>7 DEF UnderWay, Numbered, WithNumber, Taking
<1> QED
  BY <1>4, <1>5, <1>6, <1>8 DEF NumInv

\* A number n, which is at most in the file of h, is given back.
LEMMA GivenBack ==
  ASSUME NumInv, NEW h \in Hashes, NEW n \in IDs, mode # "down",
         \A i : CallHas(i) => i = n,
         op[Main].pc = "rollback" /\ txn.ahead => txn.id = n,
         \A g \in Hashes : file[g].in => (g = h <=> file[g].id = n),
         ~file'[h].in, \A g \in Hashes \ {h} : file'[g] = file[g],
         used' = used \ {n},
         \A i \in IDs : pool'[i] # NoOne => pool[i] # NoOne /\ i # n,
         \A q \in Procs : op'[q].pc \notin Numbered,
         txn' = txn \/ ~txn'.ahead,
         BaseNumber'
  PROVE  NumInv'
<1>1. ASSUME NEW i, i # n, Recorded(i)
      PROVE  FileHas(i)'
  <2>1. PICK g \in Hashes : file[g].in /\ file[g].id = i
    BY <1>1 DEF Recorded, FileHas
  <2>2. g # h
    BY <1>1, <2>1
  <2> QED
    BY <2>1, <2>2 DEF FileHas
<1>2. \A g \in Hashes : file'[g].in => file[g].in /\ g # h /\ file'[g] = file[g] /\ file[g].id # n
  OBVIOUS
<1>3. Distinct' /\ OpenNumber'
  BY <1>2 DEF NumInv, Distinct, OpenNumber
<1>4. FilesMarked'
  BY <1>2 DEF NumInv, FilesMarked
<1>5. MarkedRecorded'
  BY <1>1 DEF NumInv, MarkedRecorded, Recorded
<1>6. PoolRecorded'
  BY <1>1 DEF NumInv, PoolRecorded, Recorded
<1>7. UnderWay'
  BY DEF UnderWay, Numbered, WithNumber, Taking
<1> QED
  BY <1>3, <1>4, <1>5, <1>6, <1>7 DEF NumInv

\* The daemon ends: the number under way is that of the open transaction.
LEMMA NumDies ==
  ASSUME NumInv, Die, UNCHANGED <<devs, file, txn, pool>>
  PROVE  NumInv'
<1>1. mode' = "down" /\ (\A q \in Procs : op'[q].pc = "idle") /\ op'[Main].pc = "idle"
  BY IdleIs, Basics DEF Die
<1>2. Distinct' /\ FilesMarked' /\ MarkedRecorded' /\ OpenNumber'
  BY <1>1 DEF NumInv, Distinct, FilesMarked, MarkedRecorded, OpenNumber
<1>3. ASSUME NEW i \in IDs, pool'[i] # NoOne
      PROVE  Recorded(i)' \/ (txn'.ahead /\ txn'.id = i)
  <2>1. Recorded(i) \/ (txn.ahead /\ txn.id = i)
    BY <1>3 DEF NumInv, PoolRecorded
  <2>2. CASE FileHas(i)
    BY <2>2 DEF Recorded, FileHas
  <2>3. CASE CallHas(i)
    <3>1. PICK q \in Procs : op[q].pc \in WithNumber /\ op[q].id = i
      BY <2>3 DEF CallHas
    <3>2. op[q].pc # "unregister"
      BY <1>3, <3>1 DEF NumInv, UnderWay
    <3>3. txn = [ahead |-> TRUE, h |-> op[q].h, id |-> op[q].id]
      BY <3>1, <3>2 DEF NumInv, UnderWay, WithNumber, Taking
    <3> QED
      BY <3>1, <3>3
  <2> QED
    BY <2>1, <2>2, <2>3 DEF Recorded
<1>4. PoolRecorded'
  BY <1>1, <1>3 DEF PoolRecorded
<1>5. UnderWay'
  BY <1>1 DEF UnderWay, Taking
<1>6. BaseNumber'
  BY <1>1 DEF NumInv, BaseNumber
<1> QED
  BY <1>2, <1>4, <1>5, <1>6 DEF NumInv

\* The entry of the base device when others are at work.
LEMMA BaseStays ==
  ASSUME BaseNumber, op'[Main] = op[Main], file'[Base].in = file[Base].in,
         file'[Base].id = file[Base].id,
         devs'[Base] = devs[Base] \/ devs'[Base] = Lookup(Base)
  PROVE  BaseNumber'
  BY DEF BaseNumber, Lookup

\* The entry of the base device when a call ends.
LEMMA BaseLeft ==
  ASSUME DevInv, BaseNumber, NEW p \in Procs, op[p].pc \in Adding \cup Deleting,
         NEW ok \in BOOLEAN, Return(p, ok),
         devs'[Base].in /\ file'[Base].in => devs'[Base].id = file'[Base].id,
         p = Main /\ ok /\ op[Main].at # op[Main].h => file'[Base].in,
         p # Main => op[Main].pc \in {"idle", "setup"} \/ (devs' = devs /\ file' = file)
  PROVE  BaseNumber'
<1> USE Basics
<1>1. CASE p = Main
  <2>1. op'[Main].pc \in {"idle", "create", "init"}
        /\ (op'[Main].pc = "init" => ok /\ op[Main].at # op[Main].h)
    BY <1>1, Leaves
  <2> QED
    BY <1>1, <2>1 DEF BaseNumber
<1>2. CASE p # Main
  <2>1. op'[Main] = op[Main] \/ (op'[Main].pc = "idle" /\ op[Main].pc = "idle")
    BY <1>2, Leaves
  <2> QED
    BY <1>2, <2>1 DEF BaseNumber
<1> QED
  BY <1>1, <1>2

\* A call ends that had no number.
LEMMA ReturnsQuietly ==
  ASSUME DevInv, NumInv, NEW p \in Procs, op[p].pc \in (Adding \cup Deleting) \ WithNumber,
         NEW ok \in BOOLEAN, Return(p, ok),
         UNCHANGED <<devs, file, used, pool, txn>>,
         p = Main => ~ok
  PROVE  NumInv'
<1> USE Basics
<1>1. CASE p = Main
  BY <1>1, NumDies DEF Return
<1>2. CASE p # Main
  <2>1. /\ op'[p].pc = "idle" /\ mode' = mode /\ mode # "down" /\ op[Main].pc # "rollback"
        /\ \A q \in Procs \ {p} : op'[q] = op[q] \/ (op'[q].pc = "idle" /\ op[q].pc = "idle")
    BY <1>2, Leaves
  <2>2. \A q \in Procs : op[q].pc \in WithNumber \/ op'[q].pc \in Numbered =>
             op'[q].pc = op[q].pc /\ op'[q].h = op[q].h /\ op'[q].id = op[q].id
    BY <2>1 DEF Numbered, WithNumber
  <2>3. \A q \in Procs : op'[q].pc \in Numbered => op'[q].h \in Hashes
    <3>1. \A q \in Procs : op[q].pc \in Numbered => op[q].h \in Hashes
      BY AtWork DEF Numbered, WithNumber, Adding, Deleting, InTxn
    <3> QED
      BY <2>1, <3>1 DEF Numbered, WithNumber
  <2>4. BaseNumber'
    BY <1>2, BaseLeft DEF NumInv, BaseNumber
  <2> QED
    BY <2>1, <2>2, <2>3, <2>4, Quiet
<1> QED
  BY <1>1, <1>2

\* A number is taken that nobody has.
LEMMA AddTakes ==
  ASSUME DevInv, NumInv, NEW p \in Procs, Add(p)
  PROVE  NumInv'
<1> USE Basics
<1>1. /\ op[p].pc = "add" /\ lock = NoOne /\ TypeOK /\ next \in IDs /\ FreeSteps # {}
      /\ op \in [Procs -> OpRecord] /\ op[p] \in OpRecord
  BY OpTypes DEF Add, At, DevInv, TypeOK
<1>2. mode # "down" /\ op[Main].pc # "rollback" /\ op[p].h \in Hashes
  BY <1>1, AtWork DEF Adding
<1>3. (\A q \in Procs : op[q].pc \notin Numbered) /\ (\A i : ~CallHas(i))
  BY <1>1, Nobody
<1>4. PICK n : n = next'
  OBVIOUS
<1>5. n \in IDs /\ n \notin used
  BY <1>1, <1>4, FreeNumber DEF Add
<1>6. /\ UNCHANGED <<mode, devs, file, pool>> /\ used' = used \cup {n}
      /\ txn' = [ahead |-> TRUE, h |-> op[p].h, id |-> n] /\ ~Lookup(op[p].h).in
  BY <1>4 DEF Add, SaveTransaction, kernel
<1>7. op'[p].pc = "make" /\ op'[p].h = op[p].h /\ op'[p].id = n
      /\ \A q \in Procs \ {p} : op'[q] = op[q]
  <2>1. op' = [op EXCEPT ![p] = [op[p] EXCEPT !.pc = "make", !.id = n]]
    BY <1>1, <1>4 DEF Add
  <2> QED
    BY <1>1, <1>5, <2>1 DEF OpRecord
<1>8. ~file[op[p].h].in
  BY <1>6 DEF Lookup
<1>9. \A h \in Hashes : file[h].in => file[h].id # n
  BY <1>2, <1>5 DEF NumInv, FilesMarked
<1>10. pool[n] = NoOne
  <2> SUFFICES ASSUME pool[n] # NoOne PROVE FALSE
    OBVIOUS
  <2>1. FileHas(n)
    BY <1>2, <1>3, <1>5 DEF NumInv, PoolRecorded, Recorded
  <2> QED
    BY <1>9, <2>1 DEF FileHas
<1>11. \A i : FileHas(i)' = FileHas(i)
  BY <1>6 DEF FileHas
<1>12. Distinct' /\ FilesMarked'
  BY <1>6 DEF NumInv, Distinct, FilesMarked
<1>13. MarkedRecorded'
  <2>1. CallHas(n)'
    BY <1>7 DEF CallHas, WithNumber
  <2> QED
    BY <1>2, <1>3, <1>6, <1>11, <2>1 DEF NumInv, MarkedRecorded, Recorded
<1>14. PoolRecorded'
  BY <1>2, <1>3, <1>6, <1>11 DEF NumInv, PoolRecorded, Recorded
<1>15. UnderWay'
  BY <1>3, <1>6, <1>7, <1>9, <1>10 DEF UnderWay, Numbered, WithNumber, Taking
<1>16. OpenNumber'
  BY <1>2, <1>6, <1>8, <1>9 DEF OpenNumber
<1>17. BaseNumber'
  <2>1. CASE p = Main
    BY <1>6, <1>7, <2>1 DEF NumInv, BaseNumber
  <2>2. CASE p # Main
    BY <1>6, <1>7, <2>2 DEF NumInv, BaseNumber
  <2> QED
    BY <2>1, <2>2
<1> QED
  BY <1>12, <1>13, <1>14, <1>15, <1>16, <1>17 DEF NumInv

\* The pool has the device before its file is written.
LEMMA MakeTakes ==
  ASSUME DevInv, NumInv, NEW p \in Procs, Make(p)
  PROVE  NumInv'
<1> USE Basics
<1>1. op[p].pc = "make" /\ op[p].pc \in Taking /\ TypeOK
  BY DEF Make, At, Taking, DevInv
<1>2. /\ op'[p].pc = "register" /\ op'[p].h = op[p].h /\ op'[p].id = op[p].id
      /\ \A q \in Procs \ {p} : op'[q] = op[q]
  BY <1>1, GoesOn DEF Make
<1>3. /\ \A q \in Procs \ {p} : op[q].pc \notin Numbered
      /\ \A i : CallHas(i) => op[p].id = i
      /\ mode # "down" /\ op[Main].pc # "rollback" /\ op[p].id \in IDs
  BY <1>1, Alone
<1>4. /\ UNCHANGED <<mode, devs, file, used, txn>>
      /\ pool' = [pool EXCEPT ![op[p].id] = op[p].h]
  BY DEF Make, memory, disk
<1>5. \A i \in IDs : i # op[p].id => pool'[i] = pool[i]
  BY <1>1, <1>4 DEF TypeOK
<1>6. PICK n : n = op[p].id
  OBVIOUS
<1>7. CallHas(n)'
  BY <1>2, <1>6 DEF CallHas, WithNumber
<1>8. /\ \A i : Recorded(i) => Recorded(i)'
      /\ Distinct' /\ FilesMarked' /\ MarkedRecorded' /\ OpenNumber'
  <2>1. \A i : FileHas(i)' = FileHas(i)
    BY <1>4 DEF FileHas
  <2>2. \A i : Recorded(i) => Recorded(i)'
    BY <1>3, <1>6, <1>7, <2>1 DEF Recorded
  <2> QED
    BY <1>4, <2>2 DEF NumInv, Distinct, FilesMarked, MarkedRecorded, OpenNumber
<1>9. PoolRecorded'
  <2>1. ASSUME NEW i \in IDs, pool'[i] # NoOne
        PROVE  Recorded(i)'
    <3>1. CASE i = n
      BY <1>7, <3>1 DEF Recorded
    <3>2. CASE i # n
      BY <1>3, <1>5, <1>6, <1>8, <2>1, <3>2 DEF NumInv, PoolRecorded
    <3> QED
      BY <3>1, <3>2
  <2> QED
    BY <2>1 DEF PoolRecorded
<1>10. UnderWay'
  BY <1>1, <1>2, <1>3, <1>4 DEF NumInv, UnderWay, Numbered, WithNumber, Taking
<1>11. BaseNumber'
  <2>1. CASE p = Main
    BY <1>2, <1>4, <2>1 DEF NumInv, BaseNumber
  <2>2. CASE p # Main
    BY <1>2, <1>4, <2>2 DEF NumInv, BaseNumber
  <2> QED
    BY <2>1, <2>2
<1> QED
  BY <1>8, <1>9, <1>10, <1>11 DEF NumInv

\* The number is written to the file of the hash.
LEMMA RegisterTakes ==
  ASSUME DevInv, NumInv, NEW p \in Procs, Register(p)
  PROVE  NumInv'
<1> USE Basics
<1>1. op[p].pc = "register" /\ op[p].pc \in Taking /\ TypeOK
  BY DEF Register, At, Taking, DevInv
<1>2. /\ op'[p].pc = "close" /\ op'[p].h = op[p].h /\ op'[p].id = op[p].id
      /\ \A q \in Procs \ {p} : op'[q] = op[q]
  BY <1>1, GoesOn DEF Register
<1>3. /\ \A q \in Procs \ {p} : op[q].pc \notin Numbered
      /\ \A i : CallHas(i) => op[p].id = i
      /\ mode # "down" /\ op[Main].pc # "rollback" /\ op[p].id \in IDs /\ op[p].h \in Hashes
  BY <1>1, Alone
<1>4. Info(op[p].id).in /\ Info(op[p].id).id = op[p].id
  BY DEF Info
<1>5. /\ UNCHANGED <<mode, used, txn, pool>>
      /\ file'[op[p].h] = Info(op[p].id) /\ devs'[op[p].h] = Info(op[p].id)
      /\ \A g \in Hashes \ {op[p].h} : file'[g] = file[g] /\ devs'[g] = devs[g]
  BY <1>1, <1>3 DEF Register, kernel, TypeOK
<1>6. /\ txn = [ahead |-> TRUE, h |-> op[p].h, id |-> op[p].id] /\ op[p].id \in used
      /\ \A g \in Hashes : file[g].in => file[g].id # op[p].id
  BY <1>1 DEF NumInv, UnderWay
<1>7. ~file[op[p].h].in
  BY <1>3, <1>6 DEF NumInv, OpenNumber
<1>8. \A g \in Hashes : file'[g].in <=> g = op[p].h \/ file[g].in
  BY <1>4, <1>5
<1>9. \A i : Recorded(i) => FileHas(i)'
  BY <1>3, <1>4, <1>5, <1>7 DEF Recorded, FileHas
<1>10. Distinct'
  BY <1>4, <1>5, <1>6, <1>8 DEF NumInv, Distinct
<1>11. FilesMarked' /\ MarkedRecorded' /\ PoolRecorded'
  BY <1>3, <1>4, <1>5, <1>6, <1>8, <1>9 DEF NumInv, FilesMarked, MarkedRecorded, PoolRecorded,
    Recorded
<1>12. OpenNumber'
  BY <1>3, <1>4, <1>5, <1>6, <1>8 DEF OpenNumber
<1>13. UnderWay'
  <2>1. \A q \in Procs \ {p} : op'[q].pc \notin Numbered
    BY <1>2, <1>3
  <2>2. file'[op'[p].h].in /\ file'[op'[p].h].id = op'[p].id /\ op'[p].pc = "close"
    BY <1>2, <1>4, <1>5
  <2>3. op'[p].id \in used' /\ txn' = [ahead |-> TRUE, h |-> op'[p].h, id |-> op'[p].id]
    BY <1>2, <1>5, <1>6
  <2> QED
    BY <2>1, <2>2, <2>3 DEF UnderWay, Numbered, WithNumber, Taking
<1>14. BaseNumber'
  <2>1. CASE p = Main
    <3>1. op[p].h = Base
      BY <1>1, <2>1 DEF DevInv, MainWorks, Adding, Taking
    <3> QED
      BY <1>2, <1>5, <2>1, <3>1 DEF BaseNumber
  <2>2. CASE p # Main
    <3>1. op[Main].pc \in {"idle", "setup"} /\ op'[Main] = op[Main]
      BY <1>1, <1>2, <2>2, Alone
    <3> QED
      BY <1>5, <3>1 DEF NumInv, BaseNumber
  <2> QED
    BY <2>1, <2>2
<1> QED
  BY <1>10, <1>11, <1>12, <1>13, <1>14 DEF NumInv

\* The device could not be made: the number is free again.
LEMMA MakeFailsGivesBack ==
  ASSUME DevInv, NumInv, NoErrors, NEW p \in Procs, MakeFails(p)
  PROVE  NumInv'
<1> USE Basics
<1>1. op[p].pc = "make" /\ op[p].pc \in Taking /\ op[p].pc \in Adding
  BY DEF MakeFails, At, Taking, Adding
<1>2. /\ \A i : CallHas(i) => i = op[p].id
      /\ \A q \in Procs \ {p} : op[q].pc \notin Numbered
      /\ mode # "down" /\ op[Main].pc # "rollback" /\ op[p].id \in IDs /\ op[p].h \in Hashes
  BY <1>1, Alone
<1>3. /\ txn = [ahead |-> TRUE, h |-> op[p].h, id |-> op[p].id] /\ pool[op[p].id] = NoOne
      /\ \A g \in Hashes : file[g].in => file[g].id # op[p].id
  BY <1>1 DEF NumInv, UnderWay
<1>4. used' = used \ {op[p].id} /\ Return(p, FALSE) /\ UNCHANGED <<devs, file, pool, txn>>
  BY <1>3 DEF MakeFails, disk, kernel
<1>5. /\ op'[p].pc = "idle"
      /\ \A q \in Procs \ {p} : op'[q] = op[q] \/ op'[q].pc = "idle"
  BY <1>1, <1>4, Leaves
<1>6. \A q \in Procs : op'[q].pc \notin Numbered
  BY <1>2, <1>5 DEF Numbered, WithNumber
<1>7. BaseNumber'
  BY <1>1, <1>4, BaseLeft DEF NumInv, BaseNumber
<1>8. \A g \in Hashes : file[g].in => (g = op[p].h <=> file[g].id = op[p].id)
  BY <1>3 DEF NumInv, OpenNumber
<1>9. ~file[op[p].h].in
  BY <1>2, <1>3, <1>8
<1> QED
  BY <1>2, <1>3, <1>4, <1>6, <1>7, <1>8, <1>9, GivenBack

\* The device is made.
LEMMA CloseAddRecords ==
  ASSUME DevInv, NumInv, NEW p \in Procs, CloseAdd(p)
  PROVE  NumInv'
<1> USE Basics
<1>1. op[p].pc = "close" /\ op[p].pc \in Taking /\ op[p].pc \in Adding /\ txn \in TxnRecord
  BY DEF CloseAdd, At, Taking, Adding, DevInv, TypeOK
<1>2. /\ \A i : CallHas(i) => i = op[p].id
      /\ \A q \in Procs \ {p} : op[q].pc \notin Numbered
      /\ mode # "down" /\ op[Main].pc # "rollback" /\ op[p].id \in IDs /\ op[p].h \in Hashes
  BY <1>1, Alone
<1>3. file[op[p].h].in /\ file[op[p].h].id = op[p].id
  BY <1>1 DEF NumInv, UnderWay
<1>4. Return(p, TRUE) /\ UNCHANGED <<devs, file, used, pool>> /\ ~txn'.ahead
  BY <1>1 DEF CloseAdd, CloseTransaction, TxnRecord
<1>5. /\ op'[p].pc \notin Numbered
      /\ \A q \in Procs \ {p} : op'[q] = op[q] \/ op'[q].pc = "idle"
  BY <1>1, <1>4, Leaves DEF Numbered, WithNumber
<1>6. \A q \in Procs : op'[q].pc \notin Numbered
  BY <1>2, <1>5 DEF Numbered, WithNumber
<1>7. BaseNumber'
  <2>1. p = Main => file'[Base].in
    BY <1>1, <1>3, <1>4 DEF DevInv, MainWorks
  <2> QED
    BY <1>1, <1>4, <2>1, BaseLeft DEF NumInv, BaseNumber
<1>8. \A i : Recorded(i) => FileHas(i)'
  BY <1>2, <1>3, <1>4 DEF Recorded, FileHas
<1>9. Distinct' /\ FilesMarked' /\ MarkedRecorded' /\ PoolRecorded' /\ OpenNumber'
  BY <1>2, <1>4, <1>8 DEF NumInv, Distinct, FilesMarked, MarkedRecorded, PoolRecorded, OpenNumber,
    Recorded
<1>10. UnderWay'
  BY <1>6 DEF UnderWay, Numbered, WithNumber, Taking
<1> QED
  BY <1>7, <1>9, <1>10 DEF NumInv

\* The transaction could not be closed: file, device and number are taken back.
LEMMA CloseAddFailsGivesBack ==
  ASSUME DevInv, NumInv, NoErrors, NEW p \in Procs, CloseAddFails(p)
  PROVE  NumInv'
<1> USE Basics
<1>1. op[p].pc = "close" /\ op[p].pc \in Taking /\ op[p].pc \in Adding /\ TypeOK
  BY DEF CloseAddFails, At, Taking, Adding, DevInv
<1>2. /\ \A i : CallHas(i) => i = op[p].id
      /\ \A q \in Procs \ {p} : op[q].pc \notin Numbered
      /\ mode # "down" /\ op[Main].pc # "rollback" /\ op[p].id \in IDs /\ op[p].h \in Hashes
      /\ p # Main => op[Main].pc \in {"idle", "setup"}
  BY <1>1, Alone
<1>3. txn = [ahead |-> TRUE, h |-> op[p].h, id |-> op[p].id]
  BY <1>1 DEF NumInv, UnderWay
<1>4. /\ devs' = [devs EXCEPT ![op[p].h] = NoInfo] /\ file' = [file EXCEPT ![op[p].h] = NoInfo]
      /\ pool' = [pool EXCEPT ![op[p].id] = NoOne]
      /\ used' = used \ {op[p].id} /\ Return(p, FALSE) /\ txn' = txn
  BY DEF CloseAddFails, Undo, NoErrors
<1>5. /\ op'[p].pc = "idle"
      /\ \A q \in Procs \ {p} : op'[q] = op[q] \/ op'[q].pc = "idle"
  BY <1>1, <1>4, Leaves
<1>6. \A q \in Procs : op'[q].pc \notin Numbered
  BY <1>2, <1>5 DEF Numbered, WithNumber
<1>7. /\ ~file'[op[p].h].in /\ ~devs'[op[p].h].in
      /\ \A g \in Hashes \ {op[p].h} : file'[g] = file[g] /\ devs'[g] = devs[g]
  BY <1>1, <1>2, <1>4, IdleIs DEF TypeOK
<1>8. \A i \in IDs : pool'[i] # NoOne => pool[i] # NoOne /\ i # op[p].id
  BY <1>1, <1>4 DEF TypeOK
<1>9. BaseNumber'
  <2>1. devs'[Base].in /\ file'[Base].in => devs'[Base].id = file'[Base].id
    BY <1>7 DEF NumInv, BaseNumber
  <2> QED
    BY <1>1, <1>2, <1>4, <2>1, BaseLeft DEF NumInv
<1>10. \A g \in Hashes : file[g].in => (g = op[p].h <=> file[g].id = op[p].id)
  BY <1>3 DEF NumInv, OpenNumber
<1> QED
  BY <1>2, <1>4, <1>6, <1>7, <1>8, <1>9, <1>10, GivenBack

\* Making a device loses no number.
LEMMA AddStepNumbers ==
  ASSUME DevInv, NumInv, NoErrors, NEW p \in Procs, AddStep(p)
  PROVE  NumInv'
<1>1. CASE AddFails(p)
  <2>1. op[p].pc = "add" /\ op[p].pc \in (Adding \cup Deleting) \ WithNumber
    BY <1>1 DEF AddFails, At, Adding, WithNumber
  <2> QED
    BY <1>1, <2>1, ReturnsQuietly DEF AddFails, disk, kernel
<1>2. ~MakeExists(p)
  BY DEF MakeExists, At, NumInv, UnderWay
<1>3. ~RegisterFails(p)
  BY DEF RegisterFails, NoErrors
<1> QED
  BY <1>1, <1>2, <1>3, AddTakes, MakeTakes, RegisterTakes, MakeFailsGivesBack, CloseAddRecords,
    CloseAddFailsGivesBack DEF AddStep

\* The transaction of a deletion has the number of the device's file.
LEMMA DeleteOpens ==
  ASSUME DevInv, NumInv, NEW p \in Procs, Delete(p)
  PROVE  NumInv'
<1> USE Basics
<1>1. /\ op[p].pc \in {"delete", "busy"} /\ op[p].pc \in Deleting /\ lock = NoOne /\ TypeOK
      /\ op \in [Procs -> OpRecord] /\ op[p] \in OpRecord
  BY OpTypes DEF Delete, At, Deleting, DevInv, TypeOK
<1>2. mode # "down" /\ op[Main].pc # "rollback" /\ op[p].h \in Hashes
  BY <1>1, AtWork
<1>3. (\A q \in Procs : op[q].pc \notin Numbered) /\ (\A i : ~CallHas(i))
  BY <1>1, Nobody
<1>4. PICK i, n : i = Found(p) /\ n = Found(p).id
  OBVIOUS
<1>5. /\ UNCHANGED <<mode, devs, file, used, pool>>
      /\ txn' = [ahead |-> TRUE, h |-> op[p].h, id |-> n]
      /\ op' = [op EXCEPT ![p] = [op[p] EXCEPT !.pc = "pool", !.info = i, !.id = n]]
  BY <1>1, <1>4 DEF Delete, SaveTransaction
<1>6. op'[p].pc = "pool" /\ op'[p].h = op[p].h /\ op'[p].id = n
      /\ \A q \in Procs \ {p} : op'[q] = op[q]
  <2>1. PICK o : o = [op[p] EXCEPT !.pc = "pool", !.info = i, !.id = n]
    OBVIOUS
  <2>2. o.pc = "pool" /\ o.h = op[p].h /\ o.id = n
    BY <1>1, <2>1 DEF OpRecord
  <2> QED
    BY <1>1, <1>5, <2>1, <2>2
<1>7. \A h \in Hashes : file[h].in => (h = op[p].h <=> file[h].id = n)
  <2>1. CASE p = Main
    <3>1. op[p].h = Base /\ \A h \in Layers : ~file[h].in
      BY <1>1, <2>1, Starter DEF DevInv, MainWorks
    <3>2. n = devs[Base].id /\ devs[Base].in
      BY <1>1, <1>4, <2>1, <3>1 DEF NumInv, BaseNumber, Found, Lookup
    <3> QED
      BY <3>1, <3>2 DEF NumInv, BaseNumber
  <2>2. CASE p # Main
    <3>1. n = file[op[p].h].id /\ file[op[p].h].in
      BY <1>1, <1>4, <2>2, FoundIs
    <3> QED
      BY <1>2, <3>1 DEF NumInv, Distinct
  <2> QED
    BY <2>1, <2>2
<1>8. \A j : FileHas(j)' = FileHas(j)
  BY <1>5 DEF FileHas
<1>9. Distinct' /\ FilesMarked' /\ MarkedRecorded' /\ PoolRecorded'
  BY <1>2, <1>3, <1>5, <1>8 DEF NumInv, Distinct, FilesMarked, MarkedRecorded, PoolRecorded,
    Recorded
<1>10. OpenNumber'
  BY <1>2, <1>5, <1>7 DEF OpenNumber
<1>11. UnderWay'
  BY <1>2, <1>3, <1>5, <1>6, <1>7 DEF UnderWay, Numbered, WithNumber, Taking
<1>12. BaseNumber'
  <2>1. CASE p = Main
    BY <1>5, <1>6, <2>1 DEF NumInv, BaseNumber
  <2>2. CASE p # Main
    BY <1>5, <1>6, <2>2 DEF NumInv, BaseNumber
  <2> QED
    BY <2>1, <2>2
<1> QED
  BY <1>9, <1>10, <1>11, <1>12 DEF NumInv

\* The pool's device goes before the file.
LEMMA DeletePoolFrees ==
  ASSUME DevInv, NumInv, NEW p \in Procs, DeletePool(p)
  PROVE  NumInv'
<1> USE Basics
<1>1. op[p].pc = "pool" /\ op[p].pc \in InTxn /\ op[p].pc \in Deleting /\ TypeOK
      /\ pool[op[p].id] # NoOne
  BY DEF DeletePool, At, InTxn, Deleting, DevInv
<1>2. /\ op'[p].pc = "unregister" /\ op'[p].h = op[p].h /\ op'[p].id = op[p].id
      /\ \A q \in Procs \ {p} : op'[q] = op[q]
  BY <1>1, GoesOn DEF DeletePool
<1>3. /\ \A q \in Procs \ {p} : op[q].pc \notin Numbered
      /\ \A i : ~CallHas(i)
      /\ mode # "down" /\ op[Main].pc # "rollback" /\ op[p].id \in IDs /\ op[p].h \in Hashes
  BY <1>1, Alone DEF WithNumber
<1>4. /\ UNCHANGED <<mode, devs, file, used, txn>>
      /\ pool' = [pool EXCEPT ![op[p].id] = NoOne]
  BY DEF DeletePool, memory, disk
<1>5. pool'[op[p].id] = NoOne /\ \A i \in IDs : i # op[p].id => pool'[i] = pool[i]
  BY <1>1, <1>3, <1>4 DEF TypeOK
<1>6. file[op[p].h].in
  <2>1. CASE p = Main
    <3>1. op[p].h = Base /\ \A h \in Layers : ~file[h].in
      BY <1>1, <2>1, Starter DEF DevInv, MainWorks
    <3>2. FileHas(op[p].id)
      BY <1>1, <1>3 DEF NumInv, PoolRecorded, Recorded
    <3> QED
      BY <3>1, <3>2 DEF FileHas
  <2>2. CASE p # Main
    BY <1>1, <2>2 DEF DevInv, Finds
  <2> QED
    BY <2>1, <2>2
<1>7. op[p].id = file[op[p].h].id
  BY <1>1, <1>6 DEF NumInv, UnderWay
<1>8. \A i : Recorded(i) => FileHas(i)'
  BY <1>3, <1>4 DEF Recorded, FileHas
<1>9. Distinct' /\ FilesMarked' /\ MarkedRecorded' /\ OpenNumber'
  BY <1>4, <1>8 DEF NumInv, Distinct, FilesMarked, MarkedRecorded, OpenNumber, Recorded
<1>10. PoolRecorded'
  BY <1>3, <1>5, <1>8 DEF NumInv, PoolRecorded, Recorded
<1>11. UnderWay'
  <2>1. \A q \in Procs \ {p} : op'[q].pc \notin Numbered
    BY <1>2, <1>3
  <2>2. /\ op'[p].pc = "unregister" /\ file'[op'[p].h].in /\ op'[p].id = file'[op'[p].h].id
        /\ pool'[op'[p].id] = NoOne
    BY <1>2, <1>4, <1>5, <1>6, <1>7
  <2> QED
    BY <2>1, <2>2 DEF UnderWay, Numbered, WithNumber, Taking
<1>12. BaseNumber'
  <2>1. CASE p = Main
    BY <1>2, <1>4, <2>1 DEF NumInv, BaseNumber
  <2>2. CASE p # Main
    BY <1>2, <1>4, <2>2 DEF NumInv, BaseNumber
  <2> QED
    BY <2>1, <2>2
<1> QED
  BY <1>9, <1>10, <1>11, <1>12 DEF NumInv

\* Then the file, and the number is free again.
LEMMA UnregisterGivesBack ==
  ASSUME DevInv, NumInv, NEW p \in Procs, Unregister(p)
  PROVE  NumInv'
<1> USE Basics
<1>1. op[p].pc = "unregister" /\ op[p].pc \in InTxn /\ TypeOK
  BY DEF Unregister, At, InTxn, DevInv
<1>2. /\ \A i : CallHas(i) => i = op[p].id
      /\ \A q \in Procs \ {p} : op[q].pc \notin Numbered
      /\ mode # "down" /\ op[Main].pc # "rollback" /\ op[p].id \in IDs /\ op[p].h \in Hashes
      /\ p # Main => op[Main].pc \in {"idle", "setup"}
  BY <1>1, Alone
<1>3. /\ op'[p].pc = "closing"
      /\ \A q \in Procs \ {p} : op'[q].pc = op[q].pc
  BY <1>1, GoesForgetting DEF Unregister
<1>4. \A q \in Procs : op'[q].pc \notin Numbered
  BY <1>2, <1>3 DEF Numbered, WithNumber
<1>5. /\ devs' = [devs EXCEPT ![op[p].h] = NoInfo] /\ file' = [file EXCEPT ![op[p].h] = NoInfo]
      /\ used' = used \ {op[p].id} /\ UNCHANGED <<txn, pool>>
  BY DEF Unregister, kernel
<1>6. /\ ~file'[op[p].h].in /\ ~devs'[op[p].h].in
      /\ \A g \in Hashes \ {op[p].h} : file'[g] = file[g] /\ devs'[g] = devs[g]
  BY <1>1, <1>2, <1>5, IdleIs DEF TypeOK
<1>7. file[op[p].h].in /\ file[op[p].h].id = op[p].id /\ pool[op[p].id] = NoOne
  BY <1>1 DEF NumInv, UnderWay
<1>8. \A g \in Hashes : file[g].in => (g = op[p].h <=> file[g].id = op[p].id)
  BY <1>2, <1>7 DEF NumInv, Distinct
<1>9. BaseNumber'
  <2>1. devs'[Base].in /\ file'[Base].in => devs'[Base].id = file'[Base].id
    BY <1>6 DEF NumInv, BaseNumber
  <2>2. op'[Main].pc \in {"closing", "idle", "setup"}
    BY <1>2, <1>3
  <2> QED
    BY <2>1, <2>2 DEF BaseNumber
<1> QED
  BY <1>2, <1>4, <1>5, <1>6, <1>7, <1>8, <1>9, GivenBack

\* The transaction is closed, or not.
LEMMA CloseDeleteRecords ==
  ASSUME DevInv, NumInv, NEW p \in Procs, CloseDelete(p)
  PROVE  NumInv'
<1> USE Basics
<1>1. op[p].pc = "closing" /\ op[p].pc \in InTxn /\ op[p].pc \in Deleting /\ op[p].ok \in BOOLEAN
      /\ txn \in TxnRecord
  BY OpTypes DEF CloseDelete, At, InTxn, Deleting, DevInv, TypeOK
<1>2. /\ \A q \in Procs \ {p} : op[q].pc \notin Numbered
      /\ \A i : ~CallHas(i)
      /\ mode # "down" /\ op[Main].pc # "rollback"
  BY <1>1, Alone DEF WithNumber
<1>3. Return(p, op[p].ok) /\ UNCHANGED <<devs, file, used, pool>> /\ (txn' = txn \/ ~txn'.ahead)
  BY <1>1 DEF CloseDelete, CloseTransaction, TxnRecord
<1>4. /\ op'[p].pc \notin Numbered
      /\ \A q \in Procs \ {p} : op'[q] = op[q] \/ op'[q].pc = "idle"
  BY <1>1, <1>3, Leaves DEF Numbered, WithNumber
<1>5. \A q \in Procs : op'[q].pc \notin Numbered
  BY <1>2, <1>4 DEF Numbered, WithNumber
<1>6. BaseNumber'
  <2>1. p = Main => op[Main].at = op[Main].h
    BY <1>1 DEF DevInv, MainWorks
  <2> QED
    BY <1>1, <1>3, <2>1, BaseLeft DEF NumInv, BaseNumber
<1>7. \A i : Recorded(i) => FileHas(i)'
  BY <1>2, <1>3 DEF Recorded, FileHas
<1>8. Distinct' /\ FilesMarked' /\ MarkedRecorded' /\ PoolRecorded' /\ OpenNumber'
  BY <1>2, <1>3, <1>7 DEF NumInv, Distinct, FilesMarked, MarkedRecorded, PoolRecorded, OpenNumber,
    Recorded
<1>9. UnderWay'
  BY <1>5 DEF UnderWay, Numbered, WithNumber, Taking
<1> QED
  BY <1>6, <1>8, <1>9 DEF NumInv

\* One goroutine goes on that has no number.
LEMMA GoesQuietly ==
  ASSUME DevInv, NumInv, NEW p \in Procs, op[p].pc \notin WithNumber, op'[p].pc \notin Numbered,
         \A q \in Procs \ {p} : op'[q] = op[q],
         UNCHANGED <<used, pool, txn>>,
         \A h \in Hashes : file'[h].in = file[h].in /\ file'[h].id = file[h].id,
         mode' # "down" => mode # "down",
         (mode = "down" \/ op[Main].pc = "rollback") =>
             (mode' = "down" \/ op'[Main].pc = "rollback"),
         BaseNumber'
  PROVE  NumInv'
<1>1. \A q \in Procs : op[q].pc \in Numbered => op[q].h \in Hashes
  BY AtWork DEF Numbered, WithNumber, Adding, Deleting, InTxn
<1>2. \A q \in Procs : op'[q].pc \in Numbered => op'[q].h \in Hashes
  BY <1>1
<1>3. \A q \in Procs : op[q].pc \in WithNumber \/ op'[q].pc \in Numbered =>
             op'[q].pc = op[q].pc /\ op'[q].h = op[q].h /\ op'[q].id = op[q].id
  OBVIOUS
<1> QED
  BY <1>2, <1>3, Quiet

\* The device is marked for deletion: its number stays its own.
LEMMA MarkQuiet ==
  ASSUME DevInv, NumInv, NoErrors, NEW p \in Procs, Mark(p)
  PROVE  NumInv'
<1> USE Basics
<1>1. op[p].pc = "mark" /\ op[p].pc \in Deleting /\ op[p].pc \in InTxn /\ TypeOK /\ p # Main
  BY DEF Mark, At, Deleting, InTxn, DevInv, MainWorks
<1>2. /\ op'[p].pc = "closing" /\ \A q \in Procs \ {p} : op'[q] = op[q]
  BY <1>1, GoesClosing DEF Mark
<1>3. op[p].h \in Layers /\ op[p].h \in Hashes /\ op[p].info = file[op[p].h] /\ op[p].info.in
      /\ mode # "down" /\ op[Main].pc # "rollback" /\ file[op[p].h] \in InfoRecord
  BY <1>1, Deleter, AtWork DEF DevInv, Finds, TypeOK
<1>4. UNCHANGED <<mode, used, txn, pool>>
  BY DEF Mark, kernel
<1>5. \A h \in Hashes : file'[h].in = file[h].in /\ file'[h].id = file[h].id
  <2>1. CASE file' = [file EXCEPT ![op[p].h] = [op[p].info EXCEPT !.deleted = TRUE]]
    <3>1. PICK i : i = [file[op[p].h] EXCEPT !.deleted = TRUE]
      OBVIOUS
    <3>2. i.in = file[op[p].h].in /\ i.id = file[op[p].h].id
      BY <1>3, <3>1 DEF InfoRecord
    <3>3. file' = [file EXCEPT ![op[p].h] = i]
      BY <1>3, <2>1, <3>1
    <3>4. file'[op[p].h] = i /\ \A h \in Hashes \ {op[p].h} : file'[h] = file[h]
      BY <1>1, <1>3, <3>3 DEF TypeOK
    <3> QED
      BY <3>2, <3>4
  <2>2. CASE file' = file
    BY <2>2
  <2> QED
    BY <2>1, <2>2 DEF Mark
<1>6. devs'[Base] = devs[Base]
  BY <1>1, <1>3 DEF Mark, TypeOK
<1>7. BaseNumber'
  BY <1>1, <1>2, <1>5, <1>6, BaseStays DEF NumInv
<1> QED
  BY <1>1, <1>2, <1>3, <1>4, <1>5, <1>7, GoesQuietly DEF Numbered, WithNumber

\* Deleting a device loses no number.
LEMMA DeleteStepNumbers ==
  ASSUME DevInv, ActiveKept, NumInv, NoErrors, NEW p \in Procs, DeleteStep(p)
  PROVE  NumInv'
<1> USE Basics
<1>1. TypeOK /\ op \in [Procs -> OpRecord] /\ op[p] \in OpRecord
  BY OpTypes DEF DevInv, TypeOK
<1>2. CASE DeleteFails(p)
  <2>1. op[p].pc = "busy" /\ op[p].pc \in (Adding \cup Deleting) \ WithNumber
    BY <1>2 DEF DeleteFails, At, Deleting, WithNumber, NoErrors
  <2>2. p # Main
    BY <2>1 DEF NumInv, BaseNumber
  <2> QED
    BY <1>2, <2>1, <2>2, ReturnsQuietly DEF DeleteFails, disk
<1>3. ~UnregisterFails(p)
  BY DEF UnregisterFails, NoErrors
<1>4. CASE DeleteBusy(p)
  <2>1. op' = [op EXCEPT ![p] = [op[p] EXCEPT !.pc = "busy", !.info = Found(p)]]
    BY <1>1, <1>4 DEF DeleteBusy
  <2>2. PICK i : i = Found(p)
    OBVIOUS
  <2>3. PICK o : o = [op[p] EXCEPT !.pc = "busy", !.info = i]
    OBVIOUS
  <2>4. o.pc = "busy"
    BY <1>1, <2>3 DEF OpRecord
  <2>5. op'[p].pc = "busy" /\ \A q \in Procs \ {p} : op'[q] = op[q]
    BY <1>1, <2>1, <2>2, <2>3, <2>4
  <2>6. op[p].pc = "delete" /\ op[p].pc \in Deleting /\ UNCHANGED <<mode, devs, file, used, txn, pool>>
    BY <1>4 DEF DeleteBusy, At, Deleting, memory, disk, kernel
  <2>7. p # Main
    <3> SUFFICES ASSUME p = Main PROVE FALSE
      OBVIOUS
    <3>1. op[p].h = Base /\ act[op[p].h].st # "off"
      BY <1>4, <2>6 DEF DevInv, MainWorks, DeleteBusy
    <3> QED
      BY <3>1 DEF ActiveKept
  <2>8. mode # "down" /\ op[Main].pc # "rollback"
    BY <2>6, AtWork
  <2>9. BaseNumber'
    BY <2>5, <2>6, <2>7, BaseStays DEF NumInv
  <2> QED
    BY <2>5, <2>6, <2>8, <2>9, GoesQuietly DEF Numbered, WithNumber
<1>5. CASE DeletePoolBusy(p) \/ DeletePoolFails(p)
  <2>1. op[p].pc = "pool" /\ op[p].pc \in Deleting /\ UNCHANGED <<mode, devs, file, used, txn, pool>>
    BY <1>5 DEF DeletePoolBusy, DeletePoolFails, At, Deleting, InTxn, memory, disk, kernel
  <2>2. op'[p].pc \in {"mark", "closing"} /\ \A q \in Procs \ {p} : op'[q] = op[q]
    BY <1>1, <1>5, GoesOn, GoesClosing DEF DeletePoolBusy, DeletePoolFails
  <2>3. mode # "down" /\ op[Main].pc # "rollback"
    BY <2>1, AtWork
  <2>4. BaseNumber'
    <3>1. CASE p = Main
      BY <2>1, <2>2, <3>1 DEF NumInv, BaseNumber
    <3>2. CASE p # Main
      BY <2>1, <2>2, <3>2, BaseStays DEF NumInv
    <3> QED
      BY <3>1, <3>2
  <2> QED
    BY <2>1, <2>2, <2>3, <2>4, GoesQuietly DEF Numbered, WithNumber
<1> QED
  BY <1>2, <1>3, <1>4, <1>5, DeleteOpens, DeletePoolFrees, UnregisterGivesBack, MarkQuiet,
    CloseDeleteRecords DEF DeleteStep

\* Mounts are not about numbers.
LEMMA MountNumbers ==
  ASSUME DevInv, NumInv, NEW h \in Layers,
         MountDevice(h) \/ UnmountDevice(h) \/ Copied(h) \/ Closed(h)
  PROVE  NumInv'
<1> USE Basics
<1>1. UNCHANGED <<mode, op, file, used, pool, txn>>
  BY DEF MountDevice, UnmountDevice, Copied, Closed, memory, disk
<1>2. devs'[Base] = devs[Base]
  BY DEF MountDevice, UnmountDevice, Copied, Closed, memory, DevInv, TypeOK
<1>3. BaseNumber'
  BY <1>1, <1>2, BaseStays DEF NumInv
<1>4. \A q \in Procs : op[q].pc \in Numbered => op[q].h \in Hashes
  BY AtWork DEF Numbered, WithNumber, Adding, Deleting, InTxn
<1> QED
  BY <1>1, <1>3, <1>4, Quiet

\* A call that begins has no number yet.
LEMMA ClientNumbers ==
  ASSUME DevInv, NumInv, NEW p \in Clients, NEW h \in Layers,
         Remove(p, h) \/ \E b \in Hashes \ {h} : Create(p, h, b)
  PROVE  NumInv'
<1> USE Basics
<1>1. /\ UNCHANGED <<mode, file, used, pool, txn>> /\ mode = "up" /\ op[p].pc = "idle"
      /\ TypeOK /\ h \in Hashes /\ p \in Procs
  BY DEF Remove, Create, At, disk, kernel, DevInv
<1>2. op[Main].pc = "idle"
  BY <1>1 DEF DevInv, MainWorks
<1>3. /\ op'[p].pc \in {"idle", "delete", "add"} /\ \A q \in Procs \ {p} : op'[q] = op[q]
      /\ devs'[Base] = devs[Base] \/ devs'[Base] = Lookup(Base)
  <2>1. CASE Remove(p, h) /\ Lookup(h).in
    BY <1>1, <2>1, Finding DEF Remove
  <2>2. CASE Remove(p, h) /\ ~Lookup(h).in
    BY <1>1, <2>2 DEF Remove
  <2>3. ASSUME NEW b \in Hashes \ {h}, Create(p, h, b)
        PROVE  /\ op'[p].pc \in {"idle", "delete", "add"} /\ \A q \in Procs \ {p} : op'[q] = op[q]
               /\ devs'[Base] = devs[Base] \/ devs'[Base] = Lookup(Base)
    <3>1. devs'[Base] = devs[Base] \/ devs'[Base] = Lookup(Base)
      BY <1>1, <2>3 DEF Create, TypeOK
    <3>2. CASE Lookup(b).in /\ ~Lookup(b).deleted
      <4>1. op' = [op EXCEPT ![p] = [Idle EXCEPT !.pc = "add", !.h = h, !.at = b]]
        BY <2>3, <3>2 DEF Create
      <4>2. b \in Hashes \cup {NoOne}
        BY <2>3
      <4> QED
        BY <1>1, <3>1, <4>1, <4>2, AddBegins
    <3>3. CASE ~(Lookup(b).in /\ ~Lookup(b).deleted)
      BY <1>1, <2>3, <3>1, <3>3 DEF Create
    <3> QED
      BY <3>2, <3>3
  <2> QED
    BY <2>1, <2>2, <2>3
<1>4. BaseNumber'
  BY <1>1, <1>3, BaseStays DEF NumInv
<1> QED
  BY <1>1, <1>2, <1>3, <1>4, GoesQuietly DEF Numbered, WithNumber

\* Neither has a round of the worker.
LEMMA CleanNumbers ==
  ASSUME DevInv, NumInv, Clean
  PROVE  NumInv'
<1> USE Basics
<1>1. /\ UNCHANGED <<mode, file, used, pool, txn>> /\ op[Worker].pc = "idle"
      /\ TypeOK /\ op[Worker] \in OpRecord /\ op \in [Procs -> OpRecord]
  BY OpTypes DEF Clean, Tick, TickDelete, At, disk, kernel, memory, DevInv, TypeOK
<1>2. /\ op'[Worker].pc \in {"idle", "delete"} /\ \A q \in Procs \ {Worker} : op'[q] = op[q]
      /\ devs'[Base] = devs[Base]
  <2>1. CASE Tick
    <3>1. PICK s : s = {h \in Hashes : devs[h].in /\ devs[h].deleted}
      OBVIOUS
    <3>2. op' = [op EXCEPT ![Worker] = [op[Worker] EXCEPT !.todo = s]] /\ devs' = devs
      BY <1>1, <2>1, <3>1 DEF Tick, memory
    <3> QED
      BY <1>1, <3>2 DEF OpRecord
  <2>2. ASSUME NEW h \in Hashes, TickDelete(h)
        PROVE  /\ op'[Worker].pc \in {"idle", "delete"} /\ \A q \in Procs \ {Worker} : op'[q] = op[q]
               /\ devs'[Base] = devs[Base]
    <3>1. h \in Layers
      BY <2>2 DEF TickDelete, DevInv, WorkerWorks
    <3>2. CASE Lookup(h).in
      BY <1>1, <2>2, <3>1, <3>2, Finding DEF TickDelete
    <3>3. CASE ~Lookup(h).in
      <4>1. PICK s : s = op[Worker].todo \ {h}
        OBVIOUS
      <4>2. op' = [op EXCEPT ![Worker] = [op[Worker] EXCEPT !.todo = s]] /\ devs' = devs
        BY <1>1, <2>2, <3>3, <4>1 DEF TickDelete
      <4> QED
        BY <1>1, <4>2 DEF OpRecord
    <3> QED
      BY <3>2, <3>3
  <2> QED
    BY <2>1, <2>2 DEF Clean
<1>3. BaseNumber'
  BY <1>1, <1>2, BaseStays DEF NumInv
<1> QED
  BY <1>1, <1>2, <1>3, GoesQuietly DEF Numbered, WithNumber

\* What the start loads; a device without a file is that of the open transaction.
LEMMA LoadNumbers ==
  ASSUME DevInv, NumInv, Load
  PROVE  NumInv'
<1> USE Basics
<1>1. /\ mode = "down" /\ mode' = "starting" /\ devs' = file /\ UNCHANGED <<file, txn, pool>>
      /\ used' = {file[h].id : h \in {g \in Hashes : file[g].in}} /\ TypeOK
  BY DEF Load, disk, kernel, DevInv
<1>2. \A q \in Procs : op[q].pc = "idle"
  BY <1>1, IdleIs DEF DevInv, ClientsWork, MainWorks
<1>3. /\ op'[Main].pc = IF txn.ahead THEN "rollback" ELSE "setup"
      /\ \A q \in Procs \ {Main} : op'[q] = op[q]
  <2>1. PICK pc : pc = IF txn.ahead THEN "rollback" ELSE "setup"
    OBVIOUS
  <2>2. op' = [op EXCEPT ![Main].pc = pc]
    BY <2>1 DEF Load
  <2>3. Goto(Main, pc)
    BY <2>2 DEF Goto
  <2> QED
    BY <1>1, <2>1, <2>3, GoesOn
<1>4. \A q \in Procs : op[q].pc \notin Numbered /\ op'[q].pc \notin Numbered
  BY <1>2, <1>3 DEF Numbered, WithNumber
<1>5. \A i : FileHas(i)' = FileHas(i) /\ ~CallHas(i)
  BY <1>1, <1>4 DEF FileHas, CallHas, Numbered
<1>6. Distinct' /\ FilesMarked' /\ OpenNumber'
  BY <1>1 DEF NumInv, Distinct, FilesMarked, OpenNumber
<1>7. MarkedRecorded'
  BY <1>1 DEF MarkedRecorded, Recorded, FileHas
<1>8. PoolRecorded'
  BY <1>1, <1>2, <1>3, <1>5 DEF NumInv, PoolRecorded, Recorded
<1>9. UnderWay'
  BY <1>4 DEF UnderWay, Numbered, WithNumber, Taking
<1>10. BaseNumber'
  BY <1>1, <1>3 DEF BaseNumber
<1> QED
  BY <1>6, <1>7, <1>8, <1>9, <1>10 DEF NumInv

\* Its device is not active, so that the pool deletes it; its number is given back.
LEMMA RollbackNumbers ==
  ASSUME DevInv, ActiveKept, NumInv, NoErrors, Rollback
  PROVE  NumInv'
<1> USE Basics
<1>1. op[Main].pc = "rollback" /\ TypeOK
  BY DEF Rollback, At, DevInv
<1>2. /\ mode = "starting" /\ txn.ahead /\ op[Worker].pc = "idle"
      /\ \A q \in Clients : op[q].pc = "idle"
  BY <1>1, IdleIs DEF DevInv, MainWorks, ClientsWork
<1>3. txn.h \in Hashes /\ txn.id \in IDs /\ \A g \in Hashes : file[g].in => (g = txn.h <=> file[g].id = txn.id)
  BY <1>1, <1>2 DEF NumInv, OpenNumber, TypeOK, TxnRecord
<1>4. ~Active(txn.id)
  <2> SUFFICES ASSUME NEW h \in Hashes, act[h].st # "off", act[h].id = txn.id PROVE FALSE
    BY DEF Active
  <2>1. h \in Layers /\ Kept(h) /\ file[h].in /\ file[h].id = txn.id
    BY DEF ActiveKept, Kept
  <2> QED
    BY <1>1, <1>3, <2>1, RolledBack
<1>5. /\ pool' = [pool EXCEPT ![txn.id] = NoOne] /\ file' = [file EXCEPT ![txn.h] = NoInfo]
      /\ used' = used \ {txn.id} /\ txn' = [txn EXCEPT !.ahead = FALSE]
      /\ UNCHANGED devs
  BY <1>4 DEF Rollback, NoErrors
<1>6. op'[Main].pc = "setup" /\ \A q \in Procs \ {Main} : op'[q] = op[q]
  BY <1>1, GoesOn DEF Rollback
<1>7. \A q \in Procs : op[q].pc \notin Numbered /\ op'[q].pc \notin Numbered
  BY <1>1, <1>2, <1>6 DEF Numbered, WithNumber
<1>8. /\ ~file'[txn.h].in /\ \A g \in Hashes \ {txn.h} : file'[g] = file[g]
      /\ \A i \in IDs : pool'[i] # NoOne => pool[i] # NoOne /\ i # txn.id
      /\ ~txn'.ahead
  BY <1>1, <1>3, <1>5, IdleIs DEF TypeOK, TxnRecord
<1>9. \A i : ~CallHas(i)
  BY <1>7 DEF CallHas, Numbered
<1>10. BaseNumber'
  BY <1>5, <1>6, <1>8 DEF NumInv, BaseNumber
<1> QED
  BY <1>2, <1>3, <1>5, <1>7, <1>8, <1>9, <1>10, GivenBack

\* The start sets up the base device.
LEMMA SetupNumbers ==
  ASSUME DevInv, NumInv, NoErrors, Setup \/ SetupCreate \/ SetupInit
  PROVE  NumInv'
<1> USE Basics
<1>1. /\ op[Main].pc \in {"setup", "create", "init"} /\ TypeOK /\ mode = "starting"
      /\ op[Main].pc \notin Numbered /\ op \in [Procs -> OpRecord]
  BY DEF Setup, SetupCreate, SetupInit, At, DevInv, MainWorks, Numbered, WithNumber, TypeOK
<1>2. UNCHANGED <<used, pool, txn>>
  BY DEF Setup, SetupCreate, SetupInit, memory, disk, kernel
<1>3. CASE Setup
  <2>1. file' = file
    BY <1>3 DEF Setup, disk
  <2>2. CASE Die /\ devs' = devs
    BY <1>2, <2>1, <2>2, NumDies
  <2>3. CASE Find(Main, Base) /\ Lookup(Base).in /\ mode' = mode
    <3>1. /\ op'[Main].pc = "delete" /\ ~op'[Main].info.in /\ \A q \in Procs \ {Main} : op'[q] = op[q]
          /\ devs'[Base] = Lookup(Base)
      BY <1>1, <2>3, Finding
    <3>2. BaseNumber'
      BY <2>1, <2>3, <3>1 DEF NumInv, BaseNumber, Lookup
    <3> QED
      BY <1>1, <1>2, <2>1, <2>3, <3>1, <3>2, GoesQuietly DEF Numbered, WithNumber
  <2>4. CASE op' = [op EXCEPT ![Main] = Idle] /\ mode' = "up" /\ devs' = devs
    <3>1. op'[Main].pc = "idle" /\ \A q \in Procs \ {Main} : op'[q] = op[q]
      BY <1>1, <2>4, IdleIs
    <3>2. BaseNumber'
      BY <2>1, <2>4, <3>1 DEF NumInv, BaseNumber
    <3> QED
      BY <1>1, <1>2, <2>1, <2>4, <3>1, <3>2, GoesQuietly DEF Numbered, WithNumber
  <2>5. CASE Goto(Main, "create") /\ mode' = mode /\ devs' = devs
    <3>1. op'[Main].pc = "create" /\ \A q \in Procs \ {Main} : op'[q] = op[q]
      BY <1>1, <2>5, GoesOn
    <3>2. BaseNumber'
      BY <2>1, <2>5, <3>1 DEF NumInv, BaseNumber
    <3> QED
      BY <1>1, <1>2, <2>1, <2>5, <3>1, <3>2, GoesQuietly DEF Numbered, WithNumber
  <2> QED
    BY <1>3, <2>2, <2>3, <2>4, <2>5 DEF Setup
<1>4. CASE SetupCreate
  <2>1. UNCHANGED <<mode, devs, file>> /\ op' = [op EXCEPT ![Main] = [Idle EXCEPT !.pc = "add", !.h = Base]]
    BY <1>4 DEF SetupCreate, memory, disk
  <2>2. op'[Main].pc = "add" /\ \A q \in Procs \ {Main} : op'[q] = op[q]
    BY <1>1, <2>1 DEF Idle
  <2>3. BaseNumber'
    BY <2>1, <2>2 DEF NumInv, BaseNumber
  <2> QED
    BY <1>1, <1>2, <2>1, <2>2, <2>3, GoesQuietly DEF Numbered, WithNumber
<1>5. CASE SetupInit
  <2>1. /\ devs' = [devs EXCEPT ![Base].init = TRUE] /\ file' = [file EXCEPT ![Base] = devs'[Base]]
        /\ mode' = "up" /\ op' = [op EXCEPT ![Main] = Idle] /\ op[Main].pc = "init"
    BY <1>5 DEF SetupInit, NoErrors, At
  <2>2. op'[Main].pc = "idle" /\ \A q \in Procs \ {Main} : op'[q] = op[q]
    BY <1>1, <2>1, IdleIs
  <2>3. devs[Base].in /\ file[Base].in /\ devs[Base].id = file[Base].id
    BY <2>1 DEF DevInv, MainWorks, NumInv, BaseNumber
  <2>4. devs'[Base].in /\ devs'[Base].id = devs[Base].id
    <3>1. PICK i : i = [devs[Base] EXCEPT !.init = TRUE]
      OBVIOUS
    <3>2. devs[Base] \in InfoRecord
      BY <1>1 DEF TypeOK
    <3>3. i.in /\ i.id = devs[Base].id
      BY <2>3, <3>1, <3>2 DEF InfoRecord
    <3>4. devs' = [devs EXCEPT ![Base] = i]
      BY <1>1, <2>1, <3>1 DEF TypeOK
    <3> QED
      BY <1>1, <3>3, <3>4 DEF TypeOK
  <2>5. file'[Base] = devs'[Base] /\ \A h \in Hashes \ {Base} : file'[h] = file[h]
    BY <1>1, <2>1 DEF TypeOK
  <2>6. BaseNumber'
    BY <2>2, <2>5 DEF BaseNumber
  <2>7. \A h \in Hashes : file'[h].in = file[h].in /\ file'[h].id = file[h].id
    BY <1>1, <2>3, <2>4, <2>5 DEF TypeOK, InfoRecord
  <2> QED
    BY <1>1, <1>2, <2>1, <2>2, <2>6, <2>7, GoesQuietly DEF Numbered, WithNumber
<1> QED
  BY <1>3, <1>4, <1>5

\* No step loses a number while the pool and the disk do not fail.
LEMMA NumStep ==
  ASSUME DevInv, ActiveKept, NoErrors, NumInv, [Next]_vars
  PROVE  NumInv'
<1>1. CASE UNCHANGED vars
  <2>1. UNCHANGED <<mode, op, file, used, pool, txn, devs>>
    BY <1>1 DEF vars, memory, disk, kernel
  <2>2. \A q \in Procs : op[q].pc \in Numbered => op[q].h \in Hashes
    BY AtWork DEF Numbered, WithNumber, Adding, Deleting, InTxn
  <2>3. BaseNumber'
    BY <2>1 DEF NumInv, BaseNumber
  <2> QED
    BY <2>1, <2>2, <2>3, Quiet
<1>2. CASE Crash \/ Shutdown
  BY <1>2, NumDies DEF Crash, Shutdown, disk, kernel
<1>3. CASE Start
  BY <1>3, LoadNumbers, RollbackNumbers, SetupNumbers DEF Start
<1> QED
  BY <1>1, <1>2, <1>3, AddStepNumbers, DeleteStepNumbers, MountNumbers, ClientNumbers, CleanNumbers
    DEF Next

\* In the beginning nobody has a number.
LEMMA InitNumbers ==
  ASSUME Init
  PROVE  NumInv
<1>1. /\ \A p \in Procs : op[p].pc = "idle"
      /\ \A h \in Hashes : ~file[h].in
      /\ used = {} /\ ~txn.ahead /\ \A i \in IDs : pool[i] = NoOne
      /\ op[Main].pc = "idle" /\ Base \in Hashes /\ mode = "down"
  BY IdleIs, Basics DEF Init
<1> QED
  BY <1>1 DEF NumInv, Distinct, FilesMarked, MarkedRecorded, PoolRecorded, UnderWay, OpenNumber,
    BaseNumber, Taking

\* What faults there are, and how often the daemon ends, is given.
LEMMA ConfigStays ==
  ASSUME [Next]_vars
  PROVE  config' = config
<1>1. CASE UNCHANGED vars
  BY <1>1 DEF vars
<1>2. ASSUME NEW p \in Procs, AddStep(p)
      PROVE  config' = config
  BY <1>2 DEF AddStep, Add, AddFails, Make, MakeExists, MakeFails, Register, RegisterFails,
    CloseAdd,
    CloseAddFails
<1>3. ASSUME NEW p \in Procs, DeleteStep(p)
      PROVE  config' = config
  BY <1>3 DEF DeleteStep, Delete, DeleteBusy, DeleteFails, DeletePool, DeletePoolBusy,
    DeletePoolFails,
    Unregister, UnregisterFails, Mark, CloseDelete
<1>4. ASSUME NEW h \in Layers, MountDevice(h) \/ UnmountDevice(h) \/ Copied(h) \/ Closed(h)
      PROVE  config' = config
  BY <1>4 DEF MountDevice, UnmountDevice, Copied, Closed
<1>5. ASSUME NEW p \in Clients, NEW h \in Layers,
             Remove(p, h) \/ \E b \in Hashes \ {h} : Create(p, h, b)
      PROVE  config' = config
  BY <1>5 DEF Remove, Create
<1>6. CASE Start \/ Clean \/ Crash \/ Shutdown
  BY <1>6 DEF Start, Load, Rollback, Setup, SetupCreate, SetupInit, Clean, Tick, TickDelete, Crash,
    Shutdown
<1> QED
  BY <1>1, <1>2, <1>3, <1>4, <1>5, <1>6 DEF Next

\* Without errors of the pool or of the disk no number is lost, however often the daemon dies
\* and starts (deviceset.go:815, 1513).
THEOREM NoNumberLost ==
  ASSUME ClosesDeletions
  PROVE  Spec => []NoLostNumber
<1>1. Init => ActiveKept /\ (NoErrors => NumInv)
  BY InitActs, InitNumbers
<1>2. DevInv /\ ActiveKept /\ (NoErrors => NumInv) /\ [Next]_vars =>
          ActiveKept' /\ (NoErrors => NumInv)'
  <2> SUFFICES ASSUME DevInv, ActiveKept, NoErrors => NumInv, [Next]_vars
               PROVE  ActiveKept' /\ (NoErrors => NumInv)'
    OBVIOUS
  <2>1. NoErrors' = NoErrors
    BY ConfigStays DEF NoErrors, Faults
  <2> QED
    BY <2>1, ActStep, NumStep
<1>3. DevInv /\ (NoErrors => NumInv) => NoLostNumber
  <2> SUFFICES ASSUME DevInv, NoErrors => NumInv, Faults \cap {"pool", "save"} = {}, mode = "up",
                      NEW i \in IDs, pool[i] # NoOne \/ i \in used
               PROVE  FileHas(i) \/ CallHas(i)
    BY DEF NoLostNumber, FileHas, CallHas, WithNumber
  <2>1. NumInv
    BY DEF NoErrors
  <2>2. op[Main].pc = "idle"
    BY DEF DevInv, MainWorks
  <2> QED
    BY <2>1, <2>2 DEF NumInv, PoolRecorded, MarkedRecorded, Recorded
<1> QED
  BY <1>1, <1>2, <1>3, DevInvariant, PTL DEF Spec
================================================================================
